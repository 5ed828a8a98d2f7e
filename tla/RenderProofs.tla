---------------------------- MODULE RenderProofs ----------------------------
(***************************************************************************)
(* Proofs about drawing: the pipeline of the render buffers, and the two   *)
(* caches that drawing looks into.                                         *)
(*                                                                         *)
(* RenderPipeline, for every number of screen changes and for every        *)
(* combination of active threads, mode 2026 and timer.                     *)
(* The inductive invariant is TypeOK /\ LocksHeld.  SingleFiller and       *)
(* NoHoldAndWait are not inductive alone: they do not say that a thread    *)
(* which fills or draws holds the mutex that protects it.                  *)
(*                                                                         *)
(* The hash table: Table(s, q, f, c) says that q is the ring of the        *)
(* recency list, f the chain of unused entries and c[k] the chain of slot  *)
(* k, and that they share the entries.  The lemmas follow unlinking,       *)
(* linking, recycling and allocating through the three lists; the entry    *)
(* under construction is followed along the recency list, where at most    *)
(* the entries that its constructor stored are before it.                  *)
(*                                                                         *)
(* The store of the hyperlinks: Reaches(x, m) says that the list x and the *)
(* map m belong together; there is always a node to move an item to.       *)
(* LinkSafe adds what the numbers stand for: the item of a number is the   *)
(* one that the cursor or the cell with that number was given, as long as  *)
(* it was read as it was given and not given again, and one id and address *)
(* have one item, as long as none was made again.                          *)
(***************************************************************************)
EXTENDS RenderPipeline, Hyperlinks, ListLemmas, FiniteSetTheorems, TLAPS

-----------------------------------------------------------------------------
(* The render pipeline.                                                    *)

\* The change that a line feed of a smooth scroll makes fits the bound.
RoomToScroll == scrolling => content < MaxContent

RInv == TypeOK /\ LocksHeld /\ RoomToScroll

\* The invariant holds when the session starts.
LEMMA InitRInv == Init => RInv
<1> SUFFICES ASSUME Init PROVE RInv
  OBVIOUS
<1>1. /\ syncMode \in BOOLEAN /\ updateEnabled \in BOOLEAN /\ redraw \in BOOLEAN
      /\ scrolling \in BOOLEAN /\ ~scrolling
  BY DEF Init
<1>2. content \in 0..MaxContent /\ batchBase \in 0..content /\ displayed \in 0..content
  BY RenderAssumption DEF Init
<1>3. TypeOK
  BY <1>1, <1>2 DEF Init, TypeOK, Threads, Buffers, NoThread, Labels, BufferState
<1>4. LocksHeld
  BY <1>1 DEF Init, LocksHeld, Threads, NoThread
<1> QED BY <1>1, <1>3, <1>4 DEF RInv, RoomToScroll

\* The steps of swapBuffers(), run by any thread.
LEMMA SwapKeepsRInv ==
    ASSUME RInv, NEW t \in Threads, SwapSteps(t)
    PROVE  RInv'
<1> USE RenderAssumption DEF Threads, Buffers, NoThread, Labels, BufferState, screenVars,
                             bufferVars, lockVars, Goto
<1>1. CASE TrySwap(t)
  <2>1. TypeOK' BY <1>1 DEF RInv, TypeOK, TrySwap, AfterSwap, AfterNotify
  <2>2. LocksHeld' BY <1>1 DEF RInv, TypeOK, LocksHeld, TrySwap, AfterSwap, AfterNotify
  <2>3. RoomToScroll' BY <1>1 DEF RInv, RoomToScroll, TrySwap, AfterSwap, AfterNotify
  <2> QED BY <2>1, <2>2, <2>3 DEF RInv
<1>2. CASE FinishSwap(t)
  <2>1. TypeOK' BY <1>2 DEF RInv, TypeOK, FinishSwap, AfterSwap, AfterNotify
  <2>2. LocksHeld' BY <1>2 DEF RInv, TypeOK, LocksHeld, FinishSwap, AfterSwap, AfterNotify
  <2>3. RoomToScroll' BY <1>2 DEF RInv, RoomToScroll, FinishSwap, AfterSwap, AfterNotify
  <2> QED BY <2>1, <2>2, <2>3 DEF RInv
<1> QED BY <1>1, <1>2 DEF SwapSteps

\* The steps of ensureFreshRenderBuffer() and of the fill, run by T or R.
LEMMA FillKeepsRInv ==
    ASSUME RInv, NEW t \in {"T", "R"}, FillSteps(t)
    PROVE  RInv'
<1> USE RenderAssumption DEF Threads, Buffers, NoThread, Labels, BufferState, screenVars,
                             bufferVars, lockVars, Goto
<1>1. CASE EnsureFresh(t)
  <2>1. TypeOK' BY <1>1 DEF RInv, TypeOK, EnsureFresh
  <2>2. LocksHeld' BY <1>1 DEF RInv, TypeOK, LocksHeld, EnsureFresh
  <2>3. RoomToScroll' BY <1>1 DEF RInv, RoomToScroll, EnsureFresh
  <2> QED BY <2>1, <2>2, <2>3 DEF RInv
<1>2. CASE LockForFill(t)
  <2>1. TypeOK' BY <1>2 DEF RInv, TypeOK, LockForFill
  <2>2. LocksHeld' BY <1>2 DEF RInv, TypeOK, LocksHeld, LockForFill
  <2>3. RoomToScroll' BY <1>2 DEF RInv, RoomToScroll, LockForFill
  <2> QED BY <2>1, <2>2, <2>3 DEF RInv
<1>3. CASE Fill(t)
  <2>1. TypeOK' BY <1>3 DEF RInv, TypeOK, Fill
  <2>2. LocksHeld' BY <1>3 DEF RInv, TypeOK, LocksHeld, Fill
  <2>3. RoomToScroll' BY <1>3 DEF RInv, RoomToScroll, Fill
  <2> QED BY <2>1, <2>2, <2>3 DEF RInv
<1>4. CASE OfferSwap(t)
  <2>1. TypeOK' BY <1>4 DEF RInv, TypeOK, OfferSwap
  <2>2. LocksHeld' BY <1>4 DEF RInv, TypeOK, LocksHeld, OfferSwap
  <2>3. RoomToScroll' BY <1>4 DEF RInv, RoomToScroll, OfferSwap
  <2> QED BY <2>1, <2>2, <2>3 DEF RInv
<1> QED BY <1>1, <1>2, <1>3, <1>4 DEF FillSteps

\* The steps of screenUpdated(), run by T or G.
LEMMA NotifyKeepsRInv ==
    ASSUME RInv, NEW t \in {"T", "G"}, NotifySteps(t)
    PROVE  RInv'
<1> USE RenderAssumption DEF Threads, Buffers, NoThread, Labels, BufferState, screenVars,
                             bufferVars, lockVars, Goto
<1>1. CASE CheckState(t)
  <2>1. TypeOK' BY <1>1 DEF RInv, TypeOK, CheckState, AfterNotify
  <2>2. LocksHeld' BY <1>1 DEF RInv, TypeOK, LocksHeld, CheckState, AfterNotify
  <2>3. RoomToScroll' BY <1>1 DEF RInv, RoomToScroll, CheckState, AfterNotify
  <2> QED BY <2>1, <2>2, <2>3 DEF RInv
<1>2. CASE PostRedraw(t)
  <2>1. TypeOK' BY <1>2 DEF RInv, TypeOK, PostRedraw, AfterNotify
  <2>2. LocksHeld' BY <1>2 DEF RInv, TypeOK, LocksHeld, PostRedraw, AfterNotify
  <2>3. RoomToScroll' BY <1>2 DEF RInv, RoomToScroll, PostRedraw, AfterNotify
  <2> QED BY <2>1, <2>2, <2>3 DEF RInv
<1> QED BY <1>1, <1>2 DEF NotifySteps

\* The terminal thread's own steps.
LEMMA TKeepsRInv ==
    ASSUME RInv, TNext
    PROVE  RInv'
<1> USE RenderAssumption DEF Threads, Buffers, NoThread, Labels, BufferState, screenVars,
                             bufferVars, lockVars, Goto
<1>1. CASE Parse
  <2>1. TypeOK' BY <1>1 DEF RInv, TypeOK, RoomToScroll, MayChange, Parse
  <2>2. LocksHeld' BY <1>1 DEF RInv, TypeOK, LocksHeld, Parse
  <2>3. RoomToScroll' BY <1>1 DEF RInv, TypeOK, RoomToScroll, MayChange, Parse
  <2> QED BY <2>1, <2>2, <2>3 DEF RInv
<1>2. CASE ParseMore
  <2>1. TypeOK' BY <1>2 DEF RInv, TypeOK, RoomToScroll, MayChange, ParseMore
  <2>2. LocksHeld' BY <1>2 DEF RInv, TypeOK, LocksHeld, ParseMore
  <2>3. RoomToScroll' BY <1>2 DEF RInv, TypeOK, RoomToScroll, MayChange, ParseMore
  <2> QED BY <2>1, <2>2, <2>3 DEF RInv
<1>3. CASE BeginSynchronizedOutput
  <2>4. syncMode' \in BOOLEAN /\ updateEnabled' \in BOOLEAN
    BY <1>3 DEF BeginSynchronizedOutput
  <2>5. batchBase' \in 0..content'
    BY <1>3 DEF BeginSynchronizedOutput, RInv, TypeOK
  <2>1. TypeOK' BY <1>3, <2>4, <2>5 DEF RInv, TypeOK, BeginSynchronizedOutput
  <2>2. LocksHeld' BY <1>3 DEF RInv, TypeOK, LocksHeld, BeginSynchronizedOutput
  <2>3. RoomToScroll' BY <1>3 DEF RInv, RoomToScroll, BeginSynchronizedOutput
  <2> QED BY <2>1, <2>2, <2>3 DEF RInv
<1>4. CASE EndSynchronizedOutput
  <2>4. syncMode' \in BOOLEAN /\ updateEnabled' \in BOOLEAN
    BY <1>4 DEF EndSynchronizedOutput, RequestRefresh, RInv, TypeOK
  <2>1. TypeOK' BY <1>4, <2>4 DEF RInv, TypeOK, EndSynchronizedOutput, RequestRefresh
  <2>2. LocksHeld' BY <1>4 DEF RInv, TypeOK, LocksHeld, EndSynchronizedOutput, RequestRefresh
  <2>3. RoomToScroll' BY <1>4 DEF RInv, RoomToScroll, EndSynchronizedOutput, RequestRefresh
  <2> QED BY <2>1, <2>2, <2>3 DEF RInv
<1>5. CASE EndParse
  <2>1. TypeOK' BY <1>5 DEF RInv, TypeOK, EndParse
  <2>2. LocksHeld' BY <1>5 DEF RInv, TypeOK, LocksHeld, EndParse
  <2>3. RoomToScroll' BY <1>5 DEF RInv, RoomToScroll, EndParse
  <2> QED BY <2>1, <2>2, <2>3 DEF RInv
<1>6. CASE HardReset
  <2>4. syncMode' \in BOOLEAN
    BY <1>6 DEF HardReset, RInv, TypeOK
  <2>1. TypeOK' BY <1>6, <2>4 DEF RInv, TypeOK, RoomToScroll, MayChange, HardReset
  <2>2. LocksHeld' BY <1>6 DEF RInv, TypeOK, LocksHeld, HardReset
  <2>3. RoomToScroll' BY <1>6 DEF RInv, TypeOK, RoomToScroll, MayChange, HardReset
  <2> QED BY <2>1, <2>2, <2>3 DEF RInv
<1>7. CASE SmoothScroll
  <2>4. scrolling' \in BOOLEAN
    BY <1>7 DEF SmoothScroll, RInv, TypeOK
  <2>1. TypeOK' BY <1>7, <2>4 DEF RInv, TypeOK, RoomToScroll, MayChange, SmoothScroll
  <2>2. LocksHeld' BY <1>7 DEF RInv, TypeOK, LocksHeld, SmoothScroll
  <2>3. RoomToScroll' BY <1>7 DEF RInv, TypeOK, RoomToScroll, MayChange, SmoothScroll
  <2> QED BY <2>1, <2>2, <2>3 DEF RInv
<1>8. CASE Relock
  <2>4. scrolling' \in BOOLEAN
    BY <1>8 DEF Relock
  <2>5. content < MaxContent
    BY <1>8 DEF Relock, RInv, LocksHeld, RoomToScroll
  <2>1. TypeOK' BY <1>8, <2>4, <2>5 DEF RInv, TypeOK, Relock
  <2>2. LocksHeld' BY <1>8 DEF RInv, TypeOK, LocksHeld, Relock
  <2>3. RoomToScroll' BY <1>8 DEF RInv, TypeOK, RoomToScroll, MayChange, Relock
  <2> QED BY <2>1, <2>2, <2>3 DEF RInv
<1>9. CASE SwapSteps("T") BY <1>9, SwapKeepsRInv
<1>10. CASE FillSteps("T") BY <1>10, FillKeepsRInv
<1>11. CASE NotifySteps("T") BY <1>11, NotifyKeepsRInv
<1> QED BY <1>1, <1>2, <1>3, <1>4, <1>5, <1>6, <1>7, <1>8, <1>9, <1>10, <1>11 DEF TNext, TSteps

\* The GUI thread's steps.
LEMMA GKeepsRInv ==
    ASSUME RInv, GNext
    PROVE  RInv'
<1> USE RenderAssumption DEF Threads, Buffers, NoThread, Labels, BufferState, screenVars,
                             bufferVars, lockVars, Goto
<1>1. CASE GuiChange
  <2>1. TypeOK' BY <1>1 DEF RInv, TypeOK, RoomToScroll, MayChange, GuiChange
  <2>2. LocksHeld' BY <1>1 DEF RInv, TypeOK, LocksHeld, GuiChange
  <2>3. RoomToScroll' BY <1>1 DEF RInv, TypeOK, RoomToScroll, MayChange, GuiChange
  <2> QED BY <2>1, <2>2, <2>3 DEF RInv
<1>2. CASE BreakLoop
  <2>1. TypeOK' BY <1>2 DEF RInv, TypeOK, BreakLoop
  <2>2. LocksHeld' BY <1>2 DEF RInv, TypeOK, LocksHeld, BreakLoop
  <2>3. RoomToScroll' BY <1>2 DEF RInv, RoomToScroll, BreakLoop
  <2> QED BY <2>1, <2>2, <2>3 DEF RInv
<1>3. CASE SwapSteps("G") BY <1>3, SwapKeepsRInv
<1>4. CASE NotifySteps("G") BY <1>4, NotifyKeepsRInv
<1> QED BY <1>1, <1>2, <1>3, <1>4 DEF GNext, GSteps

\* The render thread's steps.
LEMMA RKeepsRInv ==
    ASSUME RInv, RSteps
    PROVE  RInv'
<1> USE RenderAssumption DEF Threads, Buffers, NoThread, Labels, BufferState, screenVars,
                             bufferVars, lockVars, Goto
<1>1. CASE UpdateTimer
  <2>1. TypeOK' BY <1>1 DEF RInv, TypeOK, UpdateTimer
  <2>2. LocksHeld' BY <1>1 DEF RInv, TypeOK, LocksHeld, UpdateTimer
  <2>3. RoomToScroll' BY <1>1 DEF RInv, RoomToScroll, UpdateTimer
  <2> QED BY <2>1, <2>2, <2>3 DEF RInv
<1>2. CASE BeginPaint
  <2>1. TypeOK' BY <1>2 DEF RInv, TypeOK, BeginPaint
  <2>2. LocksHeld' BY <1>2 DEF RInv, TypeOK, LocksHeld, BeginPaint
  <2>3. RoomToScroll' BY <1>2 DEF RInv, RoomToScroll, BeginPaint
  <2> QED BY <2>1, <2>2, <2>3 DEF RInv
<1>3. CASE RenderRefresh
  <2>1. TypeOK' BY <1>3 DEF RInv, TypeOK, RenderRefresh, RequestRefresh
  <2>2. LocksHeld' BY <1>3 DEF RInv, TypeOK, LocksHeld, RenderRefresh, RequestRefresh
  <2>3. RoomToScroll' BY <1>3 DEF RInv, RoomToScroll, RenderRefresh, RequestRefresh
  <2> QED BY <2>1, <2>2, <2>3 DEF RInv
<1>4. CASE ChooseFront
  <2>1. TypeOK' BY <1>4 DEF RInv, TypeOK, ChooseFront
  <2>2. LocksHeld' BY <1>4 DEF RInv, TypeOK, LocksHeld, ChooseFront
  <2>3. RoomToScroll' BY <1>4 DEF RInv, RoomToScroll, ChooseFront
  <2> QED BY <2>1, <2>2, <2>3 DEF RInv
<1>5. CASE LockFront
  <2>1. TypeOK' BY <1>5 DEF RInv, TypeOK, LockFront
  <2>2. LocksHeld' BY <1>5 DEF RInv, TypeOK, LocksHeld, LockFront
  <2>3. RoomToScroll' BY <1>5 DEF RInv, RoomToScroll, LockFront
  <2> QED BY <2>1, <2>2, <2>3 DEF RInv
<1>6. CASE Draw
  <2>1. TypeOK' BY <1>6 DEF RInv, TypeOK, Draw
  <2>2. LocksHeld' BY <1>6 DEF RInv, TypeOK, LocksHeld, Draw
  <2>3. RoomToScroll' BY <1>6 DEF RInv, RoomToScroll, Draw
  <2> QED BY <2>1, <2>2, <2>3 DEF RInv
<1>7. CASE SwapSteps("R") BY <1>7, SwapKeepsRInv
<1>8. CASE FillSteps("R") BY <1>8, FillKeepsRInv
<1> QED BY <1>1, <1>2, <1>3, <1>4, <1>5, <1>6, <1>7, <1>8 DEF RSteps

\* The invariant is inductive: no thread's step breaks it.
LEMMA NextRInv == RInv /\ [Next]_vars => RInv'
<1> SUFFICES ASSUME RInv, [Next]_vars PROVE RInv'
  OBVIOUS
<1>1. CASE TNext BY <1>1, TKeepsRInv
<1>2. CASE GNext BY <1>2, GKeepsRInv
<1>3. CASE RSteps BY <1>3, RKeepsRInv
<1>4. CASE UNCHANGED vars
  BY <1>4 DEF RInv, TypeOK, LocksHeld, RoomToScroll, vars
<1> QED BY <1>1, <1>2, <1>3, <1>4 DEF Next

\* Type correctness and the ownership of the two mutexes.
THEOREM RenderLocks == Spec => [](TypeOK /\ LocksHeld)
<1>1. RInv => TypeOK /\ LocksHeld BY DEF RInv
<1> QED BY <1>1, InitRInv, NextRInv, PTL DEF Spec

\* Two threads never fill a buffer at the same time.
THEOREM RenderSingleFiller == Spec => []SingleFiller
<1>1. TypeOK /\ LocksHeld => SingleFiller
  BY DEF LocksHeld, SingleFiller, Threads
<1> QED BY <1>1, RenderLocks, PTL

\* No thread waits for a mutex while it holds one: the two cannot deadlock.
THEOREM RenderNoHoldAndWait == Spec => []NoHoldAndWait
<1>1. TypeOK /\ LocksHeld => NoHoldAndWait
  BY DEF TypeOK, LocksHeld, NoHoldAndWait, Threads, NoThread
<1> QED BY <1>1, RenderLocks, PTL

-----------------------------------------------------------------------------
(* The hash table with its lists.                                          *)

Entries == 1..LruEntries
\* The entry at a place of a list, the sentinel outside of it.
At(q, n) == IF n \in DOMAIN q THEN q[n] ELSE 0
In(i, q) == \E n \in 1..Len(q) : q[n] = i
Distinct(q) == q \in Seq(Entries) /\ \A m, n \in 1..Len(q) : q[m] = q[n] => m = n
\* The list q as a ring through the sentinel, and as a chain from its first entry.
IsRing(nx, pv, q) == \A n \in 0..Len(q) : nx[At(q, n)] = At(q, n + 1) /\ pv[At(q, n + 1)] = At(q, n)
IsChain(nx, first, q) == first = At(q, 1) /\ \A n \in 1..Len(q) : nx[q[n]] = At(q, n + 1)
LinkFields == [LruIndices -> LruIndices]

\* The numbers of the constructor, as the lemmas need them.
LEMMA LruSizes ==
    /\ LruEntries \in Nat /\ LruEntries >= 2 /\ LruIndices = 0..LruEntries
    /\ Entries \subseteq LruIndices /\ 0 \in LruIndices /\ 0 \notin Entries
    /\ \A i \in Entries : i # 0 /\ i \in LruIndices
BY LruAssumption DEF LruIndices, Entries

\* A list without repetitions.
LEMMA DistinctIs ==
    ASSUME NEW q, Distinct(q)
    PROVE  /\ Len(q) \in Nat /\ DOMAIN q = 1..Len(q) /\ q \in Seq(Entries)
           /\ \A n \in 1..Len(q) : q[n] \in Entries
           /\ \A m, n \in 1..Len(q) : q[m] = q[n] => m = n
BY DEF Distinct

\* What is at the places of such a list.
LEMMA AtIs ==
    ASSUME NEW q, Distinct(q)
    PROVE  /\ \A n \in 1..Len(q) : At(q, n) = q[n] /\ At(q, n) \in Entries
           /\ \A n \in Int : n \notin 1..Len(q) => At(q, n) = 0
           /\ \A n \in Int : At(q, n) \in LruIndices
           /\ \A n \in Int : At(q, n) = 0 => n \notin 1..Len(q)
BY DistinctIs, LruSizes DEF At

\* A place is one entry, the sentinel both before the first and behind the last.
LEMMA AtDistinct ==
    ASSUME NEW q, Distinct(q), NEW m \in Int, NEW n \in Int, At(q, m) = At(q, n), m \in 1..Len(q) \/ n \in 1..Len(q)
    PROVE  m = n
<1>1. m \in 1..Len(q) /\ n \in 1..Len(q)
  BY AtIs, LruSizes
<1> QED BY <1>1, AtIs, DistinctIs

\* An element put before a sequence.
LEMMA ConsElements ==
    ASSUME NEW S, NEW q \in Seq(S), NEW e \in S
    PROVE  /\ <<e>> \o q \in Seq(S) /\ Len(<<e>> \o q) = Len(q) + 1
           /\ \A n \in 1..Len(q) + 1 : (<<e>> \o q)[n] = IF n = 1 THEN e ELSE q[n - 1]
OBVIOUS

\* A new entry at the front of a list.
LEMMA DistinctCons ==
    ASSUME NEW q, Distinct(q), NEW i \in Entries, ~In(i, q)
    PROVE  /\ Distinct(<<i>> \o q) /\ Len(<<i>> \o q) = Len(q) + 1
           /\ \A n \in Int : At(<<i>> \o q, n) = IF n = 1 THEN i ELSE At(q, n - 1)
           /\ \A k : In(k, <<i>> \o q) <=> (k = i \/ In(k, q))
<1> DEFINE p == <<i>> \o q
<1>1. /\ p \in Seq(Entries) /\ Len(p) = Len(q) + 1 /\ Len(q) \in Nat
      /\ \A n \in 1..Len(q) + 1 : p[n] = IF n = 1 THEN i ELSE q[n - 1]
  BY ConsElements, DistinctIs
<1> HIDE DEF p
<1>2. ASSUME NEW m \in 1..Len(p), NEW n \in 1..Len(p), p[m] = p[n] PROVE m = n
  <2>1. CASE m = 1 /\ n # 1
    BY <1>1, <1>2, <2>1 DEF In
  <2>2. CASE m # 1 /\ n = 1
    BY <1>1, <1>2, <2>2 DEF In
  <2>3. CASE m # 1 /\ n # 1
    <3>1. m - 1 \in 1..Len(q) /\ n - 1 \in 1..Len(q) /\ q[m - 1] = q[n - 1]
      BY <1>1, <1>2, <2>3
    <3>2. m - 1 = n - 1
      BY <3>1, DistinctIs
    <3> QED BY <3>2
  <2> QED BY <2>1, <2>2, <2>3
<1>3. Distinct(p)
  BY <1>1, <1>2 DEF Distinct
<1>4. ASSUME NEW n \in Int PROVE At(p, n) = IF n = 1 THEN i ELSE At(q, n - 1)
  <2>1. DOMAIN p = 1..Len(q) + 1 /\ DOMAIN q = 1..Len(q)
    BY <1>1, <1>3, DistinctIs
  <2> QED BY <1>1, <2>1 DEF At
<1>5. ASSUME NEW k PROVE In(k, p) <=> (k = i \/ In(k, q))
  <2>1. ASSUME In(k, p) PROVE k = i \/ In(k, q)
    BY <1>1, <2>1 DEF In
  <2>2. ASSUME k = i PROVE In(k, p)
    <3>1. 1 \in 1..Len(p) /\ p[1] = i
      BY <1>1
    <3> QED BY <2>2, <3>1 DEF In
  <2>3. ASSUME In(k, q) PROVE In(k, p)
    <3>1. PICK n \in 1..Len(q) : q[n] = k
      BY <2>3 DEF In
    <3>2. n + 1 \in 1..Len(p) /\ p[n + 1] = k
      BY <1>1, <3>1
    <3> QED BY <3>2 DEF In
  <2> QED BY <2>1, <2>2, <2>3
<1> QED BY <1>1, <1>3, <1>4, <1>5 DEF p

\* A list without the entry at one of its places.
LEMMA DistinctRemove ==
    ASSUME NEW q, Distinct(q), NEW j \in 1..Len(q)
    PROVE  /\ Distinct(RemoveAt(q, j)) /\ Len(RemoveAt(q, j)) = Len(q) - 1
           /\ \A n \in Int : At(RemoveAt(q, j), n) = IF n < j THEN At(q, n) ELSE At(q, n + 1)
           /\ \A k : In(k, RemoveAt(q, j)) <=> (k # q[j] /\ In(k, q))
<1> DEFINE p == RemoveAt(q, j)
<1>1. /\ p \in Seq(Entries) /\ Len(p) = Len(q) - 1 /\ Len(q) \in Nat /\ Len(p) \in Nat
      /\ \A n \in 1..Len(q) - 1 : p[n] = IF n < j THEN q[n] ELSE q[n + 1]
  BY RemoveAtElements, DistinctIs
<1> HIDE DEF p
<1> DEFINE Old(n) == IF n < j THEN n ELSE n + 1
<1>2. ASSUME NEW n \in 1..Len(p) PROVE Old(n) \in 1..Len(q) /\ p[n] = q[Old(n)] /\ Old(n) # j
  BY <1>1
<1>3. ASSUME NEW m \in 1..Len(p), NEW n \in 1..Len(p), p[m] = p[n] PROVE m = n
  <2>1. Old(m) = Old(n)
    <3> HIDE DEF Old
    <3> QED BY SMTT(30), <1>2, <1>3, DistinctIs
  <2> QED BY <2>1
<1>4. Distinct(p)
  BY <1>1, <1>3 DEF Distinct
<1>5. ASSUME NEW n \in Int PROVE At(p, n) = IF n < j THEN At(q, n) ELSE At(q, n + 1)
  <2>1. DOMAIN p = 1..Len(q) - 1 /\ DOMAIN q = 1..Len(q)
    BY <1>1, <1>4, DistinctIs
  <2> QED BY <1>1, <2>1 DEF At
<1>6. ASSUME NEW k PROVE In(k, p) <=> (k # q[j] /\ In(k, q))
  <2>1. ASSUME In(k, p) PROVE k # q[j] /\ In(k, q)
    <3>1. PICK n \in 1..Len(p) : p[n] = k
      BY <2>1 DEF In
    <3>2. Old(n) \in 1..Len(q) /\ k = q[Old(n)] /\ Old(n) # j
      BY <1>2, <3>1
    <3> HIDE DEF Old
    <3> QED BY <3>2, DistinctIs DEF In
  <2>2. ASSUME k # q[j], In(k, q) PROVE In(k, p)
    <3>1. PICK n \in 1..Len(q) : q[n] = k
      BY <2>2 DEF In
    <3>2. CASE n < j
      <4>1. n \in 1..Len(p) /\ p[n] = k
        BY <1>1, <3>1, <3>2
      <4> QED BY <4>1 DEF In
    <3>3. CASE n > j
      <4>1. n - 1 \in 1..Len(p) /\ p[n - 1] = k
        BY <1>1, <3>1, <3>3
      <4> QED BY <4>1 DEF In
    <3>4. n # j
      BY <2>2, <3>1
    <3> QED BY <3>2, <3>3, <3>4
  <2> QED BY <2>1, <2>2
<1> QED BY <1>1, <1>4, <1>5, <1>6 DEF p

\* The sentinel knows both ends of the ring.
LEMMA RingEnds ==
    ASSUME NEW nx, NEW pv, NEW q, Distinct(q), IsRing(nx, pv, q)
    PROVE  /\ nx[0] = At(q, 1) /\ pv[0] = At(q, Len(q))
           /\ \A j \in 1..Len(q) : nx[q[j]] = At(q, j + 1) /\ pv[q[j]] = At(q, j - 1)
<1>1. Len(q) \in Nat /\ At(q, 0) = 0 /\ At(q, Len(q) + 1) = 0
  BY DistinctIs, AtIs
<1>2. nx[0] = At(q, 1) /\ pv[0] = At(q, Len(q))
  <2>1. 0 \in 0..Len(q) /\ Len(q) \in 0..Len(q) /\ 0 + 1 = 1
    BY <1>1
  <2>2. nx[At(q, 0)] = At(q, 0 + 1)
    BY <2>1 DEF IsRing
  <2>3. pv[At(q, Len(q) + 1)] = At(q, Len(q))
    BY <2>1 DEF IsRing
  <2> QED BY <1>1, <2>1, <2>2, <2>3
<1>3. ASSUME NEW j \in 1..Len(q) PROVE nx[q[j]] = At(q, j + 1) /\ pv[q[j]] = At(q, j - 1)
  <2>1. j \in 0..Len(q) /\ j - 1 \in 0..Len(q) /\ (j - 1) + 1 = j
    BY <1>1
  <2>2. At(q, j) = q[j]
    BY AtIs
  <2> QED BY <2>1, <2>2 DEF IsRing
<1> QED BY <1>2, <1>3

\* unlinkFromLRUChain: the neighbours of an entry are joined.
LEMMA RingUnlink ==
    ASSUME NEW nx \in LinkFields, NEW pv \in LinkFields, NEW q, Distinct(q), IsRing(nx, pv, q), NEW j \in 1..Len(q)
    PROVE  IsRing([nx EXCEPT ![pv[q[j]]] = nx[q[j]]], [pv EXCEPT ![nx[q[j]]] = pv[q[j]]], RemoveAt(q, j))
<1> DEFINE r == RemoveAt(q, j)
           i == q[j]
           nx2 == [nx EXCEPT ![pv[i]] = nx[i]]
           pv2 == [pv EXCEPT ![nx[i]] = pv[i]]
<1>1. pv[i] = At(q, j - 1) /\ nx[i] = At(q, j + 1) /\ Len(q) \in Nat
  BY RingEnds, DistinctIs
<1>2. Len(r) = Len(q) - 1 /\ \A n \in Int : At(r, n) = IF n < j THEN At(q, n) ELSE At(q, n + 1)
  BY DistinctRemove
<1>3. \A n \in Int : At(q, n) \in LruIndices
  BY AtIs
<1>4. /\ \A k \in LruIndices : nx2[k] = IF k = At(q, j - 1) THEN At(q, j + 1) ELSE nx[k]
      /\ \A k \in LruIndices : pv2[k] = IF k = At(q, j + 1) THEN At(q, j - 1) ELSE pv[k]
  BY <1>1 DEF LinkFields
<1> HIDE DEF r, i, nx2, pv2
<1>5. ASSUME NEW m \in 0..Len(q), m # j - 1, m # j PROVE nx2[At(q, m)] = At(q, m + 1)
  <2>1. At(q, m) # At(q, j - 1)
    <3>1. m \in 1..Len(q) \/ j - 1 \in 1..Len(q)
      BY <1>1, <1>5
    <3> QED BY <1>5, <3>1, AtDistinct
  <2>2. nx[At(q, m)] = At(q, m + 1)
    BY DEF IsRing
  <2> QED BY <1>3, <1>4, <2>1, <2>2
<1>6. ASSUME NEW m \in 0..Len(q), m # j - 1, m # j PROVE pv2[At(q, m + 1)] = At(q, m)
  <2>1. At(q, m + 1) # At(q, j + 1)
    <3>1. m + 1 \in 1..Len(q) \/ j + 1 \in 1..Len(q)
      <4>1. m \in Int /\ j \in Int /\ m <= Len(q) /\ j <= Len(q) /\ 1 <= j /\ 0 <= m /\ m # j /\ Len(q) \in Int
        BY <1>1, <1>6
      <4>2. m < Len(q) \/ j < Len(q)
        BY <4>1
      <4> QED BY <4>1, <4>2
    <3>2. m + 1 \in Int /\ j + 1 \in Int /\ m + 1 # j + 1
      BY <1>6
    <3> QED BY <3>1, <3>2, AtDistinct
  <2>2. pv[At(q, m + 1)] = At(q, m)
    BY DEF IsRing
  <2> QED BY <1>3, <1>4, <2>1, <2>2
<1>7. nx2[At(q, j - 1)] = At(q, j + 1) /\ pv2[At(q, j + 1)] = At(q, j - 1)
  BY <1>3, <1>4
<1>8. Len(q) \in Nat /\ Len(r) = Len(q) - 1
  BY <1>1, <1>2
<1>9. ASSUME NEW n \in 0..Len(r) PROVE nx2[At(r, n)] = At(r, n + 1) /\ pv2[At(r, n + 1)] = At(r, n)
  <2>1. CASE n < j - 1
    <3>1. n \in 0..Len(q) /\ n # j - 1 /\ n # j /\ n < j /\ n + 1 < j /\ n + 1 \in Int /\ n \in Int
      BY <1>8, <2>1
    <3>2. \A k \in Int : k < j => At(r, k) = At(q, k)
      BY <1>2
    <3>3. At(r, n) = At(q, n) /\ At(r, n + 1) = At(q, n + 1)
      BY <3>1, <3>2, Zenon
    <3> QED BY <1>5, <1>6, <3>1, <3>3
  <2>2. CASE n = j - 1
    <3>1. At(r, n) = At(q, j - 1) /\ At(r, n + 1) = At(q, j + 1)
      BY <1>2, <2>2
    <3> QED BY <1>7, <3>1
  <2>3. CASE n > j - 1
    <3>1. n + 1 \in 0..Len(q) /\ n + 1 # j - 1 /\ n + 1 # j
      BY <1>8, <2>3
    <3>2. At(r, n) = At(q, n + 1) /\ At(r, n + 1) = At(q, (n + 1) + 1)
      BY <1>2, <2>3
    <3> QED BY <1>5, <1>6, <3>1, <3>2
  <2> QED BY <2>1, <2>2, <2>3
<1> QED BY <1>9 DEF IsRing, r, i, nx2, pv2

\* linkToLRUChainHead: an entry that is not in the ring becomes its first.
LEMMA RingPush ==
    ASSUME NEW nx \in LinkFields, NEW pv \in LinkFields, NEW q, Distinct(q), IsRing(nx, pv, q), NEW i \in Entries, ~In(i, q)
    PROVE  IsRing([[nx EXCEPT ![i] = nx[0]] EXCEPT ![0] = i], [[pv EXCEPT ![i] = 0] EXCEPT ![nx[0]] = i], <<i>> \o q)
<1> DEFINE r == <<i>> \o q
           nx2 == [[nx EXCEPT ![i] = nx[0]] EXCEPT ![0] = i]
           pv2 == [[pv EXCEPT ![i] = 0] EXCEPT ![nx[0]] = i]
<1>1. nx[0] = At(q, 1) /\ Len(q) \in Nat /\ At(q, 0) = 0 /\ i # 0 /\ i \in LruIndices /\ 0 \in LruIndices
  BY RingEnds, DistinctIs, AtIs, LruSizes
<1>2. Len(r) = Len(q) + 1 /\ \A n \in Int : At(r, n) = IF n = 1 THEN i ELSE At(q, n - 1)
  BY DistinctCons
<1>3. \A n \in Int : At(q, n) \in LruIndices /\ At(q, n) # i
  BY <1>1, AtIs DEF In
<1>4. /\ \A k \in LruIndices : nx2[k] = IF k = 0 THEN i ELSE IF k = i THEN At(q, 1) ELSE nx[k]
      /\ \A k \in LruIndices : pv2[k] = IF k = At(q, 1) THEN i ELSE IF k = i THEN 0 ELSE pv[k]
  BY <1>1, <1>3 DEF LinkFields
<1> HIDE DEF r, nx2, pv2
<1>5. ASSUME NEW n \in 0..Len(r) PROVE nx2[At(r, n)] = At(r, n + 1) /\ pv2[At(r, n + 1)] = At(r, n)
  <2>1. CASE n = 0
    <3>1. At(r, 0) = At(q, 0 - 1) /\ At(r, 0 + 1) = i
      BY <1>2
    <3>2. At(q, 0 - 1) = 0
      BY AtIs
    <3> QED BY <1>1, <1>3, <1>4, <2>1, <3>1, <3>2
  <2>2. CASE n = 1
    <3>1. At(r, 1) = i /\ At(r, 1 + 1) = At(q, 1)
      BY <1>2
    <3> QED BY <1>1, <1>3, <1>4, <2>2, <3>1
  <2>3. CASE n > 1
    <3>1. At(r, n) = At(q, n - 1) /\ At(r, n + 1) = At(q, n) /\ n - 1 \in 1..Len(q) /\ n - 1 \in 0..Len(q)
          /\ (n - 1) + 1 = n /\ n # 1
      BY <1>1, <1>2, <2>3
    <3>2. nx[At(q, n - 1)] = At(q, n) /\ pv[At(q, n)] = At(q, n - 1)
      BY <3>1 DEF IsRing
    <3>3. At(q, n - 1) # 0
      BY <3>1, AtIs
    <3>4. At(q, n) # At(q, 1)
      <4>1. n \in 1..Len(q) \/ 1 \in 1..Len(q)
        BY <1>1, <3>1
      <4> QED BY <3>1, <4>1, AtDistinct
    <3> QED BY <1>3, <1>4, <3>1, <3>2, <3>3, <3>4
  <2> QED BY <1>1, <1>2, <2>1, <2>2, <2>3
<1> QED BY <1>5 DEF IsRing, r, nx2, pv2

\* A chain is the same when none of its entries changed.
LEMMA ChainFrame ==
    ASSUME NEW nx, NEW nx2, NEW first, NEW q, Distinct(q), IsChain(nx, first, q), \A k : In(k, q) => nx2[k] = nx[k]
    PROVE  IsChain(nx2, first, q)
BY DEF IsChain, In

\* An entry is put before a chain.
LEMMA ChainPush ==
    ASSUME NEW nx, NEW nx2, NEW first, NEW q, Distinct(q), IsChain(nx, first, q), NEW i \in Entries, ~In(i, q),
           \A k : In(k, q) => nx2[k] = nx[k], nx2[i] = first
    PROVE  IsChain(nx2, i, <<i>> \o q)
<1> DEFINE r == <<i>> \o q
<1>1. /\ Len(r) = Len(q) + 1 /\ Distinct(r) /\ \A n \in Int : At(r, n) = IF n = 1 THEN i ELSE At(q, n - 1)
  BY DistinctCons
<1> HIDE DEF r
<1>2. Len(q) \in Nat /\ \A n \in 1..Len(r) : At(r, n) = r[n]
  BY <1>1, DistinctIs, AtIs
<1>3. ASSUME NEW n \in 1..Len(r) PROVE nx2[r[n]] = At(r, n + 1)
  <2>1. CASE n = 1
    <3>1. r[1] = i /\ At(r, 1 + 1) = At(q, 1)
      BY <1>1, <1>2
    <3> QED BY <2>1, <3>1 DEF IsChain
  <2>2. CASE n > 1
    <3>1. n - 1 \in 1..Len(q) /\ At(r, n) = At(q, n - 1) /\ At(r, n + 1) = At(q, (n - 1) + 1)
      BY <1>1, <1>2, <2>2
    <3>2. r[n] = q[n - 1]
      BY <1>2, <3>1, AtIs
    <3>3. nx[q[n - 1]] = At(q, (n - 1) + 1) /\ In(q[n - 1], q)
      BY <3>1 DEF IsChain, In
    <3> QED BY <3>1, <3>2, <3>3
  <2> QED BY <2>1, <2>2
<1>4. At(r, 1) = i
  BY <1>1
<1> QED BY <1>3, <1>4 DEF IsChain, r

\* The first entry of a chain is taken.
LEMMA ChainPop ==
    ASSUME NEW nx, NEW q, Distinct(q), NEW first, IsChain(nx, first, q), Len(q) >= 1
    PROVE  IsChain(nx, nx[q[1]], RemoveAt(q, 1))
<1> DEFINE r == RemoveAt(q, 1)
<1>1. Len(q) \in Nat /\ 1 \in 1..Len(q)
  BY DistinctIs
<1>2. /\ Len(r) = Len(q) - 1 /\ Distinct(r) /\ \A n \in Int : At(r, n) = IF n < 1 THEN At(q, n) ELSE At(q, n + 1)
  BY <1>1, DistinctRemove
<1> HIDE DEF r
<1>3. \A n \in 1..Len(r) : At(r, n) = r[n]
  BY <1>2, AtIs
<1>4. ASSUME NEW n \in 1..Len(r) PROVE nx[r[n]] = At(r, n + 1)
  <2>1. n + 1 \in 1..Len(q) /\ At(r, n) = At(q, n + 1) /\ At(r, n + 1) = At(q, (n + 1) + 1)
    BY <1>1, <1>2
  <2>2. r[n] = q[n + 1]
    BY <1>3, <2>1, AtIs
  <2> QED BY <2>1, <2>2 DEF IsChain
<1>5. At(r, 1) = nx[q[1]]
  <2>1. At(r, 1) = At(q, 1 + 1)
    BY <1>2
  <2> QED BY <1>1, <2>1 DEF IsChain
<1> QED BY <1>4, <1>5 DEF IsChain, r

\* An entry is taken out of a chain.
LEMMA ChainUnlink ==
    ASSUME NEW nx \in LinkFields, NEW q, Distinct(q), NEW first, IsChain(nx, first, q), NEW j \in 1..Len(q), j # 1
    PROVE  IsChain([nx EXCEPT ![q[j - 1]] = nx[q[j]]], first, RemoveAt(q, j))
<1> DEFINE r == RemoveAt(q, j)
           nx2 == [nx EXCEPT ![q[j - 1]] = nx[q[j]]]
<1>1. /\ Len(r) = Len(q) - 1 /\ Distinct(r) /\ \A n \in Int : At(r, n) = IF n < j THEN At(q, n) ELSE At(q, n + 1)
  BY DistinctRemove
<1>2. Len(q) \in Nat /\ j - 1 \in 1..Len(q) /\ q[j - 1] \in LruIndices
  <2>1. Len(q) \in Nat
    BY DistinctIs
  <2>2. j - 1 \in 1..Len(q)
    BY <2>1
  <2> QED BY <2>1, <2>2, DistinctIs, LruSizes
<1>3. \A k \in LruIndices : nx2[k] = IF k = q[j - 1] THEN nx[q[j]] ELSE nx[k]
  BY <1>2 DEF LinkFields
<1>4. \A n \in 1..Len(q) : q[n] \in LruIndices /\ nx[q[n]] = At(q, n + 1) /\ At(q, n) = q[n]
  BY DistinctIs, AtIs, LruSizes DEF IsChain
<1> HIDE DEF r, nx2
<1>5. \A n \in 1..Len(r) : At(r, n) = r[n]
  BY <1>1, AtIs
<1>6. ASSUME NEW n \in 1..Len(r) PROVE nx2[r[n]] = At(r, n + 1)
  <2>1. CASE n < j - 1
    <3>1. n \in 1..Len(q) /\ n # j - 1 /\ n < j /\ n + 1 < j /\ n + 1 \in Int
      BY <1>1, <1>2, <2>1
    <3>2. At(r, n) = At(q, n) /\ At(r, n + 1) = At(q, n + 1)
      BY <1>1, <3>1
    <3>3. r[n] = q[n] /\ q[n] # q[j - 1]
      BY <1>2, <1>4, <1>5, <3>1, <3>2, DistinctIs
    <3> QED BY <1>3, <1>4, <3>1, <3>2, <3>3
  <2>2. CASE n = j - 1
    <3>1. At(r, n) = At(q, j - 1) /\ At(r, n + 1) = At(q, j + 1)
      BY <1>1, <2>2
    <3>2. r[n] = q[j - 1]
      BY <1>2, <1>4, <1>5, <3>1
    <3> QED BY <1>2, <1>3, <1>4, <3>1, <3>2
  <2>3. CASE n > j - 1
    <3>1. n + 1 \in 1..Len(q) /\ n + 1 # j - 1 /\ At(r, n) = At(q, n + 1) /\ At(r, n + 1) = At(q, (n + 1) + 1)
      BY <1>1, <1>2, <2>3
    <3>2. r[n] = q[n + 1] /\ q[n + 1] # q[j - 1]
      BY <1>2, <1>4, <1>5, <3>1, DistinctIs
    <3> QED BY <1>3, <1>4, <3>1, <3>2, SMTT(30)
  <2> QED BY <2>1, <2>2, <2>3
<1>7. At(r, 1) = first
  BY <1>1 DEF IsChain
<1> QED BY <1>6, <1>7 DEF IsChain, r, nx2

\* No list has more entries than the table.
LEMMA DistinctFits == ASSUME NEW q, Distinct(q) PROVE Len(q) <= LruEntries
<1>1. Len(q) \in Nat /\ LruEntries \in Nat
  BY DistinctIs, LruSizes
<1>2. q \in [1..Len(q) -> Entries]
  BY DistinctIs
<1>3. q \in Injection(1..Len(q), Entries)
  BY <1>2, DistinctIs DEF Injection, IsInjective
<1>0. \A a, b \in Int : IsFiniteSet(a..b) /\ Cardinality(a..b) = IF a > b THEN 0 ELSE b - a + 1
  BY FS_Interval
<1>4. IsFiniteSet(Entries) /\ Cardinality(Entries) = LruEntries
  BY <1>0, <1>1, LruSizes DEF Entries
<1>5. Cardinality(1..Len(q)) = Len(q)
  BY SMTT(30), <1>0, <1>1
<1>6. Cardinality(1..Len(q)) <= Cardinality(Entries)
  BY <1>3, <1>4, FS_Injection
<1> QED BY <1>4, <1>5, <1>6

\* Walking along a chain gives its list.
LEMMA ChainWalk ==
    ASSUME NEW nx \in LinkFields, NEW first, NEW q, Distinct(q), IsChain(nx, first, q)
    PROVE  Walk(nx, first) = q
<1> DEFINE zx == [nx EXCEPT ![0] = 0]
           f == CHOOSE f : f = [n \in LruIndices |-> IF n = 0 THEN first ELSE zx[f[n - 1]]]
           g == [n \in LruIndices |-> At(q, n + 1)]
           Length(n) == (n <= LruEntries => f[n] = 0) /\ \A m \in 0..n - 1 : f[m] # 0
           length == CHOOSE n \in 0..LruEntries + 1 : Length(n)
<1>1. LruEntries \in Nat /\ LruIndices = 0..LruEntries /\ Len(q) \in Nat /\ Len(q) <= LruEntries
      /\ 0 \in LruIndices
  BY LruSizes, DistinctIs, DistinctFits
<1>2. ASSUME NEW n \in 1..LruEntries PROVE zx[At(q, n)] = At(q, n + 1)
  <2>1. CASE n <= Len(q)
    <3>1. n \in 1..Len(q)
      BY <1>1, <2>1
    <3>2. At(q, n) = q[n] /\ q[n] # 0 /\ q[n] \in LruIndices
      BY <3>1, AtIs, LruSizes
    <3>3. nx[q[n]] = At(q, n + 1)
      BY <3>1 DEF IsChain
    <3> QED BY <3>2, <3>3 DEF LinkFields
  <2>2. CASE n > Len(q)
    <3>1. n \notin 1..Len(q) /\ n + 1 \notin 1..Len(q) /\ n \in Int /\ n + 1 \in Int
      BY <1>1, <2>2
    <3>2. At(q, n) = 0 /\ At(q, n + 1) = 0
      BY <3>1, AtIs
    <3> QED BY <1>1, <3>2 DEF LinkFields
  <2> QED BY <1>1, <2>1, <2>2
<1> HIDE DEF zx
<1>3. g = [n \in LruIndices |-> IF n = 0 THEN first ELSE zx[g[n - 1]]]
  <2>1. ASSUME NEW n \in LruIndices PROVE At(q, n + 1) = IF n = 0 THEN first ELSE zx[g[n - 1]]
    <3>1. CASE n = 0
      BY <3>1 DEF IsChain
    <3>2. CASE n # 0
      <4>1. n \in 1..LruEntries /\ n - 1 \in LruIndices /\ (n - 1) + 1 = n
        BY <1>1, <3>2
      <4>2. g[n - 1] = At(q, n)
        BY <4>1
      <4> QED BY <1>2, <3>2, <4>1, <4>2
    <3> QED BY <3>1, <3>2
  <2> QED BY <2>1
<1>4. f = [n \in LruIndices |-> IF n = 0 THEN first ELSE zx[f[n - 1]]]
  <2> HIDE DEF g
  <2> QED BY <1>3
<1>5. Walk(nx, first) = [n \in 1..length |-> f[n - 1]]
  BY DEF Walk, zx
<1> HIDE DEF f
<1>6. \A n \in LruIndices : f[n] = At(q, n + 1)
  <2> DEFINE S == {n \in Nat : n <= LruEntries => f[n] = At(q, n + 1)}
  <2>1. 0 \in S
    BY <1>1, <1>4 DEF IsChain
  <2>2. ASSUME NEW n \in Nat, n \in S PROVE n + 1 \in S
    <3> SUFFICES ASSUME n + 1 <= LruEntries PROVE f[n + 1] = At(q, (n + 1) + 1)
      OBVIOUS
    <3>1. n + 1 \in 1..LruEntries /\ n + 1 \in LruIndices /\ (n + 1) - 1 = n /\ n + 1 # 0
      BY <1>1
    <3>2. f[n] = At(q, n + 1)
      BY <1>1, <2>2
    <3>3. f[n + 1] = zx[f[(n + 1) - 1]]
      BY <1>4, <3>1
    <3>4. f[n + 1] = zx[At(q, n + 1)]
      BY <3>1, <3>2, <3>3
    <3> QED BY <1>2, <3>1, <3>4
  <2> HIDE DEF S
  <2>3. Nat \subseteq S
    BY <2>1, <2>2, SetInduction
  <2> QED BY <1>1, <2>3 DEF S
<1>7. Length(Len(q))
  <2>1. f[Len(q)] = 0
    <3>1. Len(q) \in LruIndices /\ Len(q) + 1 \in Int /\ Len(q) + 1 \notin 1..Len(q)
      BY <1>1
    <3> QED BY <1>6, <3>1, AtIs
  <2>2. ASSUME NEW m \in 0..Len(q) - 1 PROVE f[m] # 0
    <3>1. m \in LruIndices /\ m + 1 \in 1..Len(q)
      BY <1>1
    <3> QED BY <1>6, <3>1, AtIs, LruSizes
  <2> QED BY <2>1, <2>2
<1>8. ASSUME NEW n \in 0..LruEntries + 1, Length(n) PROVE n = Len(q)
  <2>1. CASE n < Len(q)
    <3>1. n \in LruIndices /\ n <= LruEntries /\ n + 1 \in 1..Len(q)
      BY <1>1, <2>1
    <3>2. f[n] # 0
      BY <1>6, <3>1, AtIs, LruSizes
    <3> QED BY <1>8, <3>1, <3>2
  <2>2. CASE n > Len(q)
    <3>1. Len(q) \in 0..n - 1 /\ Len(q) \in LruIndices
      BY <1>1, <2>2
    <3>2. f[Len(q)] = 0
      BY <1>1, <1>7
    <3> QED BY <1>8, <3>1, <3>2
  <2> QED BY <1>1, <2>1, <2>2
<1>9. length = Len(q)
  <2> HIDE DEF Length
  <2>1. Len(q) \in 0..LruEntries + 1
    BY <1>1
  <2> QED BY <1>7, <1>8, <2>1
<1> HIDE DEF length
<1>10. ASSUME NEW n \in 1..Len(q) PROVE f[n - 1] = q[n]
  <2>1. n - 1 \in LruIndices /\ (n - 1) + 1 = n
    BY <1>1
  <2> QED BY <1>6, <2>1, AtIs
<1>11. q = [n \in 1..Len(q) |-> q[n]]
  BY DistinctIs
<1> QED BY <1>5, <1>9, <1>10, <1>11

Slots == 0..LruSlots - 1
Hashed(hn, sl, hv) == hn \in LinkFields /\ sl \in [Slots -> LruIndices] /\ hv \in [LruIndices -> Nat]
\* The recency list q.
Ring(nx, pv, q) == nx \in LinkFields /\ pv \in LinkFields /\ Distinct(q) /\ IsRing(nx, pv, q)
\* The unused entries f and the entries c[k] of every slot k, when q are the used ones.
Hashes(hn, sl, hv, q, f, c) ==
  /\ Hashed(hn, sl, hv)
  /\ Distinct(q) /\ Distinct(f) /\ c \in [Slots -> Seq(Entries)] /\ \A k \in Slots : Distinct(c[k])
  /\ IsChain(hn, hn[0], f)
  /\ \A k \in Slots : IsChain(hn, sl[k], c[k])
  /\ \A i \in Entries : In(i, q) <=> ~In(i, f)
  /\ \A k \in Slots : \A i \in Entries : In(i, c[k]) <=> (In(i, q) /\ HashTableSlot(hv[i]) = k)
  /\ \A i, j \in Entries : In(i, q) /\ In(j, q) /\ hv[i] = hv[j] => i = j
  /\ \A i \in Entries : In(i, q) => hv[i] \in LruKeys
  /\ Len(q) + Len(f) = LruEntries

\* What is in a list is an entry.
LEMMA InIsEntry == ASSUME NEW q, Distinct(q), NEW i, In(i, q) PROVE i \in Entries /\ i # 0 /\ i \in LruIndices
BY DistinctIs, LruSizes DEF In

\* A hash falls into a slot.
LEMMA SlotOf == ASSUME NEW h \in Nat PROVE HashTableSlot(h) \in Slots
BY LruAssumption DEF HashTableSlot, Slots

\* The first unused entry is put before the chain of its slot.
LEMMA HashPop ==
    ASSUME NEW hn, NEW sl, NEW hv, NEW q, NEW f, NEW c, Hashes(hn, sl, hv, q, f, c), Len(f) >= 1,
           NEW h \in LruKeys, \A j \in Entries : In(j, q) => hv[j] # h
    PROVE  /\ hn[0] \in Entries /\ ~In(hn[0], q)
           /\ Hashes([[hn EXCEPT ![0] = hn[hn[0]]] EXCEPT ![hn[0]] = sl[HashTableSlot(h)]],
                     [sl EXCEPT ![HashTableSlot(h)] = hn[0]], [hv EXCEPT ![hn[0]] = h],
                     <<hn[0]>> \o q, RemoveAt(f, 1),
                     [c EXCEPT ![HashTableSlot(h)] = <<hn[0]>> \o c[HashTableSlot(h)]])
<1> DEFINE i == hn[0]
           k == HashTableSlot(h)
           hn2 == [[hn EXCEPT ![0] = hn[i]] EXCEPT ![i] = sl[k]]
           sl2 == [sl EXCEPT ![k] = i]
           hv2 == [hv EXCEPT ![i] = h]
           q2 == <<i>> \o q
           f2 == RemoveAt(f, 1)
           ck == <<i>> \o c[k]
           c2 == [c EXCEPT ![k] = ck]
<1>1. /\ hn \in LinkFields /\ sl \in [Slots -> LruIndices] /\ hv \in [LruIndices -> Nat]
      /\ Distinct(q) /\ Distinct(f) /\ c \in [Slots -> Seq(Entries)]
      /\ IsChain(hn, hn[0], f) /\ Len(q) + Len(f) = LruEntries
  BY DEF Hashes, Hashed
<1>2. /\ \A s \in Slots : Distinct(c[s]) /\ IsChain(hn, sl[s], c[s])
      /\ \A e \in Entries : In(e, q) <=> ~In(e, f)
      /\ \A s \in Slots : \A e \in Entries : In(e, c[s]) <=> (In(e, q) /\ HashTableSlot(hv[e]) = s)
  BY DEF Hashes
<1>3. /\ \A e, j \in Entries : In(e, q) /\ In(j, q) /\ hv[e] = hv[j] => e = j
      /\ \A e \in Entries : In(e, q) => hv[e] \in LruKeys
  BY DEF Hashes
<1>4. 1 \in 1..Len(f) /\ Len(f) \in Nat /\ Len(q) \in Nat
  BY <1>1, DistinctIs
<1>5. i = f[1] /\ i \in Entries /\ In(i, f) /\ ~In(i, q) /\ i # 0 /\ i \in LruIndices /\ 0 \in LruIndices
  <2>1. i = f[1]
    BY <1>1, <1>4, AtIs DEF IsChain
  <2>2. i \in Entries /\ In(i, f)
    BY <1>1, <1>4, <2>1, DistinctIs DEF In
  <2> QED BY <1>2, <2>1, <2>2, LruSizes
<1>6. h \in Nat /\ k \in Slots
  BY LruAssumption, SlotOf
<1>7. ~In(i, c[k])
  BY <1>2, <1>5, <1>6
<1>8. /\ hn2 \in LinkFields /\ hn2[0] = hn[i] /\ hn2[i] = sl[k]
      /\ \A e \in LruIndices : e # 0 /\ e # i => hn2[e] = hn[e]
  BY <1>1, <1>5, <1>6 DEF LinkFields
<1>9. sl2 \in [Slots -> LruIndices] /\ sl2[k] = i /\ \A s \in Slots : s # k => sl2[s] = sl[s]
  BY <1>1, <1>5, <1>6
<1>10. hv2 \in [LruIndices -> Nat] /\ hv2[i] = h /\ \A e \in LruIndices : e # i => hv2[e] = hv[e]
  BY <1>1, <1>5, <1>6
<1>11. Distinct(q2) /\ Len(q2) = Len(q) + 1 /\ \A e : In(e, q2) <=> (e = i \/ In(e, q))
  BY <1>1, <1>5, DistinctCons
<1>12. Distinct(f2) /\ Len(f2) = Len(f) - 1 /\ \A e : In(e, f2) <=> (e # i /\ In(e, f))
  BY <1>1, <1>4, <1>5, DistinctRemove
<1>13. Distinct(ck) /\ \A e : In(e, ck) <=> (e = i \/ In(e, c[k]))
  BY <1>2, <1>5, <1>6, <1>7, DistinctCons
<1>14. c2 \in [Slots -> Seq(Entries)] /\ c2[k] = ck /\ \A s \in Slots : s # k => c2[s] = c[s]
  BY <1>1, <1>6, <1>13 DEF Distinct
<1>15. IsChain(hn, hn[i], f2)
  BY <1>1, <1>4, <1>5, ChainPop
<1> HIDE DEF i, k, hn2, sl2, hv2, q2, f2, ck, c2
<1>16. IsChain(hn2, hn2[0], f2)
  <2>1. ASSUME NEW e, In(e, f2) PROVE hn2[e] = hn[e]
    BY <1>8, <1>12, <2>1, InIsEntry
  <2> QED BY <1>8, <1>12, <1>15, <2>1, ChainFrame
<1>17. ASSUME NEW s \in Slots PROVE Distinct(c2[s]) /\ IsChain(hn2, sl2[s], c2[s])
  <2>1. ASSUME NEW e, In(e, c[s]) PROVE hn2[e] = hn[e]
    <3>1. e \in Entries /\ e # 0 /\ e \in LruIndices
      BY <1>2, <2>1, InIsEntry
    <3>2. e # i
      BY <1>2, <1>5, <2>1, <3>1
    <3> QED BY <1>8, <3>1, <3>2
  <2>2. CASE s = k
    <3>1. IsChain(hn2, i, ck)
      BY <1>2, <1>5, <1>7, <1>8, <2>1, <2>2, ChainPush DEF ck
    <3> QED BY <1>9, <1>13, <1>14, <2>2, <3>1
  <2>3. CASE s # k
    <3>1. IsChain(hn2, sl[s], c[s])
      BY <1>2, <2>1, ChainFrame
    <3> QED BY <1>2, <1>9, <1>14, <2>3, <3>1
  <2> QED BY <2>2, <2>3
<1>18. \A e \in Entries : In(e, q2) <=> ~In(e, f2)
  BY <1>2, <1>5, <1>11, <1>12
<1>19. ASSUME NEW s \in Slots, NEW e \in Entries
       PROVE  In(e, c2[s]) <=> (In(e, q2) /\ HashTableSlot(hv2[e]) = s)
  <2>1. e \in LruIndices
    BY LruSizes
  <2>2. CASE e = i
    <3>1. ~In(e, c[s])
      BY <1>2, <1>5, <2>2
    <3>2. In(e, c2[s]) <=> s = k
      BY <1>13, <1>14, <2>2, <3>1
    <3> QED BY <1>10, <1>11, <2>2, <3>2 DEF k
  <2>3. CASE e # i
    <3>1. In(e, c2[s]) <=> In(e, c[s])
      BY <1>13, <1>14, <2>3
    <3> QED BY <1>2, <1>10, <1>11, <2>1, <2>3, <3>1
  <2> QED BY <2>2, <2>3
<1>20. ASSUME NEW e \in Entries, NEW j \in Entries, In(e, q2), In(j, q2), hv2[e] = hv2[j] PROVE e = j
  <2>1. e \in LruIndices /\ j \in LruIndices
    BY LruSizes
  <2> QED BY <1>3, <1>10, <1>11, <1>20, <2>1
<1>21. ASSUME NEW e \in Entries, In(e, q2) PROVE hv2[e] \in LruKeys
  <2>1. e \in LruIndices
    BY LruSizes
  <2> QED BY <1>3, <1>10, <1>11, <1>21, <2>1
<1>22. Len(q2) + Len(f2) = LruEntries
  BY <1>1, <1>4, <1>11, <1>12
<1>23. Hashes(hn2, sl2, hv2, q2, f2, c2)
  BY <1>8, <1>9, <1>10, <1>11, <1>12, <1>14, <1>16, <1>17, <1>18, <1>19, <1>20, <1>21, <1>22 DEF Hashes, Hashed
<1> QED BY <1>5, <1>23 DEF i, k, hn2, sl2, hv2, q2, f2, ck, c2

\* What unlinking entry i from its chain and putting it before the unused ones does to the links.
HashUnlinked(hn, i, chain, at) == IF at = 1 THEN hn ELSE [hn EXCEPT ![chain[at - 1]] = hn[i]]
SlotsUnlinked(hn, sl, k, i, at) == IF at = 1 THEN [sl EXCEPT ![k] = hn[i]] ELSE sl
Released(hn, i) == [[hn EXCEPT ![i] = hn[0]] EXCEPT ![0] = i]

\* A used entry leaves the chain of its slot and becomes the first unused one.
LEMMA HashRetire ==
    ASSUME NEW hn, NEW sl, NEW hv, NEW q, NEW f, NEW c, Hashes(hn, sl, hv, q, f, c), NEW j \in 1..Len(q),
           NEW k, k = HashTableSlot(hv[q[j]]), NEW at \in 1..Len(c[k]), c[k][at] = q[j]
    PROVE  Hashes(Released(HashUnlinked(hn, q[j], c[k], at), q[j]), SlotsUnlinked(hn, sl, k, q[j], at), hv,
                  RemoveAt(q, j), <<q[j]>> \o f, [c EXCEPT ![k] = RemoveAt(c[k], at)])
<1> DEFINE i == q[j]
           ck == RemoveAt(c[k], at)
           hn1 == HashUnlinked(hn, i, c[k], at)
           hn2 == Released(hn1, i)
           sl2 == SlotsUnlinked(hn, sl, k, i, at)
           q2 == RemoveAt(q, j)
           f2 == <<i>> \o f
           c2 == [c EXCEPT ![k] = ck]
<1>1. /\ hn \in LinkFields /\ sl \in [Slots -> LruIndices] /\ hv \in [LruIndices -> Nat]
      /\ Distinct(q) /\ Distinct(f) /\ c \in [Slots -> Seq(Entries)]
      /\ IsChain(hn, hn[0], f) /\ Len(q) + Len(f) = LruEntries
  BY DEF Hashes, Hashed
<1>2. /\ \A s \in Slots : Distinct(c[s]) /\ IsChain(hn, sl[s], c[s])
      /\ \A e \in Entries : In(e, q) <=> ~In(e, f)
      /\ \A s \in Slots : \A e \in Entries : In(e, c[s]) <=> (In(e, q) /\ HashTableSlot(hv[e]) = s)
  BY DEF Hashes
<1>3. /\ \A e, m \in Entries : In(e, q) /\ In(m, q) /\ hv[e] = hv[m] => e = m
      /\ \A e \in Entries : In(e, q) => hv[e] \in LruKeys
  BY DEF Hashes
<1>4. Len(f) \in Nat /\ Len(q) \in Nat
  BY <1>1, DistinctIs
<1>5. i \in Entries /\ In(i, q) /\ ~In(i, f) /\ i # 0 /\ i \in LruIndices /\ 0 \in LruIndices
  <2>1. In(i, q)
    BY DEF In
  <2> QED BY <1>1, <1>2, <2>1, InIsEntry, LruSizes
<1>6. k \in Slots /\ Distinct(c[k]) /\ IsChain(hn, sl[k], c[k]) /\ Len(c[k]) \in Nat
  <2>1. hv[i] \in Nat
    BY <1>1, <1>5
  <2>2. k \in Slots
    BY <2>1, SlotOf
  <2> QED BY <1>2, <2>2, DistinctIs
<1>7. Distinct(q2) /\ Len(q2) = Len(q) - 1 /\ \A e : In(e, q2) <=> (e # i /\ In(e, q))
  BY <1>1, DistinctRemove
<1>8. Distinct(f2) /\ Len(f2) = Len(f) + 1 /\ \A e : In(e, f2) <=> (e = i \/ In(e, f))
  BY <1>1, <1>5, DistinctCons
<1>9. Distinct(ck) /\ \A e : In(e, ck) <=> (e # i /\ In(e, c[k]))
  BY <1>6, DistinctRemove
<1>10. c2 \in [Slots -> Seq(Entries)] /\ c2[k] = ck /\ \A s \in Slots : s # k => c2[s] = c[s]
  BY <1>1, <1>6, <1>9 DEF Distinct
<1>11. sl2 \in [Slots -> LruIndices] /\ \A s \in Slots : s # k => sl2[s] = sl[s]
  BY <1>1, <1>5, <1>6 DEF SlotsUnlinked, LinkFields
\* The chain of the slot.
<1>12. hn1 \in LinkFields /\ IsChain(hn1, sl2[k], ck) /\ hn1[0] = hn[0]
       /\ \A e \in LruIndices : ~In(e, c[k]) => hn1[e] = hn[e]
  <2>1. CASE at = 1
    <3>1. hn1 = hn /\ sl2[k] = hn[i]
      BY <1>1, <1>6, <2>1 DEF HashUnlinked, SlotsUnlinked
    <3>2. IsChain(hn, hn[c[k][1]], RemoveAt(c[k], 1))
      BY <1>6, <2>1, ChainPop
    <3> QED BY <1>1, <2>1, <3>1, <3>2
  <2>2. CASE at # 1
    <3>1. at - 1 \in 1..Len(c[k])
      BY <1>6, <2>2
    <3>2. c[k][at - 1] \in Entries /\ In(c[k][at - 1], c[k]) /\ c[k][at - 1] # 0 /\ c[k][at - 1] \in LruIndices
      BY <1>6, <3>1, DistinctIs, LruSizes DEF In
    <3>3. hn1 = [hn EXCEPT ![c[k][at - 1]] = hn[c[k][at]]] /\ sl2 = sl
      BY <2>2 DEF HashUnlinked, SlotsUnlinked
    <3>4. IsChain([hn EXCEPT ![c[k][at - 1]] = hn[c[k][at]]], sl[k], RemoveAt(c[k], at))
      BY <1>1, <1>6, <2>2, ChainUnlink
    <3>5. hn[c[k][at]] \in LruIndices
      BY <1>1, <1>5 DEF LinkFields
    <3>6. hn1 \in LinkFields /\ hn1[0] = hn[0] /\ \A e \in LruIndices : ~In(e, c[k]) => hn1[e] = hn[e]
      <4> HIDE DEF hn1, ck
      <4> QED BY <1>1, <1>5, <3>2, <3>3, <3>5 DEF LinkFields
    <3> QED BY <3>3, <3>4, <3>6
  <2> QED BY <2>1, <2>2
<1> HIDE DEF hn1
<1>13. hn2 \in LinkFields /\ hn2[0] = i /\ hn2[i] = hn[0] /\ \A e \in LruIndices : e # 0 /\ e # i => hn2[e] = hn1[e]
  BY <1>5, <1>12 DEF Released, LinkFields
<1> HIDE DEF i, ck, hn2, sl2, q2, f2, c2
<1>14. IsChain(hn2, hn2[0], f2)
  <2>1. ASSUME NEW e, In(e, f) PROVE hn2[e] = hn[e]
    <3>1. e \in Entries /\ e # 0 /\ e \in LruIndices
      BY <1>1, <2>1, InIsEntry
    <3>2. e # i /\ ~In(e, c[k])
      BY <1>2, <1>5, <1>6, <2>1, <3>1
    <3> QED BY <1>12, <1>13, <3>1, <3>2
  <2> QED BY <1>1, <1>5, <1>13, <2>1, ChainPush DEF f2
<1>15. ASSUME NEW s \in Slots PROVE Distinct(c2[s]) /\ IsChain(hn2, sl2[s], c2[s])
  <2>1. CASE s = k
    <3>1. ASSUME NEW e, In(e, ck) PROVE hn2[e] = hn1[e]
      <4>1. e \in Entries /\ e # 0 /\ e \in LruIndices
        BY <1>9, <3>1, InIsEntry
      <4>2. e # i
        BY <1>9, <3>1
      <4> QED BY <1>13, <4>1, <4>2
    <3>2. IsChain(hn2, sl2[k], ck)
      BY <1>9, <1>12, <3>1, ChainFrame
    <3> QED BY <1>9, <1>10, <2>1, <3>2
  <2>2. CASE s # k
    <3>1. ASSUME NEW e, In(e, c[s]) PROVE hn2[e] = hn[e]
      <4>1. e \in Entries /\ e # 0 /\ e \in LruIndices
        BY <1>2, <3>1, InIsEntry
      <4>2. HashTableSlot(hv[e]) = s
        BY <1>2, <3>1, <4>1
      <4>3. e # i /\ ~In(e, c[k])
        BY <1>2, <1>6, <2>2, <4>1, <4>2 DEF i
      <4> QED BY <1>12, <1>13, <4>1, <4>3
    <3>2. IsChain(hn2, sl[s], c[s])
      BY <1>2, <3>1, ChainFrame
    <3> QED BY <1>2, <1>10, <1>11, <2>2, <3>2
  <2> QED BY <2>1, <2>2
<1>16. \A e \in Entries : In(e, q2) <=> ~In(e, f2)
  BY <1>2, <1>5, <1>7, <1>8
<1>17. ASSUME NEW s \in Slots, NEW e \in Entries
       PROVE  In(e, c2[s]) <=> (In(e, q2) /\ HashTableSlot(hv[e]) = s)
  <2>1. In(i, c[s]) <=> s = k
    BY <1>2, <1>5 DEF i
  <2> QED BY <1>2, <1>7, <1>9, <1>10, <2>1
<1>18. \A e, m \in Entries : In(e, q2) /\ In(m, q2) /\ hv[e] = hv[m] => e = m
  BY <1>3, <1>7
<1>19. \A e \in Entries : In(e, q2) => hv[e] \in LruKeys
  BY <1>3, <1>7
<1>20. Len(q2) + Len(f2) = LruEntries
  BY <1>1, <1>4, <1>7, <1>8
<1>21. Hashes(hn2, sl2, hv, q2, f2, c2)
  BY <1>1, <1>7, <1>8, <1>10, <1>11, <1>13, <1>14, <1>15, <1>16, <1>17, <1>18, <1>19, <1>20 DEF Hashes, Hashed
<1> QED BY <1>21 DEF i, ck, hn1, hn2, sl2, q2, f2, c2

LruFields == {"slots", "hashValue", "prevInLRU", "nextInLRU", "nextWithSameHash", "value", "size", "construct",
              "nested", "asked"}
\* The table with recency list q, unused entries f and chains c.
Table(s, q, f, c) ==
  /\ DOMAIN s = LruFields
  /\ Ring(s.nextInLRU, s.prevInLRU, q)
  /\ Hashes(s.nextWithSameHash, s.slots, s.hashValue, q, f, c)
  /\ s.value \in [LruIndices -> Int]
\* What is noted about the call is the same.
SameCalls(s, t) == t.construct = s.construct /\ t.nested = s.nested /\ t.asked = s.asked

\* The recency list read backwards is the same list.
LEMMA BackwardsIs ==
    ASSUME NEW nx, NEW pv, NEW q, Ring(nx, pv, q)
    PROVE  Reverse(Walk(pv, pv[0])) = q
<1> DEFINE r == Reverse(q)
<1>1. pv \in LinkFields /\ Distinct(q) /\ Len(q) \in Nat /\ IsRing(nx, pv, q)
  BY DistinctIs DEF Ring
<1>2. r \in Seq(Entries) /\ Len(r) = Len(q) /\ \A n \in 1..Len(q) : r[n] = q[(Len(q) - n) + 1]
  <2>1. r = [n \in 1..Len(q) |-> q[(Len(q) - n) + 1]]
    BY DEF Reverse
  <2>2. \A n \in 1..Len(q) : (Len(q) - n) + 1 \in 1..Len(q)
    BY <1>1
  <2>3. \A n \in 1..Len(q) : q[(Len(q) - n) + 1] \in Entries
    BY <1>1, <2>2, DistinctIs
  <2> HIDE DEF r
  <2> QED BY <1>1, <2>1, <2>3
<1> HIDE DEF r
<1>3. Distinct(r)
  <2>1. ASSUME NEW m \in 1..Len(r), NEW n \in 1..Len(r), r[m] = r[n] PROVE m = n
    <3>1. (Len(q) - m) + 1 \in 1..Len(q) /\ (Len(q) - n) + 1 \in 1..Len(q)
      BY <1>1, <1>2
    <3>2. q[(Len(q) - m) + 1] = q[(Len(q) - n) + 1]
      BY <1>2, <2>1
    <3>3. (Len(q) - m) + 1 = (Len(q) - n) + 1
      BY <1>1, <3>1, <3>2, DistinctIs
    <3> QED BY <1>1, <1>2, <3>3
  <2> QED BY <1>2, <2>1 DEF Distinct
<1>4. ASSUME NEW n \in Int PROVE At(r, n) = At(q, (Len(q) - n) + 1)
  <2>1. CASE n \in 1..Len(q)
    <3>1. (Len(q) - n) + 1 \in 1..Len(q)
      BY <1>1, <2>1
    <3> QED BY <1>1, <1>2, <1>3, <2>1, <3>1, AtIs
  <2>2. CASE n \notin 1..Len(q)
    <3>1. (Len(q) - n) + 1 \notin 1..Len(q) /\ (Len(q) - n) + 1 \in Int
      BY <1>1, <2>2
    <3> QED BY <1>1, <1>2, <1>3, <2>2, <3>1, AtIs
  <2> QED BY <2>1, <2>2
<1>5. IsChain(pv, pv[0], r)
  <2>1. pv[0] = At(r, 1)
    <3>1. (Len(q) - 1) + 1 = Len(q)
      BY <1>1
    <3>2. pv[0] = At(q, Len(q))
      BY <1>1, RingEnds
    <3> QED BY <1>4, <3>1, <3>2
  <2>2. ASSUME NEW n \in 1..Len(r) PROVE pv[r[n]] = At(r, n + 1)
    <3>1. (Len(q) - n) + 1 \in 1..Len(q) /\ ((Len(q) - n) + 1) - 1 = (Len(q) - (n + 1)) + 1
      BY <1>1, <1>2
    <3>2. pv[q[(Len(q) - n) + 1]] = At(q, ((Len(q) - n) + 1) - 1)
      BY <1>1, <3>1, RingEnds
    <3> QED BY <1>2, <1>4, <3>1, <3>2
  <2> QED BY <2>1, <2>2 DEF IsChain
<1>6. Walk(pv, pv[0]) = r
  BY <1>1, <1>3, <1>5, ChainWalk
<1>7. ASSUME NEW n \in 1..Len(q) PROVE r[(Len(q) - n) + 1] = q[n]
  <2>1. (Len(q) - n) + 1 \in 1..Len(q) /\ (Len(q) - ((Len(q) - n) + 1)) + 1 = n
    BY <1>1
  <2> QED BY <1>2, <2>1
<1>8. Reverse(r) = [n \in 1..Len(q) |-> r[(Len(q) - n) + 1]]
  BY <1>2 DEF Reverse
<1>9. q = [n \in 1..Len(q) |-> q[n]]
  BY <1>1, DistinctIs
<1> QED BY <1>6, <1>7, <1>8, <1>9

\* What walking through a table gives.
LEMMA ListsAre ==
    ASSUME NEW s, NEW q, NEW f, NEW c, Table(s, q, f, c)
    PROVE  /\ Used(s) = q /\ UsedBackwards(s) = q /\ Unused(s) = f
           /\ \A k \in Slots : Walk(s.nextWithSameHash, s.slots[k]) = c[k]
           /\ \A h \in Nat : Chain(s, h) = c[HashTableSlot(h)]
<1>1. /\ s.nextInLRU \in LinkFields /\ s.prevInLRU \in LinkFields /\ Distinct(q)
      /\ IsRing(s.nextInLRU, s.prevInLRU, q) /\ Ring(s.nextInLRU, s.prevInLRU, q)
  BY DEF Table, Ring
<1>2. /\ s.nextWithSameHash \in LinkFields /\ Distinct(f) /\ IsChain(s.nextWithSameHash, s.nextWithSameHash[0], f)
      /\ \A k \in Slots : Distinct(c[k]) /\ IsChain(s.nextWithSameHash, s.slots[k], c[k])
  BY DEF Table, Hashes, Hashed
<1>3. IsChain(s.nextInLRU, s.nextInLRU[0], q)
  BY <1>1, RingEnds DEF IsChain
<1>4. Used(s) = q
  BY <1>1, <1>3, ChainWalk DEF Used
<1>5. UsedBackwards(s) = q
  BY <1>1, BackwardsIs DEF UsedBackwards
<1>6. Unused(s) = f
  BY <1>2, ChainWalk DEF Unused
<1>7. \A k \in Slots : Walk(s.nextWithSameHash, s.slots[k]) = c[k]
  BY <1>2, ChainWalk
<1> QED BY <1>4, <1>5, <1>6, <1>7, SlotOf DEF Chain

\* A hash is found exactly when an entry of the recency list is for it.
LEMMA FoundIs ==
    ASSUME NEW s, NEW q, NEW f, NEW c, Table(s, q, f, c), NEW h \in LruKeys
    PROVE  \/ Found(s, h) = 0 /\ \A j \in 1..Len(q) : s.hashValue[q[j]] # h
           \/ \E j \in 1..Len(q) : Found(s, h) = q[j] /\ s.hashValue[q[j]] = h
<1>1. h \in Nat /\ HashTableSlot(h) \in Slots
  BY LruAssumption, SlotOf
<1> DEFINE k == HashTableSlot(h)
           hits == {n \in DOMAIN c[k] : s.hashValue[c[k][n]] = h}
<1>2. Found(s, h) = IF hits = {} THEN 0 ELSE c[k][Min(hits)]
  <2>1. Chain(s, h) = c[k]
    BY <1>1, ListsAre
  <2> HIDE DEF k
  <2> QED BY <2>1 DEF Found
<1>3. /\ Distinct(q) /\ Distinct(c[k])
      /\ \A i \in Entries : In(i, c[k]) <=> (In(i, q) /\ HashTableSlot(s.hashValue[i]) = k)
  BY <1>1 DEF Table, Hashes
<1>4. DOMAIN c[k] = 1..Len(c[k]) /\ Len(c[k]) \in Nat
  BY <1>3, DistinctIs
<1>5. CASE hits = {}
  <2>1. ASSUME NEW j \in 1..Len(q), s.hashValue[q[j]] = h PROVE FALSE
    <3>1. q[j] \in Entries /\ In(q[j], q)
      BY <1>3, DistinctIs DEF In
    <3>2. In(q[j], c[k])
      BY <1>3, <2>1, <3>1
    <3>3. PICK n \in 1..Len(c[k]) : c[k][n] = q[j]
      BY <3>2 DEF In
    <3>4. n \in hits
      BY <1>4, <2>1, <3>3
    <3> QED BY <1>5, <3>4
  <2> QED BY <1>2, <1>5, <2>1
<1>6. CASE hits # {}
  <2>1. hits \subseteq Nat
    BY <1>4
  <2>2. Min(hits) \in hits
    <3> HIDE DEF hits
    <3> QED BY <1>6, <2>1, MinOfSome
  <2>3. Min(hits) \in 1..Len(c[k]) /\ s.hashValue[c[k][Min(hits)]] = h
    BY <1>4, <2>2
  <2> DEFINE i == c[k][Min(hits)]
  <2>4. i \in Entries /\ In(i, c[k])
    BY <1>3, <2>3, DistinctIs DEF In
  <2>5. In(i, q)
    BY <1>3, <2>4
  <2>6. PICK j \in 1..Len(q) : q[j] = i
    BY <2>5 DEF In
  <2> QED BY <1>2, <1>6, <2>3, <2>6
<1> QED BY <1>5, <1>6

\* A hit moves an entry to the front and changes nothing else.
LEMMA HitIs ==
    ASSUME NEW s, NEW q, NEW f, NEW c, Table(s, q, f, c), NEW j \in 1..Len(q)
    PROVE  LET t == Hit(s, q[j])
           IN  /\ Table(t, <<q[j]>> \o RemoveAt(q, j), f, c) /\ SameCalls(s, t)
               /\ t.size = s.size /\ t.hashValue = s.hashValue /\ t.value = s.value
<1> DEFINE i == q[j]
           r == RemoveAt(q, j)
           q2 == <<i>> \o r
           u == UnlinkFromLRUChain(s, i)
           t == Hit(s, i)
<1>1. /\ DOMAIN s = LruFields /\ s.value \in [LruIndices -> Int]
      /\ Hashes(s.nextWithSameHash, s.slots, s.hashValue, q, f, c)
      /\ s.nextInLRU \in LinkFields /\ s.prevInLRU \in LinkFields /\ Distinct(q) /\ IsRing(s.nextInLRU, s.prevInLRU, q)
  BY DEF Table, Ring
<1>2. i \in Entries /\ i # 0 /\ i \in LruIndices /\ 0 \in LruIndices /\ In(i, q)
  BY <1>1, DistinctIs, LruSizes DEF In
<1>3. /\ DOMAIN u = LruFields
      /\ u.nextInLRU = [s.nextInLRU EXCEPT ![s.prevInLRU[i]] = s.nextInLRU[i]]
      /\ u.prevInLRU = [s.prevInLRU EXCEPT ![s.nextInLRU[i]] = s.prevInLRU[i]]
      /\ \A x \in LruFields \ {"nextInLRU", "prevInLRU"} : u[x] = s[x]
  BY <1>1 DEF UnlinkFromLRUChain, LruFields
<1>4. u.nextInLRU \in LinkFields /\ u.prevInLRU \in LinkFields
  BY <1>1, <1>2, <1>3 DEF LinkFields
<1>5. Distinct(r) /\ ~In(i, r) /\ \A e : In(e, r) <=> (e # i /\ In(e, q))
  BY <1>1, DistinctRemove
<1>6. IsRing(u.nextInLRU, u.prevInLRU, r)
  BY <1>1, <1>3, RingUnlink
<1> HIDE DEF u, r
<1>7. /\ DOMAIN t = LruFields
      /\ t.nextInLRU = [[u.nextInLRU EXCEPT ![i] = u.nextInLRU[0]] EXCEPT ![0] = i]
      /\ t.prevInLRU = [[u.prevInLRU EXCEPT ![i] = 0] EXCEPT ![u.nextInLRU[0]] = i]
      /\ \A x \in LruFields \ {"nextInLRU", "prevInLRU"} : t[x] = u[x]
  BY <1>3 DEF Hit, LinkToLRUChainHead, LruFields, u
<1>8. t.nextInLRU \in LinkFields /\ t.prevInLRU \in LinkFields
  BY <1>2, <1>4, <1>7 DEF LinkFields
<1>9. Distinct(q2) /\ Len(q2) = Len(r) + 1 /\ \A e : In(e, q2) <=> (e = i \/ In(e, r))
  BY <1>2, <1>5, DistinctCons
<1>10. IsRing(t.nextInLRU, t.prevInLRU, q2)
  BY <1>2, <1>4, <1>5, <1>6, <1>7, RingPush
<1>11. Len(q2) = Len(q) /\ \A e : In(e, q2) <=> In(e, q)
  <2>1. Len(r) = Len(q) - 1 /\ Len(q) \in Nat
    BY <1>1, DistinctRemove, DistinctIs DEF r
  <2> QED BY <1>2, <1>5, <1>9, <2>1
<1> HIDE DEF t, q2
<1>12. \A x \in LruFields \ {"nextInLRU", "prevInLRU"} : t[x] = s[x]
  BY <1>3, <1>7
<1>13. /\ t.nextWithSameHash = s.nextWithSameHash /\ t.slots = s.slots /\ t.hashValue = s.hashValue
       /\ t.value = s.value /\ t.size = s.size /\ SameCalls(s, t)
  BY <1>12 DEF LruFields, SameCalls
<1>14. Hashes(s.nextWithSameHash, s.slots, s.hashValue, q2, f, c)
  BY <1>1, <1>9, <1>11 DEF Hashes
<1>15. Ring(t.nextInLRU, t.prevInLRU, q2)
  BY <1>8, <1>9, <1>10 DEF Ring
<1>16. Table(t, q2, f, c)
  BY <1>1, <1>7, <1>13, <1>14, <1>15 DEF Table
<1> QED BY <1>13, <1>16 DEF t, q2, r

\* What unlinking entry i from its chain and releasing it do to the table.
LEMMA RetireIs ==
    ASSUME NEW s, NEW q, NEW f, NEW c, Table(s, q, f, c), NEW j \in 1..Len(q), NEW t, DOMAIN t = LruFields,
           t.nextWithSameHash = s.nextWithSameHash, t.slots = s.slots, t.hashValue = s.hashValue
    PROVE  LET u == UnlinkFromHash(t, q[j])
               v == Release(u, q[j])
           IN  /\ DOMAIN u = LruFields /\ DOMAIN v = LruFields
               /\ \A x \in LruFields \ {"slots", "nextWithSameHash"} : u[x] = t[x]
               /\ \E c2 : Hashes(v.nextWithSameHash, u.slots, s.hashValue, RemoveAt(q, j), <<q[j]>> \o f, c2)
<1> DEFINE i == q[j]
           k == HashTableSlot(s.hashValue[i])
           at == CHOOSE n \in DOMAIN c[k] : c[k][n] = i
           u == UnlinkFromHash(t, i)
           v == Release(u, i)
<1>1. /\ Hashes(s.nextWithSameHash, s.slots, s.hashValue, q, f, c) /\ Distinct(q)
      /\ s.hashValue \in [LruIndices -> Nat]
      /\ \A m \in Slots : Distinct(c[m])
      /\ \A m \in Slots : \A e \in Entries : In(e, c[m]) <=> (In(e, q) /\ HashTableSlot(s.hashValue[e]) = m)
  BY DEF Table, Hashes, Hashed
<1>2. i \in Entries /\ i # 0 /\ i \in LruIndices /\ In(i, q)
  BY <1>1, DistinctIs, LruSizes DEF In
<1>3. s.hashValue[i] \in Nat /\ k \in Slots /\ Distinct(c[k]) /\ In(i, c[k])
  BY <1>1, <1>2, SlotOf
<1>4. DOMAIN c[k] = 1..Len(c[k])
  BY <1>3, DistinctIs
<1>5. at \in 1..Len(c[k]) /\ c[k][at] = i
  BY <1>3, <1>4 DEF In
<1>6. Chain(t, t.hashValue[i]) = c[k]
  <2>1. Chain(s, s.hashValue[i]) = c[k]
    BY <1>3, ListsAre
  <2> QED BY <2>1 DEF Chain
<1>7. u = IF at = 1 THEN [t EXCEPT !.slots[k] = t.nextWithSameHash[i]]
          ELSE [t EXCEPT !.nextWithSameHash[c[k][at - 1]] = t.nextWithSameHash[i]]
  BY <1>6 DEF UnlinkFromHash
<1> HIDE DEF u, at, k, i
<1>8. /\ DOMAIN u = LruFields
      /\ u.nextWithSameHash = HashUnlinked(s.nextWithSameHash, i, c[k], at)
      /\ u.slots = SlotsUnlinked(s.nextWithSameHash, s.slots, k, i, at)
      /\ \A x \in LruFields \ {"slots", "nextWithSameHash"} : u[x] = t[x]
  <2>1. CASE at = 1
    BY <1>7, <2>1 DEF HashUnlinked, SlotsUnlinked, LruFields
  <2>2. CASE at # 1
    BY <1>7, <2>2 DEF HashUnlinked, SlotsUnlinked, LruFields
  <2> QED BY <2>1, <2>2
<1>9. DOMAIN v = LruFields /\ v.nextWithSameHash = Released(u.nextWithSameHash, i)
  BY <1>8 DEF Release, Released, LruFields
<1>10. Hashes(Released(HashUnlinked(s.nextWithSameHash, i, c[k], at), i),
              SlotsUnlinked(s.nextWithSameHash, s.slots, k, i, at), s.hashValue,
              RemoveAt(q, j), <<i>> \o f, [c EXCEPT ![k] = RemoveAt(c[k], at)])
  BY <1>1, <1>5, HashRetire DEF i, k
<1> HIDE DEF v
<1>11. \E c2 : Hashes(v.nextWithSameHash, u.slots, s.hashValue, RemoveAt(q, j), <<i>> \o f, c2)
  BY <1>8, <1>9, <1>10
<1> QED BY <1>8, <1>9, <1>11 DEF i, u, v

\* remove(): an entry leaves all lists but that of the unused entries.
LEMMA RemoveIs ==
    ASSUME NEW s, NEW q, NEW f, NEW c, Table(s, q, f, c), NEW j \in 1..Len(q), s.size \in Int
    PROVE  LET t == Freed(UnlinkFromHash(UnlinkFromLRUChain(s, q[j]), q[j]), q[j])
           IN  /\ \E c2 : Table(t, RemoveAt(q, j), <<q[j]>> \o f, c2)
               /\ SameCalls(s, t) /\ t.size = s.size - 1 /\ t.hashValue = s.hashValue /\ t.value = s.value
<1> DEFINE i == q[j]
           r == RemoveAt(q, j)
           a == UnlinkFromLRUChain(s, i)
           u == UnlinkFromHash(a, i)
           w == [u EXCEPT !.prevInLRU[i] = 0, !.nextInLRU[i] = u.nextInLRU[0]]
           t == Freed(u, i)
<1>1. /\ DOMAIN s = LruFields /\ s.value \in [LruIndices -> Int]
      /\ s.nextInLRU \in LinkFields /\ s.prevInLRU \in LinkFields /\ Distinct(q) /\ IsRing(s.nextInLRU, s.prevInLRU, q)
  BY DEF Table, Ring
<1>2. i \in Entries /\ i # 0 /\ i \in LruIndices /\ 0 \in LruIndices
  BY <1>1, DistinctIs, LruSizes
<1>3. /\ DOMAIN a = LruFields
      /\ a.nextInLRU = [s.nextInLRU EXCEPT ![s.prevInLRU[i]] = s.nextInLRU[i]]
      /\ a.prevInLRU = [s.prevInLRU EXCEPT ![s.nextInLRU[i]] = s.prevInLRU[i]]
      /\ \A x \in LruFields \ {"nextInLRU", "prevInLRU"} : a[x] = s[x]
  BY <1>1 DEF UnlinkFromLRUChain, LruFields
<1>4. a.nextInLRU \in LinkFields /\ a.prevInLRU \in LinkFields
  <2> DEFINE nx == s.nextInLRU
             pv == s.prevInLRU
  <2>1. nx[i] \in LruIndices /\ pv[i] \in LruIndices
        /\ nx \in [LruIndices -> LruIndices] /\ pv \in [LruIndices -> LruIndices]
    BY <1>1, <1>2 DEF LinkFields
  <2>2. a.nextInLRU = [nx EXCEPT ![pv[i]] = nx[i]] /\ a.prevInLRU = [pv EXCEPT ![nx[i]] = pv[i]]
    BY <1>3
  <2> HIDE DEF nx, pv, a, i
  <2> QED BY <2>1, <2>2 DEF LinkFields
<1>5. Distinct(r) /\ ~In(i, r)
  BY <1>1, DistinctRemove
<1>6. IsRing(a.nextInLRU, a.prevInLRU, r)
  BY <1>1, <1>3, RingUnlink
<1>7. a.nextWithSameHash = s.nextWithSameHash /\ a.slots = s.slots /\ a.hashValue = s.hashValue
  BY <1>3 DEF LruFields
<1> HIDE DEF a, r
<1>8. /\ DOMAIN u = LruFields
      /\ \A x \in LruFields \ {"slots", "nextWithSameHash"} : u[x] = a[x]
      /\ \E c2 : Hashes(Release(u, i).nextWithSameHash, u.slots, s.hashValue, r, <<i>> \o f, c2)
  BY <1>3, <1>7, RetireIs DEF r
<1> HIDE DEF u
<1>9. u.nextInLRU = a.nextInLRU /\ u.prevInLRU = a.prevInLRU
  BY <1>8 DEF LruFields
<1>10. /\ DOMAIN w = LruFields
       /\ w.prevInLRU = [a.prevInLRU EXCEPT ![i] = 0]
       /\ w.nextInLRU = [a.nextInLRU EXCEPT ![i] = a.nextInLRU[0]]
       /\ \A x \in LruFields \ {"nextInLRU", "prevInLRU"} : w[x] = u[x]
  BY <1>8, <1>9 DEF LruFields
<1>11. w.nextInLRU \in LinkFields /\ w.prevInLRU \in LinkFields
  BY <1>2, <1>4, <1>10 DEF LinkFields
<1>12. IsRing(w.nextInLRU, w.prevInLRU, r)
  <2>1. ASSUME NEW n \in 0..Len(r) PROVE At(r, n) \in LruIndices /\ At(r, n + 1) \in LruIndices
                                         /\ At(r, n) # i /\ At(r, n + 1) # i
    <3>1. n \in Int /\ n + 1 \in Int
      BY <1>5, DistinctIs
    <3>2. ASSUME NEW m \in Int PROVE At(r, m) \in LruIndices /\ At(r, m) # i
      <4>1. CASE m \in 1..Len(r)
        BY <1>5, <4>1, AtIs DEF In
      <4>2. CASE m \notin 1..Len(r)
        BY <1>2, <1>5, <4>2, AtIs
      <4> QED BY <1>5, <4>1, <4>2, AtIs
    <3> QED BY <3>1, <3>2
  <2> HIDE DEF w, i
  <2> QED BY <1>4, <1>6, <1>10, <2>1 DEF IsRing, LinkFields
<1> HIDE DEF w
<1>13. /\ DOMAIN t = LruFields /\ t.size = w.size - 1
       /\ t.nextWithSameHash = Released(w.nextWithSameHash, i)
       /\ \A x \in LruFields \ {"nextWithSameHash", "size"} : t[x] = w[x]
  BY <1>8, <1>10 DEF Freed, Release, Released, LruFields, w
<1>14. Release(u, i).nextWithSameHash = Released(u.nextWithSameHash, i)
  BY <1>8 DEF Release, Released, LruFields
<1> HIDE DEF t
<1>15. t.nextWithSameHash = Release(u, i).nextWithSameHash /\ t.slots = u.slots
       /\ t.nextInLRU = w.nextInLRU /\ t.prevInLRU = w.prevInLRU
  BY <1>10, <1>13, <1>14 DEF LruFields
<1>16. t.hashValue = s.hashValue /\ t.value = s.value /\ t.size = s.size - 1 /\ SameCalls(s, t)
  <2>1. \A x \in LruFields \ {"nextWithSameHash", "size", "slots", "nextInLRU", "prevInLRU"} : t[x] = s[x]
    BY <1>3, <1>8, <1>10, <1>13
  <2>2. w.size = s.size
    BY <1>3, <1>8, <1>10 DEF LruFields
  <2> QED BY <1>13, <2>1, <2>2 DEF LruFields, SameCalls
<1>17. PICK c2 : Hashes(Release(u, i).nextWithSameHash, u.slots, s.hashValue, r, <<i>> \o f, c2)
  BY <1>8
<1>18. Table(t, r, <<i>> \o f, c2)
  BY <1>1, <1>5, <1>11, <1>12, <1>13, <1>15, <1>16, <1>17 DEF Table, Ring
<1> QED BY <1>16, <1>18 DEF t, u, a, r

\* recycle(): the same for the last entry of the recency list.
LEMMA RecycleIs ==
    ASSUME NEW s, NEW q, NEW f, NEW c, Table(s, q, f, c), Len(q) >= 1
    PROVE  LET t == Recycle(s)
           IN  /\ \E c2 : Table(t, RemoveAt(q, Len(q)), <<q[Len(q)]>> \o f, c2)
               /\ SameCalls(s, t) /\ t.size = s.size /\ t.hashValue = s.hashValue /\ t.value = s.value
<1> DEFINE j == Len(q)
           i == q[j]
           r == RemoveAt(q, j)
           p == s.prevInLRU[i]
           a == [s EXCEPT !.nextInLRU[p] = 0, !.prevInLRU[0] = p]
           u == UnlinkFromHash(a, i)
           t == Recycle(s)
<1>1. /\ DOMAIN s = LruFields /\ s.value \in [LruIndices -> Int]
      /\ s.nextInLRU \in LinkFields /\ s.prevInLRU \in LinkFields /\ Distinct(q) /\ IsRing(s.nextInLRU, s.prevInLRU, q)
  BY DEF Table, Ring
<1>2. j \in 1..Len(q) /\ j \in Nat
  BY <1>1, DistinctIs
<1>3. i \in Entries /\ i # 0 /\ i \in LruIndices /\ 0 \in LruIndices
  BY <1>1, <1>2, DistinctIs, LruSizes
<1>4. s.prevInLRU[0] = i /\ s.nextInLRU[i] = 0
  <2>1. s.prevInLRU[0] = At(q, Len(q)) /\ s.nextInLRU[q[j]] = At(q, j + 1)
    BY <1>1, <1>2, RingEnds
  <2>2. At(q, Len(q)) = q[Len(q)]
    BY <1>1, <1>2, AtIs
  <2>3. At(q, j + 1) = 0
    BY <1>1, <1>2, AtIs
  <2> QED BY <2>1, <2>2, <2>3
<1>5. t = Release(u, i)
  BY <1>4 DEF Recycle
<1>6. /\ DOMAIN a = LruFields
      /\ a.nextInLRU = [s.nextInLRU EXCEPT ![s.prevInLRU[i]] = s.nextInLRU[i]]
      /\ a.prevInLRU = [s.prevInLRU EXCEPT ![s.nextInLRU[i]] = s.prevInLRU[i]]
      /\ \A x \in LruFields \ {"nextInLRU", "prevInLRU"} : a[x] = s[x]
  BY <1>1, <1>4 DEF LruFields
<1>7. a.nextInLRU \in LinkFields /\ a.prevInLRU \in LinkFields
  BY <1>1, <1>3, <1>6 DEF LinkFields
<1>8. Distinct(r)
  BY <1>1, <1>2, DistinctRemove
<1>9. IsRing(a.nextInLRU, a.prevInLRU, r)
  BY <1>1, <1>2, <1>6, RingUnlink
<1>10. a.nextWithSameHash = s.nextWithSameHash /\ a.slots = s.slots /\ a.hashValue = s.hashValue
  BY <1>6 DEF LruFields
<1> HIDE DEF a, r, j
<1>11. /\ DOMAIN u = LruFields
       /\ \A x \in LruFields \ {"slots", "nextWithSameHash"} : u[x] = a[x]
       /\ \E c2 : Hashes(Release(u, i).nextWithSameHash, u.slots, s.hashValue, r, <<i>> \o f, c2)
  BY <1>2, <1>6, <1>10, RetireIs DEF r
<1> HIDE DEF u
<1>12. /\ DOMAIN t = LruFields /\ \A x \in LruFields \ {"nextWithSameHash"} : t[x] = u[x]
  BY <1>5, <1>11 DEF Release, LruFields
<1> HIDE DEF t
<1>13. t.slots = u.slots /\ t.nextInLRU = a.nextInLRU /\ t.prevInLRU = a.prevInLRU
  BY <1>11, <1>12 DEF LruFields
<1>14. t.hashValue = s.hashValue /\ t.value = s.value /\ t.size = s.size /\ SameCalls(s, t)
  <2>1. \A x \in LruFields \ {"nextWithSameHash", "slots", "nextInLRU", "prevInLRU"} : t[x] = s[x]
    BY <1>6, <1>11, <1>12
  <2> QED BY <2>1 DEF LruFields, SameCalls
<1>15. PICK c2 : Hashes(t.nextWithSameHash, u.slots, s.hashValue, r, <<i>> \o f, c2)
  BY <1>5, <1>11
<1>16. Table(t, r, <<i>> \o f, c2)
  BY <1>1, <1>7, <1>8, <1>9, <1>12, <1>13, <1>14, <1>15 DEF Table, Ring
<1> QED BY <1>14, <1>16 DEF t, r, j

\* The first unused entry becomes the first used one.
LEMMA PopIs ==
    ASSUME NEW s, NEW q, NEW f, NEW c, Table(s, q, f, c), Len(f) >= 1,
           NEW h \in LruKeys, \A j \in 1..Len(q) : s.hashValue[q[j]] # h
    PROVE  LET i == s.nextWithSameHash[0]
               t == LinkToLRUChainHead(Popped(s, h), i)
           IN  /\ i \in Entries /\ ~In(i, q)
               /\ \E c2 : Table(t, <<i>> \o q, RemoveAt(f, 1), c2)
               /\ SameCalls(s, t) /\ t.size = s.size
               /\ t.hashValue = [s.hashValue EXCEPT ![i] = h] /\ t.value = [s.value EXCEPT ![i] = NoEntryValue]
<1> DEFINE i == s.nextWithSameHash[0]
           k == HashTableSlot(h)
           u == Popped(s, h)
           t == LinkToLRUChainHead(u, i)
<1>1. /\ DOMAIN s = LruFields /\ s.value \in [LruIndices -> Int]
      /\ Hashes(s.nextWithSameHash, s.slots, s.hashValue, q, f, c)
      /\ s.nextInLRU \in LinkFields /\ s.prevInLRU \in LinkFields /\ Distinct(q) /\ IsRing(s.nextInLRU, s.prevInLRU, q)
  BY DEF Table, Ring
<1>2. \A e \in Entries : In(e, q) => s.hashValue[e] # h
  BY DEF In
<1>3. /\ i \in Entries /\ ~In(i, q)
      /\ Hashes([[s.nextWithSameHash EXCEPT ![0] = s.nextWithSameHash[i]] EXCEPT ![i] = s.slots[k]],
                [s.slots EXCEPT ![k] = i], [s.hashValue EXCEPT ![i] = h],
                <<i>> \o q, RemoveAt(f, 1), [c EXCEPT ![k] = <<i>> \o c[k]])
  BY <1>1, <1>2, HashPop
<1>4. i # 0 /\ i \in LruIndices /\ 0 \in LruIndices
  BY <1>3, LruSizes
<1>5. /\ DOMAIN u = LruFields
      /\ u.nextWithSameHash = [[s.nextWithSameHash EXCEPT ![0] = s.nextWithSameHash[i]] EXCEPT ![i] = s.slots[k]]
      /\ u.slots = [s.slots EXCEPT ![k] = i] /\ u.hashValue = [s.hashValue EXCEPT ![i] = h]
      /\ u.value = [s.value EXCEPT ![i] = NoEntryValue]
      /\ \A x \in LruFields \ {"nextWithSameHash", "slots", "hashValue", "value"} : u[x] = s[x]
  BY <1>1 DEF Popped, LruFields
<1> HIDE DEF u
<1>6. u.nextInLRU = s.nextInLRU /\ u.prevInLRU = s.prevInLRU
  BY <1>5 DEF LruFields
<1>7. /\ DOMAIN t = LruFields
      /\ t.nextInLRU = [[u.nextInLRU EXCEPT ![i] = u.nextInLRU[0]] EXCEPT ![0] = i]
      /\ t.prevInLRU = [[u.prevInLRU EXCEPT ![i] = 0] EXCEPT ![u.nextInLRU[0]] = i]
      /\ \A x \in LruFields \ {"nextInLRU", "prevInLRU"} : t[x] = u[x]
  BY <1>5 DEF LinkToLRUChainHead, LruFields
<1>8. t.nextInLRU \in LinkFields /\ t.prevInLRU \in LinkFields
  <2> DEFINE nx == s.nextInLRU
             pv == s.prevInLRU
  <2>1. nx[0] \in LruIndices /\ nx \in [LruIndices -> LruIndices] /\ pv \in [LruIndices -> LruIndices]
    BY <1>1, <1>4 DEF LinkFields
  <2>2. /\ t.nextInLRU = [[nx EXCEPT ![i] = nx[0]] EXCEPT ![0] = i]
        /\ t.prevInLRU = [[pv EXCEPT ![i] = 0] EXCEPT ![nx[0]] = i]
    BY <1>6, <1>7
  <2> HIDE DEF nx, pv, t, i
  <2> QED BY <1>4, <2>1, <2>2 DEF LinkFields
<1>9. Distinct(<<i>> \o q)
  BY <1>1, <1>3, DistinctCons
<1>10. IsRing(t.nextInLRU, t.prevInLRU, <<i>> \o q)
  BY SMTT(30), <1>1, <1>3, <1>6, <1>7, RingPush
<1> HIDE DEF t
<1>11. /\ t.nextWithSameHash = u.nextWithSameHash /\ t.slots = u.slots /\ t.hashValue = u.hashValue /\ t.value = u.value
  BY <1>7 DEF LruFields
<1>12. t.size = s.size /\ SameCalls(s, t)
  BY <1>5, <1>7 DEF LruFields, SameCalls
<1>13. u.value \in [LruIndices -> Int]
  BY <1>1, <1>4, <1>5 DEF NoEntryValue
<1>14. Table(t, <<i>> \o q, RemoveAt(f, 1), [c EXCEPT ![k] = <<i>> \o c[k]])
  BY <1>3, <1>5, <1>7, <1>8, <1>9, <1>10, <1>11, <1>13 DEF Table, Ring
<1> QED BY <1>3, <1>5, <1>11, <1>12, <1>14 DEF t, u

\* A full table makes room by dropping the last entry.
Room(q) == IF Len(q) = LruEntries THEN RemoveAt(q, Len(q)) ELSE q

\* The entry i is the first one, for h and without a value.
Allocated(s, t, r, h, i) ==
  /\ ~In(i, r) /\ \E f, c : Table(t, <<i>> \o r, f, c)
  /\ t.hashValue = [s.hashValue EXCEPT ![i] = h] /\ t.value = [s.value EXCEPT ![i] = NoEntryValue]
\* No entry is for h.
Absent(s, q, h) == \A j \in 1..Len(q) : s.hashValue[q[j]] # h

\* allocateEntry(): a full table first recycles its last entry.
LEMMA AllocateIs ==
    ASSUME NEW s, NEW q, NEW f, NEW c, Table(s, q, f, c), s.size = Len(q), NEW h \in LruKeys, Absent(s, q, h)
    PROVE  /\ SameCalls(s, AllocateEntry(s, h)) /\ AllocateEntry(s, h).size = Len(Room(q)) + 1
           /\ \E i \in Entries : Allocated(s, AllocateEntry(s, h), Room(q), h, i)
<1> USE DEF Absent
<1> DEFINE t == AllocateEntry(s, h)
           Out(r) == /\ SameCalls(s, t) /\ t.size = Len(r) + 1
                     /\ \E i \in Entries : Allocated(s, t, r, h, i)
<1>1. /\ DOMAIN s = LruFields /\ Distinct(q) /\ Distinct(f) /\ Len(q) \in Nat /\ Len(f) \in Nat
      /\ Len(q) + Len(f) = LruEntries /\ IsChain(s.nextWithSameHash, s.nextWithSameHash[0], f)
      /\ LruEntries \in Nat /\ LruEntries >= 2
  BY DistinctIs, LruSizes DEF Table, Ring, Hashes
<1>2. s.nextWithSameHash[0] = At(f, 1)
  BY <1>1 DEF IsChain
<1>3. CASE Len(f) = 0
  <2>1. s.nextWithSameHash[0] = 0
    BY <1>1, <1>2, <1>3, AtIs
  <2>2. Len(q) = LruEntries /\ Len(q) >= 1 /\ Len(q) \in 1..Len(q)
    BY <1>1, <1>3
  <2> DEFINE u == Recycle(s)
             r == RemoveAt(q, Len(q))
             f1 == <<q[Len(q)]>> \o f
  <2>3. /\ \E c2 : Table(u, r, f1, c2)
        /\ SameCalls(s, u) /\ u.size = s.size /\ u.hashValue = s.hashValue /\ u.value = s.value
    BY <2>2, RecycleIs
  <2>4. t = LinkToLRUChainHead(Popped(u, h), u.nextWithSameHash[0])
    BY <2>1 DEF AllocateEntry
  <2>5. Distinct(r) /\ Len(r) = Len(q) - 1 /\ \A e : In(e, r) <=> (e # q[Len(q)] /\ In(e, q))
    BY <1>1, <2>2, DistinctRemove
  <2>6. Len(f1) >= 1
    <3>1. q[Len(q)] \in Entries /\ f \in Seq(Entries)
      BY <1>1, <2>2, DistinctIs
    <3>2. Len(f1) = Len(f) + 1
      BY <3>1, ConsElements
    <3> QED BY <1>1, <3>2
  <2>7. PICK c1 : Table(u, r, f1, c1)
    BY <2>3
  <2> HIDE DEF u, r, f1, t
  <2>8. \A j \in 1..Len(r) : u.hashValue[r[j]] # h
    <3>1. ASSUME NEW j \in 1..Len(r) PROVE s.hashValue[r[j]] # h
      <4>1. In(r[j], q)
        BY <2>5 DEF In
      <4> QED BY <4>1 DEF In
    <3> QED BY <2>3, <3>1
  <2> DEFINE i == u.nextWithSameHash[0]
  <2>9. /\ i \in Entries /\ ~In(i, r)
        /\ \E c2 : Table(t, <<i>> \o r, RemoveAt(f1, 1), c2)
        /\ SameCalls(u, t) /\ t.size = u.size
        /\ t.hashValue = [u.hashValue EXCEPT ![i] = h] /\ t.value = [u.value EXCEPT ![i] = NoEntryValue]
    <3> DEFINE v == LinkToLRUChainHead(Popped(u, h), i)
    <3>1. /\ i \in Entries /\ ~In(i, r)
          /\ \E c2 : Table(v, <<i>> \o r, RemoveAt(f1, 1), c2)
          /\ SameCalls(u, v) /\ v.size = u.size
          /\ v.hashValue = [u.hashValue EXCEPT ![i] = h] /\ v.value = [u.value EXCEPT ![i] = NoEntryValue]
      BY <2>6, <2>7, <2>8, PopIs
    <3>2. t = v
      BY <2>4
    <3> HIDE DEF v
    <3> QED BY <3>1, <3>2
  <2> HIDE DEF i
  <2>10. SameCalls(s, t) /\ t.size = Len(r) + 1
    BY <1>1, <2>3, <2>5, <2>9 DEF SameCalls
  <2>11. Out(r)
    BY <2>3, <2>9, <2>10 DEF Allocated
  <2>12. Room(q) = r
    BY <2>2 DEF Room, r
  <2> QED BY <2>11, <2>12 DEF t
<1>4. CASE Len(f) # 0
  <2>1. s.nextWithSameHash[0] # 0
    <3>1. 1 \in 1..Len(f)
      BY <1>1, <1>4
    <3> QED BY <1>1, <1>2, <3>1, AtIs
  <2> DEFINE u == [s EXCEPT !.size = @ + 1]
             i == u.nextWithSameHash[0]
  <2>2. t = LinkToLRUChainHead(Popped(u, h), i)
    BY <2>1 DEF AllocateEntry
  <2>3. DOMAIN u = LruFields /\ u.size = s.size + 1 /\ \A x \in LruFields \ {"size"} : u[x] = s[x]
    BY <1>1 DEF LruFields
  <2> HIDE DEF u
  <2>4. /\ u.nextWithSameHash = s.nextWithSameHash /\ u.slots = s.slots /\ u.nextInLRU = s.nextInLRU
        /\ u.prevInLRU = s.prevInLRU /\ u.hashValue = s.hashValue /\ u.value = s.value /\ SameCalls(s, u)
    BY <2>3 DEF LruFields, SameCalls
  <2>5. Table(u, q, f, c) /\ Len(f) >= 1
    BY <1>1, <1>4, <2>3, <2>4 DEF Table
  <2>6. \A j \in 1..Len(q) : u.hashValue[q[j]] # h
    BY <2>4
  <2> HIDE DEF t
  <2>7. /\ i \in Entries /\ ~In(i, q)
        /\ \E c2 : Table(t, <<i>> \o q, RemoveAt(f, 1), c2)
        /\ SameCalls(u, t) /\ t.size = u.size
        /\ t.hashValue = [u.hashValue EXCEPT ![i] = h] /\ t.value = [u.value EXCEPT ![i] = NoEntryValue]
    BY <2>2, <2>5, <2>6, PopIs
  <2> HIDE DEF i
  <2>8. SameCalls(s, t) /\ t.size = Len(q) + 1
    BY <2>3, <2>4, <2>7 DEF SameCalls
  <2>9. Out(q)
    BY <2>4, <2>7, <2>8 DEF Allocated
  <2>10. Room(q) = q
    BY <1>1, <1>4 DEF Room
  <2> QED BY <2>9, <2>10 DEF t
<1> QED BY <1>3, <1>4

\* What the table holds along a list of its entries.
Pair(s, i) == <<s.hashValue[i], s.value[i]>>
Pairs(s, q) == [n \in 1..Len(q) |-> Pair(s, q[n])]
PairSet == Nat \X Int
TypedEntries(s) == s.hashValue \in [LruIndices -> Nat] /\ s.value \in [LruIndices -> Int]

\* What the lists of a table say about its hashes.
LEMMA TableIs ==
    ASSUME NEW s, NEW q, NEW f, NEW c, Table(s, q, f, c)
    PROVE  /\ DOMAIN s = LruFields /\ Distinct(q) /\ Len(q) <= LruEntries /\ TypedEntries(s)
           /\ \A n \in 1..Len(q) : s.hashValue[q[n]] \in LruKeys
           /\ \A m, n \in 1..Len(q) : s.hashValue[q[m]] = s.hashValue[q[n]] => m = n
<1>1. /\ DOMAIN s = LruFields /\ Distinct(q) /\ TypedEntries(s)
      /\ \A i, j \in Entries : In(i, q) /\ In(j, q) /\ s.hashValue[i] = s.hashValue[j] => i = j
      /\ \A i \in Entries : In(i, q) => s.hashValue[i] \in LruKeys
  BY DEF Table, Hashes, Hashed, Ring, TypedEntries
<1>2. \A n \in 1..Len(q) : q[n] \in Entries /\ In(q[n], q)
  BY <1>1, DistinctIs DEF In
<1>3. \A m, n \in 1..Len(q) : s.hashValue[q[m]] = s.hashValue[q[n]] => m = n
  <2>1. ASSUME NEW m \in 1..Len(q), NEW n \in 1..Len(q), s.hashValue[q[m]] = s.hashValue[q[n]] PROVE m = n
    <3>1. q[m] = q[n]
      BY <1>1, <1>2, <2>1
    <3> QED BY <1>1, <3>1, DistinctIs
  <2> QED BY <2>1
<1> QED BY <1>1, <1>2, <1>3, DistinctFits

\* The pairs along a list.
LEMMA PairsAre ==
    ASSUME NEW s, TypedEntries(s), NEW q, Distinct(q)
    PROVE  /\ Pairs(s, q) \in Seq(PairSet) /\ Len(Pairs(s, q)) = Len(q) /\ DOMAIN Pairs(s, q) = 1..Len(q)
           /\ \A n \in 1..Len(q) : Pairs(s, q)[n] = Pair(s, q[n]) /\ Pair(s, q[n]) \in PairSet
<1>1. Len(q) \in Nat /\ \A n \in 1..Len(q) : q[n] \in LruIndices
  BY DistinctIs, LruSizes
<1>2. \A n \in 1..Len(q) : Pair(s, q[n]) \in PairSet
  BY <1>1 DEF Pair, PairSet, TypedEntries
<1> HIDE DEF PairSet
<1>3. Pairs(s, q) \in [1..Len(q) -> PairSet]
  BY <1>2 DEF Pairs
<1>4. Pairs(s, q) \in Seq(PairSet)
  BY <1>1, <1>3
<1>5. Len(Pairs(s, q)) = Len(q)
  BY <1>1, <1>3, <1>4
<1> QED BY <1>2, <1>3, <1>4, <1>5 DEF Pairs

\* They are the same where hashes and values are.
LEMMA PairsSame ==
    ASSUME NEW s, NEW t, NEW q, \A n \in 1..Len(q) : Pair(t, q[n]) = Pair(s, q[n])
    PROVE  Pairs(t, q) = Pairs(s, q)
BY DEF Pairs

\* The pairs along a list with one more entry at its front.
LEMMA PairsCons ==
    ASSUME NEW s, TypedEntries(s), NEW q, Distinct(q), NEW i \in Entries, ~In(i, q)
    PROVE  Pairs(s, <<i>> \o q) = <<Pair(s, i)>> \o Pairs(s, q)
<1> DEFINE p == <<i>> \o q
           C == Pairs(s, q)
           D == Pairs(s, p)
           E == <<Pair(s, i)>> \o C
<1>1. Distinct(p) /\ Len(p) = Len(q) + 1 /\ Len(q) \in Nat
  BY DistinctCons, DistinctIs
<1>2. q \in Seq(Entries)
  BY DistinctIs
<1>3. \A n \in 1..Len(q) + 1 : p[n] = IF n = 1 THEN i ELSE q[n - 1]
  BY <1>2, ConsElements
<1>4. C \in Seq(PairSet) /\ Len(C) = Len(q) /\ \A n \in 1..Len(q) : C[n] = Pair(s, q[n])
  BY PairsAre
<1> HIDE DEF p
<1>5. D \in Seq(PairSet) /\ Len(D) = Len(p) /\ \A n \in 1..Len(p) : D[n] = Pair(s, p[n])
  BY <1>1, PairsAre
<1>6. Pair(s, i) \in PairSet
  BY LruSizes DEF Pair, PairSet, TypedEntries
<1> HIDE DEF C, D, PairSet
<1>7. E \in Seq(PairSet) /\ Len(E) = Len(C) + 1 /\ \A n \in 1..Len(C) + 1 : E[n] = IF n = 1 THEN Pair(s, i) ELSE C[n - 1]
  BY <1>4, <1>6, ConsElements
<1> HIDE DEF E
<1>8. ASSUME NEW n \in 1..Len(D) PROVE D[n] = E[n]
  <2>1. CASE n = 1
    BY <1>1, <1>3, <1>4, <1>5, <1>7, <2>1
  <2>2. CASE n # 1
    <3>1. n - 1 \in 1..Len(q) /\ n \in 1..Len(q) + 1
      BY <1>1, <1>5, <2>2
    <3>2. D[n] = Pair(s, q[n - 1])
      BY <1>1, <1>3, <1>5, <2>2, <3>1
    <3>3. E[n] = C[n - 1]
      BY <1>4, <1>7, <2>2, <3>1
    <3> QED BY <1>4, <3>1, <3>2, <3>3
  <2> QED BY <2>1, <2>2
<1>9. Len(D) = Len(E)
  BY <1>1, <1>4, <1>5, <1>7
<1>10. D = E
  BY <1>5, <1>7, <1>8, <1>9
<1> QED BY <1>10 DEF D, E, C, p

\* The pairs along a list without one entry.
LEMMA PairsRemove ==
    ASSUME NEW s, TypedEntries(s), NEW q, Distinct(q), NEW j \in 1..Len(q)
    PROVE  Pairs(s, RemoveAt(q, j)) = RemoveAt(Pairs(s, q), j)
<1> DEFINE p == RemoveAt(q, j)
           C == Pairs(s, q)
           D == Pairs(s, p)
           E == RemoveAt(C, j)
<1>1. Distinct(p) /\ Len(p) = Len(q) - 1 /\ Len(q) \in Nat
  BY DistinctRemove, DistinctIs
<1>2. q \in Seq(Entries)
  BY DistinctIs
<1>3. \A n \in 1..Len(q) - 1 : p[n] = IF n < j THEN q[n] ELSE q[n + 1]
  BY <1>2, RemoveAtElements
<1>4. C \in Seq(PairSet) /\ Len(C) = Len(q) /\ \A n \in 1..Len(q) : C[n] = Pair(s, q[n])
  BY PairsAre
<1> HIDE DEF p
<1>5. D \in Seq(PairSet) /\ Len(D) = Len(p) /\ \A n \in 1..Len(p) : D[n] = Pair(s, p[n])
  BY <1>1, PairsAre
<1> HIDE DEF C, D, PairSet
<1>6. j \in 1..Len(C)
  BY <1>4
<1>7. E \in Seq(PairSet) /\ Len(E) = Len(C) - 1 /\ \A n \in 1..Len(C) - 1 : E[n] = IF n < j THEN C[n] ELSE C[n + 1]
  BY <1>4, <1>6, RemoveAtElements
<1> HIDE DEF E
<1>8. ASSUME NEW n \in 1..Len(D) PROVE D[n] = E[n]
  <2>1. n \in 1..Len(q) - 1 /\ n \in 1..Len(q) /\ n + 1 \in 1..Len(q)
    BY <1>1, <1>5
  <2>2. D[n] = IF n < j THEN Pair(s, q[n]) ELSE Pair(s, q[n + 1])
    BY <1>1, <1>3, <1>5, <2>1
  <2>3. E[n] = IF n < j THEN C[n] ELSE C[n + 1]
    BY <1>4, <1>7, <2>1
  <2> QED BY <1>4, <2>1, <2>2, <2>3
<1>9. Len(D) = Len(E)
  BY <1>1, <1>4, <1>5, <1>7
<1>10. D = E
  BY <1>5, <1>7, <1>8, <1>9
<1> QED BY <1>10 DEF D, E, C, p

\* Front() drops the last element.
LEMMA FrontIsRemove ==
    ASSUME NEW S, NEW q \in Seq(S), Len(q) >= 1
    PROVE  Front(q) = RemoveAt(q, Len(q))
<1> DEFINE n == Len(q)
           a == SubSeq(q, 1, n - 1)
           b == SubSeq(q, n + 1, n)
<1>1. n \in Nat /\ \A k \in 1..n : q[k] \in S
  BY LenProperties
<1>2. a \in Seq(S)
  <2>1. n - 1 \in 0..n /\ \A k \in 1..n - 1 : q[k] \in S
    BY <1>1
  <2> QED BY <1>1, <2>1, SubSeqProperties
<1>3. b = <<>>
  BY <1>1
<1>4. a \o b = a
  <2> HIDE DEF a, b
  <2> QED BY <1>2, <1>3
<1> QED BY <1>4 DEF Front, RemoveAt

\* The operators of LruCache, of any cache C.
KeysOf(C) == {C[i][1] : i \in DOMAIN C}
PlaceIn(C, k) == CHOOSE i \in DOMAIN C : C[i][1] = k
Less(C, k) == IF k \in KeysOf(C) THEN RemoveAt(C, PlaceIn(C, k)) ELSE C
Trim(C) == IF Len(C) = LruEntries THEN Front(C) ELSE C

\* The cache holds the hash of an entry, at the place of the entry.
LEMMA HeldIs ==
    ASSUME NEW s, NEW q, NEW f, NEW c, Table(s, q, f, c), NEW j \in 1..Len(q)
    PROVE  LET C == Pairs(s, q)
               h == s.hashValue[q[j]]
           IN  /\ h \in KeysOf(C) /\ PlaceIn(C, h) = j /\ Less(C, h) = Pairs(s, RemoveAt(q, j))
               /\ Trim(Less(C, h)) = Pairs(s, RemoveAt(q, j))
<1> DEFINE C == Pairs(s, q)
           h == s.hashValue[q[j]]
           r == RemoveAt(q, j)
<1>1. /\ Distinct(q) /\ TypedEntries(s) /\ Len(q) <= LruEntries
      /\ \A m, n \in 1..Len(q) : s.hashValue[q[m]] = s.hashValue[q[n]] => m = n
  BY TableIs
<1>2. DOMAIN C = 1..Len(q) /\ \A n \in 1..Len(q) : C[n] = Pair(s, q[n])
  BY <1>1, PairsAre
<1>3. \A n \in 1..Len(q) : C[n][1] = s.hashValue[q[n]]
  BY <1>2 DEF Pair
<1>4. Pairs(s, r) = RemoveAt(C, j)
  BY <1>1, PairsRemove
<1>5. Distinct(r) /\ Len(r) = Len(q) - 1 /\ Len(q) \in Nat /\ LruEntries \in Nat
  BY <1>1, DistinctRemove, DistinctIs, LruSizes
<1>6. Len(Pairs(s, r)) = Len(r)
  BY <1>1, <1>5, PairsAre
<1> HIDE DEF C, r
<1>7. h \in KeysOf(C)
  BY <1>2, <1>3 DEF KeysOf
<1>8. \A i \in DOMAIN C : C[i][1] = h <=> i = j
  BY <1>1, <1>2, <1>3
<1>9. PlaceIn(C, h) = j
  BY <1>2, <1>8 DEF PlaceIn
<1>10. Less(C, h) = Pairs(s, r)
  BY <1>4, <1>7, <1>9 DEF Less
<1>11. Len(r) # LruEntries
  BY <1>1, <1>5
<1>12. Trim(Less(C, h)) = Pairs(s, r)
  BY <1>6, <1>10, <1>11 DEF Trim
<1> QED BY <1>7, <1>9, <1>10, <1>12 DEF C, r

\* The cache does not hold other hashes; a full one drops its last entry.
LEMMA NotHeldIs ==
    ASSUME NEW s, NEW q, NEW f, NEW c, Table(s, q, f, c), NEW h, \A j \in 1..Len(q) : s.hashValue[q[j]] # h
    PROVE  LET C == Pairs(s, q)
           IN  h \notin KeysOf(C) /\ Less(C, h) = C /\ Trim(Less(C, h)) = Pairs(s, Room(q))
<1> DEFINE C == Pairs(s, q)
<1>1. Distinct(q) /\ TypedEntries(s) /\ Len(q) \in Nat /\ LruEntries \in Nat /\ LruEntries >= 2
  BY TableIs, DistinctIs, LruSizes
<1>2. C \in Seq(PairSet) /\ Len(C) = Len(q) /\ DOMAIN C = 1..Len(q) /\ \A n \in 1..Len(q) : C[n] = Pair(s, q[n])
  BY <1>1, PairsAre
<1>3. \A n \in 1..Len(q) : C[n][1] = s.hashValue[q[n]]
  BY <1>2 DEF Pair
<1>4. ASSUME Len(q) = LruEntries PROVE Pairs(s, RemoveAt(q, Len(q))) = Front(C)
  <2>1. Len(q) \in 1..Len(q) /\ Len(q) >= 1
    BY <1>1, <1>4
  <2>2. Pairs(s, RemoveAt(q, Len(q))) = RemoveAt(C, Len(q))
    BY <1>1, <2>1, PairsRemove
  <2> HIDE DEF C
  <2>3. Front(C) = RemoveAt(C, Len(C))
    BY <1>2, <2>1, FrontIsRemove
  <2> QED BY <1>2, <2>2, <2>3
<1> HIDE DEF C
<1>5. h \notin KeysOf(C)
  BY <1>2, <1>3 DEF KeysOf
<1>6. Less(C, h) = C
  BY <1>5 DEF Less
<1>7. Trim(C) = Pairs(s, Room(q))
  <2>1. CASE Len(q) = LruEntries
    BY <1>2, <1>4, <2>1 DEF Trim, Room
  <2>2. CASE Len(q) # LruEntries
    BY <1>2, <2>2 DEF Trim, Room, C
  <2> QED BY <2>1, <2>2
<1> QED BY <1>5, <1>6, <1>7 DEF C

\* The table keeps its entries in the recency list q.
Holds(s, q) == s.size = Len(q) /\ \E f, c : Table(s, q, f, c)

\* The entry i of h comes to the front of the list r of the others.
Fronted(s, q, h, t, i, r) ==
  /\ i \in Entries /\ Distinct(r) /\ ~In(i, r) /\ Holds(t, <<i>> \o r) /\ SameCalls(s, t)
  /\ t.hashValue[i] = h
  /\ \A e : In(e, r) => In(e, q) /\ Pair(t, e) = Pair(s, e)
  /\ \A p \in 1..Len(q) : p < LruEntries /\ s.hashValue[q[p]] # h => \E n \in 1..Len(r) : n <= p /\ r[n] = q[p]
  /\ Pairs(t, r) = Trim(Less(Pairs(s, q), h))

\* A hit brings an entry to the front.
LEMMA HitFronts ==
    ASSUME NEW s, NEW q, Holds(s, q), NEW h \in LruKeys, NEW j \in 1..Len(q), s.hashValue[q[j]] = h
    PROVE  /\ Fronted(s, q, h, Hit(s, q[j]), q[j], RemoveAt(q, j))
           /\ Hit(s, q[j]).value = s.value /\ Hit(s, q[j]).hashValue = s.hashValue
           /\ h \in KeysOf(Pairs(s, q)) /\ Pairs(s, q)[PlaceIn(Pairs(s, q), h)] = Pair(s, q[j])
           /\ Less(Pairs(s, q), h) = Trim(Less(Pairs(s, q), h))
<1> DEFINE t == Hit(s, q[j])
           i == q[j]
           r == RemoveAt(q, j)
<1>1. PICK f, c : Table(s, q, f, c)
  BY DEF Holds
<1>2. /\ Table(t, <<i>> \o r, f, c) /\ SameCalls(s, t)
      /\ t.size = s.size /\ t.hashValue = s.hashValue /\ t.value = s.value
  BY <1>1, HitIs
<1>3. Distinct(q) /\ TypedEntries(s) /\ Len(q) \in Nat /\ i \in Entries /\ q \in Seq(Entries) /\ s.size = Len(q)
  BY <1>1, TableIs, DistinctIs DEF Holds
<1>4. Distinct(r) /\ Len(r) = Len(q) - 1 /\ \A k : In(k, r) <=> (k # i /\ In(k, q))
  BY <1>3, DistinctRemove
<1>5. Len(<<i>> \o r) = Len(r) + 1
  BY <1>3, <1>4, DistinctCons
<1>6. \A n \in 1..Len(q) - 1 : r[n] = IF n < j THEN q[n] ELSE q[n + 1]
  BY <1>3, RemoveAtElements
<1>7. /\ h \in KeysOf(Pairs(s, q)) /\ PlaceIn(Pairs(s, q), h) = j
      /\ Less(Pairs(s, q), h) = Pairs(s, r) /\ Trim(Less(Pairs(s, q), h)) = Pairs(s, r)
  BY <1>1, HeldIs
<1>8. Pairs(s, q)[j] = Pair(s, i)
  BY <1>3, PairsAre
<1> HIDE DEF t, r
<1>9. Pairs(t, r) = Pairs(s, r)
  BY <1>2 DEF Pairs, Pair
<1>10. Holds(t, <<i>> \o r)
  <2>1. t.size = Len(<<i>> \o r)
    BY <1>2, <1>3, <1>4, <1>5
  <2> QED BY <1>2, <2>1 DEF Holds
<1>11. ASSUME NEW p \in 1..Len(q), s.hashValue[q[p]] # h PROVE \E n \in 1..Len(r) : n <= p /\ r[n] = q[p]
  <2>1. p # j
    BY <1>11
  <2>2. CASE p < j
    <3>1. p \in 1..Len(r) /\ p <= p /\ r[p] = q[p]
      BY <1>3, <1>4, <1>6, <2>2
    <3> QED BY <3>1
  <2>3. CASE p > j
    <3>1. p - 1 \in 1..Len(r) /\ p - 1 <= p /\ ~(p - 1 < j) /\ p - 1 \in 1..Len(q) - 1 /\ p - 1 + 1 = p
      BY <1>3, <1>4, <2>3
    <3>2. r[p - 1] = q[p]
      BY <1>6, <3>1
    <3> QED BY <3>1, <3>2
  <2> QED BY <1>3, <2>1, <2>2, <2>3
<1>12. Fronted(s, q, h, t, i, r)
  <2>1. ~In(i, r)
    BY <1>4
  <2>2. \A e : In(e, r) => In(e, q) /\ Pair(t, e) = Pair(s, e)
    BY <1>2, <1>4 DEF Pair
  <2>3. t.hashValue[i] = h
    BY <1>2
  <2> HIDE DEF i
  <2> QED BY <1>2, <1>3, <1>4, <1>7, <1>9, <1>10, <1>11, <2>1, <2>2, <2>3 DEF Fronted
<1> QED BY <1>2, <1>7, <1>8, <1>12 DEF t, r

\* So does making an entry.
LEMMA AllocateFronts ==
    ASSUME NEW s, NEW q, Holds(s, q), NEW h \in LruKeys, Absent(s, q, h)
    PROVE  \E i \in Entries :
             /\ Fronted(s, q, h, AllocateEntry(s, h), i, Room(q))
             /\ AllocateEntry(s, h).value[i] = NoEntryValue
<1> DEFINE t == AllocateEntry(s, h)
           r == Room(q)
<1>1. PICK f, c : Table(s, q, f, c)
  BY DEF Holds
<1>2. s.size = Len(q)
  BY DEF Holds
<1>3. /\ SameCalls(s, t) /\ t.size = Len(r) + 1
      /\ \E i \in Entries : Allocated(s, t, r, h, i)
  BY <1>1, <1>2, AllocateIs
<1>4. PICK i \in Entries : Allocated(s, t, r, h, i)
  BY <1>3
<1> USE DEF Allocated
<1>5. Distinct(q) /\ TypedEntries(s) /\ Len(q) \in Nat /\ q \in Seq(Entries) /\ LruEntries \in Nat /\ LruEntries >= 2
      /\ Len(q) <= LruEntries
  BY <1>1, TableIs, DistinctIs, LruSizes
<1>6. /\ Distinct(r) /\ \A k : In(k, r) => In(k, q)
      /\ \A p \in 1..Len(q) : p < LruEntries => p \in 1..Len(r) /\ r[p] = q[p]
  <2>1. CASE Len(q) = LruEntries
    <3>1. r = RemoveAt(q, Len(q)) /\ Len(q) \in 1..Len(q)
      BY <1>5, <2>1 DEF Room
    <3>2. Distinct(r) /\ Len(r) = Len(q) - 1 /\ \A k : In(k, r) <=> (k # q[Len(q)] /\ In(k, q))
      <4> DEFINE x == RemoveAt(q, Len(q))
      <4>1. Distinct(x) /\ Len(x) = Len(q) - 1 /\ \A k : In(k, x) <=> (k # q[Len(q)] /\ In(k, q))
        BY <1>5, <3>1, DistinctRemove
      <4> HIDE DEF x
      <4>2. r = x
        BY <3>1 DEF x
      <4> HIDE DEF r
      <4> QED BY <4>1, <4>2
    <3>3. \A n \in 1..Len(q) - 1 : r[n] = IF n < Len(q) THEN q[n] ELSE q[n + 1]
      BY <1>5, <3>1, RemoveAtElements
    <3> HIDE DEF r
    <3>4. ASSUME NEW p \in 1..Len(q), p < LruEntries PROVE p \in 1..Len(r) /\ r[p] = q[p]
      BY <1>5, <2>1, <3>2, <3>3, <3>4
    <3> QED BY <3>2, <3>4
  <2>2. CASE Len(q) # LruEntries
    BY <1>5, <2>2 DEF Room
  <2> QED BY <2>1, <2>2
<1>7. Len(<<i>> \o r) = Len(r) + 1
  BY <1>4, <1>6, DistinctCons
<1>8. Pairs(s, r) = Trim(Less(Pairs(s, q), h))
  BY <1>1, NotHeldIs DEF Absent
<1> HIDE DEF t, r
<1>9. Holds(t, <<i>> \o r)
  BY <1>3, <1>4, <1>7 DEF Holds
<1>10. i \in LruIndices
  BY LruSizes
<1>11. t.hashValue[i] = h /\ t.value[i] = NoEntryValue
  BY <1>4, <1>5, <1>10 DEF TypedEntries
<1>12. ASSUME NEW e, In(e, r) PROVE In(e, q) /\ Pair(t, e) = Pair(s, e)
  <2>1. In(e, q) /\ e # i
    BY <1>4, <1>6, <1>12
  <2>2. e \in LruIndices
    BY <1>5, <2>1, InIsEntry
  <2> QED BY <1>4, <1>5, <2>1, <2>2 DEF Pair, TypedEntries
<1>13. Pairs(t, r) = Pairs(s, r)
  <2>1. \A n \in 1..Len(r) : In(r[n], r)
    BY DEF In
  <2> QED BY <1>12, <2>1, PairsSame
<1>14. ASSUME NEW p \in 1..Len(q), p < LruEntries PROVE \E n \in 1..Len(r) : n <= p /\ r[n] = q[p]
  <2>1. p \in 1..Len(r) /\ p <= p /\ r[p] = q[p]
    BY <1>5, <1>6, <1>14
  <2> QED BY <2>1
<1>15. Fronted(s, q, h, t, i, r)
  BY <1>3, <1>4, <1>6, <1>8, <1>9, <1>11, <1>12, <1>13, <1>14 DEF Fronted
<1> QED BY <1>11, <1>15 DEF t, r

\* A value is the one of its hash; only the entry under construction has none.
Values(s, q) ==
  \A j \in 1..Len(q) : IF s.value[q[j]] = NoEntryValue THEN s.construct = <<s.hashValue[q[j]], q[j]>>
                       ELSE s.value[q[j]] \in {DefaultValue, s.hashValue[q[j]]}
\* The entry under construction is no further back than the entries its constructor has stored.
Builds(s, q, p) == p \in 1..Len(q) /\ p <= s.nested + 1 /\ s.construct = <<s.hashValue[q[p]], q[p]>>
Building(s, q) ==
  /\ s.nested \in 0..MaxNested
  /\ IF s.construct = <<>> THEN s.nested = 0 ELSE \E p \in 1..Len(q) : Builds(s, q, p)
Good(s, q) == Holds(s, q) /\ Values(s, q) /\ Building(s, q)

\* Only what is noted about the call differs.
SameTable(s, t) ==
  /\ DOMAIN t = LruFields /\ t.slots = s.slots /\ t.hashValue = s.hashValue /\ t.prevInLRU = s.prevInLRU
  /\ t.nextInLRU = s.nextInLRU /\ t.nextWithSameHash = s.nextWithSameHash /\ t.value = s.value /\ t.size = s.size

\* What is known of a table with recency list q.
LEMMA HoldsIs ==
    ASSUME NEW s, NEW q, Holds(s, q)
    PROVE  /\ DOMAIN s = LruFields /\ Distinct(q) /\ TypedEntries(s) /\ Len(q) \in Nat /\ s.size = Len(q) /\ s.size \in Int
           /\ \A n \in 1..Len(q) : q[n] \in Entries /\ q[n] \in LruIndices /\ s.hashValue[q[n]] \in LruKeys
           /\ \A m, n \in 1..Len(q) : s.hashValue[q[m]] = s.hashValue[q[n]] => m = n
<1>1. PICK f, c : Table(s, q, f, c)
  BY DEF Holds
<1>2. s.size = Len(q)
  BY DEF Holds
<1>3. /\ DOMAIN s = LruFields /\ Distinct(q) /\ TypedEntries(s)
      /\ \A n \in 1..Len(q) : s.hashValue[q[n]] \in LruKeys
      /\ \A m, n \in 1..Len(q) : s.hashValue[q[m]] = s.hashValue[q[n]] => m = n
  BY <1>1, TableIs
<1>4. Len(q) \in Nat /\ \A n \in 1..Len(q) : q[n] \in Entries /\ q[n] \in LruIndices
  BY <1>3, DistinctIs, LruSizes
<1> QED BY <1>2, <1>3, <1>4

\* A lookup finds the entry of a hash, or there is none.
LEMMA LookupIs ==
    ASSUME NEW s, NEW q, Holds(s, q), NEW h \in LruKeys
    PROVE  \/ Found(s, h) = 0 /\ Absent(s, q, h)
           \/ Found(s, h) # 0 /\ \E j \in 1..Len(q) : Found(s, h) = q[j] /\ s.hashValue[q[j]] = h
<1>1. PICK f, c : Table(s, q, f, c)
  BY DEF Holds
<1>2. \A n \in 1..Len(q) : q[n] # 0
  BY HoldsIs, LruSizes
<1> QED BY <1>1, <1>2, FoundIs DEF Absent

\* The entry at the front is found under its hash.
LEMMA FirstFound ==
    ASSUME NEW t, NEW i \in Entries, NEW r, Distinct(r), ~In(i, r), Holds(t, <<i>> \o r), t.hashValue[i] \in LruKeys
    PROVE  Found(t, t.hashValue[i]) = i
<1> DEFINE q == <<i>> \o r
           h == t.hashValue[i]
<1>0. Holds(t, q) /\ h \in LruKeys
  OBVIOUS
<1>1. r \in Seq(Entries) /\ Len(r) \in Nat
  BY DistinctIs
<1>2. Len(q) = Len(r) + 1 /\ \A n \in 1..Len(r) + 1 : q[n] = IF n = 1 THEN i ELSE r[n - 1]
  BY <1>1, ConsElements
<1>3. 1 \in 1..Len(q) /\ q[1] = i
  BY <1>1, <1>2
<1> HIDE DEF q
<1>4. \A m, n \in 1..Len(q) : t.hashValue[q[m]] = t.hashValue[q[n]] => m = n
  BY <1>0, HoldsIs
<1> HIDE DEF h
<1>5. \/ Found(t, h) = 0 /\ Absent(t, q, h)
      \/ Found(t, h) # 0 /\ \E j \in 1..Len(q) : Found(t, h) = q[j] /\ t.hashValue[q[j]] = h
  BY <1>0, LookupIs
<1>6. ~Absent(t, q, h)
  BY <1>3 DEF Absent, h
<1>7. PICK j \in 1..Len(q) : Found(t, h) = q[j] /\ t.hashValue[q[j]] = h
  BY <1>5, <1>6
<1>8. j = 1
  BY <1>3, <1>4, <1>7 DEF h
<1> QED BY <1>3, <1>7, <1>8 DEF h

\* Noting the call leaves the lists alone.
LEMMA CallsKeepTable ==
    ASSUME NEW s, NEW t, NEW q, Holds(s, q), SameTable(s, t)
    PROVE  Holds(t, q) /\ Pairs(t, q) = Pairs(s, q)
<1>1. PICK f, c : Table(s, q, f, c)
  BY DEF Holds
<1>2. Table(t, q, f, c)
  BY <1>1 DEF Table, SameTable
<1>3. t.size = Len(q)
  BY DEF Holds, SameTable
<1> QED BY <1>2, <1>3 DEF Holds, SameTable, Pairs, Pair

\* Setting a value leaves the lists alone.
LEMMA SetIs ==
    ASSUME NEW s, NEW q, Holds(s, q), NEW i \in Entries, NEW v \in Int
    PROVE  LET t == SetValue(s, i, v)
           IN  /\ Holds(t, q) /\ SameCalls(s, t) /\ t.hashValue = s.hashValue
               /\ t.value[i] = v /\ \A e \in LruIndices : e # i => t.value[e] = s.value[e]
<1> DEFINE t == SetValue(s, i, v)
<1>1. PICK f, c : Table(s, q, f, c)
  BY DEF Holds
<1>2. DOMAIN s = LruFields /\ TypedEntries(s) /\ i \in LruIndices /\ s.size = Len(q)
  BY HoldsIs, LruSizes
<1>3. /\ DOMAIN t = LruFields /\ t.value = [s.value EXCEPT ![i] = v]
      /\ \A x \in LruFields \ {"value"} : t[x] = s[x]
  BY <1>2 DEF SetValue, LruFields
<1> HIDE DEF t
<1>4. /\ t.slots = s.slots /\ t.hashValue = s.hashValue /\ t.prevInLRU = s.prevInLRU
      /\ t.nextInLRU = s.nextInLRU /\ t.nextWithSameHash = s.nextWithSameHash /\ t.size = s.size /\ SameCalls(s, t)
  BY <1>3 DEF LruFields, SameCalls
<1>5. /\ t.value \in [LruIndices -> Int] /\ t.value[i] = v
      /\ \A e \in LruIndices : e # i => t.value[e] = s.value[e]
  BY <1>2, <1>3 DEF TypedEntries
<1>6. Table(t, q, f, c)
  BY <1>1, <1>3, <1>4, <1>5 DEF Table
<1>7. Holds(t, q)
  BY <1>2, <1>4, <1>6 DEF Holds
<1> QED BY <1>4, <1>5, <1>7 DEF t

\* A value is given to the entry that came to the front.
LEMMA FrontedSet ==
    ASSUME NEW s, NEW q, NEW h, NEW t, NEW i, NEW r, Fronted(s, q, h, t, i, r), NEW v \in Int
    PROVE  Fronted(s, q, h, SetValue(t, i, v), i, r) /\ SetValue(t, i, v).value[i] = v
<1> DEFINE u == SetValue(t, i, v)
           p == <<i>> \o r
<1>1. i \in Entries /\ Distinct(r) /\ ~In(i, r) /\ Holds(t, p) /\ SameCalls(s, t)
  BY DEF Fronted
<1> HIDE DEF p
<1>2. /\ Holds(u, p) /\ SameCalls(t, u) /\ u.hashValue = t.hashValue
      /\ u.value[i] = v /\ \A e \in LruIndices : e # i => u.value[e] = t.value[e]
  BY <1>1, SetIs
<1> HIDE DEF u
<1>3. ASSUME NEW e, In(e, r) PROVE Pair(u, e) = Pair(t, e)
  <2>1. e \in LruIndices /\ e # i
    BY <1>1, <1>3, InIsEntry
  <2> QED BY <1>2, <2>1 DEF Pair
<1>4. Pairs(u, r) = Pairs(t, r)
  <2>1. \A n \in 1..Len(r) : In(r[n], r)
    BY DEF In
  <2> QED BY <1>3, <2>1, PairsSame
<1>5. SameCalls(s, u)
  BY <1>1, <1>2 DEF SameCalls
<1>6. Fronted(s, q, h, u, i, r)
  BY <1>1, <1>2, <1>3, <1>4, <1>5 DEF Fronted, p
<1> QED BY <1>2, <1>6 DEF u

LruValues == {NoEntryValue, DefaultValue} \cup LruKeys
Front1(k, v, C) == <<<<k, v>>>> \o Trim(Less(C, k))
\* A step of the cache C to D that asks for a.
CacheStep(C, D, a) ==
  \/ \E k \in LruKeys : a = k /\ (\/ k \notin KeysOf(C) /\ D = C
                                  \/ \E v \in LruValues : D = Front1(k, v, C))
  \/ a = 0 /\ \/ \E k \in LruKeys : D = Less(C, k)
              \/ \E k \in LruKeys : \E v \in LruValues : k \in KeysOf(C) /\ D = [C EXCEPT ![PlaceIn(C, k)] = <<k, v>>]
              \/ D = <<>>

\* The places of a list with one more entry at its front.
LEMMA ListCons ==
    ASSUME NEW r, Distinct(r), NEW i \in Entries, ~In(i, r)
    PROVE  LET q == <<i>> \o r
           IN  /\ Len(q) = Len(r) + 1 /\ 1 \in 1..Len(q) /\ q[1] = i
               /\ \A n \in 1..Len(r) : n + 1 \in 1..Len(q) /\ q[n + 1] = r[n]
               /\ \A n \in 1..Len(q) : n = 1 \/ (n - 1 \in 1..Len(r) /\ q[n] = r[n - 1])
<1> DEFINE q == <<i>> \o r
<1>1. r \in Seq(Entries) /\ Len(r) \in Nat
  BY DistinctIs
<1>2. Len(q) = Len(r) + 1 /\ \A n \in 1..Len(r) + 1 : q[n] = IF n = 1 THEN i ELSE r[n - 1]
  BY <1>1, ConsElements
<1> HIDE DEF q
<1>3. ASSUME NEW n \in 1..Len(r) PROVE n + 1 \in 1..Len(q) /\ q[n + 1] = r[n]
  BY <1>1, <1>2
<1>4. ASSUME NEW n \in 1..Len(q), n # 1 PROVE n - 1 \in 1..Len(r) /\ q[n] = r[n - 1]
  BY <1>1, <1>2, <1>4
<1>5. 1 \in 1..Len(q) /\ q[1] = i
  BY <1>1, <1>2
<1> QED BY <1>2, <1>3, <1>4, <1>5 DEF q

\* An entry at the front is Put() in the cache.
LEMMA FrontedPairs ==
    ASSUME NEW s, NEW q, NEW h, NEW u, NEW i, NEW r, Fronted(s, q, h, u, i, r), Holds(s, q)
    PROVE  Pairs(u, <<i>> \o r) = Front1(h, u.value[i], Pairs(s, q))
<1>1. /\ i \in Entries /\ Distinct(r) /\ ~In(i, r) /\ Holds(u, <<i>> \o r) /\ u.hashValue[i] = h
      /\ Pairs(u, r) = Trim(Less(Pairs(s, q), h))
  BY DEF Fronted
<1>2. TypedEntries(u)
  BY <1>1, HoldsIs
<1>3. Pairs(u, <<i>> \o r) = <<Pair(u, i)>> \o Pairs(u, r)
  BY <1>1, <1>2, PairsCons
<1>4. Pair(u, i) = <<h, u.value[i]>>
  BY <1>1 DEF Pair
<1> QED BY <1>1, <1>3, <1>4 DEF Front1

\* An entry of the rest of the list has the value that it had.
LEMMA RestValues ==
    ASSUME NEW s, NEW q, NEW h, NEW u, NEW i, NEW r, Fronted(s, q, h, u, i, r), Values(s, q), NEW n \in 1..Len(r)
    PROVE  IF u.value[r[n]] = NoEntryValue THEN s.construct = <<u.hashValue[r[n]], r[n]>>
           ELSE u.value[r[n]] \in {DefaultValue, u.hashValue[r[n]]}
<1>1. In(r[n], r)
  BY DEF In
<1>2. In(r[n], q) /\ Pair(u, r[n]) = Pair(s, r[n])
  BY <1>1 DEF Fronted
<1>3. u.hashValue[r[n]] = s.hashValue[r[n]] /\ u.value[r[n]] = s.value[r[n]]
  BY <1>2 DEF Pair
<1>4. PICK j \in 1..Len(q) : q[j] = r[n]
  BY <1>2 DEF In
<1> QED BY <1>3, <1>4 DEF Values

\* A call that brings the entry of h to the front, with a value: also from within a constructor.
LEMMA FrontedStep ==
    ASSUME NEW s, NEW q, Good(s, q), NEW h \in LruKeys, NEW u, NEW i, NEW r, Fronted(s, q, h, u, i, r),
           u.value[i] \in {DefaultValue, h},
           s.construct # <<>> => h # Head(s.construct) /\ s.nested < MaxNested,
           NEW t, SameTable(u, t), t.asked = h, t.construct = s.construct,
           t.nested = IF s.construct = <<>> THEN s.nested ELSE s.nested + 1
    PROVE  \E p : Good(t, p) /\ CacheStep(Pairs(s, q), Pairs(t, p), t.asked)
<1> DEFINE p == <<i>> \o r
<1>1. /\ i \in Entries /\ Distinct(r) /\ ~In(i, r) /\ Holds(u, p) /\ u.hashValue[i] = h
      /\ \A n \in 1..Len(q) : n < LruEntries /\ s.hashValue[q[n]] # h => \E m \in 1..Len(r) : m <= n /\ r[m] = q[n]
  BY DEF Fronted
<1>2. /\ Len(p) = Len(r) + 1 /\ 1 \in 1..Len(p) /\ p[1] = i
      /\ \A n \in 1..Len(r) : n + 1 \in 1..Len(p) /\ p[n + 1] = r[n]
      /\ \A n \in 1..Len(p) : n = 1 \/ (n - 1 \in 1..Len(r) /\ p[n] = r[n - 1])
  BY <1>1, ListCons
<1>3. Pairs(u, p) = Front1(h, u.value[i], Pairs(s, q))
  BY FrontedPairs DEF Good
<1> HIDE DEF p
<1>4. Holds(t, p) /\ Pairs(t, p) = Pairs(u, p) /\ t.value = u.value /\ t.hashValue = u.hashValue
  BY <1>1, CallsKeepTable DEF SameTable
<1>5. h # NoEntryValue
  BY LruAssumption DEF NoEntryValue
<1>6. ASSUME NEW j \in 1..Len(p)
      PROVE  IF t.value[p[j]] = NoEntryValue THEN t.construct = <<t.hashValue[p[j]], p[j]>>
             ELSE t.value[p[j]] \in {DefaultValue, t.hashValue[p[j]]}
  <2>1. CASE j = 1
    BY <1>1, <1>2, <1>4, <1>5, <2>1 DEF DefaultValue, NoEntryValue
  <2>2. CASE j # 1
    <3>1. j - 1 \in 1..Len(r) /\ p[j] = r[j - 1]
      BY <1>2, <2>2
    <3>2. Values(s, q)
      BY DEF Good
    <3>3. IF u.value[r[j - 1]] = NoEntryValue THEN s.construct = <<u.hashValue[r[j - 1]], r[j - 1]>>
          ELSE u.value[r[j - 1]] \in {DefaultValue, u.hashValue[r[j - 1]]}
      BY <3>1, <3>2, RestValues
    <3> QED BY <1>4, <3>1, <3>3
  <2> QED BY <2>1, <2>2
<1>7. Building(t, p)
  <2>1. Building(s, q) /\ Holds(s, q)
    BY DEF Good
  <2>2. CASE s.construct = <<>>
    BY <2>1, <2>2 DEF Building
  <2>3. CASE s.construct # <<>>
    <3>1. PICK n \in 1..Len(q) : Builds(s, q, n)
      BY <2>1, <2>3 DEF Building
    <3>2. /\ n <= s.nested + 1 /\ s.construct = <<s.hashValue[q[n]], q[n]>> /\ Head(s.construct) = s.hashValue[q[n]]
          /\ s.nested \in 0..MaxNested /\ s.nested < MaxNested
      BY <2>1, <2>3, <3>1 DEF Building, Builds
    <3>3. n < LruEntries
      BY <3>2, LruAssumption
    <3>4. s.hashValue[q[n]] # h
      BY <2>3, <3>2
    <3>5. PICK m \in 1..Len(r) : m <= n /\ r[m] = q[n]
      BY <1>1, <3>3, <3>4
    <3>6. m + 1 \in 1..Len(p) /\ p[m + 1] = q[n]
      BY <1>2, <3>5
    <3>7. t.nested = s.nested + 1 /\ m + 1 <= t.nested + 1 /\ t.nested \in 0..MaxNested
      BY <2>3, <3>2, <3>5, LruAssumption
    <3>8. t.hashValue[q[n]] = s.hashValue[q[n]]
      <4>1. In(r[m], r)
        BY DEF In
      <4>2. Pair(u, r[m]) = Pair(s, r[m])
        BY <4>1 DEF Fronted
      <4> QED BY <1>4, <3>5, <4>2 DEF Pair
    <3>9. Builds(t, p, m + 1)
      BY <3>2, <3>6, <3>7, <3>8 DEF Builds
    <3> QED BY <2>3, <3>6, <3>7, <3>9 DEF Building
  <2> QED BY <2>2, <2>3
<1>8. Good(t, p)
  BY <1>4, <1>6, <1>7 DEF Good, Values
<1>9. CacheStep(Pairs(s, q), Pairs(t, p), t.asked)
  <2>1. u.value[i] \in LruValues
    BY DEF LruValues
  <2> QED BY <1>3, <1>4, <2>1 DEF CacheStep
<1> QED BY <1>8, <1>9

\* The entry of h comes to the front without a value, and its constructor runs.
LEMMA ConstructStep ==
    ASSUME NEW s, NEW q, Good(s, q), NEW h \in LruKeys, NEW u, NEW i, NEW r, Fronted(s, q, h, u, i, r),
           u.value[i] = NoEntryValue, s.construct = <<>>,
           NEW t, SameTable(u, t), t.asked = h, t.construct = <<h, i>>, t.nested = s.nested
    PROVE  \E p : Good(t, p) /\ CacheStep(Pairs(s, q), Pairs(t, p), t.asked)
<1> DEFINE p == <<i>> \o r
<1>1. i \in Entries /\ Distinct(r) /\ ~In(i, r) /\ Holds(u, p) /\ u.hashValue[i] = h
  BY DEF Fronted
<1>2. /\ Len(p) = Len(r) + 1 /\ 1 \in 1..Len(p) /\ p[1] = i
      /\ \A n \in 1..Len(p) : n = 1 \/ (n - 1 \in 1..Len(r) /\ p[n] = r[n - 1])
  BY <1>1, ListCons
<1>3. Pairs(u, p) = Front1(h, u.value[i], Pairs(s, q))
  BY FrontedPairs DEF Good
<1> HIDE DEF p
<1>4. Holds(t, p) /\ Pairs(t, p) = Pairs(u, p) /\ t.value = u.value /\ t.hashValue = u.hashValue
  BY SMTT(30), <1>1, CallsKeepTable DEF SameTable
<1>5. ASSUME NEW j \in 1..Len(p)
      PROVE  IF t.value[p[j]] = NoEntryValue THEN t.construct = <<t.hashValue[p[j]], p[j]>>
             ELSE t.value[p[j]] \in {DefaultValue, t.hashValue[p[j]]}
  <2>1. CASE j = 1
    BY <1>1, <1>2, <1>4, <2>1
  <2>2. CASE j # 1
    <3>1. j - 1 \in 1..Len(r) /\ p[j] = r[j - 1]
      BY <1>2, <2>2
    <3>2. Values(s, q)
      BY DEF Good
    <3>3. IF u.value[r[j - 1]] = NoEntryValue THEN s.construct = <<u.hashValue[r[j - 1]], r[j - 1]>>
          ELSE u.value[r[j - 1]] \in {DefaultValue, u.hashValue[r[j - 1]]}
      BY <3>1, <3>2, RestValues
    <3>4. s.construct # <<u.hashValue[r[j - 1]], r[j - 1]>>
      OBVIOUS
    <3> QED BY <1>4, <3>1, <3>3, <3>4
  <2> QED BY <2>1, <2>2
<1>6. Building(t, p)
  <2>1. s.nested = 0 /\ 0 \in 0..MaxNested
    BY LruAssumption DEF Good, Building
  <2>2. t.construct # <<>>
    OBVIOUS
  <2>3. Builds(t, p, 1)
    BY <1>1, <1>2, <1>4, <2>1 DEF Builds
  <2> QED BY <1>2, <2>1, <2>2, <2>3 DEF Building
<1>7. Good(t, p)
  BY <1>4, <1>5, <1>6 DEF Good, Values
<1>8. CacheStep(Pairs(s, q), Pairs(t, p), t.asked)
  <2>1. u.value[i] \in LruValues
    BY DEF LruValues
  <2> QED BY <1>3, <1>4, <2>1 DEF CacheStep
<1> QED BY <1>7, <1>8

\* An entry leaves the table, and no constructor runs afterwards.
LEMMA DropStep ==
    ASSUME NEW s, NEW q, Good(s, q), NEW j \in 1..Len(q),
           s.construct = <<>> \/ s.construct = <<s.hashValue[q[j]], q[j]>>,
           NEW t, SameTable(Freed(UnlinkFromHash(UnlinkFromLRUChain(s, q[j]), q[j]), q[j]), t),
           t.asked = 0, t.construct = <<>>, t.nested = 0
    PROVE  \E p : Good(t, p) /\ CacheStep(Pairs(s, q), Pairs(t, p), t.asked)
<1> DEFINE u == Freed(UnlinkFromHash(UnlinkFromLRUChain(s, q[j]), q[j]), q[j])
           p == RemoveAt(q, j)
           h == s.hashValue[q[j]]
<1>1. Holds(s, q) /\ Values(s, q)
  BY DEF Good
<1>2. PICK f, c : Table(s, q, f, c)
  BY <1>1 DEF Holds
<1>3. Distinct(q) /\ TypedEntries(s) /\ Len(q) \in Nat /\ s.size = Len(q) /\ s.size \in Int /\ h \in LruKeys
  BY <1>1, HoldsIs
<1>4. /\ \E c2 : Table(u, p, <<q[j]>> \o f, c2)
      /\ SameCalls(s, u) /\ u.size = s.size - 1 /\ u.hashValue = s.hashValue /\ u.value = s.value
  BY <1>2, <1>3, RemoveIs
<1>5. Distinct(p) /\ Len(p) = Len(q) - 1 /\ \A k : In(k, p) <=> (k # q[j] /\ In(k, q))
  BY <1>3, DistinctRemove
<1>6. Less(Pairs(s, q), h) = Pairs(s, p)
  BY <1>2, HeldIs
<1>0. SameTable(u, t)
  OBVIOUS
<1> HIDE DEF u, p
<1>7. Holds(u, p)
  BY <1>3, <1>4, <1>5 DEF Holds
<1>8. Holds(t, p) /\ Pairs(t, p) = Pairs(u, p) /\ t.value = u.value /\ t.hashValue = u.hashValue
  BY <1>0, <1>7, CallsKeepTable DEF SameTable
<1>9. Pairs(u, p) = Pairs(s, p)
  BY <1>4 DEF Pairs, Pair
<1>10. ASSUME NEW n \in 1..Len(p)
       PROVE  IF t.value[p[n]] = NoEntryValue THEN t.construct = <<t.hashValue[p[n]], p[n]>>
              ELSE t.value[p[n]] \in {DefaultValue, t.hashValue[p[n]]}
  <2>1. In(p[n], p)
    BY DEF In
  <2>2. p[n] # q[j] /\ In(p[n], q)
    BY <1>5, <2>1
  <2>3. PICK m \in 1..Len(q) : q[m] = p[n]
    BY <2>2 DEF In
  <2>4. IF s.value[p[n]] = NoEntryValue THEN s.construct = <<s.hashValue[p[n]], p[n]>>
        ELSE s.value[p[n]] \in {DefaultValue, s.hashValue[p[n]]}
    BY <1>1, <2>3 DEF Values
  <2>5. s.construct # <<s.hashValue[p[n]], p[n]>>
    <3>1. CASE s.construct = <<>>
      BY <3>1
    <3>2. CASE s.construct = <<s.hashValue[q[j]], q[j]>>
      <4>1. s.construct[2] = q[j]
        BY <3>2
      <4>2. <<s.hashValue[p[n]], p[n]>>[2] = p[n]
        OBVIOUS
      <4> QED BY <2>2, <4>1, <4>2
    <3> QED BY <3>1, <3>2
  <2> QED BY <1>4, <1>8, <2>4, <2>5
<1>11. Building(t, p)
  BY LruAssumption DEF Building
<1>12. Good(t, p)
  BY <1>8, <1>10, <1>11 DEF Good, Values
<1>13. CacheStep(Pairs(s, q), Pairs(t, p), t.asked)
  BY <1>3, <1>6, <1>8, <1>9 DEF CacheStep
<1> QED BY <1>12, <1>13

\* The value of an entry is written in place by its constructor, which ends.
LEMMA AssignStep ==
    ASSUME NEW s, NEW q, Good(s, q), NEW j \in 1..Len(q), s.construct = <<s.hashValue[q[j]], q[j]>>,
           NEW t, SameTable(SetValue(s, q[j], s.hashValue[q[j]]), t), t.asked = 0, t.construct = <<>>, t.nested = 0
    PROVE  \E p : Good(t, p) /\ CacheStep(Pairs(s, q), Pairs(t, p), t.asked)
<1> DEFINE i == q[j]
           h == s.hashValue[i]
           u == SetValue(s, i, h)
           C == Pairs(s, q)
<1>1. Holds(s, q) /\ Values(s, q)
  BY DEF Good
<1>2. PICK f, c : Table(s, q, f, c)
  BY <1>1 DEF Holds
<1>3. /\ Distinct(q) /\ TypedEntries(s) /\ i \in Entries /\ h \in LruKeys /\ h \in Int
      /\ \A n \in 1..Len(q) : q[n] \in LruIndices
      /\ \A m, n \in 1..Len(q) : q[m] = q[n] => m = n
  <2>1. /\ Distinct(q) /\ TypedEntries(s) /\ i \in Entries /\ h \in LruKeys
        /\ \A n \in 1..Len(q) : q[n] \in LruIndices
    BY <1>1, HoldsIs
  <2>2. \A m, n \in 1..Len(q) : q[m] = q[n] => m = n
    BY <2>1, DistinctIs
  <2>3. h \in Int
    <3> HIDE DEF h
    <3> QED BY <2>1, LruAssumption
  <2> QED BY <2>1, <2>2, <2>3
<1>4. h \in KeysOf(C) /\ PlaceIn(C, h) = j
  BY <1>2, HeldIs
<1>5. /\ DOMAIN C = 1..Len(q) /\ \A n \in 1..Len(q) : C[n] = Pair(s, q[n])
  BY <1>3, PairsAre
<1>0. SameTable(u, t) /\ s.construct = <<h, i>>
  OBVIOUS
<1> HIDE DEF h, i
<1>6. /\ Holds(u, q) /\ u.hashValue = s.hashValue
      /\ u.value[i] = h /\ \A e \in LruIndices : e # i => u.value[e] = s.value[e]
  BY <1>1, <1>3, SetIs
<1> HIDE DEF u, C
<1>7. Holds(t, q) /\ Pairs(t, q) = Pairs(u, q) /\ t.value = u.value /\ t.hashValue = u.hashValue
  <2>1. Holds(t, q) /\ Pairs(t, q) = Pairs(u, q)
    BY <1>0, <1>6, CallsKeepTable
  <2>2. t.value = u.value /\ t.hashValue = u.hashValue
    BY <1>0 DEF SameTable
  <2> QED BY <2>1, <2>2
<1>8. ASSUME NEW n \in 1..Len(q)
      PROVE  /\ IF t.value[q[n]] = NoEntryValue THEN t.construct = <<t.hashValue[q[n]], q[n]>>
                ELSE t.value[q[n]] \in {DefaultValue, t.hashValue[q[n]]}
             /\ Pair(u, q[n]) = IF n = j THEN <<h, h>> ELSE Pair(s, q[n])
  <2>1. CASE n = j
    <3>1. q[n] = i /\ s.hashValue[i] = h
      BY <2>1 DEF i, h
    <3>2. h # NoEntryValue
      BY <1>3, LruAssumption DEF NoEntryValue
    <3> QED BY <1>6, <1>7, <2>1, <3>1, <3>2 DEF Pair
  <2>2. CASE n # j
    <3>1. q[n] # i /\ q[n] \in LruIndices
      BY <1>3, <2>2 DEF i
    <3>2. IF s.value[q[n]] = NoEntryValue THEN s.construct = <<s.hashValue[q[n]], q[n]>>
          ELSE s.value[q[n]] \in {DefaultValue, s.hashValue[q[n]]}
      BY <1>1 DEF Values
    <3>3. s.construct # <<s.hashValue[q[n]], q[n]>>
      BY <1>0, <3>1
    <3>4. u.value[q[n]] = s.value[q[n]]
      BY <1>6, <3>1
    <3> QED BY <1>6, <1>7, <2>2, <3>2, <3>3, <3>4 DEF Pair
  <2> QED BY <2>1, <2>2
<1>9. Pairs(u, q) = [C EXCEPT ![j] = <<h, h>>]
  <2>1. DOMAIN [C EXCEPT ![j] = <<h, h>>] = 1..Len(q)
    BY <1>5
  <2>2. \A n \in 1..Len(q) : [C EXCEPT ![j] = <<h, h>>][n] = IF n = j THEN <<h, h>> ELSE Pair(s, q[n])
    BY <1>5
  <2>3. \A n \in 1..Len(q) : [C EXCEPT ![j] = <<h, h>>][n] = Pair(u, q[n])
    BY <1>8, <2>2
  <2>4. [C EXCEPT ![j] = <<h, h>>] = [n \in 1..Len(q) |-> [C EXCEPT ![j] = <<h, h>>][n]]
    BY <2>1
  <2> QED BY <2>3, <2>4 DEF Pairs
<1>10. Building(t, q)
  BY LruAssumption DEF Building
<1>11. Good(t, q)
  BY <1>7, <1>8, <1>10 DEF Good, Values
<1>12. CacheStep(C, Pairs(t, q), t.asked)
  <2>1. h \in LruValues
    BY <1>3 DEF LruValues
  <2>2. Pairs(t, q) = [C EXCEPT ![PlaceIn(C, h)] = <<h, h>>]
    BY <1>4, <1>7, <1>9
  <2> QED BY <1>3, <1>4, <2>1, <2>2 DEF CacheStep
<1> QED BY <1>11, <1>12 DEF C

\* A call that finds nothing changes nothing.
LEMMA MissStep ==
    ASSUME NEW s, NEW q, Good(s, q), NEW h \in LruKeys, Absent(s, q, h), s.construct = <<>>,
           NEW t, SameTable(s, t), t.asked \in {0, h}, t.construct = <<>>, t.nested = s.nested
    PROVE  \E p : Good(t, p) /\ CacheStep(Pairs(s, q), Pairs(t, p), t.asked)
<1>1. Holds(s, q)
  BY DEF Good
<1>2. PICK f, c : Table(s, q, f, c)
  BY <1>1 DEF Holds
<1>3. Holds(t, q) /\ Pairs(t, q) = Pairs(s, q)
  BY <1>1, CallsKeepTable
<1>4. h \notin KeysOf(Pairs(s, q)) /\ Less(Pairs(s, q), h) = Pairs(s, q)
  BY <1>2, NotHeldIs DEF Absent
<1>5. Good(t, q)
  BY <1>3 DEF Good, Values, Building, SameTable
<1>6. CacheStep(Pairs(s, q), Pairs(t, q), t.asked)
  BY <1>3, <1>4 DEF CacheStep
<1> QED BY <1>5, <1>6

\* The table without entries, as it is made and as clear() leaves it.
LEMMA EmptyHolds ==
    ASSUME NEW s, DOMAIN s = LruFields
    PROVE  Holds(UnusedEntries(s), <<>>) /\ SameCalls(s, UnusedEntries(s)) /\ DOMAIN UnusedEntries(s) = LruFields
<1> DEFINE t == UnusedEntries(s)
           f == [n \in 1..LruEntries |-> n]
           c == [k \in Slots |-> <<>>]
<1>1. /\ DOMAIN t = LruFields
      /\ t.slots = [k \in 0 .. LruSlots - 1 |-> 0] /\ t.hashValue = [i \in LruIndices |-> 0]
      /\ t.prevInLRU = [i \in LruIndices |-> 0] /\ t.nextInLRU = [i \in LruIndices |-> 0]
      /\ t.nextWithSameHash = [i \in LruIndices |-> IF i = LruEntries THEN 0 ELSE i + 1]
      /\ t.value = [i \in LruIndices |-> NoEntryValue] /\ t.size = 0
      /\ \A x \in {"construct", "nested", "asked"} : t[x] = s[x]
  BY DEF UnusedEntries, LruFields
<1> HIDE DEF t
<1>2. LruEntries \in Nat /\ LruEntries >= 2 /\ LruIndices = 0..LruEntries /\ 0 \in LruIndices /\ Entries = 1..LruEntries
  BY LruSizes DEF Entries
<1>3. /\ t.slots \in [Slots -> LruIndices] /\ t.hashValue \in [LruIndices -> Nat] /\ t.prevInLRU \in LinkFields
      /\ t.nextInLRU \in LinkFields /\ t.value \in [LruIndices -> Int]
  BY <1>1, <1>2 DEF Slots, LinkFields, NoEntryValue
<1>4. t.nextWithSameHash \in LinkFields
  <2>1. \A i \in LruIndices : (IF i = LruEntries THEN 0 ELSE i + 1) \in LruIndices
    BY <1>2
  <2> QED BY <1>1, <2>1 DEF LinkFields
<1>5. /\ <<>> \in Seq(Entries) /\ Len(<<>>) = 0 /\ Distinct(<<>>) /\ \A n : At(<<>>, n) = 0 /\ \A e : ~In(e, <<>>)
  BY DEF Distinct, At, In
<1>6. IsRing(t.nextInLRU, t.prevInLRU, <<>>)
  BY <1>1, <1>2, <1>5 DEF IsRing
<1>7. f \in Seq(Entries) /\ Len(f) = LruEntries /\ Distinct(f) /\ \A n \in 1..LruEntries : f[n] = n
  <2>1. f \in [1..LruEntries -> Entries]
    BY <1>2
  <2>2. f \in Seq(Entries) /\ Len(f) = LruEntries
    BY <1>2, <2>1
  <2> QED BY <2>2 DEF Distinct
<1>8. DOMAIN f = 1..LruEntries
  OBVIOUS
<1> HIDE DEF f
<1>9. \A n \in Int : At(f, n) = IF n \in 1..LruEntries THEN n ELSE 0
  BY <1>7, <1>8 DEF At
<1>10. IsChain(t.nextWithSameHash, t.nextWithSameHash[0], f)
  <2>1. t.nextWithSameHash[0] = 1 /\ At(f, 1) = 1
    BY <1>1, <1>2, <1>9
  <2>2. ASSUME NEW n \in 1..Len(f) PROVE t.nextWithSameHash[f[n]] = At(f, n + 1)
    <3>1. n \in 1..LruEntries /\ n \in LruIndices /\ f[n] = n /\ n + 1 \in Int
      BY <1>2, <1>7
    <3>2. t.nextWithSameHash[n] = IF n = LruEntries THEN 0 ELSE n + 1
      BY <1>1, <3>1
    <3>3. At(f, n + 1) = IF n + 1 \in 1..LruEntries THEN n + 1 ELSE 0
      BY <1>9, <3>1
    <3>4. n + 1 \in 1..LruEntries <=> n # LruEntries
      BY <1>2, <3>1
    <3> QED BY <3>1, <3>2, <3>3, <3>4
  <2> QED BY <2>1, <2>2 DEF IsChain
<1>11. /\ c \in [Slots -> Seq(Entries)]
       /\ \A k \in Slots : Distinct(c[k]) /\ IsChain(t.nextWithSameHash, t.slots[k], c[k])
       /\ \A k \in Slots : \A i \in Entries : ~In(i, c[k])
  <2>1. \A k \in Slots : c[k] = <<>> /\ t.slots[k] = 0
    BY <1>1 DEF Slots
  <2> QED BY <1>5, <2>1 DEF IsChain
<1> HIDE DEF c
<1>12. \A i \in Entries : In(i, f)
  BY <1>2, <1>7 DEF In
<1>13. Hashes(t.nextWithSameHash, t.slots, t.hashValue, <<>>, f, c)
  BY <1>2, <1>3, <1>4, <1>5, <1>7, <1>10, <1>11, <1>12 DEF Hashes, Hashed
<1>14. Table(t, <<>>, f, c)
  BY <1>1, <1>3, <1>5, <1>6, <1>13 DEF Table, Ring
<1> QED BY <1>1, <1>5, <1>14 DEF Holds, SameCalls, t

\* It is the empty cache.
LEMMA EmptyStep ==
    ASSUME NEW s, DOMAIN s = LruFields, NEW t, SameTable(UnusedEntries(s), t), t.construct = <<>>, t.nested = 0
    PROVE  Good(t, <<>>) /\ Pairs(t, <<>>) = <<>>
<1>1. Holds(UnusedEntries(s), <<>>)
  BY EmptyHolds
<1>2. Holds(t, <<>>)
  BY <1>1, CallsKeepTable
<1>3. Len(<<>>) = 0
  OBVIOUS
<1>4. Values(t, <<>>) /\ Building(t, <<>>)
  BY <1>3, LruAssumption DEF Values, Building
<1>5. Pairs(t, <<>>) = <<>>
  BY <1>3 DEF Pairs
<1> QED BY <1>2, <1>4, <1>5 DEF Good

\* The table s with recency list q becomes t, as the cache would.
StepsTo(s, q, t) == \E p : Good(t, p) /\ CacheStep(Pairs(s, q), Pairs(t, p), t.asked)

\* Noting the hash of a call.
LEMMA AskedIs ==
    ASSUME NEW s, DOMAIN s = LruFields, NEW h
    PROVE  SameTable(s, AskedFor(h, s)) /\ AskedFor(h, s).asked = h
           /\ AskedFor(h, s).construct = s.construct /\ AskedFor(h, s).nested = s.nested
BY DEF AskedFor, SameTable, LruFields

\* Outside of constructors every entry has a value.
LEMMA HitValue ==
    ASSUME NEW s, NEW q, Good(s, q), s.construct = <<>>, NEW j \in 1..Len(q)
    PROVE  s.value[q[j]] \in {DefaultValue, s.hashValue[q[j]]}
<1>1. IF s.value[q[j]] = NoEntryValue THEN s.construct = <<s.hashValue[q[j]], q[j]>>
      ELSE s.value[q[j]] \in {DefaultValue, s.hashValue[q[j]]}
  BY DEF Good, Values
<1>2. s.construct # <<s.hashValue[q[j]], q[j]>>
  OBVIOUS
<1> QED BY <1>1, <1>2

\* The entry at the front is the one found.
LEMMA FrontedIs ==
    ASSUME NEW s, NEW q, NEW h \in LruKeys, NEW t, NEW i, NEW r, Fronted(s, q, h, t, i, r)
    PROVE  DOMAIN t = LruFields /\ SameCalls(s, t) /\ Found(t, h) = i
<1>1. i \in Entries /\ Distinct(r) /\ ~In(i, r) /\ Holds(t, <<i>> \o r) /\ SameCalls(s, t) /\ t.hashValue[i] = h
  BY DEF Fronted
<1>2. DOMAIN t = LruFields
  BY <1>1, HoldsIs
<1>3. Found(t, t.hashValue[i]) = i
  BY <1>1, FirstFound
<1> QED BY <1>1, <1>2, <1>3

\* A hash that is found.
LEMMA FoundStep ==
    ASSUME NEW s, NEW q, Good(s, q), s.construct = <<>>, NEW h \in LruKeys, Found(s, h) # 0
    PROVE  StepsTo(s, q, AskedFor(h, Hit(s, Found(s, h))))
<1>1. Holds(s, q)
  BY DEF Good
<1>2. PICK j \in 1..Len(q) : Found(s, h) = q[j] /\ s.hashValue[q[j]] = h
  BY <1>1, LookupIs
<1> DEFINE u == Hit(s, q[j])
           t == AskedFor(h, u)
<1>3. Fronted(s, q, h, u, q[j], RemoveAt(q, j)) /\ u.value = s.value /\ u.hashValue = s.hashValue
  BY <1>1, <1>2, HitFronts
<1>4. s.value[q[j]] \in {DefaultValue, h}
  BY <1>2, HitValue
<1> HIDE DEF u
<1>5. DOMAIN u = LruFields /\ SameCalls(s, u)
  BY <1>3, FrontedIs
<1>6. SameTable(u, t) /\ t.asked = h /\ t.construct = u.construct /\ t.nested = u.nested
  BY <1>5, AskedIs
<1> HIDE DEF t
<1>7. t.construct = s.construct /\ t.nested = s.nested
  BY <1>5, <1>6 DEF SameCalls
<1>8. u.value[q[j]] \in {DefaultValue, h}
  BY <1>3, <1>4
<1>9. StepsTo(s, q, t)
  BY <1>3, <1>6, <1>7, <1>8, FrontedStep DEF StepsTo
<1> QED BY <1>2, <1>9 DEF t, u

\* A hash that is not found, where the call makes no entry.
LEMMA NotFoundStep ==
    ASSUME NEW s, NEW q, Good(s, q), s.construct = <<>>, NEW h \in LruKeys, Found(s, h) = 0, NEW a \in {0, h}
    PROVE  StepsTo(s, q, AskedFor(a, s))
<1>1. Holds(s, q)
  BY DEF Good
<1>2. Absent(s, q, h) /\ DOMAIN s = LruFields
  BY <1>1, LookupIs, HoldsIs
<1> DEFINE t == AskedFor(a, s)
<1>3. SameTable(s, t) /\ t.asked = a /\ t.construct = s.construct /\ t.nested = s.nested
  BY <1>2, AskedIs
<1> HIDE DEF t
<1>4. StepsTo(s, q, t)
  BY <1>2, <1>3, MissStep DEF StepsTo
<1> QED BY <1>4 DEF t

\* The entry that a call makes for a hash that is not found.
LEMMA MadeFronts ==
    ASSUME NEW s, NEW q, Good(s, q), NEW h \in LruKeys, Found(s, h) = 0
    PROVE  \E i, r : /\ Fronted(s, q, h, AllocateEntry(s, h), i, r)
                     /\ AllocateEntry(s, h).value[i] = NoEntryValue
<1>1. Holds(s, q)
  BY DEF Good
<1>2. Absent(s, q, h)
  BY <1>1, LookupIs
<1> QED BY <1>1, <1>2, AllocateFronts

\* findEntry with force: the entry of h comes to the front.
LEMMA ForcedFronts ==
    ASSUME NEW s, NEW q, Good(s, q), NEW h \in LruKeys
    PROVE  \E i, r : /\ Fronted(s, q, h, FindEntry(s, h, TRUE), i, r)
                     /\ s.construct = <<>> => FindEntry(s, h, TRUE).value[i] \in {DefaultValue, h}
<1> DEFINE u == FindEntry(s, h, TRUE)
<1>1. Holds(s, q)
  BY DEF Good
<1>2. CASE Found(s, h) # 0
  <2>1. PICK j \in 1..Len(q) : Found(s, h) = q[j] /\ s.hashValue[q[j]] = h
    BY <1>1, <1>2, LookupIs
  <2>2. u = Hit(s, q[j])
    BY <1>2, <2>1 DEF FindEntry
  <2>3. /\ Fronted(s, q, h, Hit(s, q[j]), q[j], RemoveAt(q, j)) /\ Hit(s, q[j]).value = s.value
    BY <1>1, <2>1, HitFronts
  <2>4. s.construct = <<>> => s.value[q[j]] \in {DefaultValue, h}
    BY <2>1, HitValue
  <2> HIDE DEF u
  <2>5. Fronted(s, q, h, u, q[j], RemoveAt(q, j)) /\ (s.construct = <<>> => u.value[q[j]] \in {DefaultValue, h})
    BY <2>2, <2>3, <2>4
  <2> QED BY <2>5 DEF u
<1>3. CASE Found(s, h) = 0
  <2> DEFINE t == AllocateEntry(s, h)
  <2>1. u = SetValue(t, Found(t, h), DefaultValue)
    BY <1>3 DEF FindEntry
  <2>2. PICK i, r : Fronted(s, q, h, t, i, r)
    BY <1>3, MadeFronts
  <2> HIDE DEF t, u
  <2>3. Found(t, h) = i
    BY <2>2, FrontedIs
  <2>4. DefaultValue \in Int
    BY DEF DefaultValue
  <2>5. Fronted(s, q, h, SetValue(t, i, DefaultValue), i, r) /\ SetValue(t, i, DefaultValue).value[i] = DefaultValue
    BY <2>2, <2>4, FrontedSet
  <2>6. Fronted(s, q, h, u, i, r) /\ (s.construct = <<>> => u.value[i] \in {DefaultValue, h})
    BY <2>1, <2>3, <2>5
  <2> QED BY <2>6 DEF u
<1> QED BY <1>2, <1>3

\* emplace(): also from within a constructor.
LEMMA StoreStep ==
    ASSUME NEW s, NEW q, Good(s, q), NEW h \in LruKeys,
           s.construct # <<>> => h # Head(s.construct) /\ s.nested < MaxNested,
           NEW t, SameTable(SetValue(FindEntry(s, h, TRUE), Found(FindEntry(s, h, TRUE), h), h), t),
           t.asked = h, t.construct = s.construct,
           t.nested = IF s.construct = <<>> THEN s.nested ELSE s.nested + 1
    PROVE  StepsTo(s, q, t)
<1> DEFINE w == FindEntry(s, h, TRUE)
<1>1. PICK i, r : Fronted(s, q, h, w, i, r)
  BY ForcedFronts
<1>0. SameTable(SetValue(w, Found(w, h), h), t)
  OBVIOUS
<1> HIDE DEF w
<1>2. Found(w, h) = i
  BY <1>1, FrontedIs
<1>3. h \in Int
  BY LruAssumption
<1> DEFINE u == SetValue(w, i, h)
<1>4. Fronted(s, q, h, u, i, r) /\ u.value[i] = h
  BY <1>1, <1>3, FrontedSet
<1>5. SameTable(u, t)
  BY <1>0, <1>2
<1> HIDE DEF u
<1>6. u.value[i] \in {DefaultValue, h}
  BY <1>4
<1> QED BY <1>4, <1>5, <1>6, FrontedStep DEF StepsTo

\* The inductive invariant: some list is the recency list of the table.
LruInv == \E q : Good(lru, q)

\* emplace() leaves what is noted about the call.
LEMMA StoredIs ==
    ASSUME NEW s, NEW q, Good(s, q), NEW h \in LruKeys
    PROVE  LET u == SetValue(FindEntry(s, h, TRUE), Found(FindEntry(s, h, TRUE), h), h)
           IN  DOMAIN u = LruFields /\ SameCalls(s, u)
<1> DEFINE w == FindEntry(s, h, TRUE)
           u == SetValue(w, Found(w, h), h)
<1>1. PICK i, r : Fronted(s, q, h, w, i, r)
  BY ForcedFronts
<1> HIDE DEF w
<1>2. DOMAIN w = LruFields /\ SameCalls(s, w)
  BY <1>1, FrontedIs
<1>3. DOMAIN u = LruFields /\ u.construct = w.construct /\ u.nested = w.nested /\ u.asked = w.asked
  BY <1>2 DEF SetValue, LruFields
<1> QED BY <1>2, <1>3 DEF SameCalls, w

\* touch, contains, try_get and at.
LEMMA TouchStep == ASSUME NEW q, Good(lru, q), NEW h \in LruKeys, TouchHash(h) PROVE StepsTo(lru, q, lru')
<1>1. lru.construct = <<>> /\ lru' = AskedFor(h, FindEntry(lru, h, FALSE))
  BY DEF TouchHash
<1>2. CASE Found(lru, h) # 0
  <2>1. lru' = AskedFor(h, Hit(lru, Found(lru, h)))
    BY <1>1, <1>2 DEF FindEntry
  <2> QED BY <1>1, <1>2, <2>1, FoundStep
<1>3. CASE Found(lru, h) = 0
  <2>1. lru' = AskedFor(h, lru)
    BY <1>1, <1>3 DEF FindEntry
  <2> QED BY <1>1, <1>3, <2>1, NotFoundStep
<1> QED BY <1>2, <1>3

\* operator[].
LEMMA SubscriptStep == ASSUME NEW q, Good(lru, q), NEW h \in LruKeys, Subscript(h) PROVE StepsTo(lru, q, lru')
<1> DEFINE u == FindEntry(lru, h, TRUE)
<1>1. lru.construct = <<>> /\ lru' = AskedFor(h, u)
  BY DEF Subscript
<1>2. PICK i, r : Fronted(lru, q, h, u, i, r) /\ u.value[i] \in {DefaultValue, h}
  BY <1>1, ForcedFronts
<1> HIDE DEF u
<1>3. DOMAIN u = LruFields /\ SameCalls(lru, u)
  BY <1>2, FrontedIs
<1>4. SameTable(u, lru') /\ lru'.asked = h /\ lru'.construct = u.construct /\ lru'.nested = u.nested
  BY <1>1, <1>3, AskedIs
<1>5. lru'.construct = lru.construct /\ lru'.nested = lru.nested
  BY <1>3, <1>4 DEF SameCalls
<1> QED BY <1>1, <1>2, <1>4, <1>5, FrontedStep DEF StepsTo

\* emplace, also from within a constructor.
LEMMA EmplaceStep == ASSUME NEW q, Good(lru, q), NEW h \in LruKeys, Emplace(h) PROVE StepsTo(lru, q, lru')
<1> DEFINE w == FindEntry(lru, h, TRUE)
           u == SetValue(w, Found(w, h), h)
           v == Inner(u)
<1>1. Calls /\ Other(h) /\ lru' = AskedFor(h, v)
  BY DEF Emplace
<1>2. DOMAIN u = LruFields /\ SameCalls(lru, u)
  BY StoredIs
<1>3. lru.construct # <<>> => h # Head(lru.construct) /\ lru.nested < MaxNested
  BY <1>1 DEF Calls, Other
<1>0. u = SetValue(FindEntry(lru, h, TRUE), Found(FindEntry(lru, h, TRUE), h), h)
  OBVIOUS
<1> HIDE DEF w, u
<1>4. /\ DOMAIN v = LruFields /\ SameTable(u, v) /\ v.construct = u.construct
      /\ v.nested = IF lru.construct = <<>> THEN u.nested ELSE u.nested + 1
  BY <1>2 DEF Inner, SameTable, LruFields
<1> HIDE DEF v
<1>5. SameTable(v, lru') /\ lru'.asked = h /\ lru'.construct = v.construct /\ lru'.nested = v.nested
  BY <1>1, <1>4, AskedIs
<1>6. SameTable(u, lru')
  BY <1>4, <1>5 DEF SameTable
<1>7. lru'.construct = lru.construct /\ lru'.nested = IF lru.construct = <<>> THEN lru.nested ELSE lru.nested + 1
  BY <1>2, <1>4, <1>5 DEF SameCalls
<1>8. SameTable(SetValue(FindEntry(lru, h, TRUE), Found(FindEntry(lru, h, TRUE), h), h), lru')
  BY <1>0, <1>6
<1> QED BY <1>3, <1>5, <1>7, <1>8, StoreStep

\* try_emplace.
LEMMA TryEmplaceStep == ASSUME NEW q, Good(lru, q), NEW h \in LruKeys, TryEmplace(h) PROVE StepsTo(lru, q, lru')
<1>1. CASE Found(lru, h) # 0
  <2>1. lru.construct = <<>> /\ lru' = AskedFor(h, Hit(lru, Found(lru, h)))
    BY <1>1 DEF TryEmplace, FindEntry
  <2> QED BY <1>1, <2>1, FoundStep
<1>2. CASE Found(lru, h) = 0
  <2> DEFINE w == FindEntry(lru, h, TRUE)
             u == SetValue(w, Found(w, h), h)
  <2>1. FindEntry(lru, h, FALSE) = lru
    BY <1>2 DEF FindEntry
  <2>2. lru.construct = <<>> /\ lru' = AskedFor(h, u)
    BY <1>2, <2>1 DEF TryEmplace
  <2>3. DOMAIN u = LruFields /\ SameCalls(lru, u)
    BY StoredIs
  <2>0. u = SetValue(FindEntry(lru, h, TRUE), Found(FindEntry(lru, h, TRUE), h), h)
    OBVIOUS
  <2> HIDE DEF w, u
  <2>4. SameTable(u, lru') /\ lru'.asked = h /\ lru'.construct = u.construct /\ lru'.nested = u.nested
    BY <2>2, <2>3, AskedIs
  <2>5. lru'.construct = lru.construct /\ lru'.nested = lru.nested
    BY <2>3, <2>4 DEF SameCalls
  <2>6. SameTable(SetValue(FindEntry(lru, h, TRUE), Found(FindEntry(lru, h, TRUE), h), h), lru')
    BY <2>0, <2>4
  <2> QED BY <2>2, <2>4, <2>5, <2>6, StoreStep
<1> QED BY <1>1, <1>2

\* get_or_emplace and get_or_try_emplace, up to the constructor.
LEMMA GetOrEmplaceStep == ASSUME NEW q, Good(lru, q), NEW h \in LruKeys, GetOrEmplace(h) PROVE StepsTo(lru, q, lru')
<1>1. CASE Found(lru, h) # 0
  <2>1. lru.construct = <<>> /\ lru' = AskedFor(h, Hit(lru, Found(lru, h)))
    BY <1>1 DEF GetOrEmplace
  <2> QED BY <1>1, <2>1, FoundStep
<1>2. CASE Found(lru, h) = 0
  <2> DEFINE u == AllocateEntry(lru, h)
  <2>1. lru.construct = <<>> /\ lru' = AskedFor(h, [u EXCEPT !.construct = <<h, Found(u, h)>>])
    BY <1>2 DEF GetOrEmplace
  <2>2. PICK i, r : Fronted(lru, q, h, u, i, r) /\ u.value[i] = NoEntryValue
    BY <1>2, MadeFronts
  <2> HIDE DEF u
  <2>3. DOMAIN u = LruFields /\ SameCalls(lru, u) /\ Found(u, h) = i
    BY <2>2, FrontedIs
  <2> DEFINE v == [u EXCEPT !.construct = <<h, Found(u, h)>>]
  <2>4. DOMAIN v = LruFields /\ SameTable(u, v) /\ v.construct = <<h, i>> /\ v.nested = u.nested
    BY <2>3 DEF SameTable, LruFields
  <2>5. lru' = AskedFor(h, v)
    BY <2>1
  <2> HIDE DEF v
  <2>6. SameTable(v, lru') /\ lru'.asked = h /\ lru'.construct = v.construct /\ lru'.nested = v.nested
    BY <2>4, <2>5, AskedIs
  <2>7. SameTable(u, lru') /\ lru'.construct = <<h, i>> /\ lru'.nested = lru.nested
    BY <2>3, <2>4, <2>6 DEF SameTable, SameCalls
  <2> QED BY <2>1, <2>2, <2>6, <2>7, ConstructStep DEF StepsTo
<1> QED BY <1>1, <1>2

\* The end of a constructor.
LEMMA DoneIs ==
    ASSUME NEW s, DOMAIN s = LruFields
    PROVE  SameTable(s, Done(s)) /\ Done(s).asked = 0 /\ Done(s).construct = <<>> /\ Done(s).nested = 0
BY DEF Done, SameTable, LruFields

\* Where the entry under construction is.
LEMMA ConstructIs ==
    ASSUME NEW s, NEW q, Good(s, q), s.construct # <<>>
    PROVE  \E j \in 1..Len(q) : /\ s.construct = <<s.hashValue[q[j]], q[j]>> /\ s.construct[1] = s.hashValue[q[j]]
                                /\ s.construct[2] = q[j] /\ s.hashValue[q[j]] \in LruKeys
                                /\ Found(s, s.hashValue[q[j]]) = q[j]
<1>1. Holds(s, q)
  BY DEF Good
<1>2. PICK j \in 1..Len(q) : s.construct = <<s.hashValue[q[j]], q[j]>>
  BY DEF Good, Building, Builds
<1>3. s.construct[1] = s.hashValue[q[j]] /\ s.construct[2] = q[j]
  BY <1>2
<1>4. /\ s.hashValue[q[j]] \in LruKeys /\ q[j] # 0
      /\ \A m, n \in 1..Len(q) : s.hashValue[q[m]] = s.hashValue[q[n]] => m = n
  BY <1>1, HoldsIs, LruSizes
<1> DEFINE h == s.hashValue[q[j]]
<1>5. h \in LruKeys /\ ~Absent(s, q, h)
  BY <1>4 DEF Absent
<1> HIDE DEF h
<1>6. PICK n \in 1..Len(q) : Found(s, h) = q[n] /\ s.hashValue[q[n]] = h
  BY <1>1, <1>5, LookupIs
<1>7. n = j
  BY <1>4, <1>6 DEF h
<1> QED BY <1>2, <1>3, <1>4, <1>6, <1>7 DEF h

\* The constructor made a value: its entry is still where it was.
LEMMA ConstructedStep == ASSUME NEW q, Good(lru, q), Constructed PROVE StepsTo(lru, q, lru')
<1>1. lru.construct # <<>> /\ lru' = Done(SetValue(lru, lru.construct[2], lru.construct[1]))
  BY DEF Constructed
<1>2. PICK j \in 1..Len(q) : /\ lru.construct = <<lru.hashValue[q[j]], q[j]>>
                             /\ lru.construct[1] = lru.hashValue[q[j]] /\ lru.construct[2] = q[j]
  BY <1>1, ConstructIs
<1> DEFINE u == SetValue(lru, q[j], lru.hashValue[q[j]])
<1>3. lru' = Done(u)
  BY <1>1, <1>2
<1>4. DOMAIN lru = LruFields
  BY HoldsIs DEF Good
<1>5. DOMAIN u = LruFields
  BY <1>4 DEF SetValue
<1>6. SameTable(u, lru') /\ lru'.asked = 0 /\ lru'.construct = <<>> /\ lru'.nested = 0
  BY <1>3, <1>5, DoneIs
<1> QED BY <1>2, <1>6, AssignStep DEF StepsTo

\* remove() of a hash that is found.
LEMMA RemoveHashIs ==
    ASSUME NEW s, NEW q, Good(s, q), NEW j \in 1..Len(q), Found(s, s.hashValue[q[j]]) = q[j]
    PROVE  LET u == Freed(UnlinkFromHash(UnlinkFromLRUChain(s, q[j]), q[j]), q[j])
           IN  RemoveHash(s, s.hashValue[q[j]]) = u /\ DOMAIN u = LruFields /\ SameCalls(s, u)
<1> DEFINE u == Freed(UnlinkFromHash(UnlinkFromLRUChain(s, q[j]), q[j]), q[j])
<1>1. Holds(s, q)
  BY DEF Good
<1>2. PICK f, c : Table(s, q, f, c)
  BY <1>1 DEF Holds
<1>3. s.size \in Int /\ q[j] # 0
  BY <1>1, HoldsIs, LruSizes
<1>4. (\E c2 : Table(u, RemoveAt(q, j), <<q[j]>> \o f, c2)) /\ SameCalls(s, u)
  BY <1>2, <1>3, RemoveIs
<1>5. RemoveHash(s, s.hashValue[q[j]]) = u
  BY <1>3 DEF RemoveHash
<1> HIDE DEF u
<1>6. DOMAIN u = LruFields
  BY <1>4 DEF Table
<1> QED BY <1>4, <1>5, <1>6 DEF u

\* The constructor made none: its entry is removed.
LEMMA FailsStep == ASSUME NEW q, Good(lru, q), ConstructionFails PROVE StepsTo(lru, q, lru')
<1>1. lru.construct # <<>> /\ lru' = Done(RemoveHash(lru, lru.construct[1]))
  BY DEF ConstructionFails
<1>2. PICK j \in 1..Len(q) : /\ lru.construct = <<lru.hashValue[q[j]], q[j]>>
                             /\ lru.construct[1] = lru.hashValue[q[j]]
                             /\ Found(lru, lru.hashValue[q[j]]) = q[j]
  BY <1>1, ConstructIs
<1> DEFINE u == Freed(UnlinkFromHash(UnlinkFromLRUChain(lru, q[j]), q[j]), q[j])
<1>3. RemoveHash(lru, lru.hashValue[q[j]]) = u /\ DOMAIN u = LruFields
  BY <1>2, RemoveHashIs
<1>4. lru' = Done(u)
  BY <1>1, <1>2, <1>3
<1>5. SameTable(u, lru') /\ lru'.asked = 0 /\ lru'.construct = <<>> /\ lru'.nested = 0
  BY <1>3, <1>4, DoneIs
<1> QED BY <1>2, <1>5, DropStep DEF StepsTo

\* remove.
LEMMA RemoveKeyStep == ASSUME NEW q, Good(lru, q), NEW h \in LruKeys, RemoveKey(h) PROVE StepsTo(lru, q, lru')
<1>1. lru.construct = <<>> /\ lru' = AskedFor(0, RemoveHash(lru, h))
  BY DEF RemoveKey
<1>2. Holds(lru, q)
  BY DEF Good
<1>3. CASE Found(lru, h) = 0
  <2>1. lru' = AskedFor(0, lru)
    BY <1>1, <1>3 DEF RemoveHash
  <2> QED BY <1>1, <1>3, <2>1, NotFoundStep
<1>4. CASE Found(lru, h) # 0
  <2>1. PICK j \in 1..Len(q) : Found(lru, h) = q[j] /\ lru.hashValue[q[j]] = h
    BY <1>2, <1>4, LookupIs
  <2> DEFINE u == Freed(UnlinkFromHash(UnlinkFromLRUChain(lru, q[j]), q[j]), q[j])
  <2>2. RemoveHash(lru, h) = u /\ DOMAIN u = LruFields /\ SameCalls(lru, u)
    BY <2>1, RemoveHashIs
  <2>3. SameTable(u, lru') /\ lru'.asked = 0 /\ lru'.construct = u.construct /\ lru'.nested = u.nested
    BY <1>1, <2>2, AskedIs
  <2>4. lru'.construct = <<>> /\ lru'.nested = 0
    BY <1>1, <2>2, <2>3 DEF SameCalls, Good, Building
  <2> QED BY <1>1, <2>1, <2>3, <2>4, DropStep DEF StepsTo
<1> QED BY <1>3, <1>4

\* clear.
LEMMA ClearStep == ASSUME NEW q, Good(lru, q), ClearTable PROVE StepsTo(lru, q, lru')
<1> DEFINE u == UnusedEntries(lru)
<1>1. lru.construct = <<>> /\ lru' = AskedFor(0, u)
  BY DEF ClearTable
<1>2. DOMAIN lru = LruFields /\ lru.nested = 0
  BY <1>1, HoldsIs DEF Good, Building
<1>3. SameCalls(lru, u) /\ DOMAIN u = LruFields
  BY <1>2, EmptyHolds
<1>4. SameTable(u, lru') /\ lru'.asked = 0 /\ lru'.construct = u.construct /\ lru'.nested = u.nested
  BY <1>1, <1>3, AskedIs
<1>5. lru'.construct = <<>> /\ lru'.nested = 0
  BY <1>1, <1>2, <1>3, <1>4 DEF SameCalls
<1>6. Good(lru', <<>>) /\ Pairs(lru', <<>>) = <<>>
  BY <1>2, <1>4, <1>5, EmptyStep
<1>7. CacheStep(Pairs(lru, q), Pairs(lru', <<>>), lru'.asked)
  BY <1>4, <1>6 DEF CacheStep
<1> QED BY <1>6, <1>7 DEF StepsTo

\* Every step is a step of the cache.
LEMMA LruNextStep == ASSUME NEW q, Good(lru, q), LruNext PROVE StepsTo(lru, q, lru')
<1>1. ASSUME NEW h \in LruKeys,
             TouchHash(h) \/ Subscript(h) \/ Emplace(h) \/ TryEmplace(h) \/ GetOrEmplace(h) \/ RemoveKey(h)
      PROVE  StepsTo(lru, q, lru')
  BY <1>1, TouchStep, SubscriptStep, EmplaceStep, TryEmplaceStep, GetOrEmplaceStep, RemoveKeyStep
<1> QED BY <1>1, ConstructedStep, FailsStep, ClearStep DEF LruNext

\* The table starts empty.
LEMMA LruStarts == ASSUME LruInit PROVE Good(lru, <<>>) /\ Pairs(lru, <<>>) = <<>> /\ lru.asked = 0
<1> DEFINE s == [slots |-> <<>>, hashValue |-> <<>>, prevInLRU |-> <<>>, nextInLRU |-> <<>>,
                 nextWithSameHash |-> <<>>, value |-> <<>>, size |-> 0, construct |-> <<>>, nested |-> 0, asked |-> 0]
<1>1. lru = UnusedEntries(s)
  BY DEF LruInit
<1>2. DOMAIN s = LruFields /\ s.construct = <<>> /\ s.nested = 0 /\ s.asked = 0
  BY DEF LruFields
<1> HIDE DEF s
<1>3. SameCalls(s, lru) /\ DOMAIN lru = LruFields
  BY <1>1, <1>2, EmptyHolds
<1>4. SameTable(UnusedEntries(s), lru) /\ lru.construct = <<>> /\ lru.nested = 0 /\ lru.asked = 0
  BY <1>1, <1>2, <1>3 DEF SameTable, SameCalls
<1> QED BY <1>2, <1>4, EmptyStep

\* The recency list, read as the cache.
LEMMA CacheIs == ASSUME NEW s, NEW q, Good(s, q) PROVE Used(s) = q /\ DOMAIN q = 1..Len(q)
<1>1. Holds(s, q)
  BY DEF Good
<1>2. PICK f, c : Table(s, q, f, c)
  BY <1>1 DEF Holds
<1> QED BY <1>1, <1>2, ListsAre, HoldsIs, DistinctIs

\* The cache is the pairs along the recency list.
LEMMA AsCacheIs == ASSUME NEW q, Good(lru, q) PROVE AsCache = Pairs(lru, q)
<1>1. Used(lru) = q /\ DOMAIN q = 1..Len(q)
  BY CacheIs
<1> QED BY <1>1 DEF AsCache, Pairs, Pair

\* The same after a step.
LEMMA AsCacheNext == ASSUME NEW q, Good(lru', q) PROVE AsCache' = Pairs(lru', q)
<1>1. Used(lru') = q /\ DOMAIN q = 1..Len(q)
  BY CacheIs
<1>2. Used(lru)' = Used(lru')
  BY DEF Used
<1> QED BY <1>1, <1>2 DEF AsCache, Pairs, Pair

\* The operators of LruCache, instantiated.
LEMMA CacheOperators ==
    /\ Abstract!Held = KeysOf(AsCache) /\ \A k : Abstract!PlaceOf(k) = PlaceIn(AsCache, k)
    /\ \A k : Abstract!Without(k) = Less(AsCache, k)
<1>1. Abstract!Held = KeysOf(AsCache)
  BY DEF Abstract!Held, KeysOf
<1>2. \A k : Abstract!PlaceOf(k) = PlaceIn(AsCache, k)
  BY DEF Abstract!PlaceOf, PlaceIn
<1>3. \A k : Abstract!Without(k) = Less(AsCache, k)
  <2> TAKE k
  <2>1. Abstract!Without(k) = IF k \in Abstract!Held THEN RemoveAt(AsCache, Abstract!PlaceOf(k)) ELSE AsCache
    BY DEF Abstract!Without, Abstract!RemoveAt, RemoveAt
  <2>2. Abstract!PlaceOf(k) = PlaceIn(AsCache, k)
    BY <1>2
  <2> QED BY <1>1, <2>1, <2>2 DEF Less
<1> QED BY <1>1, <1>2, <1>3

\* A step of the cache is one of LruCache.
LEMMA AbstractStep ==
    ASSUME CacheStep(AsCache, AsCache', lru'.asked)
    PROVE  Abstract!CacheNext
<1>1. ASSUME NEW k \in LruKeys, lru'.asked = k, k \notin KeysOf(AsCache), AsCache' = AsCache
      PROVE  Abstract!CacheNext
  BY <1>1, CacheOperators DEF Abstract!CacheNext
<1>2. ASSUME NEW k \in LruKeys, lru'.asked = k, NEW v \in LruValues, AsCache' = Front1(k, v, AsCache)
      PROVE  Abstract!CacheNext
  <2>1. Abstract!Put(k, v)
    <3> DEFINE rest == Abstract!Without(k)
    <3>1. rest = Less(AsCache, k)
      BY CacheOperators
    <3>2. AsCache' = <<<<k, v>>>> \o (IF Len(rest) = LruEntries THEN Front(rest) ELSE rest)
      BY <1>2, <3>1 DEF Front1, Trim
    <3> QED BY <3>2 DEF Abstract!Put, Abstract!Front, Front
  <2> QED BY <1>2, <2>1 DEF Abstract!CacheNext, LruValues
<1>3. ASSUME lru'.asked = 0, NEW k \in LruKeys, AsCache' = Less(AsCache, k) PROVE Abstract!CacheNext
  <2>1. Abstract!Drop(k)
    BY <1>3, CacheOperators DEF Abstract!Drop
  <2> QED BY <1>3, <2>1 DEF Abstract!CacheNext
<1>4. ASSUME lru'.asked = 0, NEW k \in LruKeys, NEW v \in LruValues, k \in KeysOf(AsCache),
             AsCache' = [AsCache EXCEPT ![PlaceIn(AsCache, k)] = <<k, v>>]
      PROVE  Abstract!CacheNext
  <2>1. Abstract!Assign(k, v)
    BY <1>4, CacheOperators DEF Abstract!Assign
  <2> QED BY <1>4, <2>1 DEF Abstract!CacheNext, LruValues
<1>5. ASSUME lru'.asked = 0, AsCache' = <<>> PROVE Abstract!CacheNext
  BY <1>5 DEF Abstract!CacheNext
<1> QED BY <1>1, <1>2, <1>3, <1>4, <1>5 DEF CacheStep

\* The invariant is kept, and LruCache takes the step too.
LEMMA LruInvNext == ASSUME LruInv, [LruNext]_lru PROVE LruInv' /\ [Abstract!CacheNext]_<<AsCache, lru.asked>>
<1>1. PICK q : Good(lru, q)
  BY DEF LruInv
<1>2. CASE LruNext
  <2>1. StepsTo(lru, q, lru')
    BY <1>1, <1>2, LruNextStep
  <2>2. PICK p : Good(lru', p) /\ CacheStep(Pairs(lru, q), Pairs(lru', p), lru'.asked)
    BY <2>1 DEF StepsTo
  <2>3. LruInv'
    BY <2>2 DEF LruInv
  <2>4. CacheStep(AsCache, AsCache', lru'.asked)
    BY <1>1, <2>2, AsCacheIs, AsCacheNext
  <2>5. Abstract!CacheNext
    BY <2>4, AbstractStep
  <2> QED BY <2>3, <2>5
<1>3. CASE UNCHANGED lru
  <2>1. LruInv'
    BY <1>1, <1>3 DEF LruInv
  <2>2. AsCache' = AsCache /\ lru'.asked = lru.asked
    BY <1>3 DEF AsCache, Used
  <2> QED BY <2>1, <2>2
<1> QED BY <1>2, <1>3

\* Both hold at the start.
LEMMA LruInvInit == ASSUME LruInit PROVE LruInv /\ Abstract!CacheInit
<1>1. Good(lru, <<>>) /\ Pairs(lru, <<>>) = <<>> /\ lru.asked = 0
  BY LruStarts
<1>2. AsCache = <<>>
  BY <1>1, AsCacheIs
<1> QED BY <1>1, <1>2 DEF LruInv, Abstract!CacheInit

(***************************************************************************)
(* For any number of entries, slots and hashes, the hash table is a        *)
(* least-recently-used cache: collision chains, recency list and unused    *)
(* entries, threaded through one array, together do what LruCache says,    *)
(* also while a constructor stores entries of its own or fails             *)
(* (strong_lru_hashtable).                                                 *)
(***************************************************************************)
THEOREM TableIsLruCache == LruSpec => TableIsCache
<1>1. LruInit => LruInv /\ Abstract!CacheInit
  BY LruInvInit
<1>2. LruInv /\ [LruNext]_lru => LruInv' /\ [Abstract!CacheNext]_<<AsCache, lru.asked>>
  BY LruInvNext
<1> QED BY <1>1, <1>2, PTL DEF LruSpec, TableIsCache, Abstract!CacheSpec

\* What the invariant says about the lists and the values.
LEMMA ListsAgreeOf == ASSUME LruInv PROVE ListsAgree /\ ValueOfItsHash
<1>1. PICK q : Good(lru, q)
  BY DEF LruInv
<1>2. Holds(lru, q) /\ Values(lru, q)
  BY <1>1 DEF Good
<1>3. PICK f, c : Table(lru, q, f, c)
  BY <1>2 DEF Holds
<1>4. /\ Used(lru) = q /\ UsedBackwards(lru) = q /\ Unused(lru) = f
      /\ \A k \in Slots : Walk(lru.nextWithSameHash, lru.slots[k]) = c[k]
  BY <1>3, ListsAre
<1>5. /\ Distinct(q) /\ Distinct(f) /\ \A k \in Slots : Distinct(c[k])
      /\ \A i \in Entries : In(i, q) <=> ~In(i, f)
      /\ \A k \in Slots : \A i \in Entries : In(i, c[k]) <=> (In(i, q) /\ HashTableSlot(lru.hashValue[i]) = k)
      /\ DOMAIN lru.slots = Slots
  BY <1>3 DEF Table, Hashes, Hashed
<1>6. ASSUME NEW p, Distinct(p) PROVE IsInjective(p) /\ ToSet(p) = {i \in Entries : In(i, p)}
  <2>1. DOMAIN p = 1..Len(p) /\ \A n \in 1..Len(p) : p[n] \in Entries
    BY <1>6, DistinctIs
  <2>2. IsInjective(p)
    BY <1>6, <2>1, DistinctIs DEF IsInjective
  <2> QED BY <2>1, <2>2 DEF ToSet, In
<1>7. ToSet(q) = {i \in Entries : In(i, q)} /\ ToSet(f) = {i \in Entries : In(i, f)} /\ IsInjective(q) /\ IsInjective(f)
  BY <1>5, <1>6
<1>8. ToSet(q) \cap ToSet(f) = {} /\ ToSet(q) \cup ToSet(f) = 1 .. LruEntries
  BY <1>5, <1>7 DEF Entries
<1>9. ASSUME NEW k \in Slots
      PROVE  /\ IsInjective(c[k])
             /\ ToSet(c[k]) = {i \in ToSet(q) : HashTableSlot(lru.hashValue[i]) = k}
  <2>1. IsInjective(c[k]) /\ ToSet(c[k]) = {i \in Entries : In(i, c[k])}
    BY <1>5, <1>6
  <2> QED BY <1>5, <1>7, <2>1
<1>10. Len(q) = lru.size
  BY <1>2 DEF Holds
<1>11. ListsAgree
  BY <1>4, <1>5, <1>7, <1>8, <1>9, <1>10 DEF ListsAgree
<1>12. ASSUME NEW i \in ToSet(q)
       PROVE  IF lru.value[i] = NoEntryValue THEN lru.construct = <<lru.hashValue[i], i>>
              ELSE lru.value[i] \in {DefaultValue, lru.hashValue[i]}
  <2>1. PICK j \in 1..Len(q) : q[j] = i
    BY <1>7 DEF In
  <2> QED BY <1>2, <2>1 DEF Values
<1>13. ValueOfItsHash
  BY <1>4, <1>12 DEF ValueOfItsHash
<1> QED BY <1>11, <1>13

(***************************************************************************)
(* Every entry is in exactly the lists it belongs to, forwards and         *)
(* backwards, and has the value of its hash unless its constructor runs    *)
(* (ListsAgree and ValueOfItsHash, for tables of any size).                *)
(***************************************************************************)
THEOREM TableListsAgree == LruSpec => [](ListsAgree /\ ValueOfItsHash)
<1>1. LruInit => LruInv
  BY LruInvInit
<1>2. LruInv /\ [LruNext]_lru => LruInv'
  BY LruInvNext
<1>3. LruInv => ListsAgree /\ ValueOfItsHash
  BY ListsAgreeOf
<1> QED BY <1>1, <1>2, <1>3, PTL DEF LruSpec

-----------------------------------------------------------------------------
(* The store of the hyperlinks.                                            *)

LinkNodes == 1..LinkCapacity + 1
LinkKeys == 0..LinkIds - 1
LinkWants == {Request[r] : r \in LinkRequests}
\* What a request asks to be stored.
ValueOf(w) == [userId |-> IF w[1] = <<>> THEN <<>> ELSE w[1] \o w[2], uri |-> w[2]]
LinkValues == {ValueOf(w) : w \in LinkWants}
LinkItems == [node : LinkNodes, key : LinkKeys, value : LinkValues]

\* The list x and the map m of an lru_cache belong together.
Reaches(x, m) ==
  /\ x \in Seq(LinkItems) /\ Len(x) <= LinkCapacity
  /\ \A i, j \in 1..Len(x) : x[i].node = x[j].node => i = j
  /\ \A i, j \in 1..Len(x) : x[i].key = x[j].key => i = j
  /\ DOMAIN m = {x[i].key : i \in 1..Len(x)}
  /\ \A i \in 1..Len(x) : m[x[i].key] = x[i].node

\* The numbers of the cache, as the lemmas need them.
LEMMA LinkSizes == /\ LinkCapacity \in Nat /\ LinkCapacity >= 1 /\ LinkIds \in Nat /\ LinkCapacity < LinkIds
                   /\ MaxLinks \in Nat
BY LinkAssumption

\* A list that is too short does not hold every number.
LEMMA SomeUnused ==
    ASSUME NEW n \in Nat, NEW f, NEW T, IsFiniteSet(T), n < Cardinality(T)
    PROVE  \E e \in T : \A i \in 1..n : f[i] # e
<1> DEFINE S == {f[i] : i \in 1..n}
<1>1. SUFFICES ASSUME \A e \in T : \E i \in 1..n : f[i] = e PROVE FALSE
  OBVIOUS
<1>2. T \subseteq S
  BY <1>1
<1>3. IsFiniteSet(1..n) /\ Cardinality(1..n) = n
  BY FS_Interval
<1> DEFINE g == [i \in 1..n |-> f[i]]
<1>4. g \in Surjection(1..n, S)
  BY DEF Surjection
<1>5. IsFiniteSet(S) /\ Cardinality(S) <= n
  BY <1>3, <1>4, FS_Surjection
<1> HIDE DEF S
<1>6. Cardinality(T) <= Cardinality(S)
  BY <1>2, <1>5, FS_Subset
<1>7. Cardinality(S) \in Nat /\ Cardinality(T) \in Nat
  BY <1>5, FS_CardinalityType
<1> QED BY <1>5, <1>6, <1>7

\* How many nodes and keys there are.
LEMMA LinkCounts ==
    /\ IsFiniteSet(LinkNodes) /\ Cardinality(LinkNodes) = LinkCapacity + 1
    /\ IsFiniteSet(LinkKeys) /\ Cardinality(LinkKeys) = LinkIds
<1>1. \A a, b \in Int : IsFiniteSet(a..b) /\ Cardinality(a..b) = IF a > b THEN 0 ELSE b - a + 1
  BY FS_Interval
<1>2. IsFiniteSet(LinkNodes) /\ Cardinality(LinkNodes) = LinkCapacity + 1
  BY <1>1, LinkSizes DEF LinkNodes
<1>3. IsFiniteSet(LinkKeys) /\ Cardinality(LinkKeys) = LinkIds
  BY <1>1, LinkSizes DEF LinkKeys
<1> QED BY <1>2, <1>3

\* What is known of a list and a map that belong together.
LEMMA ReachesIs ==
    ASSUME NEW x, NEW m, Reaches(x, m)
    PROVE  /\ x \in Seq(LinkItems) /\ Len(x) \in Nat /\ Len(x) <= LinkCapacity /\ DOMAIN x = 1..Len(x)
           /\ \A i \in 1..Len(x) : x[i] \in LinkItems
           /\ \A i \in 1..Len(x) : x[i].node \in LinkNodes /\ x[i].key \in LinkKeys /\ x[i].value \in LinkValues
           /\ \A i, j \in 1..Len(x) : x[i].node = x[j].node => i = j
           /\ \A i, j \in 1..Len(x) : x[i].key = x[j].key => i = j
           /\ \A i \in 1..Len(x) : x[i].key \in DOMAIN m /\ m[x[i].key] = x[i].node
           /\ \A k \in DOMAIN m : \E i \in 1..Len(x) : x[i].key = k /\ m[k] = x[i].node
<1>1. x \in Seq(LinkItems) /\ Len(x) \in Nat /\ DOMAIN x = 1..Len(x) /\ \A i \in 1..Len(x) : x[i] \in LinkItems
  BY DEF Reaches
<1>2. \A i \in 1..Len(x) : x[i].node \in LinkNodes /\ x[i].key \in LinkKeys /\ x[i].value \in LinkValues
  BY <1>1 DEF LinkItems
<1> QED BY SMTT(30), <1>1, <1>2 DEF Reaches

\* There is a node for one more item.
LEMMA FreeNodeIs ==
    ASSUME NEW s, Reaches(s.items, s.mapping)
    PROVE  FreeNode(s) \in LinkNodes /\ \A i \in 1..Len(s.items) : s.items[i].node # FreeNode(s)
<1> DEFINE x == s.items
           n == Len(x)
           f == [i \in 1..n |-> x[i].node]
<1>1. n \in Nat /\ n <= LinkCapacity /\ DOMAIN x = 1..n /\ LinkCapacity \in Nat
  BY ReachesIs, LinkSizes
<1>2. IsFiniteSet(LinkNodes) /\ n < Cardinality(LinkNodes)
  BY <1>1, LinkCounts
<1>3. PICK e \in LinkNodes : \A i \in 1..n : f[i] # e
  <2> HIDE DEF n, f
  <2> QED BY <1>1, <1>2, SomeUnused
<1>4. e \notin {s.items[i].node : i \in DOMAIN s.items}
  BY <1>1, <1>3
<1>5. /\ FreeNode(s) \in LinkNodes
      /\ FreeNode(s) \notin {s.items[i].node : i \in DOMAIN s.items}
  BY <1>4 DEF FreeNode, LinkNodes
<1> QED BY <1>1, <1>5

\* A node is at the place of its item.
LEMMA NodeAtIs ==
    ASSUME NEW s, Reaches(s.items, s.mapping), NEW j \in 1..Len(s.items)
    PROVE  NodeAt(s, s.items[j].node) = j
<1> DEFINE x == s.items
<1>1. DOMAIN x = 1..Len(x) /\ \A i, k \in 1..Len(x) : x[i].node = x[k].node => i = k
  BY ReachesIs
<1>2. \A i \in DOMAIN x : x[i].node = x[j].node <=> i = j
  BY <1>1
<1> QED BY <1>1, <1>2 DEF NodeAt

\* An item leaves the list and the map.
LEMMA LinkRemove ==
    ASSUME NEW x, NEW m, Reaches(x, m), NEW j \in 1..Len(x)
    PROVE  LET y == RemoveAt(x, j)
               p == [k \in DOMAIN m \ {x[j].key} |-> m[k]]
           IN  /\ Reaches(y, p) /\ Len(y) = Len(x) - 1 /\ Len(y) < LinkCapacity
               /\ \A i \in 1..Len(y) : \E k \in 1..Len(x) : y[i] = x[k] /\ k # j
               /\ \A k \in 1..Len(x) : k # j => \E i \in 1..Len(y) : y[i] = x[k]
<1> DEFINE y == RemoveAt(x, j)
           p == [k \in DOMAIN m \ {x[j].key} |-> m[k]]
           Old(i) == IF i < j THEN i ELSE i + 1
<1>0. x \in Seq(LinkItems) /\ Len(x) \in Nat /\ Len(x) <= LinkCapacity /\ LinkCapacity \in Nat
  BY ReachesIs, LinkSizes
<1>1. /\ \A i, k \in 1..Len(x) : x[i].node = x[k].node => i = k
      /\ \A i, k \in 1..Len(x) : x[i].key = x[k].key => i = k
      /\ \A i \in 1..Len(x) : x[i].key \in DOMAIN m /\ m[x[i].key] = x[i].node
      /\ \A k \in DOMAIN m : \E i \in 1..Len(x) : x[i].key = k
  BY SMTT(30), ReachesIs
<1>2. /\ y \in Seq(LinkItems) /\ Len(y) = Len(x) - 1
      /\ \A i \in 1..Len(x) - 1 : y[i] = IF i < j THEN x[i] ELSE x[i + 1]
  BY <1>0, RemoveAtElements
<1> HIDE DEF y
<1>3. ASSUME NEW i \in 1..Len(y) PROVE Old(i) \in 1..Len(x) /\ Old(i) # j /\ y[i] = x[Old(i)]
  BY <1>0, <1>2
<1>4. ASSUME NEW k \in 1..Len(x), k # j PROVE \E i \in 1..Len(y) : y[i] = x[k]
  <2>1. CASE k < j
    <3>1. k \in 1..Len(y) /\ y[k] = x[k]
      BY <1>0, <1>2, <2>1
    <3> QED BY <3>1
  <2>2. CASE k > j
    <3>1. k - 1 \in 1..Len(y) /\ y[k - 1] = x[k]
      BY <1>0, <1>2, <2>2
    <3> QED BY <3>1
  <2> QED BY <1>0, <1>4, <2>1, <2>2
<1>5. ASSUME NEW i \in 1..Len(y), NEW k \in 1..Len(y), Old(i) = Old(k) PROVE i = k
  BY <1>0, <1>2, <1>5
<1> HIDE DEF Old
<1>6. \A i, k \in 1..Len(y) : (y[i].node = y[k].node => i = k) /\ (y[i].key = y[k].key => i = k)
  <2>1. ASSUME NEW i \in 1..Len(y), NEW k \in 1..Len(y), y[i].node = y[k].node \/ y[i].key = y[k].key PROVE i = k
    <3>1. PICK a \in 1..Len(x) : a = Old(i) /\ y[i] = x[a]
      BY <1>3
    <3>2. PICK b \in 1..Len(x) : b = Old(k) /\ y[k] = x[b]
      BY <1>3
    <3>3. x[a].node = x[b].node \/ x[a].key = x[b].key
      BY <2>1, <3>1, <3>2
    <3>4. a = b
      BY <1>1, <3>3
    <3> QED BY <1>5, <3>1, <3>2, <3>4
  <2> QED BY <2>1
<1>7. DOMAIN p = {y[i].key : i \in 1..Len(y)}
  <2>1. ASSUME NEW k \in DOMAIN m, k # x[j].key PROVE \E i \in 1..Len(y) : y[i].key = k
    <3>1. PICK n \in 1..Len(x) : x[n].key = k
      BY <1>1
    <3>2. n # j
      BY <2>1, <3>1
    <3> QED BY <1>4, <3>1, <3>2
  <2>2. ASSUME NEW i \in 1..Len(y) PROVE y[i].key \in DOMAIN m /\ y[i].key # x[j].key
    BY <1>1, <1>3
  <2> QED BY <2>1, <2>2
<1>8. \A i \in 1..Len(y) : p[y[i].key] = y[i].node
  <2>1. ASSUME NEW i \in 1..Len(y) PROVE p[y[i].key] = y[i].node
    <3>1. PICK a \in 1..Len(x) : a # j /\ y[i] = x[a]
      BY <1>3
    <3>2. x[a].key # x[j].key /\ x[a].key \in DOMAIN m /\ m[x[a].key] = x[a].node
      BY <1>1, <3>1
    <3> QED BY <3>1, <3>2
  <2> QED BY <2>1
<1>9. Len(y) <= LinkCapacity /\ Len(y) < LinkCapacity
  BY <1>0, <1>2
<1>10. Reaches(y, p)
  BY <1>2, <1>6, <1>7, <1>8, <1>9 DEF Reaches
<1> QED BY <1>2, <1>3, <1>4, <1>9, <1>10 DEF y

NewItem(y, e) == e \in LinkItems /\ \A i \in 1..Len(y) : y[i].key # e.key /\ y[i].node # e.node
WithKey(p, key, n) == [k \in DOMAIN p \cup {key} |-> IF k = key THEN n ELSE p[k]]
\* An item with a new key comes to the front.
LEMMA LinkPush ==
    ASSUME NEW y, NEW p, Reaches(y, p), Len(y) < LinkCapacity, NEW e, NewItem(y, e)
    PROVE  Reaches(<<e>> \o y, WithKey(p, e.key, e.node))
<1> USE DEF NewItem
<1> DEFINE x == <<e>> \o y
           m == [k \in DOMAIN p \cup {e.key} |-> IF k = e.key THEN e.node ELSE p[k]]
<1>0. y \in Seq(LinkItems) /\ Len(y) \in Nat /\ LinkCapacity \in Nat
  BY ReachesIs, LinkSizes
<1>00. e \in LinkItems
  OBVIOUS
<1>1. /\ \A i, k \in 1..Len(y) : y[i].node = y[k].node => i = k
      /\ \A i, k \in 1..Len(y) : y[i].key = y[k].key => i = k
      /\ \A i \in 1..Len(y) : y[i].key \in DOMAIN p /\ p[y[i].key] = y[i].node
      /\ \A k \in DOMAIN p : \E i \in 1..Len(y) : y[i].key = k
  BY ReachesIs
<1>2. x \in Seq(LinkItems) /\ Len(x) = Len(y) + 1 /\ \A n \in 1..Len(y) + 1 : x[n] = IF n = 1 THEN e ELSE y[n - 1]
  BY <1>0, <1>00, ConsElements
<1> HIDE DEF x
<1>3. ASSUME NEW i \in 1..Len(x) PROVE (i = 1 /\ x[i] = e) \/ (i - 1 \in 1..Len(y) /\ x[i] = y[i - 1])
  BY <1>0, <1>2
<1>4. \A i, k \in 1..Len(x) : (x[i].node = x[k].node => i = k) /\ (x[i].key = x[k].key => i = k)
  <2>1. ASSUME NEW i \in 1..Len(x), NEW k \in 1..Len(x), x[i].node = x[k].node \/ x[i].key = x[k].key PROVE i = k
    <3>1. CASE i = 1 /\ k = 1
      BY <3>1
    <3>2. CASE i # 1 /\ k # 1
      <4>1. PICK a \in 1..Len(y) : a = i - 1 /\ x[i] = y[a]
        BY <1>3, <3>2
      <4>2. PICK b \in 1..Len(y) : b = k - 1 /\ x[k] = y[b]
        BY <1>3, <3>2
      <4>3. y[a].node = y[b].node \/ y[a].key = y[b].key
        BY <2>1, <4>1, <4>2
      <4>4. a = b
        BY <1>1, <4>3
      <4> QED BY <4>1, <4>2, <4>4
    <3>3. CASE i = 1 /\ k # 1
      <4>1. k - 1 \in 1..Len(y) /\ x[i] = e /\ x[k] = y[k - 1]
        BY <1>3, <3>3
      <4> QED BY <2>1, <4>1
    <3>4. CASE i # 1 /\ k = 1
      <4>1. i - 1 \in 1..Len(y) /\ x[k] = e /\ x[i] = y[i - 1]
        BY <1>3, <3>4
      <4> QED BY <2>1, <4>1
    <3> QED BY <3>1, <3>2, <3>3, <3>4
  <2> QED BY <2>1
<1>5. \A i \in 1..Len(x) : x[i].key \in DOMAIN m /\ m[x[i].key] = x[i].node
  <2>1. ASSUME NEW i \in 1..Len(x) PROVE x[i].key \in DOMAIN m /\ m[x[i].key] = x[i].node
    <3>1. CASE i = 1 /\ x[i] = e
      BY <3>1
    <3>2. CASE i - 1 \in 1..Len(y) /\ x[i] = y[i - 1]
      <4>1. x[i].key \in DOMAIN p /\ x[i].key # e.key /\ p[x[i].key] = x[i].node
        BY <1>1, <3>2
      <4> QED BY <4>1
    <3> QED BY <1>3, <3>1, <3>2
  <2> QED BY <2>1
<1>6. \A k \in DOMAIN m : \E i \in 1..Len(x) : x[i].key = k
  <2>1. ASSUME NEW k \in DOMAIN p PROVE \E i \in 1..Len(x) : x[i].key = k
    <3>1. PICK i \in 1..Len(y) : y[i].key = k
      BY <1>1
    <3>2. i + 1 \in 1..Len(x) /\ x[i + 1] = y[i]
      BY <1>0, <1>2
    <3> QED BY <3>1, <3>2
  <2>2. 1 \in 1..Len(x) /\ x[1].key = e.key
    BY <1>0, <1>2
  <2> QED BY <2>1, <2>2
<1> HIDE DEF m
<1>7. DOMAIN m = {x[i].key : i \in 1..Len(x)}
  <2>1. \A k : k \in {x[i].key : i \in 1..Len(x)} <=> \E i \in 1..Len(x) : x[i].key = k
    OBVIOUS
  <2>2. \A k : k \in DOMAIN m <=> k \in {x[i].key : i \in 1..Len(x)}
    BY <1>5, <1>6, <2>1
  <2> QED BY <2>2
<1>8. Len(x) <= LinkCapacity
  BY <1>0, <1>2
<1>9. Reaches(x, m)
  BY <1>2, <1>4, <1>5, <1>7, <1>8 DEF Reaches
<1> QED BY <1>9 DEF x, m, WithKey

LinkNames ==
  {"items", "mapping", "nextId", "cursor", "own", "want", "pending", "split", "cell", "made", "asked", "fault"}
\* Only the cache differs.
SameStore(s, t) ==
  /\ DOMAIN t = LinkNames /\ t.nextId = s.nextId /\ t.cursor = s.cursor /\ t.want = s.want /\ t.cell = s.cell
  /\ t.made = s.made /\ t.asked = s.asked /\ t.fault = s.fault
  /\ t.own = s.own /\ t.pending = s.pending /\ t.split = s.split
\* The cache of s with an item of key and value before the items y.
Pushed(s, y, key, value, t) ==
  /\ SameStore(s, t) /\ Reaches(t.items, t.mapping)
  /\ \E n \in LinkNodes : t.items = <<[node |-> n, key |-> key, value |-> value]>> \o y

\* The same, with the node read from the head of the list, as the map is set.
LEMMA PushIs ==
    ASSUME NEW y, NEW p, Reaches(y, p), Len(y) < LinkCapacity, NEW e, NewItem(y, e),
           NEW m, WithKey(m, e.key, e.node) = WithKey(p, e.key, e.node)
    PROVE  Reaches(<<e>> \o y, WithKey(m, e.key, Head(<<e>> \o y).node))
<1> DEFINE x == <<e>> \o y
<1>1. y \in Seq(LinkItems) /\ Len(y) \in Nat /\ e \in LinkItems
  BY ReachesIs DEF NewItem
<1>2. x \in Seq(LinkItems) /\ Len(x) = Len(y) + 1 /\ \A i \in 1..Len(y) + 1 : x[i] = IF i = 1 THEN e ELSE y[i - 1]
  BY <1>1, ConsElements
<1>3. Reaches(x, WithKey(p, e.key, e.node))
  BY LinkPush
<1> HIDE DEF x
<1>4. x[1] = e
  BY <1>1, <1>2
<1>5. Head(x) = x[1]
  BY <1>1, <1>2
<1>6. WithKey(m, e.key, Head(x).node) = WithKey(p, e.key, e.node)
  BY <1>4, <1>5
<1>7. Reaches(x, WithKey(m, e.key, Head(x).node))
  BY <1>3, <1>6
<1> QED BY <1>7 DEF x

\* The nodes of the other items are not the free one, and their keys are others.
LEMMA RestIs ==
    ASSUME NEW s, Reaches(s.items, s.mapping), NEW j \in 1..Len(s.items)
    PROVE  LET x == s.items
               y == RemoveAt(x, j)
               p == [k \in DOMAIN s.mapping \ {x[j].key} |-> s.mapping[k]]
           IN  /\ Reaches(y, p) /\ Len(y) < LinkCapacity
               /\ \A i \in 1..Len(y) : y[i].node # FreeNode(s) /\ y[i].key # x[j].key
               /\ \A i \in 1..Len(y) : y[i].key \in DOMAIN s.mapping
<1> DEFINE x == s.items
           y == RemoveAt(x, j)
           p == [k \in DOMAIN s.mapping \ {x[j].key} |-> s.mapping[k]]
<1>1. /\ Reaches(y, p) /\ Len(y) < LinkCapacity
      /\ \A i \in 1..Len(y) : \E k \in 1..Len(x) : y[i] = x[k] /\ k # j
  BY LinkRemove
<1>2. \A i \in 1..Len(x) : x[i].node # FreeNode(s)
  BY FreeNodeIs
<1>3. \A i, k \in 1..Len(x) : x[i].key = x[k].key => i = k
  BY ReachesIs
<1>4. \A i \in 1..Len(x) : x[i].key \in DOMAIN s.mapping
  BY ReachesIs
<1> HIDE DEF x, y, p
<1>5. ASSUME NEW i \in 1..Len(y)
      PROVE  y[i].node # FreeNode(s) /\ y[i].key # x[j].key /\ y[i].key \in DOMAIN s.mapping
  <2>1. PICK k \in 1..Len(x) : y[i] = x[k] /\ k # j
    BY <1>1
  <2>2. x[k].key # x[j].key
    BY <1>3, <2>1 DEF x
  <2> QED BY <1>2, <1>4, <2>1, <2>2
<1> QED BY <1>1, <1>5 DEF x, y, p

\* try_get() of a key that is there: its item moves to the front.
LEMMA GetIs ==
    ASSUME NEW s, DOMAIN s = LinkNames, Reaches(s.items, s.mapping), NEW j \in 1..Len(s.items)
    PROVE  Pushed(s, RemoveAt(s.items, j), s.items[j].key, s.items[j].value, TryGet(s, s.items[j].key))
<1> DEFINE x == s.items
           key == x[j].key
           value == x[j].value
           n == FreeNode(s)
           y == RemoveAt(x, j)
           e == [node |-> n, key |-> key, value |-> value]
           u == [s EXCEPT !.items = <<[x[NodeAt(s, s.mapping[key])] EXCEPT !.node = n]>> \o RemoveAt(x, NodeAt(s, s.mapping[key]))]
           t == TryGet(s, key)
<1>1. /\ key \in DOMAIN s.mapping /\ s.mapping[key] = x[j].node /\ x[j] \in LinkItems
      /\ key \in LinkKeys /\ value \in LinkValues
  BY ReachesIs
<1>2. NodeAt(s, s.mapping[key]) = j
  BY <1>1, NodeAtIs
<1>3. [x[j] EXCEPT !.node = n] = e
  BY <1>1 DEF LinkItems
<1>4. t = Map(MoveItemToFront(s, s.mapping[key]), key)
  BY <1>1 DEF TryGet
<1>5. MoveItemToFront(s, s.mapping[key]) = [s EXCEPT !.items = <<e>> \o y]
  BY <1>2, <1>3 DEF MoveItemToFront
<1> DEFINE v == [s EXCEPT !.items = <<e>> \o y]
<1>6. /\ DOMAIN v = LinkNames /\ v.items = <<e>> \o y /\ v.mapping = s.mapping /\ SameStore(s, v)
  BY DEF LinkNames, SameStore
<1>7. /\ n \in LinkNodes
  BY FreeNodeIs
<1> DEFINE p == [k \in DOMAIN s.mapping \ {key} |-> s.mapping[k]]
<1>8. /\ Reaches(y, p) /\ Len(y) < LinkCapacity
      /\ \A i \in 1..Len(y) : y[i].node # n /\ y[i].key # key
  BY RestIs
<1>9. WithKey(s.mapping, key, n) = WithKey(p, key, n)
  <2> HIDE DEF key, n
  <2>1. DOMAIN s.mapping \cup {key} = DOMAIN p \cup {key}
    OBVIOUS
  <2>2. \A k \in DOMAIN s.mapping : k # key => s.mapping[k] = p[k]
    OBVIOUS
  <2> QED BY <2>1, <2>2 DEF WithKey
<1> HIDE DEF x, key, value, n, y, p, t
<1>16. e.key = key /\ e.node = n
  OBVIOUS
<1>17. NewItem(y, e)
  BY <1>1, <1>7, <1>8 DEF NewItem, LinkItems
<1> HIDE DEF e
<1>10. Reaches(<<e>> \o y, WithKey(s.mapping, key, Head(<<e>> \o y).node))
  <2>1. WithKey(s.mapping, e.key, e.node) = WithKey(p, e.key, e.node)
    BY <1>9, <1>16
  <2>2. Reaches(<<e>> \o y, WithKey(s.mapping, e.key, Head(<<e>> \o y).node))
    BY <1>8, <1>17, <2>1, PushIs
  <2> QED BY <1>16, <2>2
<1> HIDE DEF v
<1>11. t = Map(v, key)
  BY <1>4, <1>5 DEF v
<1>12. /\ DOMAIN t = LinkNames /\ t.items = v.items /\ SameStore(v, t)
       /\ t.mapping = WithKey(v.mapping, key, Head(v.items).node)
  BY <1>6, <1>11 DEF Map, LinkNames, SameStore, WithKey
<1>13. Reaches(t.items, t.mapping) /\ t.items = <<e>> \o y
  BY <1>6, <1>10, <1>12
<1>14. SameStore(s, t)
  BY <1>6, <1>12 DEF SameStore
<1>15. Pushed(s, y, key, value, t)
  BY <1>7, <1>13, <1>14 DEF Pushed, e
<1> QED BY <1>15 DEF y, x, key, value, t

\* The first item of a list is overwritten.
LEMMA OverwriteFirst ==
    ASSUME NEW y \in Seq(LinkItems), NEW e \in LinkItems, NEW d \in LinkItems, d.node = e.node
    PROVE  [<<e>> \o y EXCEPT ![1].key = d.key, ![1].value = d.value] = <<d>> \o y
<1> DEFINE x == <<e>> \o y
           z == <<d>> \o y
           w == [x EXCEPT ![1].key = d.key, ![1].value = d.value]
<1>1. /\ x \in Seq(LinkItems) /\ Len(x) = Len(y) + 1 /\ Len(y) \in Nat
      /\ \A i \in 1..Len(y) + 1 : x[i] = IF i = 1 THEN e ELSE y[i - 1]
  BY ConsElements
<1>2. /\ z \in Seq(LinkItems) /\ Len(z) = Len(y) + 1
      /\ \A i \in 1..Len(y) + 1 : z[i] = IF i = 1 THEN d ELSE y[i - 1]
  BY ConsElements
<1> HIDE DEF x, z
<1>3. DOMAIN x = 1..Len(y) + 1 /\ DOMAIN z = 1..Len(y) + 1 /\ 1 \in 1..Len(y) + 1
  BY <1>1, <1>2
<1>4. x[1] = e /\ z[1] = d
  BY <1>1, <1>2, <1>3
<1>5. [[e EXCEPT !.key = d.key] EXCEPT !.value = d.value] = d
  BY DEF LinkItems
<1>6. \A i \in 1..Len(y) + 1 : i # 1 => x[i] = z[i]
  BY <1>1, <1>2
<1>7. w = [[x EXCEPT ![1].key = d.key] EXCEPT ![1].value = d.value]
  OBVIOUS
<1>8. w = [x EXCEPT ![1] = d]
  BY <1>3, <1>4, <1>5, <1>7
<1>9. [x EXCEPT ![1] = d] = z
  <2>1. DOMAIN [x EXCEPT ![1] = d] = 1..Len(y) + 1 /\ \A i \in 1..Len(y) + 1 : [x EXCEPT ![1] = d][i] = z[i]
    BY <1>3, <1>4, <1>6
  <2> DEFINE v == [x EXCEPT ![1] = d]
  <2>2. z \in [1..Len(y) + 1 -> LinkItems]
    BY <1>2
  <2>3. x \in [1..Len(y) + 1 -> LinkItems]
    BY <1>1
  <2>4. v \in [1..Len(y) + 1 -> LinkItems]
    BY <1>3, <2>3
  <2> HIDE DEF v
  <2>5. \A i \in 1..Len(y) + 1 : v[i] = z[i]
    BY <2>1 DEF v
  <2>6. v = z
    BY <2>2, <2>4, <2>5
  <2> QED BY <2>6 DEF v
<1> QED BY <1>8, <1>9 DEF x, z

\* The items that stay when one more comes.
LinkRoom(x) == IF Len(x) = LinkCapacity THEN RemoveAt(x, Len(x)) ELSE x

\* emplaceItemToFront(): the list has room.
LEMMA EmplaceFrontIs ==
    ASSUME NEW s, DOMAIN s = LinkNames, Reaches(s.items, s.mapping), Len(s.items) < LinkCapacity,
           NEW key \in LinkKeys, NEW value \in LinkValues, key \notin DOMAIN s.mapping
    PROVE  Pushed(s, s.items, key, value, EmplaceItemToFront(s, key, value))
<1> DEFINE y == s.items
           n == FreeNode(s)
           e == [node |-> n, key |-> key, value |-> value]
           v == [s EXCEPT !.items = <<e>> \o y]
           t == EmplaceItemToFront(s, key, value)
<1>1. t = Map(v, key)
  BY DEF EmplaceItemToFront
<1>2. DOMAIN v = LinkNames /\ v.items = <<e>> \o y /\ v.mapping = s.mapping /\ SameStore(s, v)
  BY DEF LinkNames, SameStore
<1>3. n \in LinkNodes /\ \A i \in 1..Len(y) : y[i].node # n
  BY FreeNodeIs
<1>4. \A i \in 1..Len(y) : y[i].key \in DOMAIN s.mapping
  BY ReachesIs
<1> HIDE DEF y, n, t
<1>5. e.key = key /\ e.node = n
  OBVIOUS
<1>6. NewItem(y, e)
  BY <1>3, <1>4 DEF NewItem, LinkItems
<1> HIDE DEF e
<1>7. Reaches(<<e>> \o y, WithKey(s.mapping, key, Head(<<e>> \o y).node))
  <2>1. Reaches(y, s.mapping) /\ Len(y) < LinkCapacity
    BY DEF y
  <2>2. Reaches(<<e>> \o y, WithKey(s.mapping, e.key, Head(<<e>> \o y).node))
    BY <1>6, <2>1, PushIs
  <2> QED BY <1>5, <2>2
<1> HIDE DEF v
<1>8. /\ DOMAIN t = LinkNames /\ t.items = v.items /\ SameStore(v, t)
      /\ t.mapping = WithKey(v.mapping, key, Head(v.items).node)
  BY <1>1, <1>2 DEF Map, LinkNames, SameStore, WithKey
<1>9. Reaches(t.items, t.mapping) /\ t.items = <<e>> \o y
  BY <1>2, <1>7, <1>8
<1>10. SameStore(s, t)
  BY <1>2, <1>8 DEF SameStore
<1>11. Pushed(s, y, key, value, t)
  BY <1>3, <1>9, <1>10 DEF Pushed, e
<1> QED BY <1>11 DEF y, t

\* evict_one_and_push_front(): the last item's node is taken over by the new one.
LEMMA EvictIs ==
    ASSUME NEW s, DOMAIN s = LinkNames, Reaches(s.items, s.mapping), Len(s.items) = LinkCapacity,
           NEW key \in LinkKeys, NEW value \in LinkValues, key \notin DOMAIN s.mapping
    PROVE  Pushed(s, RemoveAt(s.items, Len(s.items)), key, value, EvictOneAndPushFront(s, key, value))
<1> DEFINE x == s.items
           j == Len(x)
           old == x[j].key
           n == FreeNode(s)
           y == RemoveAt(x, j)
           o == [node |-> n, key |-> old, value |-> x[j].value]
           e == [node |-> n, key |-> key, value |-> value]
           p == [k \in DOMAIN s.mapping \ {old} |-> s.mapping[k]]
           u == [s EXCEPT !.items = <<o>> \o y]
           v == [u EXCEPT !.items = <<e>> \o y, !.mapping = p]
           t == EvictOneAndPushFront(s, key, value)
<1>0. j \in 1..Len(x)
  BY ReachesIs, LinkSizes
<1>1. /\ old \in DOMAIN s.mapping /\ s.mapping[old] = x[j].node /\ x[j] \in LinkItems /\ x \in Seq(LinkItems)
      /\ old \in LinkKeys /\ x[j].value \in LinkValues
  BY SMTT(30), <1>0, ReachesIs
<1>2. NodeAt(s, s.mapping[old]) = j
  BY <1>0, <1>1, NodeAtIs
<1>3. [x[j] EXCEPT !.node = n] = o
  BY <1>1 DEF LinkItems
<1>4. Last(x) = x[j]
  BY DEF Last
<1>5. MoveItemToFront(s, s.mapping[old]) = u
  BY <1>2, <1>3 DEF MoveItemToFront
<1>6. u.items = <<o>> \o y /\ u.mapping = s.mapping /\ DOMAIN u = LinkNames /\ SameStore(s, u)
  BY DEF LinkNames, SameStore
<1>7. /\ Reaches(y, p) /\ Len(y) < LinkCapacity
      /\ \A i \in 1..Len(y) : y[i].node # n /\ y[i].key # old
      /\ \A i \in 1..Len(y) : y[i].key \in DOMAIN s.mapping
  BY <1>0, RestIs
<1>8. n \in LinkNodes
  BY FreeNodeIs
<1>9. o \in LinkItems /\ e \in LinkItems /\ o.node = e.node /\ e.key = key /\ e.value = value /\ e.node = n
  BY <1>1, <1>8 DEF LinkItems
<1>10. [<<o>> \o y EXCEPT ![1].key = e.key, ![1].value = e.value] = <<e>> \o y
  <2>1. y \in Seq(LinkItems)
    BY <1>7, ReachesIs
  <2> HIDE DEF y, o, e
  <2> QED BY <1>9, <2>1, OverwriteFirst
<1>11. Restrict(s.mapping, DOMAIN s.mapping \ {old}) = p
  BY DEF Restrict
<1>12. t = Map(v, key)
  <2>1. t = Map([u EXCEPT !.items = [@ EXCEPT ![1].key = key, ![1].value = value],
                          !.mapping = Restrict(@, DOMAIN @ \ {old})], key)
    BY <1>4, <1>5 DEF EvictOneAndPushFront
  <2>2. [u.items EXCEPT ![1].key = key, ![1].value = value] = <<e>> \o y
    <3> HIDE DEF e, o, u, y
    <3> QED BY <1>6, <1>9, <1>10
  <2>3. Restrict(u.mapping, DOMAIN u.mapping \ {old}) = p
    BY <1>6, <1>11
  <2>4. [u EXCEPT !.items = [@ EXCEPT ![1].key = key, ![1].value = value],
                          !.mapping = Restrict(@, DOMAIN @ \ {old})] = v
    <3> HIDE DEF e, o, u, y, p, old
    <3>1. [u EXCEPT !.items = [@ EXCEPT ![1].key = key, ![1].value = value],
                          !.mapping = Restrict(@, DOMAIN @ \ {old})]
          = [u EXCEPT !.items = [u.items EXCEPT ![1].key = key, ![1].value = value],
                          !.mapping = Restrict(u.mapping, DOMAIN u.mapping \ {old})]
      BY <1>6 DEF LinkNames
    <3> QED BY <2>2, <2>3, <3>1
  <2> HIDE DEF t, v, u
  <2> QED BY <2>1, <2>4
<1> HIDE DEF x, n, y, p, t, old, j, o, u, e
<1>13. DOMAIN v = LinkNames /\ v.items = <<e>> \o y /\ v.mapping = p /\ SameStore(s, v)
  BY <1>6 DEF LinkNames, SameStore
<1>14. NewItem(y, e)
  BY <1>7, <1>9 DEF NewItem
<1> HIDE DEF v
<1>15. Reaches(<<e>> \o y, WithKey(p, key, Head(<<e>> \o y).node))
  <2>1. Reaches(<<e>> \o y, WithKey(p, e.key, Head(<<e>> \o y).node))
    BY <1>7, <1>14, PushIs
  <2> QED BY <1>9, <2>1
<1>16. /\ DOMAIN t = LinkNames /\ t.items = v.items /\ SameStore(v, t)
       /\ t.mapping = WithKey(v.mapping, key, Head(v.items).node)
  BY <1>12, <1>13 DEF Map, LinkNames, SameStore, WithKey
<1>17. Reaches(t.items, t.mapping) /\ t.items = <<e>> \o y
  BY <1>13, <1>15, <1>16
<1>18. SameStore(s, t)
  BY <1>13, <1>16 DEF SameStore
<1>19. Pushed(s, y, key, value, t)
  BY <1>8, <1>17, <1>18 DEF Pushed, e
<1> QED BY <1>19 DEF y, x, t, j

\* emplace(): with room or after an eviction the new item is in front of those that stay.
LEMMA EmplaceIs ==
    ASSUME NEW s, DOMAIN s = LinkNames, Reaches(s.items, s.mapping),
           NEW key \in LinkKeys, NEW value \in LinkValues, CanEmplace(s, key)
    PROVE  /\ Pushed(s, LinkRoom(s.items), key, value, EmplaceLink(s, key, value))
           /\ Reaches(s.items, s.mapping)
<1>1. Len(s.items) \in Nat /\ Len(s.items) <= LinkCapacity /\ LinkCapacity \in Nat
  BY ReachesIs, LinkSizes
<1>2. key \notin DOMAIN s.mapping
  BY DEF CanEmplace
<1>3. CASE Len(s.items) = LinkCapacity
  BY <1>2, <1>3, EvictIs DEF EmplaceLink, LinkRoom
<1>4. CASE Len(s.items) # LinkCapacity
  <2>1. Len(s.items) < LinkCapacity
    BY <1>1, <1>4
  <2> QED BY <1>2, <1>4, <2>1, EmplaceFrontIs DEF EmplaceLink, LinkRoom
<1> QED BY <1>3, <1>4

LinkUris == {Request[r][2] : r \in LinkRequests}
LinkPairSet == LinkKeys \X LinkUris
\* An item, as the cache's entry.
LinkPair(e) == <<e.key, e.value.uri>>
LinkPairs(x) == [i \in DOMAIN x |-> LinkPair(x[i])]
LinkTrim(C) == IF Len(C) = LinkCapacity THEN Front(C) ELSE C

\* An item has a key and an address.
LEMMA LinkPairIs == ASSUME NEW e \in LinkItems PROVE LinkPair(e) \in LinkPairSet
<1>1. e.key \in LinkKeys /\ e.value \in LinkValues
  BY DEF LinkItems
<1>2. PICK r \in LinkRequests : e.value = ValueOf(Request[r])
  BY <1>1 DEF LinkValues, LinkWants
<1>3. e.value.uri = Request[r][2]
  BY <1>2 DEF ValueOf
<1>4. e.value.uri \in LinkUris
  BY <1>3 DEF LinkUris
<1> QED BY <1>1, <1>4 DEF LinkPair, LinkPairSet

\* The cache along a list.
LEMMA LinkPairsAre ==
    ASSUME NEW x \in Seq(LinkItems)
    PROVE  /\ LinkPairs(x) \in Seq(LinkPairSet) /\ Len(LinkPairs(x)) = Len(x) /\ DOMAIN LinkPairs(x) = 1..Len(x)
           /\ \A i \in 1..Len(x) : LinkPairs(x)[i] = LinkPair(x[i])
<1>1. Len(x) \in Nat /\ DOMAIN x = 1..Len(x) /\ \A i \in 1..Len(x) : x[i] \in LinkItems
  OBVIOUS
<1>2. \A i \in 1..Len(x) : LinkPair(x[i]) \in LinkPairSet
  BY <1>1, LinkPairIs
<1> HIDE DEF LinkPairSet
<1>3. LinkPairs(x) = [i \in 1..Len(x) |-> LinkPair(x[i])]
  BY <1>1 DEF LinkPairs
<1>4. LinkPairs(x) \in Seq(LinkPairSet)
  BY <1>1, <1>2, <1>3
<1>5. Len(LinkPairs(x)) = Len(x)
  BY <1>1, <1>3, <1>4
<1> QED BY <1>3, <1>4, <1>5

\* The cache with one more item in front.
LEMMA LinkPairsCons ==
    ASSUME NEW x \in Seq(LinkItems), NEW e \in LinkItems
    PROVE  LinkPairs(<<e>> \o x) = <<LinkPair(e)>> \o LinkPairs(x)
<1> DEFINE p == <<e>> \o x
           C == LinkPairs(x)
           D == LinkPairs(p)
           E == <<LinkPair(e)>> \o C
<1>1. /\ p \in Seq(LinkItems) /\ Len(p) = Len(x) + 1 /\ Len(x) \in Nat
      /\ \A n \in 1..Len(x) + 1 : p[n] = IF n = 1 THEN e ELSE x[n - 1]
  BY ConsElements
<1>4. C \in Seq(LinkPairSet) /\ Len(C) = Len(x) /\ \A n \in 1..Len(x) : C[n] = LinkPair(x[n])
  BY LinkPairsAre
<1> HIDE DEF p
<1>5. D \in Seq(LinkPairSet) /\ Len(D) = Len(p) /\ \A n \in 1..Len(p) : D[n] = LinkPair(p[n])
  BY <1>1, LinkPairsAre
<1>6. LinkPair(e) \in LinkPairSet
  BY LinkPairIs
<1> HIDE DEF C, D, LinkPairSet
<1>7. E \in Seq(LinkPairSet) /\ Len(E) = Len(C) + 1 /\ \A n \in 1..Len(C) + 1 : E[n] = IF n = 1 THEN LinkPair(e) ELSE C[n - 1]
  BY <1>4, <1>6, ConsElements
<1> HIDE DEF E
<1>8. ASSUME NEW n \in 1..Len(D) PROVE D[n] = E[n]
  <2>1. CASE n = 1
    BY <1>1, <1>4, <1>5, <1>7, <2>1
  <2>2. CASE n # 1
    <3>1. n - 1 \in 1..Len(x) /\ n \in 1..Len(x) + 1
      BY <1>1, <1>5, <2>2
    <3>2. D[n] = LinkPair(x[n - 1])
      BY <1>1, <1>5, <2>2, <3>1
    <3>3. E[n] = C[n - 1]
      BY <1>4, <1>7, <2>2, <3>1
    <3> QED BY <1>4, <3>1, <3>2, <3>3
  <2> QED BY <2>1, <2>2
<1>9. Len(D) = Len(E)
  BY <1>1, <1>4, <1>5, <1>7
<1>10. D = E
  BY <1>5, <1>7, <1>8, <1>9
<1> QED BY <1>10 DEF D, E, C, p

\* The cache without the item at one place.
LEMMA LinkPairsRemove ==
    ASSUME NEW x \in Seq(LinkItems), NEW j \in 1..Len(x)
    PROVE  LinkPairs(RemoveAt(x, j)) = RemoveAt(LinkPairs(x), j)
<1> DEFINE p == RemoveAt(x, j)
           C == LinkPairs(x)
           D == LinkPairs(p)
           E == RemoveAt(C, j)
<1>0. Len(x) \in Nat
  OBVIOUS
<1>1. /\ p \in Seq(LinkItems) /\ Len(p) = Len(x) - 1
      /\ \A n \in 1..Len(x) - 1 : p[n] = IF n < j THEN x[n] ELSE x[n + 1]
  BY RemoveAtElements
<1>4. C \in Seq(LinkPairSet) /\ Len(C) = Len(x) /\ \A n \in 1..Len(x) : C[n] = LinkPair(x[n])
  BY LinkPairsAre
<1> HIDE DEF p
<1>5. D \in Seq(LinkPairSet) /\ Len(D) = Len(p) /\ \A n \in 1..Len(p) : D[n] = LinkPair(p[n])
  BY <1>0, <1>1, LinkPairsAre
<1> HIDE DEF C, D, LinkPairSet
<1>6. j \in 1..Len(C)
  BY <1>4
<1>7. E \in Seq(LinkPairSet) /\ Len(E) = Len(C) - 1 /\ \A n \in 1..Len(C) - 1 : E[n] = IF n < j THEN C[n] ELSE C[n + 1]
  BY <1>4, <1>6, RemoveAtElements
<1> HIDE DEF E
<1>8. ASSUME NEW n \in 1..Len(D) PROVE D[n] = E[n]
  <2>1. n \in 1..Len(x) - 1 /\ n \in 1..Len(x) /\ n + 1 \in 1..Len(x)
    BY <1>0, <1>1, <1>5
  <2>2. D[n] = IF n < j THEN LinkPair(x[n]) ELSE LinkPair(x[n + 1])
    BY <1>0, <1>1, <1>5, <2>1
  <2>3. E[n] = IF n < j THEN C[n] ELSE C[n + 1]
    BY <1>4, <1>7, <2>1
  <2> QED BY <1>4, <2>1, <2>2, <2>3
<1>9. Len(D) = Len(E)
  BY <1>0, <1>1, <1>4, <1>5, <1>7
<1>10. D = E
  BY <1>5, <1>7, <1>8, <1>9
<1> QED BY <1>10 DEF D, E, C, p

\* A key that the cache holds, at its place.
LEMMA LinkHeldIs ==
    ASSUME NEW x, NEW m, Reaches(x, m), NEW j \in 1..Len(x)
    PROVE  LET C == LinkPairs(x)
           IN  /\ x[j].key \in KeysOf(C) /\ PlaceIn(C, x[j].key) = j
               /\ Less(C, x[j].key) = LinkPairs(RemoveAt(x, j)) /\ C[j] = LinkPair(x[j])
<1> DEFINE C == LinkPairs(x)
           h == x[j].key
           r == RemoveAt(x, j)
<1>1. x \in Seq(LinkItems) /\ \A i, k \in 1..Len(x) : x[i].key = x[k].key => i = k
  BY ReachesIs
<1>2. DOMAIN C = 1..Len(x) /\ \A n \in 1..Len(x) : C[n] = LinkPair(x[n])
  BY <1>1, LinkPairsAre
<1>3. \A n \in 1..Len(x) : C[n][1] = x[n].key
  BY <1>2 DEF LinkPair
<1>4. LinkPairs(r) = RemoveAt(C, j)
  BY <1>1, LinkPairsRemove
<1> HIDE DEF C, r
<1>7. h \in KeysOf(C)
  BY <1>2, <1>3 DEF KeysOf
<1>8. \A i \in DOMAIN C : C[i][1] = h <=> i = j
  BY <1>1, <1>2, <1>3
<1>9. PlaceIn(C, h) = j
  BY <1>2, <1>8 DEF PlaceIn
<1>10. Less(C, h) = LinkPairs(r)
  BY <1>4, <1>7, <1>9 DEF Less
<1> QED BY <1>2, <1>7, <1>9, <1>10 DEF C, r

\* A key that it does not hold.
LEMMA LinkMissIs ==
    ASSUME NEW x, NEW m, Reaches(x, m), NEW k, k \notin DOMAIN m
    PROVE  LET C == LinkPairs(x)
           IN  /\ k \notin KeysOf(C) /\ Less(C, k) = C
               /\ LinkTrim(C) = LinkPairs(LinkRoom(x)) /\ LinkRoom(x) \in Seq(LinkItems)
<1> DEFINE C == LinkPairs(x)
<1>1. x \in Seq(LinkItems) /\ Len(x) \in Nat /\ LinkCapacity \in Nat /\ LinkCapacity >= 1
  BY ReachesIs, LinkSizes
<1>2. \A i \in 1..Len(x) : x[i].key \in DOMAIN m
  BY ReachesIs
<1>3. C \in Seq(LinkPairSet) /\ Len(C) = Len(x) /\ DOMAIN C = 1..Len(x) /\ \A n \in 1..Len(x) : C[n] = LinkPair(x[n])
  BY <1>1, LinkPairsAre
<1>4. \A n \in 1..Len(x) : C[n][1] = x[n].key
  BY <1>3 DEF LinkPair
<1>5. ASSUME Len(x) = LinkCapacity
      PROVE  LinkPairs(RemoveAt(x, Len(x))) = Front(C) /\ RemoveAt(x, Len(x)) \in Seq(LinkItems)
  <2>1. Len(x) \in 1..Len(x) /\ Len(x) >= 1
    BY <1>1, <1>5
  <2>2. LinkPairs(RemoveAt(x, Len(x))) = RemoveAt(C, Len(x))
    BY <1>1, <2>1, LinkPairsRemove
  <2>3. RemoveAt(x, Len(x)) \in Seq(LinkItems)
    BY <1>1, <2>1, RemoveAtElements
  <2> HIDE DEF C
  <2>4. Front(C) = RemoveAt(C, Len(C))
    BY <1>3, <2>1, FrontIsRemove
  <2> QED BY <1>3, <2>2, <2>3, <2>4
<1> HIDE DEF C
<1>6. k \notin KeysOf(C)
  BY <1>2, <1>3, <1>4 DEF KeysOf
<1>7. Less(C, k) = C
  BY <1>6 DEF Less
<1>8. LinkTrim(C) = LinkPairs(LinkRoom(x)) /\ LinkRoom(x) \in Seq(LinkItems)
  <2>1. CASE Len(x) = LinkCapacity
    BY <1>3, <1>5, <2>1 DEF LinkTrim, LinkRoom
  <2>2. CASE Len(x) # LinkCapacity
    BY <1>1, <1>3, <2>2 DEF LinkTrim, LinkRoom, C
  <2> QED BY <2>1, <2>2
<1> QED BY <1>6, <1>7, <1>8 DEF C

\* What a step may do to the cache C, with the key a asked for.
LinkUse(C, D, k) == k \in KeysOf(C) /\ D = <<C[PlaceIn(C, k)]>> \o Less(C, k)
LinkStep(C, D, a) ==
  \/ \E k \in LinkKeys : a = k /\ (\/ k \notin KeysOf(C) /\ D = C
                                   \/ LinkUse(C, D, k)
                                   \/ \E v \in LinkUris : D = <<<<k, v>>>> \o LinkTrim(Less(C, k)))
  \/ a = 0 /\ \E k \in LinkKeys : D = Less(C, k)

\* The items of y are items of x, perhaps at other nodes.
From(x, y) ==
  \A i \in 1..Len(y) : \E a \in 1..Len(x) : y[i].key = x[a].key /\ y[i].value = x[a].value

\* Every item of z is one of y or the new one.
Mixed(z, key, value, y) ==
  \A i \in 1..Len(z) : (z[i].key = key /\ z[i].value = value) \/ \E k \in 1..Len(y) : z[i] = y[k]

\* The cache, and the items, after an item came to the front.
LEMMA PushedIs ==
    ASSUME NEW s, NEW t, NEW y \in Seq(LinkItems), NEW key \in LinkKeys, NEW value \in LinkValues,
           Pushed(s, y, key, value, t)
    PROVE  /\ LinkPairs(t.items) = <<<<key, value.uri>>>> \o LinkPairs(y)
           /\ Mixed(t.items, key, value, y)
<1>1. PICK n \in LinkNodes : t.items = <<[node |-> n, key |-> key, value |-> value]>> \o y
  BY DEF Pushed
<1> DEFINE e == [node |-> n, key |-> key, value |-> value]
<1>2. e \in LinkItems /\ LinkPair(e) = <<key, value.uri>> /\ e.key = key /\ e.value = value
  BY DEF LinkItems, LinkPair
<1> HIDE DEF e
<1>3. t.items = <<e>> \o y
  BY <1>1 DEF e
<1>4. LinkPairs(t.items) = <<<<key, value.uri>>>> \o LinkPairs(y)
  BY <1>2, <1>3, LinkPairsCons
<1> DEFINE x == <<e>> \o y
<1>5. Len(y) \in Nat /\ Len(x) = Len(y) + 1 /\ \A i \in 1..Len(y) + 1 : x[i] = IF i = 1 THEN e ELSE y[i - 1]
  BY <1>2, ConsElements
<1> HIDE DEF x
<1>6. ASSUME NEW i \in 1..Len(x) PROVE x[i] = e \/ \E k \in 1..Len(y) : x[i] = y[k]
  <2>1. CASE i = 1
    BY <1>5, <2>1
  <2>2. CASE i # 1
    <3>1. i - 1 \in 1..Len(y) /\ x[i] = y[i - 1]
      BY <1>5, <2>2
    <3> QED BY <3>1
  <2> QED BY <2>1, <2>2
<1>7. t.items = x
  BY <1>3 DEF x
<1> QED BY <1>2, <1>4, <1>6, <1>7 DEF Mixed

\* A lookup: the item that is found becomes the most recent one.
LEMMA GetStep ==
    ASSUME NEW s, DOMAIN s = LinkNames, Reaches(s.items, s.mapping), NEW key \in LinkKeys
    PROVE  LET t == TryGet(s, key)
           IN  /\ SameStore(s, t) /\ Reaches(t.items, t.mapping) /\ From(s.items, t.items)
               /\ \/ LinkUse(LinkPairs(s.items), LinkPairs(t.items), key)
                  \/ key \notin KeysOf(LinkPairs(s.items)) /\ t = s
<1> DEFINE x == s.items
           t == TryGet(s, key)
<1>1. CASE key \notin DOMAIN s.mapping
  <2>1. t = s
    BY <1>1 DEF TryGet
  <2>2. SameStore(s, s) /\ From(s.items, s.items)
    BY DEF SameStore, From
  <2>3. key \notin KeysOf(LinkPairs(s.items))
    BY <1>1, LinkMissIs
  <2> QED BY <2>1, <2>2, <2>3
<1>2. CASE key \in DOMAIN s.mapping
  <2>1. PICK j \in 1..Len(x) : x[j].key = key
    BY <1>2, ReachesIs
  <2> DEFINE y == RemoveAt(x, j)
  <2>2. Pushed(s, y, x[j].key, x[j].value, TryGet(s, x[j].key))
    BY GetIs
  <2>3. x \in Seq(LinkItems) /\ x[j].key \in LinkKeys /\ x[j].value \in LinkValues
    BY ReachesIs
  <2>4. y \in Seq(LinkItems)
    BY <2>3, RemoveAtElements
  <2>5. \A i \in 1..Len(y) : \E k \in 1..Len(x) : y[i] = x[k]
    BY LinkRemove
  <2>6. /\ x[j].key \in KeysOf(LinkPairs(x)) /\ PlaceIn(LinkPairs(x), x[j].key) = j
        /\ Less(LinkPairs(x), x[j].key) = LinkPairs(y) /\ LinkPairs(x)[j] = LinkPair(x[j])
    BY LinkHeldIs
  <2>7. Pushed(s, y, key, x[j].value, t)
    BY <2>1, <2>2
  <2> HIDE DEF x, y, t
  <2>8. /\ LinkPairs(t.items) = <<<<key, x[j].value.uri>>>> \o LinkPairs(y)
        /\ Mixed(t.items, key, x[j].value, y)
    BY <2>1, <2>3, <2>4, <2>7, PushedIs
  <2>9. LinkUse(LinkPairs(x), LinkPairs(t.items), key)
    BY <2>1, <2>6, <2>8 DEF LinkUse, LinkPair
  <2>10. From(x, t.items)
    <3>1. ASSUME NEW i \in 1..Len(t.items)
          PROVE  \E a \in 1..Len(x) : t.items[i].key = x[a].key /\ t.items[i].value = x[a].value
      <4>1. CASE t.items[i].key = key /\ t.items[i].value = x[j].value
        BY <2>1, <4>1
      <4>2. CASE \E k \in 1..Len(y) : t.items[i] = y[k]
        BY <2>5, <4>2
      <4> QED BY <2>8, <4>1, <4>2 DEF Mixed
    <3> QED BY <3>1 DEF From
  <2> QED BY <2>7, <2>9, <2>10 DEF Pushed, x, t
<1> QED BY <1>1, <1>2

\* A new key: the oldest item goes when the list is full.
LEMMA PutStep ==
    ASSUME NEW s, DOMAIN s = LinkNames, Reaches(s.items, s.mapping),
           NEW key \in LinkKeys, NEW value \in LinkValues, CanEmplace(s, key)
    PROVE  LET t == EmplaceLink(s, key, value)
           IN  /\ SameStore(s, t) /\ Reaches(t.items, t.mapping)
               /\ LinkPairs(t.items) = <<<<key, value.uri>>>> \o LinkTrim(Less(LinkPairs(s.items), key))
               /\ Mixed(t.items, key, value, s.items)
<1> DEFINE x == s.items
           y == LinkRoom(x)
           t == EmplaceLink(s, key, value)
<1>1. key \notin DOMAIN s.mapping
  BY DEF CanEmplace
<1>2. Pushed(s, y, key, value, t)
  BY EmplaceIs
<1>3. Less(LinkPairs(x), key) = LinkPairs(x) /\ LinkTrim(LinkPairs(x)) = LinkPairs(y) /\ y \in Seq(LinkItems)
  BY <1>1, LinkMissIs
<1>4. \A i \in 1..Len(y) : \E k \in 1..Len(x) : y[i] = x[k]
  <2>1. CASE Len(x) = LinkCapacity
    <3>1. Len(x) \in 1..Len(x)
      BY <2>1, LinkSizes
    <3>2. \A i \in 1..Len(RemoveAt(x, Len(x))) : \E k \in 1..Len(x) : RemoveAt(x, Len(x))[i] = x[k]
      BY <3>1, LinkRemove
    <3> QED BY <2>1, <3>2 DEF LinkRoom
  <2>2. CASE Len(x) # LinkCapacity
    BY <2>2 DEF LinkRoom
  <2> QED BY <2>1, <2>2
<1> HIDE DEF x, y, t
<1>5. /\ LinkPairs(t.items) = <<<<key, value.uri>>>> \o LinkPairs(y)
      /\ Mixed(t.items, key, value, y)
  BY <1>2, <1>3, PushedIs
<1>6. Mixed(t.items, key, value, x)
  BY <1>4, <1>5 DEF Mixed
<1> QED BY <1>2, <1>3, <1>5, <1>6 DEF Pushed, x, t

\* hyperlinkIdByUserId(): the place of the first item with that id.
LEMMA ByUserIdIs ==
    ASSUME NEW s, Reaches(s.items, s.mapping), NEW u
    PROVE  /\ ByUserId(s, u) = {} => \A i \in 1..Len(s.items) : s.items[i].value.userId # u
           /\ ByUserId(s, u) # {} =>
                \E i \in 1..Len(s.items) : s.items[i].value.userId = u /\ Min(ByUserId(s, u)) = i
<1> DEFINE hits == ByUserId(s, u)
<1>1. DOMAIN s.items = 1..Len(s.items) /\ Len(s.items) \in Nat
  BY ReachesIs
<1>2. hits = {i \in 1..Len(s.items) : s.items[i].value.userId = u}
  BY <1>1 DEF ByUserId
<1>3. hits \subseteq Nat
  BY <1>1, <1>2
<1>4. hits # {} => Min(hits) \in hits
  <2> HIDE DEF hits
  <2> QED BY <1>3, MinOfSome
<1> HIDE DEF hits
<1>5. /\ hits = {} => \A i \in 1..Len(s.items) : s.items[i].value.userId # u
      /\ hits # {} => \E i \in 1..Len(s.items) : s.items[i].value.userId = u /\ Min(hits) = i
  BY <1>2, <1>4
<1> QED BY <1>5 DEF hits

Wanted(w) == w \in LinkWants \cup {<<<<>>, <<>>>>}
CellsTyped(cell) == DOMAIN cell = {1, 2} /\ \A c \in {1, 2} : cell[c].id \in LinkKeys /\ Wanted(cell[c].want)
\* What is kept besides the cache.
Holder(s) ==
  /\ s.nextId \in LinkKeys /\ s.cursor \in LinkKeys /\ CellsTyped(s.cell)
  /\ Wanted(s.want) /\ (s.pending => s.want \in LinkWants)
\* The store of the links, whatever was asked of it.
LinkTyped(s) == DOMAIN s = LinkNames /\ Reaches(s.items, s.mapping) /\ Holder(s)

\* The three things that setHyperlink() does: no link, a link that is known, a new one.
EndsLink(s, t) == s.want[2] = <<>> /\ t = [s EXCEPT !.cursor = 0, !.own = FALSE]
KnownLink(s, read, t) ==
  \E i \in 1..Len(s.items) :
    /\ s.items[i].value.userId = CacheId(s.want) /\ CacheId(s.want) # <<>>
    /\ t = TouchLink(s, s.items[i].key, read)
Unheld(s) == CacheId(s.want) = <<>> \/ \A i \in 1..Len(s.items) : s.items[i].value.userId # CacheId(s.want)
MakesLink(s, t) == t = NewLink(s) /\ Unheld(s)

\* What a request asks to be stored, field by field.
LEMMA ValueIs == ASSUME NEW w PROVE ValueOf(w).userId = CacheId(w) /\ ValueOf(w).uri = w[2]
BY DEF ValueOf, CacheId

\* A request does one of the three.
LEMMA SetHyperlinkIs ==
    ASSUME NEW s, Reaches(s.items, s.mapping), NEW read
    PROVE  LET t == SetHyperlink(s, read) IN EndsLink(s, t) \/ KnownLink(s, read, t) \/ MakesLink(s, t)
<1> DEFINE u == CacheId(s.want)
           hits == IF u = <<>> THEN {} ELSE ByUserId(s, u)
           t == SetHyperlink(s, read)
<1>0. SUFFICES EndsLink(s, t) \/ KnownLink(s, read, t) \/ MakesLink(s, t)
  OBVIOUS
<1>1. t = CASE s.want[2] = <<>> -> [s EXCEPT !.cursor = 0, !.own = FALSE]
            [] s.want[2] # <<>> /\ hits # {} -> TouchLink(s, s.items[Min(hits)].key, read)
            [] OTHER -> NewLink(s)
  BY DEF SetHyperlink
<1> HIDE DEF t, hits, u
<1>2. CASE s.want[2] = <<>>
  BY <1>1, <1>2 DEF EndsLink
<1>3. CASE s.want[2] # <<>> /\ hits # {}
  <2>1. t = TouchLink(s, s.items[Min(hits)].key, read)
    BY <1>1, <1>3
  <2>2. u # <<>> /\ hits = ByUserId(s, u)
    BY <1>3 DEF hits
  <2>3. PICK i \in 1..Len(s.items) : s.items[i].value.userId = u /\ Min(hits) = i
    BY <1>3, <2>2, ByUserIdIs
  <2> QED BY <2>1, <2>2, <2>3 DEF KnownLink, u
<1>4. CASE s.want[2] # <<>> /\ hits = {}
  <2>1. t = NewLink(s)
    BY <1>1, <1>4
  <2>2. u = <<>> \/ \A i \in 1..Len(s.items) : s.items[i].value.userId # u
    BY <1>4, ByUserIdIs DEF hits
  <2> QED BY <2>1, <2>2 DEF MakesLink, Unheld, u
<1> QED BY <1>2, <1>3, <1>4

\* A number that is found is moved to the front; the cursor takes what is read.
LEMMA TouchLinkIs ==
    ASSUME NEW s, LinkTyped(s), NEW k \in LinkKeys, NEW read
    PROVE  LET t == TouchLink(s, k, read)
               u == TryGet(s, k)
           IN  /\ DOMAIN t = LinkNames /\ t.items = u.items /\ t.mapping = u.mapping /\ t.nextId = s.nextId
               /\ t.cursor = read /\ t.own = (read = k) /\ t.asked = k /\ t.pending = (read = 0)
               /\ t.cell = s.cell /\ t.want = s.want /\ t.split = s.split
<1> DEFINE u == TryGet(s, k)
           t == TouchLink(s, k, read)
<1>1. DOMAIN s = LinkNames /\ Reaches(s.items, s.mapping)
  BY DEF LinkTyped
<1>2. SameStore(s, u)
  BY <1>1, GetStep
<1>3. t = [u EXCEPT !.cursor = read, !.own = (read = k), !.asked = k, !.pending = (read = 0)]
  BY DEF TouchLink
<1> HIDE DEF u, t
<1>4. /\ DOMAIN t = LinkNames /\ t.items = u.items /\ t.mapping = u.mapping /\ t.nextId = s.nextId
      /\ t.cursor = read /\ t.own = (read = k) /\ t.asked = k /\ t.pending = (read = 0)
      /\ t.cell = s.cell /\ t.want = s.want /\ t.split = s.split
  BY <1>2, <1>3 DEF SameStore, LinkNames
<1> QED BY <1>4 DEF u, t

\* The cells after the number n was given.
Given(cell, n) == [c \in {1, 2} |-> [cell[c] EXCEPT !.own = cell[c].own /\ cell[c].id # n]]
\* A new link takes the next number, unless an item has it still: then the code stops.
LEMMA NewLinkIs ==
    ASSUME NEW s, LinkTyped(s), s.want \in LinkWants
    PROVE  LET t == NewLink(s)
               u == EmplaceLink(s, s.nextId, ValueOf(s.want))
           IN  \/ ~CanEmplace(s, s.nextId) /\ t = [s EXCEPT !.fault = TRUE]
               \/ /\ CanEmplace(s, s.nextId) /\ DOMAIN t = LinkNames /\ t.items = u.items /\ t.mapping = u.mapping
                  /\ t.cursor = s.nextId /\ t.own = TRUE /\ t.nextId = (s.nextId + 1) % LinkIds
                  /\ t.asked = s.nextId /\ t.pending = FALSE /\ t.split = (s.split \/ s.pending)
                  /\ t.want = s.want /\ t.cell = Given(s.cell, s.nextId)
<1> DEFINE u == EmplaceLink(s, s.nextId, ValueOf(s.want))
           t == NewLink(s)
           d == Given(s.cell, s.nextId)
<1>1. [userId |-> CacheId(s.want), uri |-> s.want[2]] = ValueOf(s.want)
  BY DEF ValueOf, CacheId
<1>2. CASE ~CanEmplace(s, s.nextId)
  BY <1>2 DEF NewLink
<1>3. CASE CanEmplace(s, s.nextId)
  <2>1. t = [u EXCEPT !.cursor = s.nextId, !.own = TRUE, !.nextId = (s.nextId + 1) % LinkIds, !.made = s.made + 1,
                      !.asked = s.nextId, !.pending = FALSE, !.split = s.split \/ s.pending, !.cell = d]
    BY <1>1, <1>3 DEF NewLink, Given
  <2>2. DOMAIN s = LinkNames /\ Reaches(s.items, s.mapping) /\ s.nextId \in LinkKeys /\ ValueOf(s.want) \in LinkValues
    BY DEF LinkTyped, Holder, LinkValues
  <2>3. SameStore(s, u)
    BY <1>3, <2>2, PutStep
  <2> HIDE DEF u, t, d
  <2>4. /\ DOMAIN t = LinkNames /\ t.items = u.items /\ t.mapping = u.mapping
        /\ t.cursor = s.nextId /\ t.own = TRUE /\ t.nextId = (s.nextId + 1) % LinkIds
        /\ t.asked = s.nextId /\ t.pending = FALSE /\ t.split = (s.split \/ s.pending)
        /\ t.want = s.want /\ t.cell = d
    BY <2>1, <2>3 DEF SameStore, LinkNames
  <2> QED BY <1>3, <2>4 DEF u, t, d
<1> QED BY <1>2, <1>3

\* Giving a number changes whose it is, not what the cells hold.
LEMMA GivenIs ==
    ASSUME NEW cell, CellsTyped(cell), NEW n
    PROVE  /\ CellsTyped(Given(cell, n))
           /\ \A c \in {1, 2} : /\ Given(cell, n)[c].id = cell[c].id /\ Given(cell, n)[c].want = cell[c].want
                                /\ Given(cell, n)[c].own => cell[c].own /\ cell[c].id # n
<1>1. \A c \in {1, 2} : Given(cell, n)[c] = [cell[c] EXCEPT !.own = cell[c].own /\ cell[c].id # n]
  BY DEF Given
<1>2. ASSUME NEW x, NEW b
      PROVE  LET y == [x EXCEPT !.own = b] IN y.id = x.id /\ y.want = x.want /\ (y.own => b)
  OBVIOUS
<1>3. \A c \in {1, 2} : /\ Given(cell, n)[c].id = cell[c].id /\ Given(cell, n)[c].want = cell[c].want
                        /\ Given(cell, n)[c].own => cell[c].own /\ cell[c].id # n
  <2> TAKE c \in {1, 2}
  <2> DEFINE b == cell[c].own /\ cell[c].id # n
             y == [cell[c] EXCEPT !.own = b]
  <2>1. Given(cell, n)[c] = y
    BY <1>1
  <2>2. y.id = cell[c].id /\ y.want = cell[c].want /\ (y.own => b)
    <3> HIDE DEF b
    <3> QED BY <1>2
  <2> HIDE DEF y
  <2> QED BY <2>1, <2>2
<1>4. DOMAIN Given(cell, n) = {1, 2}
  BY DEF Given
<1> QED BY <1>3, <1>4 DEF CellsTyped

\* The key after the last one is the first one.
LEMMA NextNumber == ASSUME NEW n \in LinkKeys PROVE (n + 1) % LinkIds \in LinkKeys
BY LinkSizes DEF LinkKeys

\* There are more numbers than items, so that some number has no item.
LEMMA SomeKeyMissing ==
    ASSUME NEW s, Reaches(s.items, s.mapping)
    PROVE  \E k \in LinkKeys : Less(LinkPairs(s.items), k) = LinkPairs(s.items)
<1> DEFINE x == s.items
           n == Len(x)
           f == [i \in 1..n |-> x[i].key]
<1>1. n \in Nat /\ n <= LinkCapacity /\ LinkCapacity \in Nat /\ LinkIds \in Nat /\ LinkCapacity < LinkIds
  BY ReachesIs, LinkSizes
<1>2. IsFiniteSet(LinkKeys) /\ n < Cardinality(LinkKeys)
  BY <1>1, LinkCounts
<1>3. PICK k \in LinkKeys : \A i \in 1..n : f[i] # k
  <2> HIDE DEF n, f
  <2> QED BY <1>1, <1>2, SomeUnused
<1>4. k \notin DOMAIN s.mapping
  <2>1. \A i \in 1..n : x[i].key # k
    BY <1>3
  <2>2. \A h \in DOMAIN s.mapping : \E i \in 1..n : x[i].key = h
    BY ReachesIs
  <2> HIDE DEF n, x
  <2> QED BY <2>1, <2>2
<1> QED BY <1>4, LinkMissIs

\* What an action does to the cache, and the store after it.
Steps(s, t) == LinkTyped(t) /\ LinkStep(LinkPairs(s.items), LinkPairs(t.items), t.asked)

\* Nothing is asked: no key leaves.
LEMMA IdleStep ==
    ASSUME NEW s, LinkTyped(s), NEW t, DOMAIN t = LinkNames, t.items = s.items, t.mapping = s.mapping,
           Holder(t), t.asked = 0
    PROVE  Steps(s, t)
<1>1. Reaches(s.items, s.mapping)
  BY DEF LinkTyped
<1>2. PICK k \in LinkKeys : Less(LinkPairs(s.items), k) = LinkPairs(s.items)
  BY <1>1, SomeKeyMissing
<1>3. LinkStep(LinkPairs(s.items), LinkPairs(t.items), t.asked)
  BY <1>2 DEF LinkStep
<1>4. LinkTyped(t)
  BY <1>1 DEF LinkTyped
<1> QED BY <1>3, <1>4 DEF Steps

\* A lookup of the key k.
LEMMA LookStep ==
    ASSUME NEW s, LinkTyped(s), NEW k \in LinkKeys, NEW t, DOMAIN t = LinkNames,
           t.items = TryGet(s, k).items, t.mapping = TryGet(s, k).mapping, Holder(t), t.asked = k
    PROVE  Steps(s, t)
<1> DEFINE u == TryGet(s, k)
<1>0. DOMAIN s = LinkNames /\ Reaches(s.items, s.mapping)
  BY DEF LinkTyped
<1>1. /\ SameStore(s, u) /\ Reaches(u.items, u.mapping)
      /\ \/ LinkUse(LinkPairs(s.items), LinkPairs(u.items), k)
         \/ k \notin KeysOf(LinkPairs(s.items)) /\ u = s
  BY <1>0, GetStep
<1> HIDE DEF u
<1>2. t.items = u.items /\ t.mapping = u.mapping
  BY DEF u
<1>3. LinkStep(LinkPairs(s.items), LinkPairs(t.items), t.asked)
  BY <1>1, <1>2 DEF LinkStep
<1>4. LinkTyped(t)
  BY <1>1, <1>2 DEF LinkTyped
<1> QED BY <1>3, <1>4 DEF Steps

\* A link with the next number.
LEMMA MakeStep ==
    ASSUME NEW s, LinkTyped(s), s.want \in LinkWants, CanEmplace(s, s.nextId), NEW t, DOMAIN t = LinkNames,
           t.items = EmplaceLink(s, s.nextId, ValueOf(s.want)).items,
           t.mapping = EmplaceLink(s, s.nextId, ValueOf(s.want)).mapping,
           Holder(t), t.asked = s.nextId
    PROVE  Steps(s, t)
<1> DEFINE v == ValueOf(s.want)
           u == EmplaceLink(s, s.nextId, v)
<1>0. DOMAIN s = LinkNames /\ Reaches(s.items, s.mapping) /\ s.nextId \in LinkKeys
  BY DEF LinkTyped, Holder
<1>1. v \in LinkValues
  BY DEF LinkValues
<1>2. /\ SameStore(s, u) /\ Reaches(u.items, u.mapping)
      /\ LinkPairs(u.items) = <<<<s.nextId, v.uri>>>> \o LinkTrim(Less(LinkPairs(s.items), s.nextId))
  BY <1>0, <1>1, PutStep
<1>3. v.uri \in LinkUris
  BY ValueIs DEF LinkWants, LinkUris
<1> HIDE DEF u, v
<1>4. t.items = u.items /\ t.mapping = u.mapping
  BY DEF u, v
<1>5. LinkStep(LinkPairs(s.items), LinkPairs(t.items), t.asked)
  BY <1>0, <1>2, <1>3, <1>4 DEF LinkStep
<1>6. LinkTyped(t)
  BY <1>2, <1>4 DEF LinkTyped
<1> QED BY <1>5, <1>6 DEF Steps

\* A new link, or the failed Require, which changes nothing else.
LEMMA NewStep ==
    ASSUME NEW s, LinkTyped(s), s.want \in LinkWants, s.asked = 0
    PROVE  Steps(s, NewLink(s))
<1> DEFINE t == NewLink(s)
           u == EmplaceLink(s, s.nextId, ValueOf(s.want))
<1>1. DOMAIN s = LinkNames /\ Holder(s) /\ s.nextId \in LinkKeys /\ CellsTyped(s.cell) /\ Wanted(s.want)
  BY DEF LinkTyped, Holder
<1>2. \/ ~CanEmplace(s, s.nextId) /\ t = [s EXCEPT !.fault = TRUE]
      \/ /\ CanEmplace(s, s.nextId) /\ DOMAIN t = LinkNames /\ t.items = u.items /\ t.mapping = u.mapping
         /\ t.cursor = s.nextId /\ t.nextId = (s.nextId + 1) % LinkIds
         /\ t.asked = s.nextId /\ t.pending = FALSE /\ t.want = s.want /\ t.cell = Given(s.cell, s.nextId)
  BY NewLinkIs
<1> HIDE DEF t
<1>3. CASE t = [s EXCEPT !.fault = TRUE]
  <2>1. /\ DOMAIN t = LinkNames /\ t.items = s.items /\ t.mapping = s.mapping /\ t.asked = 0 /\ t.nextId = s.nextId
        /\ t.cursor = s.cursor /\ t.cell = s.cell /\ t.want = s.want /\ t.pending = s.pending
    BY <1>1, <1>3 DEF LinkNames
  <2>2. Holder(t)
    BY <1>1, <2>1 DEF Holder
  <2>3. Steps(s, t)
    BY <2>1, <2>2, IdleStep
  <2> QED BY <2>3 DEF t
<1>4. CASE /\ CanEmplace(s, s.nextId) /\ DOMAIN t = LinkNames /\ t.items = u.items /\ t.mapping = u.mapping
           /\ t.cursor = s.nextId /\ t.nextId = (s.nextId + 1) % LinkIds
           /\ t.asked = s.nextId /\ t.pending = FALSE /\ t.want = s.want /\ t.cell = Given(s.cell, s.nextId)
  <2>1. (s.nextId + 1) % LinkIds \in LinkKeys /\ CellsTyped(Given(s.cell, s.nextId))
    BY <1>1, NextNumber, GivenIs
  <2>2. Holder(t)
    BY <1>1, <1>4, <2>1 DEF Holder
  <2>3. Steps(s, t)
    BY <1>4, <2>2, MakeStep
  <2> QED BY <2>3 DEF t
<1> QED BY <1>2, <1>3, <1>4

\* The request w, and nothing asked of the cache so far.
Asks(s, w) == [s EXCEPT !.asked = 0, !.want = w]
LEMMA AsksIs ==
    ASSUME NEW s, LinkTyped(s), NEW w \in LinkWants
    PROVE  LET z == Asks(s, w)
           IN  /\ LinkTyped(z) /\ DOMAIN z = LinkNames /\ z.asked = 0 /\ z.want = w /\ z.items = s.items
               /\ z.mapping = s.mapping /\ z.nextId = s.nextId /\ z.cursor = s.cursor /\ z.own = s.own
               /\ z.cell = s.cell /\ z.pending = s.pending /\ z.split = s.split /\ z.fault = s.fault
<1> DEFINE z == Asks(s, w)
<1>1. DOMAIN s = LinkNames /\ Reaches(s.items, s.mapping) /\ Holder(s)
  BY DEF LinkTyped
<1>2. /\ DOMAIN z = LinkNames /\ z.asked = 0 /\ z.want = w /\ z.items = s.items
      /\ z.mapping = s.mapping /\ z.nextId = s.nextId /\ z.cursor = s.cursor /\ z.own = s.own
      /\ z.cell = s.cell /\ z.pending = s.pending /\ z.split = s.split /\ z.fault = s.fault
  BY <1>1 DEF Asks, LinkNames
<1> HIDE DEF z
<1>3. LinkTyped(z)
  BY <1>1, <1>2 DEF LinkTyped, Holder, Wanted
<1> QED BY <1>2, <1>3 DEF z

\* OSC 8.
LEMMA HyperlinkStep ==
    ASSUME NEW s, LinkTyped(s), NEW w \in LinkWants, NEW read \in LinkKeys
    PROVE  Steps(s, SetHyperlink(Asks(s, w), read))
<1> DEFINE z == Asks(s, w)
           t == SetHyperlink(z, read)
<1>1. LinkTyped(z) /\ DOMAIN z = LinkNames /\ z.asked = 0 /\ z.want = w /\ z.items = s.items
  BY AsksIs
<1>2. Reaches(z.items, z.mapping) /\ Holder(z) /\ 0 \in LinkKeys
  BY <1>1, LinkSizes DEF LinkTyped, LinkKeys
<1> HIDE DEF z
<1>3. EndsLink(z, t) \/ KnownLink(z, read, t) \/ MakesLink(z, t)
  BY <1>2, SetHyperlinkIs
<1> HIDE DEF t
<1>4. ASSUME EndsLink(z, t) PROVE Steps(z, t)
  <2>1. /\ DOMAIN t = LinkNames /\ t.items = z.items /\ t.mapping = z.mapping /\ t.nextId = z.nextId /\ t.cursor = 0
        /\ t.cell = z.cell /\ t.asked = 0 /\ t.want = z.want /\ t.pending = z.pending
    BY <1>1, <1>4 DEF EndsLink, LinkNames
  <2>2. Holder(t)
    BY <1>2, <2>1 DEF Holder
  <2> QED BY <1>1, <2>1, <2>2, IdleStep
<1>5. ASSUME KnownLink(z, read, t) PROVE Steps(z, t)
  <2>1. PICK i \in 1..Len(z.items) : t = TouchLink(z, z.items[i].key, read)
    BY <1>5 DEF KnownLink
  <2> DEFINE k == z.items[i].key
             u == TryGet(z, k)
  <2>2. k \in LinkKeys
    BY <1>2, ReachesIs
  <2>3. t = TouchLink(z, k, read)
    BY <2>1
  <2> HIDE DEF k
  <2>4. /\ DOMAIN t = LinkNames /\ t.items = u.items /\ t.mapping = u.mapping /\ t.nextId = z.nextId
        /\ t.cursor = read /\ t.asked = k /\ t.cell = z.cell /\ t.want = z.want
    BY <1>1, <2>2, <2>3, TouchLinkIs
  <2>5. Holder(t)
    BY <1>1, <1>2, <2>4 DEF Holder
  <2> QED BY <1>1, <2>2, <2>4, <2>5, LookStep
<1>6. ASSUME MakesLink(z, t) PROVE Steps(z, t)
  BY <1>1, <1>6, NewStep DEF MakesLink
<1>7. Steps(z, t)
  BY <1>3, <1>4, <1>5, <1>6
<1>8. Steps(s, t)
  BY <1>1, <1>7 DEF Steps
<1> QED BY <1>8 DEF t, z

LinkInv == LinkTyped(link)

\* The link that was found with the number 0 is made again.
LEMMA AgainIs ==
    ASSUME LinkInv, link.pending
    PROVE  LET z == [link EXCEPT !.asked = 0]
           IN  /\ LinkTyped(z) /\ z.want \in LinkWants /\ z.asked = 0 /\ z.items = link.items /\ z.mapping = link.mapping
               /\ z.nextId = link.nextId /\ z.cursor = link.cursor /\ z.own = link.own /\ z.cell = link.cell
               /\ z.pending /\ z.split = link.split /\ z.fault = link.fault /\ z.want = link.want
<1> DEFINE z == [link EXCEPT !.asked = 0]
<1>1. DOMAIN link = LinkNames /\ Reaches(link.items, link.mapping) /\ Holder(link)
  BY DEF LinkInv, LinkTyped
<1>2. /\ DOMAIN z = LinkNames /\ z.asked = 0 /\ z.items = link.items /\ z.mapping = link.mapping
      /\ z.nextId = link.nextId /\ z.cursor = link.cursor /\ z.own = link.own /\ z.cell = link.cell
      /\ z.pending = link.pending /\ z.split = link.split /\ z.fault = link.fault /\ z.want = link.want
  BY <1>1 DEF LinkNames
<1> HIDE DEF z
<1>3. LinkTyped(z) /\ z.want \in LinkWants
  BY <1>1, <1>2 DEF LinkTyped, Holder
<1> QED BY <1>2, <1>3 DEF z

LEMMA AgainStep == ASSUME LinkInv, MakeAgain PROVE Steps(link, link')
<1> DEFINE z == [link EXCEPT !.asked = 0]
<1>1. LinkTyped(z) /\ z.want \in LinkWants /\ z.asked = 0 /\ z.items = link.items
  BY AgainIs DEF MakeAgain
<1>2. link' = NewLink(z)
  BY DEF MakeAgain
<1> HIDE DEF z
<1>3. Steps(z, link')
  BY <1>1, <1>2, NewStep
<1> QED BY <1>1, <1>3 DEF Steps

\* The cell that text is written into, and the others.
LEMMA WriteIs ==
    ASSUME LinkInv, NEW c \in {1, 2}, WriteLinked(c)
    PROVE  /\ DOMAIN link' = LinkNames /\ link'.items = link.items /\ link'.mapping = link.mapping
           /\ link'.nextId = link.nextId /\ link'.cursor = link.cursor /\ link'.own = link.own
           /\ link'.asked = link.asked /\ link'.want = link.want /\ link'.pending = link.pending
           /\ link'.split = link.split /\ link'.fault = link.fault /\ DOMAIN link'.cell = {1, 2}
           /\ \A b \in {1, 2} :
                \/ link'.cell[b] = link.cell[b]
                \/ link'.cell[b] = [id |-> link.cursor, own |-> link.own, want |-> link.want]
<1> DEFINE e == [id |-> link.cursor, own |-> link.own, want |-> link.want]
           d == [link.cell EXCEPT ![c] = e]
<1>1. DOMAIN link = LinkNames /\ DOMAIN link.cell = {1, 2}
  BY DEF LinkInv, LinkTyped, Holder, CellsTyped
<1>2. link' = [link EXCEPT !.cell = d]
  BY <1>1 DEF WriteLinked, LinkNames
<1>3. DOMAIN d = {1, 2} /\ \A b \in {1, 2} : d[b] = link.cell[b] \/ d[b] = e
  BY <1>1
<1> HIDE DEF d, e
<1>4. /\ DOMAIN link' = LinkNames /\ link'.items = link.items /\ link'.mapping = link.mapping
      /\ link'.nextId = link.nextId /\ link'.cursor = link.cursor /\ link'.own = link.own
      /\ link'.asked = link.asked /\ link'.want = link.want /\ link'.pending = link.pending
      /\ link'.split = link.split /\ link'.fault = link.fault /\ link'.cell = d
  BY <1>1, <1>2 DEF LinkNames
<1> QED BY <1>3, <1>4 DEF e

\* The cache is the same after text was written.
LEMMA WriteStep ==
    ASSUME LinkInv, NEW c \in {1, 2}, WriteLinked(c)
    PROVE  LinkInv' /\ link'.items = link.items /\ link'.asked = link.asked
<1>1. /\ DOMAIN link' = LinkNames /\ link'.items = link.items /\ link'.mapping = link.mapping
      /\ link'.nextId = link.nextId /\ link'.cursor = link.cursor
      /\ link'.asked = link.asked /\ link'.want = link.want /\ link'.pending = link.pending
      /\ DOMAIN link'.cell = {1, 2}
      /\ \A b \in {1, 2} :
           \/ link'.cell[b] = link.cell[b]
           \/ link'.cell[b] = [id |-> link.cursor, own |-> link.own, want |-> link.want]
  BY WriteIs
<1>2. Reaches(link.items, link.mapping) /\ Holder(link)
  BY DEF LinkInv, LinkTyped
<1>4. CellsTyped(link'.cell)
  <2>1. ASSUME NEW b \in {1, 2} PROVE link'.cell[b].id \in LinkKeys /\ Wanted(link'.cell[b].want)
    <3>1. CASE link'.cell[b] = link.cell[b]
      BY <1>2, <3>1 DEF Holder, CellsTyped
    <3>2. CASE link'.cell[b] = [id |-> link.cursor, own |-> link.own, want |-> link.want]
      BY <1>2, <3>2 DEF Holder
    <3> QED BY <1>1, <3>1, <3>2
  <2> QED BY <1>1, <2>1 DEF CellsTyped
<1>5. Holder(link')
  BY <1>1, <1>2, <1>4 DEF Holder
<1> QED BY <1>1, <1>2, <1>5 DEF LinkInv, LinkTyped

\* A cell is drawn: a lookup of its number.
LEMMA ShowIs ==
    ASSUME LinkInv, NEW c \in {1, 2}, ShowCell(c)
    PROVE  LET u == TryGet(link, link.cell[c].id)
           IN  /\ link.cell[c].id \in LinkKeys /\ DOMAIN link' = LinkNames /\ link'.items = u.items
               /\ link'.mapping = u.mapping /\ link'.nextId = link.nextId /\ link'.cursor = link.cursor
               /\ link'.own = link.own /\ link'.asked = link.cell[c].id /\ link'.want = link.want
               /\ link'.pending = link.pending /\ link'.split = link.split /\ link'.fault = link.fault
               /\ link'.cell = link.cell
<1> DEFINE k == link.cell[c].id
           u == TryGet(link, k)
<1>1. DOMAIN link = LinkNames /\ Reaches(link.items, link.mapping) /\ k \in LinkKeys
  BY DEF LinkInv, LinkTyped, Holder, CellsTyped
<1>2. link' = [u EXCEPT !.asked = k]
  BY DEF ShowCell
<1> HIDE DEF k
<1>3. SameStore(link, u)
  BY <1>1, GetStep
<1> HIDE DEF u
<1>4. /\ DOMAIN link' = LinkNames /\ link'.items = u.items
      /\ link'.mapping = u.mapping /\ link'.nextId = link.nextId /\ link'.cursor = link.cursor
      /\ link'.own = link.own /\ link'.asked = k /\ link'.want = link.want
      /\ link'.pending = link.pending /\ link'.split = link.split /\ link'.fault = link.fault
      /\ link'.cell = link.cell
  BY <1>2, <1>3 DEF SameStore, LinkNames
<1> QED BY <1>1, <1>4 DEF u, k

LEMMA ShowStep == ASSUME LinkInv, NEW c \in {1, 2}, ShowCell(c) PROVE Steps(link, link')
<1> DEFINE k == link.cell[c].id
           u == TryGet(link, k)
<1>1. /\ k \in LinkKeys /\ DOMAIN link' = LinkNames /\ link'.items = u.items /\ link'.mapping = u.mapping
      /\ link'.nextId = link.nextId /\ link'.cursor = link.cursor /\ link'.asked = k /\ link'.want = link.want
      /\ link'.pending = link.pending /\ link'.cell = link.cell
  BY ShowIs
<1>2. LinkTyped(link) /\ Holder(link)
  BY DEF LinkInv, LinkTyped
<1> HIDE DEF k
<1>3. Holder(link')
  BY <1>1, <1>2 DEF Holder
<1> QED BY <1>1, <1>2, <1>3, LookStep

\* Every step is one of the cache, or leaves it.
LEMMA LinkNextStep ==
    ASSUME LinkInv, LinkNext
    PROVE  \/ Steps(link, link')
           \/ LinkInv' /\ link'.items = link.items /\ link'.asked = link.asked
<1>1. ASSUME NEW r \in LinkRequests, NEW read \in 0 .. LinkIds - 1, Hyperlink(Request[r], read) PROVE Steps(link, link')
  <2>1. Request[r] \in LinkWants /\ read \in LinkKeys
    BY DEF LinkWants, LinkKeys
  <2>2. link' = SetHyperlink(Asks(link, Request[r]), read)
    BY <1>1 DEF Hyperlink, Asks
  <2> QED BY <2>1, <2>2, HyperlinkStep DEF LinkInv
<1> QED BY <1>1, AgainStep, WriteStep, ShowStep DEF LinkNext

\* The store at the start.
LEMMA LinkStarts ==
    ASSUME LinkInit
    PROVE  /\ LinkInv /\ LinkPairs(link.items) = <<>> /\ link.asked = 0 /\ link.items = <<>>
           /\ link.own = FALSE /\ \A c \in {1, 2} : link.cell[c].own = FALSE
<1>1. /\ DOMAIN link = LinkNames /\ link.items = <<>> /\ link.mapping = <<>> /\ link.nextId = 1 /\ link.cursor = 0
      /\ link.own = FALSE /\ link.want = <<<<>>, <<>>>> /\ link.pending = FALSE /\ link.asked = 0
      /\ link.cell = [c \in {1, 2} |-> [id |-> 0, own |-> FALSE, want |-> <<<<>>, <<>>>>]]
  BY DEF LinkInit, LinkNames
<1>2. 0 \in LinkKeys /\ 1 \in LinkKeys /\ Wanted(<<<<>>, <<>>>>)
  BY LinkSizes DEF LinkKeys, Wanted
<1>3. DOMAIN link.cell = {1, 2} /\ \A c \in {1, 2} : link.cell[c] = [id |-> 0, own |-> FALSE, want |-> <<<<>>, <<>>>>]
  BY <1>1
<1>4. CellsTyped(link.cell)
  BY <1>2, <1>3 DEF CellsTyped
<1>5. Reaches(link.items, link.mapping)
  <2>1. Len(<<>>) = 0 /\ <<>> \in Seq(LinkItems) /\ DOMAIN <<>> = {} /\ 1..0 = {}
    OBVIOUS
  <2> QED BY <1>1, <2>1, LinkSizes DEF Reaches
<1>6. LinkPairs(link.items) = <<>>
  BY <1>1 DEF LinkPairs
<1>7. Holder(link)
  BY <1>1, <1>2, <1>4 DEF Holder
<1> QED BY <1>1, <1>3, <1>5, <1>6, <1>7 DEF LinkInv, LinkTyped

\* The operators of LruCache, of the list read as a cache.
LEMMA LinksOperators ==
    /\ Links!Held = KeysOf(LinkPairs(link.items))
    /\ \A k : Links!PlaceOf(k) = PlaceIn(LinkPairs(link.items), k)
    /\ \A k : Links!Without(k) = Less(LinkPairs(link.items), k)
<1> DEFINE C == LinkPairs(link.items)
<1>0. C = [i \in DOMAIN link.items |-> <<link.items[i].key, link.items[i].value.uri>>]
  BY DEF LinkPairs, LinkPair
<1> HIDE DEF C
<1>1. Links!Held = KeysOf(C)
  BY <1>0 DEF Links!Held, KeysOf
<1>2. \A k : Links!PlaceOf(k) = PlaceIn(C, k)
  BY <1>0 DEF Links!PlaceOf, PlaceIn
<1>3. \A k : Links!Without(k) = Less(C, k)
  <2> TAKE k
  <2>1. Links!Without(k) = IF k \in Links!Held THEN RemoveAt(C, Links!PlaceOf(k)) ELSE C
    BY <1>0 DEF Links!Without, Links!RemoveAt, RemoveAt
  <2>2. Links!PlaceOf(k) = PlaceIn(C, k)
    BY <1>2
  <2> QED BY <1>1, <2>1, <2>2 DEF Less
<1> QED BY <1>1, <1>2, <1>3 DEF C

\* What a step does to the cache is allowed by LruCache.
LEMMA LinksStep ==
    ASSUME LinkStep(LinkPairs(link.items), LinkPairs(link'.items), link'.asked)
    PROVE  Links!CacheNext
<1> DEFINE C == LinkPairs(link.items)
           D == LinkPairs(link'.items)
           A == [i \in DOMAIN link.items |-> <<link.items[i].key, link.items[i].value.uri>>]
<1>0. C = A /\ D = A'
  BY DEF LinkPairs, LinkPair
<1>00. /\ Links!Held = KeysOf(C)
       /\ \A k : Links!PlaceOf(k) = PlaceIn(C, k)
       /\ \A k : Links!Without(k) = Less(C, k)
  BY LinksOperators
<1>01. LinkUris = {Request[r][2] : r \in LinkRequests} /\ LinkKeys = 0 .. LinkIds - 1
  BY DEF LinkUris, LinkKeys
<1>02. LinkStep(C, D, link'.asked)
  OBVIOUS
<1> HIDE DEF C, D
<1>1. ASSUME NEW k \in LinkKeys, link'.asked = k, k \notin KeysOf(C), D = C
      PROVE  Links!CacheNext
  BY <1>0, <1>00, <1>01, <1>1 DEF Links!CacheNext
<1>2. ASSUME NEW k \in LinkKeys, link'.asked = k, LinkUse(C, D, k)
      PROVE  Links!CacheNext
  <2>1. Links!Use(k)
    BY <1>0, <1>00, <1>2 DEF Links!Use, LinkUse
  <2> QED BY <1>01, <1>2, <2>1 DEF Links!CacheNext
<1>3. ASSUME NEW k \in LinkKeys, link'.asked = k, NEW v \in LinkUris, D = <<<<k, v>>>> \o LinkTrim(Less(C, k))
      PROVE  Links!CacheNext
  <2>1. Links!Put(k, v)
    <3> DEFINE rest == Links!Without(k)
    <3>1. rest = Less(C, k)
      BY <1>00
    <3>2. D = <<<<k, v>>>> \o (IF Len(rest) = LinkCapacity THEN Front(rest) ELSE rest)
      BY <1>3, <3>1 DEF LinkTrim
    <3> QED BY <1>0, <3>2 DEF Links!Put, Links!Front, Front
  <2> QED BY <1>01, <1>3, <2>1 DEF Links!CacheNext
<1>4. ASSUME link'.asked = 0, NEW k \in LinkKeys, D = Less(C, k) PROVE Links!CacheNext
  <2>1. Links!Drop(k)
    BY <1>0, <1>00, <1>4 DEF Links!Drop
  <2> QED BY <1>01, <1>4, <2>1 DEF Links!CacheNext
<1> QED BY <1>02, <1>1, <1>2, <1>3, <1>4 DEF LinkStep

\* Every step keeps the list and the map together and is one of LruCache.
LEMMA LinkInvNext ==
    ASSUME LinkInv, [LinkNext]_link
    PROVE  /\ LinkInv'
           /\ [Links!CacheNext]_<<[i \in DOMAIN link.items |-> <<link.items[i].key, link.items[i].value.uri>>], link.asked>>
<1>1. CASE Steps(link, link')
  <2>1. LinkInv'
    BY <1>1 DEF Steps, LinkInv
  <2>2. Links!CacheNext
    BY <1>1, LinksStep DEF Steps
  <2> QED BY <2>1, <2>2
<1>2. CASE LinkInv' /\ link'.items = link.items /\ link'.asked = link.asked
  BY <1>2
<1>3. CASE UNCHANGED link
  BY <1>3 DEF LinkInv
<1> QED BY <1>1, <1>2, <1>3, LinkNextStep

\* At the start both are empty.
LEMMA LinkInvInit == ASSUME LinkInit PROVE LinkInv /\ Links!CacheInit
<1>1. LinkInv /\ link.asked = 0 /\ link.items = <<>>
  BY LinkStarts
<1>2. [i \in DOMAIN link.items |-> <<link.items[i].key, link.items[i].value.uri>>] = <<>>
  BY <1>1
<1> QED BY <1>1, <1>2 DEF Links!CacheInit

(***************************************************************************)
(* For every capacity and every number of numbers, also after the numbers  *)
(* started again, the store of the hyperlinks is a least-recently-used     *)
(* cache (ListIsCache).                                                    *)
(***************************************************************************)
THEOREM LinksAreLruCache == LinkSpec => ListIsCache
<1>1. LinkInit => LinkInv /\ Links!CacheInit
  BY LinkInvInit
<1>2. LinkInv /\ [LinkNext]_link
        => /\ LinkInv'
           /\ [Links!CacheNext]_<<[i \in DOMAIN link.items |-> <<link.items[i].key, link.items[i].value.uri>>], link.asked>>
  BY LinkInvNext
<1> QED BY <1>1, <1>2, PTL DEF LinkSpec, ListIsCache, Links!CacheSpec

\* The number id stands for what w asked for, or is forgotten.
Owns(x, id, w) ==
  \A i \in 1..Len(x) :
    x[i].key = id => x[i].value.userId = CacheId(w) /\ (CacheId(w) = <<>> => x[i].value.uri = w[2])
\* One id and address, one item.
OneEach(x) ==
  \A i, j \in 1..Len(x) :
    (x[i].value.userId = x[j].value.userId /\ x[i].value.userId # <<>>) => i = j
\* What the numbers stand for, of those who have theirs for themselves.
LinkSafe(s) ==
  /\ s.split \/ OneEach(s.items)
  /\ s.fault \/ (s.own => Owns(s.items, s.cursor, s.want))
  /\ \A c \in {1, 2} : s.cell[c].own => Owns(s.items, s.cell[c].id, s.cell[c].want)

\* What the numbers stand for does not depend on the order of the items, nor on nodes.
LEMMA FromKeeps ==
    ASSUME NEW x, NEW y, NEW m, From(x, y), Reaches(y, m)
    PROVE  /\ \A id, w : Owns(x, id, w) => Owns(y, id, w)
           /\ OneEach(x) => OneEach(y)
<1>1. ASSUME NEW id, NEW w, Owns(x, id, w) PROVE Owns(y, id, w)
  BY <1>1 DEF Owns, From
<1>2. ASSUME OneEach(x) PROVE OneEach(y)
  <2>0. \A i, j \in 1..Len(y) : y[i].key = y[j].key => i = j
    BY ReachesIs
  <2>1. ASSUME NEW i \in 1..Len(y), NEW j \in 1..Len(y), y[i].value.userId = y[j].value.userId, y[i].value.userId # <<>>
        PROVE  i = j
    <3>1. PICK a \in 1..Len(x) : y[i].key = x[a].key /\ y[i].value = x[a].value
      BY DEF From
    <3>2. PICK b \in 1..Len(x) : y[j].key = x[b].key /\ y[j].value = x[b].value
      BY DEF From
    <3>3. a = b
      BY <1>2, <2>1, <3>1, <3>2 DEF OneEach
    <3> QED BY <2>0, <3>1, <3>2, <3>3
  <2> QED BY <2>1 DEF OneEach
<1> QED BY <1>1, <1>2

\* Nothing but the order changed, and the number of the cursor.
LEMMA SafeKeeps ==
    ASSUME NEW s, LinkSafe(s), NEW t, From(s.items, t.items), Reaches(t.items, t.mapping), t.split = s.split,
           t.cell = s.cell, t.fault \/ (t.own => Owns(t.items, t.cursor, t.want))
    PROVE  LinkSafe(t)
<1>1. /\ s.split \/ OneEach(s.items)
      /\ \A c \in {1, 2} : s.cell[c].own => Owns(s.items, s.cell[c].id, s.cell[c].want)
  BY DEF LinkSafe
<1>2. /\ OneEach(s.items) => OneEach(t.items)
      /\ \A id, w : Owns(s.items, id, w) => Owns(t.items, id, w)
  BY FromKeeps
<1>3. \A c \in {1, 2} : t.cell[c].own => Owns(t.items, t.cell[c].id, t.cell[c].want)
  BY <1>1, <1>2
<1> QED BY <1>1, <1>2, <1>3 DEF LinkSafe

\* An id is not empty after an address was appended.
LEMMA IdStays == ASSUME NEW w, Wanted(w), w[1] # <<>> PROVE CacheId(w) # <<>>
<1> DEFINE S == {"i", "u", "v", "w"}
<1>1. w \in LinkWants
  BY DEF Wanted
<1>2. PICK r \in LinkRequests : w = Request[r]
  BY <1>1 DEF LinkWants
<1>3. w[1] \in Seq(S) /\ w[2] \in Seq(S)
  <2>1. r \in {"plain", "first", "second", "third", "fourth", "none"}
    BY RequestAssumption DEF Request
  <2>2. <<>> \in Seq(S) /\ \A a, b : a \in S /\ b \in S => <<a>> \in Seq(S) /\ <<a, b>> \in Seq(S)
    OBVIOUS
  <2>3. \A q \in {"plain", "first", "second", "third", "fourth", "none"} :
          Request[q][1] \in {<<>>, <<"i">>, <<"i", "v">>} /\ Request[q][2] \in {<<>>, <<"u">>, <<"v">>, <<"w">>, <<"v", "u">>}
    BY DEF Request
  <2>4. "i" \in S /\ "u" \in S /\ "v" \in S /\ "w" \in S
    OBVIOUS
  <2> HIDE DEF S
  <2>5. {<<>>, <<"i">>, <<"i", "v">>} \subseteq Seq(S)
    BY <2>2, <2>4
  <2>6. {<<>>, <<"u">>, <<"v">>, <<"w">>, <<"v", "u">>} \subseteq Seq(S)
    BY <2>2, <2>4
  <2>7. /\ w[1] \in {<<>>, <<"i">>, <<"i", "v">>}
        /\ w[2] \in {<<>>, <<"u">>, <<"v">>, <<"w">>, <<"v", "u">>}
    BY <1>2, <2>1, <2>3, Zenon
  <2> QED BY <2>5, <2>6, <2>7, Zenon
<1>4. w[1] \o w[2] # <<>>
  <2> DEFINE a == w[1]
             b == w[2]
  <2>1. a \in Seq(S) /\ b \in Seq(S) /\ a # <<>>
    BY <1>3
  <2> HIDE DEF a, b
  <2>2. a \o b # <<>>
    BY <2>1
  <2> QED BY <2>2 DEF a, b
<1> QED BY <1>4 DEF CacheId

\* The items that stay and the new one of w, with the number n.
LEMMA NewKeeps ==
    ASSUME NEW x, NEW y, NEW m, Reaches(y, m), NEW n, NEW w, Mixed(y, n, ValueOf(w), x)
    PROVE  /\ n \notin {x[i].key : i \in 1..Len(x)} => Owns(y, n, w)
           /\ \A id, v : id # n /\ Owns(x, id, v) => Owns(y, id, v)
           /\ /\ OneEach(x)
              /\ CacheId(w) = <<>> \/ \A i \in 1..Len(x) : x[i].value.userId # CacheId(w)
              => OneEach(y)
<1> DEFINE New(i) == y[i].key = n /\ y[i].value = ValueOf(w)
           Old(i) == \E k \in 1..Len(x) : y[i] = x[k]
<1>0. ValueOf(w).userId = CacheId(w) /\ ValueOf(w).uri = w[2]
  BY ValueIs
<1>1. \A i \in 1..Len(y) : New(i) \/ Old(i)
  BY DEF Mixed
<1>2. ASSUME n \notin {x[i].key : i \in 1..Len(x)} PROVE Owns(y, n, w)
  <2>1. ASSUME NEW i \in 1..Len(y), y[i].key = n PROVE y[i].value = ValueOf(w)
    <3>1. ~Old(i)
      BY <1>2, <2>1
    <3> QED BY <1>1, <3>1
  <2> QED BY <1>0, <2>1 DEF Owns
<1>3. ASSUME NEW id, NEW v, id # n, Owns(x, id, v) PROVE Owns(y, id, v)
  <2>1. ASSUME NEW i \in 1..Len(y), y[i].key = id
        PROVE  y[i].value.userId = CacheId(v) /\ (CacheId(v) = <<>> => y[i].value.uri = v[2])
    <3>1. PICK k \in 1..Len(x) : y[i] = x[k]
      BY <1>1, <1>3, <2>1
    <3> QED BY <1>3, <2>1, <3>1 DEF Owns
  <2> QED BY <2>1 DEF Owns
<1>4. ASSUME OneEach(x), CacheId(w) = <<>> \/ \A i \in 1..Len(x) : x[i].value.userId # CacheId(w)
      PROVE  OneEach(y)
  <2>0. \A i, j \in 1..Len(y) : y[i].key = y[j].key => i = j
    BY ReachesIs
  <2>1. ASSUME NEW i \in 1..Len(y), NEW j \in 1..Len(y), y[i].value.userId = y[j].value.userId, y[i].value.userId # <<>>
        PROVE  i = j
    <3>1. CASE Old(i) /\ Old(j)
      <4>1. PICK a \in 1..Len(x) : y[i] = x[a]
        BY <3>1
      <4>2. PICK b \in 1..Len(x) : y[j] = x[b]
        BY <3>1
      <4>3. a = b
        BY <1>4, <2>1, <4>1, <4>2 DEF OneEach
      <4> QED BY <2>0, <4>1, <4>2, <4>3
    <3>2. CASE New(i) /\ New(j)
      BY <2>0, <3>2
    <3>3. CASE New(i) /\ Old(j)
      BY <1>0, <1>4, <2>1, <3>3
    <3>4. CASE Old(i) /\ New(j)
      BY <1>0, <1>4, <2>1, <3>4
    <3> QED BY <1>1, <3>1, <3>2, <3>3, <3>4
  <2> QED BY <2>1 DEF OneEach
<1> QED BY <1>2, <1>3, <1>4

\* A new link keeps what the numbers stand for: its number is free, and whoever had it before has lost it.
LEMMA NewSafe ==
    ASSUME NEW s, LinkTyped(s), s.want \in LinkWants, s.pending \/ Unheld(s), s.split \/ OneEach(s.items),
           \A c \in {1, 2} : s.cell[c].own => Owns(s.items, s.cell[c].id, s.cell[c].want)
    PROVE  LinkSafe(NewLink(s))
<1> DEFINE t == NewLink(s)
           n == s.nextId
           u == EmplaceLink(s, n, ValueOf(s.want))
<1>1. DOMAIN s = LinkNames /\ Reaches(s.items, s.mapping) /\ CellsTyped(s.cell) /\ n \in LinkKeys
  BY DEF LinkTyped, Holder
<1>2. \/ ~CanEmplace(s, n) /\ t = [s EXCEPT !.fault = TRUE]
      \/ /\ CanEmplace(s, n) /\ t.items = u.items /\ t.mapping = u.mapping
         /\ t.cursor = n /\ t.own = TRUE /\ t.split = (s.split \/ s.pending)
         /\ t.want = s.want /\ t.cell = Given(s.cell, n)
  BY NewLinkIs
<1> HIDE DEF t
<1>3. CASE t = [s EXCEPT !.fault = TRUE]
  <2>1. t.items = s.items /\ t.fault /\ t.cell = s.cell /\ t.split = s.split
    BY <1>1, <1>3 DEF LinkNames
  <2> QED BY <2>1 DEF LinkSafe, t
<1>4. CASE /\ CanEmplace(s, n) /\ t.items = u.items /\ t.mapping = u.mapping
           /\ t.cursor = n /\ t.own = TRUE /\ t.split = (s.split \/ s.pending)
           /\ t.want = s.want /\ t.cell = Given(s.cell, n)
  <2>1. ValueOf(s.want) \in LinkValues
    BY DEF LinkValues
  <2>2. Reaches(u.items, u.mapping) /\ Mixed(u.items, n, ValueOf(s.want), s.items)
    BY <1>1, <1>4, <2>1, PutStep
  <2>3. n \notin {s.items[i].key : i \in 1..Len(s.items)}
    <3>1. n \notin DOMAIN s.mapping
      BY <1>4 DEF CanEmplace
    <3>2. \A i \in 1..Len(s.items) : s.items[i].key \in DOMAIN s.mapping
      BY <1>1, ReachesIs
    <3> QED BY <3>1, <3>2
  <2> HIDE DEF u, n
  <2>4. /\ Owns(u.items, n, s.want)
        /\ \A id, v : id # n /\ Owns(s.items, id, v) => Owns(u.items, id, v)
        /\ OneEach(s.items) /\ Unheld(s) => OneEach(u.items)
    BY <2>2, <2>3, NewKeeps DEF Unheld
  <2>5. \A c \in {1, 2} : t.cell[c].own => Owns(t.items, t.cell[c].id, t.cell[c].want)
    <3>1. \A c \in {1, 2} : /\ t.cell[c].id = s.cell[c].id /\ t.cell[c].want = s.cell[c].want
                            /\ t.cell[c].own => s.cell[c].own /\ s.cell[c].id # n
      BY <1>1, <1>4, GivenIs
    <3> QED BY <1>4, <2>4, <3>1
  <2>6. t.split \/ OneEach(t.items)
    BY <1>4, <2>4
  <2>7. t.own => Owns(t.items, t.cursor, t.want)
    BY <1>4, <2>4
  <2> QED BY <2>5, <2>6, <2>7 DEF LinkSafe, t
<1> QED BY <1>2, <1>3, <1>4

\* A request keeps what the numbers stand for: a link that is found has the id and address of the request.
LEMMA HyperlinkSafe ==
    ASSUME NEW s, LinkTyped(s), LinkSafe(s), NEW w \in LinkWants, NEW read \in LinkKeys
    PROVE  LinkSafe(SetHyperlink(Asks(s, w), read))
<1> DEFINE z == Asks(s, w)
           t == SetHyperlink(z, read)
<1>1. /\ LinkTyped(z) /\ DOMAIN z = LinkNames /\ z.want = w /\ z.items = s.items /\ z.mapping = s.mapping
      /\ z.cell = s.cell /\ z.split = s.split
  BY AsksIs
<1>2. Reaches(z.items, z.mapping)
  BY <1>1 DEF LinkTyped
<1>3. /\ z.split \/ OneEach(z.items)
      /\ \A c \in {1, 2} : z.cell[c].own => Owns(z.items, z.cell[c].id, z.cell[c].want)
  BY <1>1 DEF LinkSafe
<1> HIDE DEF z
<1>4. EndsLink(z, t) \/ KnownLink(z, read, t) \/ MakesLink(z, t)
  BY <1>2, SetHyperlinkIs
<1> HIDE DEF t
<1>5. CASE EndsLink(z, t)
  <2>1. t.items = z.items /\ t.cell = z.cell /\ t.own = FALSE /\ t.split = z.split
    BY <1>1, <1>5 DEF EndsLink, LinkNames
  <2> QED BY <1>3, <2>1 DEF LinkSafe, t, z
<1>6. CASE KnownLink(z, read, t)
  <2> DEFINE x == z.items
  <2>1. PICK i \in 1..Len(x) : /\ x[i].value.userId = CacheId(z.want) /\ CacheId(z.want) # <<>>
                               /\ t = TouchLink(z, x[i].key, read)
    BY <1>6 DEF KnownLink
  <2> DEFINE k == x[i].key
             u == TryGet(z, k)
  <2>2. k \in LinkKeys /\ \A a, b \in 1..Len(x) : x[a].key = x[b].key => a = b
    BY <1>2, ReachesIs
  <2>3. Owns(x, k, z.want)
    <3>1. ASSUME NEW a \in 1..Len(x), x[a].key = k PROVE x[a].value.userId = CacheId(z.want)
      BY <2>1, <2>2, <3>1
    <3> QED BY <2>1, <3>1 DEF Owns
  <2>4. t = TouchLink(z, k, read)
    BY <2>1
  <2> HIDE DEF k, x
  <2>5. /\ t.items = u.items /\ t.mapping = u.mapping /\ t.cursor = read /\ t.own = (read = k)
        /\ t.cell = z.cell /\ t.want = z.want /\ t.split = z.split
    BY <1>1, <2>2, <2>4, TouchLinkIs
  <2>6. Reaches(u.items, u.mapping) /\ From(z.items, u.items)
    BY <1>1, <1>2, <2>2, GetStep
  <2> HIDE DEF u
  <2>7. /\ OneEach(z.items) => OneEach(u.items)
        /\ \A id, v : Owns(z.items, id, v) => Owns(u.items, id, v)
    BY <2>6, FromKeeps
  <2>8. t.own => Owns(t.items, t.cursor, t.want)
    BY <2>3, <2>5, <2>7 DEF x
  <2>9. \A c \in {1, 2} : t.cell[c].own => Owns(t.items, t.cell[c].id, t.cell[c].want)
    BY <1>3, <2>5, <2>7
  <2>10. t.split \/ OneEach(t.items)
    BY <1>3, <2>5, <2>7
  <2> QED BY <2>8, <2>9, <2>10 DEF LinkSafe, t, z
<1>7. CASE MakesLink(z, t)
  <2>1. t = NewLink(z) /\ Unheld(z)
    BY <1>7 DEF MakesLink
  <2>2. LinkSafe(t)
    BY <1>1, <1>3, <2>1, NewSafe
  <2> QED BY <2>2 DEF t, z
<1> QED BY <1>4, <1>5, <1>6, <1>7

\* The link is made again, and is no longer the only one of its id.
LEMMA AgainSafe == ASSUME LinkInv, LinkSafe(link), MakeAgain PROVE LinkSafe(link')
<1> DEFINE z == [link EXCEPT !.asked = 0]
<1>1. /\ LinkTyped(z) /\ z.want \in LinkWants /\ z.items = link.items /\ z.cell = link.cell /\ z.pending
      /\ z.split = link.split
  BY AgainIs DEF MakeAgain
<1>2. link' = NewLink(z)
  BY DEF MakeAgain
<1> HIDE DEF z
<1>3. /\ z.split \/ OneEach(z.items)
      /\ \A c \in {1, 2} : z.cell[c].own => Owns(z.items, z.cell[c].id, z.cell[c].want)
  BY <1>1 DEF LinkSafe
<1>4. LinkSafe(NewLink(z))
  BY <1>1, <1>3, NewSafe
<1> QED BY <1>2, <1>4

\* A cell takes the number of the cursor with what was asked for.
LEMMA WriteSafe ==
    ASSUME LinkInv, LinkSafe(link), NEW c \in {1, 2}, WriteLinked(c)
    PROVE  LinkSafe(link')
<1>1. /\ link'.items = link.items /\ link'.cursor = link.cursor /\ link'.own = link.own
      /\ link'.want = link.want /\ link'.split = link.split /\ link'.fault = link.fault
      /\ \A b \in {1, 2} :
           \/ link'.cell[b] = link.cell[b]
           \/ link'.cell[b] = [id |-> link.cursor, own |-> link.own, want |-> link.want]
  BY WriteIs
<1>2. /\ link.split \/ OneEach(link.items)
      /\ link.own => Owns(link.items, link.cursor, link.want)
      /\ \A b \in {1, 2} : link.cell[b].own => Owns(link.items, link.cell[b].id, link.cell[b].want)
  BY DEF LinkSafe, WriteLinked
<1>3. ASSUME NEW b \in {1, 2}, link'.cell[b].own PROVE Owns(link.items, link'.cell[b].id, link'.cell[b].want)
  <2>1. CASE link'.cell[b] = link.cell[b]
    BY <1>2, <1>3, <2>1
  <2>2. CASE link'.cell[b] = [id |-> link.cursor, own |-> link.own, want |-> link.want]
    <3>1. link'.cell[b].id = link.cursor /\ link'.cell[b].own = link.own /\ link'.cell[b].want = link.want
      BY <2>2
    <3> QED BY <1>2, <1>3, <3>1
  <2> QED BY <1>1, <2>1, <2>2
<1> QED BY <1>1, <1>2, <1>3 DEF LinkSafe

\* A lookup changes the order only.
LEMMA ShowSafe ==
    ASSUME LinkInv, LinkSafe(link), NEW c \in {1, 2}, ShowCell(c)
    PROVE  LinkSafe(link')
<1> DEFINE k == link.cell[c].id
           u == TryGet(link, k)
           t == link'
<1>1. /\ k \in LinkKeys /\ t.items = u.items /\ t.mapping = u.mapping /\ t.cursor = link.cursor /\ t.own = link.own
      /\ t.want = link.want /\ t.split = link.split /\ t.fault = link.fault /\ t.cell = link.cell
  BY ShowIs
<1>2. DOMAIN link = LinkNames /\ Reaches(link.items, link.mapping)
  BY DEF LinkInv, LinkTyped
<1> HIDE DEF k
<1>3. Reaches(u.items, u.mapping) /\ From(link.items, u.items)
  BY <1>1, <1>2, GetStep
<1> HIDE DEF u
<1>4. \A id, w : Owns(link.items, id, w) => Owns(u.items, id, w)
  BY <1>3, FromKeeps
<1>5. link.fault \/ (link.own => Owns(link.items, link.cursor, link.want))
  BY DEF LinkSafe
<1> HIDE DEF t
<1>6. t.fault \/ (t.own => Owns(t.items, t.cursor, t.want))
  BY <1>1, <1>4, <1>5
<1>7. LinkSafe(t)
  BY <1>1, <1>3, <1>6, SafeKeeps
<1> QED BY <1>7 DEF t

\* Every step keeps what the numbers stand for.
LEMMA LinkSafeNext ==
    ASSUME LinkInv, LinkSafe(link), [LinkNext]_link
    PROVE  LinkSafe(link)'
<1>1. ASSUME NEW r \in LinkRequests, NEW read \in 0 .. LinkIds - 1, Hyperlink(Request[r], read) PROVE LinkSafe(link')
  <2>1. Request[r] \in LinkWants /\ read \in LinkKeys
    BY DEF LinkWants, LinkKeys
  <2>2. link' = SetHyperlink(Asks(link, Request[r]), read)
    BY <1>1 DEF Hyperlink, Asks
  <2> QED BY <2>1, <2>2, HyperlinkSafe DEF LinkInv
<1>2. LinkNext => LinkSafe(link')
  BY <1>1, AgainSafe, WriteSafe, ShowSafe DEF LinkNext
<1>3. CASE UNCHANGED link
  BY <1>3
<1> QED BY <1>2, <1>3

\* At the start there are no links.
LEMMA LinkSafeInit == ASSUME LinkInit PROVE LinkSafe(link)
<1>1. link.items = <<>> /\ link.own = FALSE /\ \A c \in {1, 2} : link.cell[c].own = FALSE
  BY LinkStarts
<1>2. Len(<<>>) = 0 /\ 1..0 = {}
  OBVIOUS
<1>3. OneEach(<<>>)
  BY <1>2 DEF OneEach
<1> QED BY <1>1, <1>3 DEF LinkSafe

\* What a cell shows is the value of the item of its number.
LEMMA ShownIs ==
    ASSUME LinkInv, NEW c \in {1, 2}, Shown(c) # <<>>
    PROVE  \E j \in 1..Len(link.items) : link.items[j].key = link.cell[c].id /\ Shown(c) = <<link.items[j].value>>
<1> DEFINE id == link.cell[c].id
<1>1. Reaches(link.items, link.mapping)
  BY DEF LinkInv, LinkTyped
<1>2. id \in DOMAIN link.mapping /\ Shown(c) = <<link.items[NodeAt(link, link.mapping[id])].value>>
  <2>1. Shown(c) = HyperlinkById(link, id)
    BY DEF Shown
  <2> HIDE DEF id
  <2>2. ~(id = 0 \/ id \notin DOMAIN link.mapping)
    BY <2>1 DEF HyperlinkById
  <2> QED BY <2>1, <2>2 DEF HyperlinkById
<1>3. PICK j \in 1..Len(link.items) : link.items[j].key = id /\ link.mapping[id] = link.items[j].node
  <2>1. \A k \in DOMAIN link.mapping : \E i \in 1..Len(link.items) : link.items[i].key = k /\ link.mapping[k] = link.items[i].node
    BY <1>1, ReachesIs
  <2> HIDE DEF id
  <2> QED BY <1>2, <2>1
<1>4. NodeAt(link, link.items[j].node) = j
  BY <1>1, NodeAtIs
<1> QED BY <1>2, <1>3, <1>4

\* Every item is reached through its key.
LEMMA LinksFound == ASSUME LinkInv PROVE MappingReachesItems
<1>1. Reaches(link.items, link.mapping) /\ DOMAIN link.items = 1..Len(link.items)
  BY ReachesIs DEF LinkInv, LinkTyped
<1> QED BY <1>1 DEF MappingReachesItems, Reaches

\* Cells show what they were written with.
LEMMA CellsLead == ASSUME LinkInv, LinkSafe(link) PROVE LinkOfCell /\ SameLinkTogether
<1>1. ASSUME NEW c \in {1, 2}, Shown(c) # <<>>, link.cell[c].own
      PROVE  \E j \in 1..Len(link.items) :
               /\ link.items[j].key = link.cell[c].id /\ Shown(c) = <<link.items[j].value>>
               /\ link.items[j].value.userId = CacheId(link.cell[c].want)
               /\ CacheId(link.cell[c].want) = <<>> => link.items[j].value.uri = link.cell[c].want[2]
  <2>1. PICK j \in 1..Len(link.items) : link.items[j].key = link.cell[c].id /\ Shown(c) = <<link.items[j].value>>
    BY <1>1, ShownIs
  <2>2. Owns(link.items, link.cell[c].id, link.cell[c].want)
    BY <1>1 DEF LinkSafe
  <2> QED BY <2>1, <2>2 DEF Owns
<1>2. LinkOfCell
  <2>1. ASSUME NEW c \in {1, 2}, link.cell[c].own, Shown(c) # <<>>
        PROVE  \/ Head(Shown(c)).uri = link.cell[c].want[2]
               \/ \E r \in LinkRequests : Collide(Request[r], link.cell[c].want) /\ Head(Shown(c)).uri = Request[r][2]
    <3> DEFINE w == link.cell[c].want
    <3>1. PICK j \in 1..Len(link.items) :
            /\ Shown(c) = <<link.items[j].value>> /\ link.items[j].value.userId = CacheId(w)
            /\ CacheId(w) = <<>> => link.items[j].value.uri = w[2]
      BY <1>1, <2>1
    <3>2. Head(<<link.items[j].value>>) = link.items[j].value
      OBVIOUS
    <3>3. link.items[j].value \in LinkValues
      BY ReachesIs DEF LinkInv, LinkTyped
    <3>4. PICK r \in LinkRequests : link.items[j].value = ValueOf(Request[r])
      BY <3>3 DEF LinkValues, LinkWants
    <3> DEFINE v == Request[r]
    <3>5. link.items[j].value.uri = v[2] /\ CacheId(v) = CacheId(w)
      BY <3>1, <3>4, ValueIs
    <3> HIDE DEF v, w
    <3>6. CASE CacheId(w) = <<>> \/ v = w
      BY <3>1, <3>2, <3>5, <3>6 DEF w
    <3>7. CASE CacheId(w) # <<>> /\ v # w
      <4>1. v[1] # <<>> /\ w[1] # <<>> /\ v[1] \o v[2] = w[1] \o w[2]
        BY <3>5, <3>7 DEF CacheId
      <4>2. Collide(v, w)
        BY <3>7, <4>1 DEF Collide
      <4> QED BY <3>1, <3>2, <3>5, <4>2 DEF v, w
    <3> QED BY <3>6, <3>7
  <2> QED BY <2>1 DEF LinkOfCell
<1>3. SameLinkTogether
  <2> DEFINE w == link.cell[1].want
  <2>1. SUFFICES ASSUME ~link.split, link.cell[1].own, link.cell[2].own,
                        link.cell[1].want = link.cell[2].want, w[1] # <<>>, Shown(1) # <<>>, Shown(2) # <<>>
                 PROVE  link.cell[1].id = link.cell[2].id
    BY DEF SameLinkTogether
  <2>2. PICK i \in 1..Len(link.items) : link.items[i].key = link.cell[1].id /\ link.items[i].value.userId = CacheId(w)
    BY <1>1, <2>1
  <2>3. PICK j \in 1..Len(link.items) : link.items[j].key = link.cell[2].id /\ link.items[j].value.userId = CacheId(w)
    BY <1>1, <2>1
  <2>4. CacheId(w) # <<>>
    <3>1. Wanted(w)
      BY DEF LinkInv, LinkTyped, Holder, CellsTyped
    <3> HIDE DEF w
    <3> QED BY <2>1, <3>1, IdStays
  <2>5. OneEach(link.items)
    BY <2>1 DEF LinkSafe
  <2>6. i = j
    BY <2>2, <2>3, <2>4, <2>5 DEF OneEach
  <2> QED BY <2>2, <2>3, <2>6
<1> QED BY <1>2, <1>3

(***************************************************************************)
(* Both caches find exactly their entries, and a cell that has its number  *)
(* for itself leads to the link it was written with (CachesFindEntries):   *)
(* for any capacities and any number of numbers, also after the numbers    *)
(* started again and whatever the freed key was read as.                   *)
(***************************************************************************)
THEOREM CachesKeepEntries == LruSpec /\ LinkSpec => []CachesFindEntries
<1>1. LinkInit => LinkInv /\ LinkSafe(link)
  BY LinkInvInit, LinkSafeInit
<1>2. LinkInv /\ LinkSafe(link) /\ [LinkNext]_link => LinkInv' /\ LinkSafe(link)'
  BY LinkInvNext, LinkSafeNext
<1>3. LinkInv /\ LinkSafe(link) => MappingReachesItems /\ LinkOfCell /\ SameLinkTogether
  BY LinksFound, CellsLead
<1>4. (ListsAgree /\ ValueOfItsHash) /\ (MappingReachesItems /\ LinkOfCell /\ SameLinkTogether) => CachesFindEntries
  BY DEF CachesFindEntries
<1> QED BY <1>1, <1>2, <1>3, <1>4, TableListsAgree, PTL DEF LinkSpec
=============================================================================
