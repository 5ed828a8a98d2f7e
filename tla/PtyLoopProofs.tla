---------------------------- MODULE PtyLoopProofs ----------------------------
(***************************************************************************)
(* Proofs about PtyLoop, for any number of items, requests and every set   *)
(* of execution modes the user may ask for.                                *)
(*                                                                         *)
(* ReadsOnlyWhenFlushed is inductive together with the types and with the  *)
(* fact that the terminal thread has parsed all of a fragment before it    *)
(* goes on: otherwise more could be held back behind its back.             *)
(*                                                                         *)
(* InOrder is inductive with a ledger: for each channel there are numbers  *)
(* a <= b <= c such that exactly the items up to a are executed, those up  *)
(* to b are held back, those up to c are in the fragment and the others    *)
(* are not read yet.                                                       *)
(***************************************************************************)
EXTENDS PtyLoop, SequenceTheorems, FiniteSetTheorems, TLAPS

\* Nothing of a fragment is left outside of the parser.
FragmentParsed == loop # "parse" => fragment = <<>>

PInv == TypeOK /\ ReadsOnlyWhenFlushed /\ FragmentParsed

-----------------------------------------------------------------------------
\* The invariant holds when the session starts.
LEMMA InitPInv == Init => PInv
<1> SUFFICES ASSUME Init PROVE PInv
  OBVIOUS
<1>1. wake \in BOOLEAN /\ held \in [Channels -> BOOLEAN]
  BY DEF Init
<1>2. /\ sent \in [Channels -> 0..MaxSent] /\ requests \in 0..MaxRequests
      /\ unread \in [Channels -> Seq(Items)]
      /\ events \in Seq(Channels) /\ traced \in Seq(Items)
      /\ executed \in Seq(Items) /\ fragment \in Seq(Items)
  BY PtyAssumption, EmptySeq DEF Init
<1>3. /\ child \in {"running", "exited"} /\ watched \subseteq Channels
      /\ mode \in ExecutionMode /\ asked \in ExecutionMode
      /\ loop \in LoopLabels /\ fd \in Channels
      /\ watcher \in {"waiting", "posted", "done"}
  BY DEF Init, ExecutionMode, Channels, LoopLabels
<1>4. TypeOK
  BY <1>1, <1>2, <1>3 DEF TypeOK
<1> QED BY <1>4 DEF Init, PInv, ReadsOnlyWhenFlushed, FragmentParsed

-----------------------------------------------------------------------------
\* What the application does to its channels.
LEMMA ApplicationKeepsPInv ==
    ASSUME PInv, (\E ch \in Channels : WriteOutput(ch) \/ Release(ch)) \/ Exit
    PROVE  PInv'
<1>1. ASSUME NEW ch \in Channels, WriteOutput(ch) PROVE PInv'
  <2>1. sent' \in [Channels -> 0..MaxSent]
    BY <1>1, PtyAssumption DEF PInv, TypeOK, WriteOutput
  <2>2. unread' \in [Channels -> Seq(Items)]
    <3>1. sent[ch] \in Nat
      BY <1>1 DEF PInv, TypeOK
    <3>2. Item(ch, sent[ch] + 1) \in Items
      BY <3>1 DEF Item, Items
    <3>3. unread[ch] \in Seq(Items)
      BY DEF PInv, TypeOK
    <3>4. Append(unread[ch], Item(ch, sent[ch] + 1)) \in Seq(Items)
      BY <3>2, <3>3
    <3> QED BY <1>1, <3>4 DEF PInv, TypeOK, WriteOutput
  <2> QED
    BY <1>1, <2>1, <2>2 DEF PInv, TypeOK, ReadsOnlyWhenFlushed, FragmentParsed, WriteOutput,
                            selectorVars, modeVars, parseVars
<1>2. ASSUME NEW ch \in Channels, Release(ch) PROVE PInv'
  <2>1. held' \in [Channels -> BOOLEAN]
    BY <1>2, Zenon DEF PInv, TypeOK, Release
  <2> QED
    BY <1>2, <2>1 DEF PInv, TypeOK, ReadsOnlyWhenFlushed, FragmentParsed, Release,
                      selectorVars, modeVars, parseVars
<1>3. CASE Exit
  BY <1>3 DEF PInv, TypeOK, ReadsOnlyWhenFlushed, FragmentParsed, Exit,
              selectorVars, modeVars, parseVars
<1> QED BY <1>1, <1>2, <1>3

\* The orders in which epoll reports descriptors are sequences of them.
LEMMA OrdersSeq ==
    ASSUME NEW S \in SUBSET Channels, S # {}, NEW o \in Orders(S)
    PROVE  Head(o) \in Channels /\ Tail(o) \in Seq(Channels)
<1>0. IsFiniteSet(S) /\ Cardinality(S) \in Nat /\ Cardinality(S) # 0
  <2>0. IsFiniteSet({"tty"})
    BY FS_Singleton
  <2>1. IsFiniteSet({"tty"} \cup {"pipe"})
    BY <2>0, FS_AddElement
  <2>2. IsFiniteSet(S)
    <3>1. S \subseteq {"tty"} \cup {"pipe"}
      BY DEF Channels
    <3> QED BY <2>1, <3>1, FS_Subset
  <2> QED BY <2>2, FS_EmptySet, FS_CardinalityType
<1>1. o \in Seq(S) /\ Len(o) = Cardinality(S)
  BY <1>0 DEF Orders
<1>2. o # <<>>
  BY <1>0, <1>1
<1>3. o \in Seq(Channels)
  BY <1>1, SeqDef
<1> QED BY <1>2, <1>3, HeadTailProperties

\* The selector: waiting for descriptors and reading from them.
LEMMA SelectorKeepsPInv ==
    ASSUME PInv,
           \/ WaitPending \/ WaitReadable \/ WaitInterrupted
           \/ ReadSome \/ ReadPipeEnd \/ ReadFails \/ LoopCloses
    PROVE  PInv'
<1> USE DEF ReadsOnlyWhenFlushed, FragmentParsed, appVars, selectorVars, modeVars, parseVars, LoopLabels
<1>1. CASE WaitPending
  <2>1. events \in Seq(Channels) /\ events # <<>>
    BY <1>1 DEF PInv, TypeOK, WaitPending
  <2>2. Head(events) \in Channels /\ Tail(events) \in Seq(Channels)
    BY <2>1, HeadTailProperties
  <2> QED BY <1>1, <2>2 DEF PInv, TypeOK, WaitPending
<1>2. CASE WaitReadable
  <2>1. Readable \in SUBSET Channels /\ Readable # {}
    BY <1>2 DEF PInv, TypeOK, WaitReadable, Readable
  <2>2. PICK order \in Orders(Readable) : fd' = Head(order) /\ events' = Tail(order)
    BY <1>2 DEF WaitReadable
  <2>3. fd' \in Channels /\ events' \in Seq(Channels)
    BY <2>1, <2>2, OrdersSeq
  <2>4. wake' \in BOOLEAN
    BY <1>2 DEF WaitReadable
  <2> QED BY <1>2, <2>3, <2>4 DEF PInv, TypeOK, WaitReadable
<1>3. CASE WaitInterrupted
  <2>1. wake' \in BOOLEAN
    BY <1>3 DEF WaitInterrupted
  <2> QED BY <1>3, <2>1 DEF PInv, TypeOK, WaitInterrupted
<1>4. CASE ReadSome
  <2>1. fd \in Channels /\ unread[fd] \in Seq(Items)
    BY DEF PInv, TypeOK
  <2>2. PICK n \in 1..Len(unread[fd]) :
          /\ fragment' = SubSeq(unread[fd], 1, n)
          /\ unread' = [unread EXCEPT ![fd] = SubSeq(@, n + 1, Len(@))]
    BY <1>4 DEF ReadSome
  <2>3. Len(unread[fd]) \in Nat
    BY <2>1
  <2>4. fragment' \in Seq(Items)
    BY <2>1, <2>2, <2>3, SubSeqProperties
  <2>5. SubSeq(unread[fd], n + 1, Len(unread[fd])) \in Seq(Items)
    BY <2>1, <2>2, <2>3, SubSeqProperties
  <2>6. unread' \in [Channels -> Seq(Items)]
    BY <2>2, <2>5 DEF PInv, TypeOK
  <2> QED BY <1>4, <2>4, <2>6 DEF PInv, TypeOK, ReadSome
<1>5. CASE ReadPipeEnd
  BY <1>5 DEF PInv, TypeOK, ReadPipeEnd
<1>6. CASE ReadFails
  BY <1>6 DEF PInv, TypeOK, ReadFails
<1>7. CASE LoopCloses
  <2>1. wake' \in BOOLEAN
    BY <1>7, Zenon DEF LoopCloses, Close, PInv, TypeOK
  <2> QED BY <1>7, <2>1 DEF PInv, TypeOK, LoopCloses, Close
<1> QED BY <1>1, <1>2, <1>3, <1>4, <1>5, <1>6, <1>7

\* The execution modes and the parser.
LEMMA ProcessingKeepsPInv ==
    ASSUME PInv,
           \/ CheckMode \/ BreakAtEmptyQueue \/ FlushAll \/ SingleStep \/ WaitForCommand
           \/ ParseItem \/ EndFragment
    PROVE  PInv'
<1> USE DEF ReadsOnlyWhenFlushed, FragmentParsed, appVars, selectorVars, modeVars, parseVars,
            LoopLabels, ExecutionMode
<1>0. executed \in Seq(Items) /\ traced \in Seq(Items) /\ fragment \in Seq(Items)
  BY DEF PInv, TypeOK
<1>1. CASE CheckMode
  <2>1. loop' \in {"break", "normal", "wait", "step"}
    BY <1>1 DEF PInv, TypeOK, CheckMode
  <2> QED BY <1>1, <2>1 DEF PInv, TypeOK, CheckMode
<1>2. CASE BreakAtEmptyQueue
  BY <1>2 DEF PInv, TypeOK, BreakAtEmptyQueue
<1>3. CASE FlushAll
  <2>1. executed \o traced \in Seq(Items)
    BY <1>0, ConcatProperties
  <2>2. <<>> \in Seq(Items)
    BY EmptySeq
  <2> QED BY <1>3, <2>1, <2>2 DEF PInv, TypeOK, FlushAll
<1>4. CASE SingleStep
  <2>1. CASE traced = <<>>
    BY <1>4, <2>1 DEF PInv, TypeOK, SingleStep
  <2>2. CASE traced # <<>>
    <3>1. Head(traced) \in Items /\ Tail(traced) \in Seq(Items)
      BY <1>0, <2>2, HeadTailProperties
    <3>2. Append(executed, Head(traced)) \in Seq(Items)
      BY <1>0, <3>1
    <3> QED BY <1>4, <2>2, <3>1, <3>2 DEF PInv, TypeOK, SingleStep
  <2> QED BY <2>1, <2>2
<1>5. CASE WaitForCommand
  BY <1>5 DEF PInv, TypeOK, WaitForCommand
<1>6. CASE ParseItem
  <2>1. Head(fragment) \in Items /\ Tail(fragment) \in Seq(Items)
    BY <1>0, <1>6, HeadTailProperties DEF ParseItem
  <2>2. /\ Append(executed, Head(fragment)) \in Seq(Items)
        /\ Append(traced, Head(fragment)) \in Seq(Items)
    BY <1>0, <2>1
  <2>3. executed' \in Seq(Items) /\ traced' \in Seq(Items)
    BY <1>0, <1>6, <2>2 DEF ParseItem
  <2> QED BY <1>6, <2>1, <2>3 DEF PInv, TypeOK, ParseItem
<1>7. CASE EndFragment
  BY <1>7 DEF PInv, TypeOK, EndFragment
<1> QED BY <1>1, <1>2, <1>3, <1>4, <1>5, <1>6, <1>7

\* The exit watcher and the GUI thread.
LEMMA GuiKeepsPInv ==
    ASSUME PInv, WatchExit \/ OnClosed \/ (\E m \in GuiModes : SetExecutionMode(m))
    PROVE  PInv'
<1> USE DEF ReadsOnlyWhenFlushed, FragmentParsed, appVars, selectorVars, modeVars, parseVars, LoopLabels
<1>1. CASE WatchExit
  BY <1>1 DEF PInv, TypeOK, WatchExit
<1>2. CASE OnClosed
  <2>1. wake' \in BOOLEAN
    BY <1>2, Zenon DEF OnClosed, Close, PInv, TypeOK
  <2> QED BY <1>2, <2>1 DEF PInv, TypeOK, OnClosed, Close
<1>3. ASSUME NEW m \in GuiModes, SetExecutionMode(m) PROVE PInv'
  <2>1. wake' \in BOOLEAN
    BY <1>3 DEF SetExecutionMode
  <2>2. mode' \in ExecutionMode /\ asked' \in ExecutionMode
    BY <1>3, PtyAssumption DEF SetExecutionMode
  <2>3. requests' \in 0..MaxRequests
    BY <1>3, PtyAssumption DEF SetExecutionMode, PInv, TypeOK
  <2> QED BY <1>3, <2>1, <2>2, <2>3 DEF PInv, TypeOK, SetExecutionMode
<1> QED BY <1>1, <1>2, <1>3

\* Every step of the session keeps the invariant.
LEMMA NextPInv == PInv /\ [Next]_vars => PInv'
<1> SUFFICES ASSUME PInv, [Next]_vars PROVE PInv'
  OBVIOUS
<1>1. CASE Next
  BY <1>1, ApplicationKeepsPInv, SelectorKeepsPInv, ProcessingKeepsPInv, GuiKeepsPInv
     DEF Next, LoopSteps
<1>2. CASE UNCHANGED vars
  BY <1>2 DEF PInv, TypeOK, ReadsOnlyWhenFlushed, FragmentParsed, vars
<1> QED BY <1>1, <1>2

-----------------------------------------------------------------------------
\* Types, and a fragment is parsed to its end before the thread goes on.
THEOREM PtyTypes == Spec => [](TypeOK /\ FragmentParsed)
<1>1. PInv => TypeOK /\ FragmentParsed
  BY DEF PInv
<1> QED BY <1>1, InitPInv, NextPInv, PTL DEF Spec

\* The terminal thread never waits for the PTY, in processInputOnce(), while it
\* holds sequences back.
THEOREM PtyReadsOnlyWhenFlushed == Spec => []ReadsOnlyWhenFlushed
<1>1. PInv => ReadsOnlyWhenFlushed
  BY DEF PInv
<1> QED BY <1>1, InitPInv, NextPInv, PTL DEF Spec

-----------------------------------------------------------------------------
(* The order of the output.                                                *)

\* Two sequences that carry adjacent items of a channel carry them together.
LEMMA CarriesConcat ==
    ASSUME NEW ch \in Channels, NEW p \in Seq(Items), NEW q \in Seq(Items),
           NEW a \in Nat, NEW b \in Nat, NEW c \in Nat, a <= b, b <= c,
           Carries(p, ch, a, b), Carries(q, ch, b, c)
    PROVE  p \o q \in Seq(Items) /\ Carries(p \o q, ch, a, c)
<1> DEFINE r == p \o q
           k == Len(p)
           l == Len(q)
<1>1. k \in Nat /\ l \in Nat /\ DOMAIN p = 1..k /\ DOMAIN q = 1..l
  OBVIOUS
<1>2. /\ r \in Seq(Items) /\ Len(r) = k + l /\ DOMAIN r = 1..k + l
      /\ \A i \in 1..k + l : r[i] = IF i <= k THEN p[i] ELSE q[i - k]
  BY ConcatProperties
<1>3. /\ \A i \in 1..k : r[i] = p[i] /\ r[i] \in Items
      /\ \A i \in k + 1..k + l : r[i] = q[i - k] /\ i - k \in 1..l /\ r[i] \in Items
      /\ \A i \in 1..l : r[k + i] = q[i] /\ k + i \in 1..k + l
  BY <1>1, <1>2
<1>4. \A e \in Items : e[2] \in Nat
  BY DEF Items
<1> HIDE DEF r, k, l
<1>5. ASSUME NEW i \in 1..k + l, r[i][1] = ch PROVE r[i][2] \in a + 1..c
  <2>1. CASE i <= k
    <3>1. i \in 1..k
      BY <1>1, <2>1
    <3>2. r[i][2] \in a + 1..b
      BY <1>1, <1>3, <1>5, <3>1 DEF Carries
    <3> QED BY <3>2
  <2>2. CASE i > k
    <3>1. i \in k + 1..k + l
      BY <1>1, <2>2
    <3>2. r[i][2] \in b + 1..c
      BY ZenonT(60), <1>1, <1>3, <1>5, <3>1 DEF Carries
    <3> QED BY <3>2
  <2> QED BY <1>1, <2>1, <2>2
<1>6. ASSUME NEW n \in a + 1..c PROVE \E i \in 1..k + l : r[i] = Item(ch, n)
  <2>1. CASE n <= b
    <3>1. n \in a + 1..b
      BY <2>1
    <3>2. PICK i \in 1..k : p[i] = Item(ch, n)
      BY <1>1, <3>1 DEF Carries
    <3>3. i \in 1..k + l
      BY <1>1, <3>2
    <3> QED BY <1>3, <3>2, <3>3
  <2>2. CASE n > b
    <3>1. n \in b + 1..c
      BY <2>2
    <3>2. PICK i \in 1..l : q[i] = Item(ch, n)
      BY <1>1, <3>1 DEF Carries
    <3> QED BY <1>3, <3>2
  <2> QED BY <2>1, <2>2
<1>7. ASSUME NEW i \in 1..k + l, NEW j \in 1..k + l, i < j, r[i][1] = ch, r[j][1] = ch
      PROVE  r[i][2] < r[j][2]
  <2>1. CASE j <= k
    <3>1. i \in 1..k /\ j \in 1..k
      BY <1>1, <1>7, <2>1
    <3>2. p[i][1] = ch /\ p[j][1] = ch
      BY <1>3, <1>7, <3>1
    <3>3. p[i][2] < p[j][2]
      BY <1>1, <1>7, <3>1, <3>2 DEF Carries
    <3> QED BY <1>3, <3>1, <3>3
  <2>2. CASE i > k
    <3>1. i \in k + 1..k + l /\ j \in k + 1..k + l /\ i - k < j - k
      BY <1>1, <1>7, <2>2
    <3>2. q[i - k][1] = ch /\ q[j - k][1] = ch /\ i - k \in 1..l /\ j - k \in 1..l
      BY <1>3, <1>7, <3>1
    <3>3. q[i - k][2] < q[j - k][2]
      BY <1>1, <3>1, <3>2 DEF Carries
    <3> QED BY <1>3, <3>1, <3>3
  <2>3. CASE i <= k /\ j > k
    <3>1. i \in 1..k /\ j \in k + 1..k + l
      BY <1>1, <1>7, <2>3
    <3>2. r[i][2] \in a + 1..b
      BY <1>1, <1>3, <1>7, <3>1 DEF Carries
    <3>3. r[j] = q[j - k] /\ j - k \in 1..l /\ q[j - k][1] = ch
      BY <1>3, <1>7, <3>1
    <3>4. r[j][2] \in b + 1..c
      BY <1>1, <3>3 DEF Carries
    <3> QED BY <3>2, <3>4
  <2> QED BY <1>1, <2>1, <2>2, <2>3
<1>8. Carries(r, ch, a, c)
  BY <1>2, <1>5, <1>6, <1>7 DEF Carries
<1> QED BY <1>2, <1>8 DEF r

\* Nothing of the channel.
LEMMA CarriesNothing ==
    ASSUME NEW ch \in Channels, NEW q \in Seq(Items), NEW a \in Nat, \A i \in DOMAIN q : q[i][1] # ch
    PROVE  Carries(q, ch, a, a)
  BY DEF Carries

\* The empty sequence carries nothing.
LEMMA CarriesEmpty ==
    ASSUME NEW ch \in Channels, NEW a \in Nat, NEW b \in Nat, a <= b, Carries(<<>>, ch, a, b)
    PROVE  a = b
<1>1. \A n \in a + 1..b : FALSE
  BY DEF Carries
<1>2. ASSUME a < b PROVE FALSE
  <2>1. b \in a + 1..b
    BY <1>2
  <2> QED BY <1>1, <2>1
<1> QED BY <1>2

\* Consecutive items of the channel.
LEMMA CarriesRange ==
    ASSUME NEW ch \in Channels, NEW q \in Seq(Items), NEW a \in Nat,
           \A i \in 1..Len(q) : q[i] = Item(ch, a + i)
    PROVE  Carries(q, ch, a, a + Len(q))
<1> DEFINE l == Len(q)
<1>1. l \in Nat /\ DOMAIN q = 1..l
  OBVIOUS
<1>2. \A i \in 1..l : q[i][1] = ch /\ q[i][2] = a + i
  BY DEF Item
<1> HIDE DEF l
<1>3. \A i \in 1..l : q[i][2] \in a + 1..a + l
  BY <1>1, <1>2
<1>4. ASSUME NEW n \in a + 1..a + l PROVE \E i \in 1..l : q[i] = Item(ch, n)
  <2>1. n - a \in 1..l /\ a + (n - a) = n
    BY <1>1
  <2>2. q[n - a] = Item(ch, a + (n - a))
    BY <2>1 DEF l
  <2> QED BY <2>1, <2>2
<1>5. \A i, j \in 1..l : i < j => q[i][2] < q[j][2]
  BY <1>1, <1>2
<1> QED BY <1>1, <1>3, <1>4, <1>5 DEF Carries, l

\* The first item is split off.
LEMMA CarriesHead ==
    ASSUME NEW ch \in Channels, NEW q \in Seq(Items), q # <<>>,
           NEW a \in Nat, NEW b \in Nat, a <= b, Carries(q, ch, a, b)
    PROVE  /\ Head(q) \in Items /\ Tail(q) \in Seq(Items)
           /\ \E m \in a..b : Carries(<<Head(q)>>, ch, a, m) /\ Carries(Tail(q), ch, m, b)
<1> DEFINE h == Head(q)
           t == Tail(q)
           l == Len(q) - 1
           s == <<h>>
<1>1. /\ h \in Items /\ h = q[1] /\ t \in Seq(Items) /\ Len(t) = l
      /\ \A i \in 1..l : t[i] = q[i + 1]
  BY HeadTailProperties
<1>2. l \in Nat /\ DOMAIN q = 1..l + 1 /\ DOMAIN t = 1..l
  BY <1>1
<1>3. s \in Seq(Items) /\ DOMAIN s = 1..1 /\ s[1] = h
  BY <1>1
<1>4. h[2] \in Nat /\ \A i \in 1..l + 1 : q[i] \in Items /\ q[i][2] \in Nat
  BY <1>1, <1>2 DEF Items
<1> HIDE DEF h, t, l, s
<1>5. \A i \in 1..l : i + 1 \in 1..l + 1 /\ 1 < i + 1
  BY <1>2
<1>6. 1 \in 1..l + 1
  BY <1>2
<1>7. CASE h[1] # ch
  <2>1. Carries(s, ch, a, a)
    BY <1>3, <1>7, CarriesNothing
  <2>2. \A i \in 1..l : t[i][1] = ch => t[i][2] \in a + 1..b
    BY <1>1, <1>2, <1>5 DEF Carries
  <2>3. ASSUME NEW n \in a + 1..b PROVE \E i \in 1..l : t[i] = Item(ch, n)
    <3>1. PICK i \in 1..l + 1 : q[i] = Item(ch, n)
      BY <1>2 DEF Carries
    <3>2. i # 1
      BY <1>1, <1>7, <3>1 DEF Item
    <3>3. i - 1 \in 1..l /\ (i - 1) + 1 = i
      BY <1>2, <3>2
    <3>4. t[i - 1] = q[i]
      BY <1>1, <3>3
    <3> QED BY <3>1, <3>3, <3>4
  <2>4. ASSUME NEW i \in 1..l, NEW j \in 1..l, i < j, t[i][1] = ch, t[j][1] = ch
        PROVE  t[i][2] < t[j][2]
    <3>1. i + 1 < j + 1 /\ i + 1 \in 1..l + 1 /\ j + 1 \in 1..l + 1
      BY <1>5, <2>4
    <3>2. q[i + 1][1] = ch /\ q[j + 1][1] = ch
      BY <1>1, <2>4
    <3>3. q[i + 1][2] < q[j + 1][2]
      BY <1>2, <3>1, <3>2 DEF Carries
    <3> QED BY <1>1, <3>3
  <2>5. Carries(t, ch, a, b)
    BY <1>2, <2>2, <2>3, <2>4 DEF Carries
  <2>6. a \in a..b
    OBVIOUS
  <2> QED BY <1>1, <2>1, <2>5, <2>6 DEF h, t, s
<1>8. CASE h[1] = ch
  <2>1. h[2] \in a + 1..b
    BY <1>1, <1>2, <1>6, <1>8 DEF Carries
  <2>2. ASSUME NEW i \in 1..l, t[i][1] = ch PROVE t[i][2] \in Nat /\ h[2] < t[i][2] /\ t[i][2] <= b
    <3>1. q[i + 1][1] = ch /\ i + 1 \in 1..l + 1 /\ 1 < i + 1 /\ q[1][1] = ch
      BY <1>1, <1>5, <1>8, <2>2
    <3>2. q[1][2] < q[i + 1][2] /\ q[i + 1][2] \in a + 1..b
      BY <1>2, <1>6, <3>1 DEF Carries
    <3> QED BY <1>1, <3>2
  <2>3. h[2] = a + 1
    <3>1. a + 1 \in a + 1..b
      BY <2>1
    <3>2. PICK i \in 1..l + 1 : q[i] = Item(ch, a + 1)
      BY <1>2, <3>1 DEF Carries
    <3>3. q[i][1] = ch /\ q[i][2] = a + 1
      BY <3>2 DEF Item
    <3>4. CASE i = 1
      BY <1>1, <3>3, <3>4
    <3>5. CASE i # 1
      <4>1. i - 1 \in 1..l /\ (i - 1) + 1 = i
        BY <1>2, <3>5
      <4>2. t[i - 1] = q[i]
        BY <1>1, <4>1
      <4>3. h[2] < a + 1
        BY <2>2, <3>3, <4>1, <4>2
      <4> QED BY <2>1, <4>3
    <3> QED BY <3>4, <3>5
  <2>4. h = Item(ch, a + 1)
    BY <1>1, <1>8, <2>3 DEF Items, Item
  <2>5. Carries(s, ch, a, a + 1)
    <3>1. Len(s) = 1 /\ \A i \in 1..Len(s) : s[i] = Item(ch, a + i)
      <4>1. Len(s) = 1
        BY DEF s
      <4>2. \A i \in 1..1 : i = 1
        OBVIOUS
      <4> QED BY <1>3, <2>4, <4>1, <4>2
    <3> QED BY <1>3, <3>1, CarriesRange
  <2>6. \A i \in 1..l : t[i][1] = ch => t[i][2] \in (a + 1) + 1..b
    BY <2>2, <2>3
  <2>7. ASSUME NEW n \in (a + 1) + 1..b PROVE \E i \in 1..l : t[i] = Item(ch, n)
    <3>0. n \in a + 1..b /\ n # a + 1
      OBVIOUS
    <3>1. PICK i \in 1..l + 1 : q[i] = Item(ch, n)
      BY <1>2, <3>0 DEF Carries
    <3>2. i # 1
      BY <1>1, <2>3, <3>0, <3>1 DEF Item
    <3>3. i - 1 \in 1..l /\ (i - 1) + 1 = i
      BY <1>2, <3>2
    <3>4. t[i - 1] = q[i]
      BY <1>1, <3>3
    <3> QED BY <3>1, <3>3, <3>4
  <2>8. ASSUME NEW i \in 1..l, NEW j \in 1..l, i < j, t[i][1] = ch, t[j][1] = ch
        PROVE  t[i][2] < t[j][2]
    <3>1. i + 1 < j + 1 /\ i + 1 \in 1..l + 1 /\ j + 1 \in 1..l + 1
      BY <1>5, <2>8
    <3>2. q[i + 1][1] = ch /\ q[j + 1][1] = ch
      BY <1>1, <2>8
    <3>3. q[i + 1][2] < q[j + 1][2]
      BY <1>2, <3>1, <3>2 DEF Carries
    <3> QED BY <1>1, <3>3
  <2>9. Carries(t, ch, a + 1, b)
    BY <1>2, <2>6, <2>7, <2>8 DEF Carries
  <2>10. a + 1 \in a..b
    BY <2>1
  <2> QED BY <1>1, <2>5, <2>9, <2>10 DEF h, t, s
<1> QED BY <1>7, <1>8

\* The output of a channel on its way: executed, held back, in the parser, unread.
Lined(e, t, f, u, ch, n) ==
    \E a, b, c \in Nat :
        /\ a <= b /\ b <= c /\ c + Len(u) = n
        /\ Carries(e, ch, 0, a) /\ Carries(t, ch, a, b) /\ Carries(f, ch, b, c)
        /\ \A i \in 1..Len(u) : u[i] = Item(ch, c + i)

\* It is all that was written, in order.
LEMMA LinedCarries ==
    ASSUME NEW ch \in Channels, NEW e \in Seq(Items), NEW t \in Seq(Items), NEW f \in Seq(Items),
           NEW u \in Seq(Items), NEW n \in Nat, Lined(e, t, f, u, ch, n)
    PROVE  Carries(e \o t \o f \o u, ch, 0, n)
<1>1. PICK a \in Nat, b \in Nat, c \in Nat :
        /\ a <= b /\ b <= c /\ c + Len(u) = n
        /\ Carries(e, ch, 0, a) /\ Carries(t, ch, a, b) /\ Carries(f, ch, b, c)
        /\ \A i \in 1..Len(u) : u[i] = Item(ch, c + i)
  BY DEF Lined
<1>2. Carries(u, ch, c, n) /\ c <= n
  <2>1. Carries(u, ch, c, c + Len(u))
    BY <1>1, CarriesRange
  <2>2. Len(u) \in Nat
    OBVIOUS
  <2> QED BY <1>1, <2>1, <2>2
<1> DEFINE x == e \o t
           y == x \o f
<1>3. x \in Seq(Items) /\ Carries(x, ch, 0, b)
  BY <1>1, CarriesConcat
<1> HIDE DEF x
<1>4. y \in Seq(Items) /\ Carries(y, ch, 0, c)
  BY <1>1, <1>3, CarriesConcat
<1> HIDE DEF y
<1>5. Carries(y \o u, ch, 0, n)
  BY <1>1, <1>2, <1>4, CarriesConcat
<1> QED BY <1>5 DEF x, y

\* WriteOutput()
LEMMA LinedWrite ==
    ASSUME NEW ch \in Channels, NEW e, NEW t, NEW f, NEW u \in Seq(Items), NEW n \in Nat,
           Lined(e, t, f, u, ch, n)
    PROVE  Lined(e, t, f, Append(u, Item(ch, n + 1)), ch, n + 1)
<1> DEFINE x == Item(ch, n + 1)
           v == Append(u, x)
           l == Len(u)
<1>1. PICK a \in Nat, b \in Nat, c \in Nat :
        /\ a <= b /\ b <= c /\ c + l = n
        /\ Carries(e, ch, 0, a) /\ Carries(t, ch, a, b) /\ Carries(f, ch, b, c)
        /\ \A i \in 1..l : u[i] = Item(ch, c + i)
  BY DEF Lined
<1>2. l \in Nat /\ Len(v) = l + 1 /\ v[l + 1] = x /\ \A i \in 1..l : v[i] = u[i]
  OBVIOUS
<1> HIDE DEF v, l
<1>3. c + (l + 1) = n + 1
  BY <1>1, <1>2
<1>4. \A i \in 1..l + 1 : i \in 1..l \/ i = l + 1
  BY <1>2
<1>5. \A i \in 1..l + 1 : v[i] = Item(ch, c + i)
  BY <1>1, <1>2, <1>3, <1>4
<1>6. Lined(e, t, f, v, ch, n + 1)
  <2>1. c + Len(v) = n + 1 /\ \A i \in 1..Len(v) : v[i] = Item(ch, c + i)
    BY <1>2, <1>3, <1>5
  <2> QED BY SMTT(30), <1>1, <2>1 DEF Lined
<1> QED BY <1>6 DEF v

\* flushAllPending()
LEMMA LinedFlush ==
    ASSUME NEW ch \in Channels, NEW e \in Seq(Items), NEW t \in Seq(Items), NEW f, NEW u, NEW n \in Nat,
           Lined(e, t, f, u, ch, n)
    PROVE  Lined(e \o t, <<>>, f, u, ch, n)
<1>1. PICK a \in Nat, b \in Nat, c \in Nat :
        /\ a <= b /\ b <= c /\ c + Len(u) = n
        /\ Carries(e, ch, 0, a) /\ Carries(t, ch, a, b) /\ Carries(f, ch, b, c)
        /\ \A i \in 1..Len(u) : u[i] = Item(ch, c + i)
  BY DEF Lined
<1>2. Carries(e \o t, ch, 0, b)
  BY <1>1, CarriesConcat
<1>3. Carries(<<>>, ch, b, b)
  BY <1>1 DEF Carries
<1> QED BY <1>1, <1>2, <1>3 DEF Lined

\* An item at the end of a sequence.
LEMMA CarriesAppend ==
    ASSUME NEW ch \in Channels, NEW p \in Seq(Items), NEW x \in Items,
           NEW a \in Nat, NEW b \in Nat, NEW c \in Nat, a <= b, b <= c,
           Carries(p, ch, a, b), Carries(<<x>>, ch, b, c)
    PROVE  Carries(Append(p, x), ch, a, c)
<1> DEFINE s == <<x>>
<1>1. s \in Seq(Items) /\ Append(p, x) = p \o s
  OBVIOUS
<1>2. Carries(s, ch, b, c)
  OBVIOUS
<1> HIDE DEF s
<1>3. Carries(p \o s, ch, a, c)
  BY <1>1, <1>2, CarriesConcat
<1> QED BY <1>1, <1>3

\* SingleStep: the first item held back is executed.
LEMMA LinedStep ==
    ASSUME NEW ch \in Channels, NEW e \in Seq(Items), NEW t \in Seq(Items), t # <<>>, NEW f, NEW u,
           NEW n \in Nat, Lined(e, t, f, u, ch, n)
    PROVE  Lined(Append(e, Head(t)), Tail(t), f, u, ch, n)
<1>1. PICK a \in Nat, b \in Nat, c \in Nat :
        /\ a <= b /\ b <= c /\ c + Len(u) = n
        /\ Carries(e, ch, 0, a) /\ Carries(t, ch, a, b) /\ Carries(f, ch, b, c)
        /\ \A i \in 1..Len(u) : u[i] = Item(ch, c + i)
  BY DEF Lined
<1>2. PICK m \in a..b : Carries(<<Head(t)>>, ch, a, m) /\ Carries(Tail(t), ch, m, b)
  BY <1>1, CarriesHead
<1>3. Head(t) \in Items
  BY HeadTailProperties
<1>4. m \in Nat /\ a <= m /\ m <= b
  BY <1>1, <1>2
<1>5. Carries(Append(e, Head(t)), ch, 0, m)
  BY <1>1, <1>2, <1>3, <1>4, CarriesAppend
<1> QED BY <1>1, <1>2, <1>4, <1>5 DEF Lined

\* The parser while sequences are held back.
LEMMA LinedHold ==
    ASSUME NEW ch \in Channels, NEW e, NEW t \in Seq(Items), NEW f \in Seq(Items), f # <<>>, NEW u,
           NEW n \in Nat, Lined(e, t, f, u, ch, n)
    PROVE  Lined(e, Append(t, Head(f)), Tail(f), u, ch, n)
<1>1. PICK a \in Nat, b \in Nat, c \in Nat :
        /\ a <= b /\ b <= c /\ c + Len(u) = n
        /\ Carries(e, ch, 0, a) /\ Carries(t, ch, a, b) /\ Carries(f, ch, b, c)
        /\ \A i \in 1..Len(u) : u[i] = Item(ch, c + i)
  BY DEF Lined
<1>2. PICK m \in b..c : Carries(<<Head(f)>>, ch, b, m) /\ Carries(Tail(f), ch, m, c)
  BY <1>1, CarriesHead
<1>3. Head(f) \in Items
  BY HeadTailProperties
<1>4. m \in Nat /\ b <= m /\ m <= c /\ a <= m
  BY <1>1, <1>2
<1>5. Carries(Append(t, Head(f)), ch, a, m)
  BY <1>1, <1>2, <1>3, <1>4, CarriesAppend
<1> QED BY <1>1, <1>2, <1>4, <1>5 DEF Lined

\* The parser while nothing is held back.
LEMMA LinedExecute ==
    ASSUME NEW ch \in Channels, NEW e \in Seq(Items), NEW f \in Seq(Items), f # <<>>, NEW u,
           NEW n \in Nat, Lined(e, <<>>, f, u, ch, n)
    PROVE  Lined(Append(e, Head(f)), <<>>, Tail(f), u, ch, n)
<1>1. PICK a \in Nat, b \in Nat, c \in Nat :
        /\ a <= b /\ b <= c /\ c + Len(u) = n
        /\ Carries(e, ch, 0, a) /\ Carries(<<>>, ch, a, b) /\ Carries(f, ch, b, c)
        /\ \A i \in 1..Len(u) : u[i] = Item(ch, c + i)
  BY DEF Lined
<1>2. a = b
  BY <1>1, CarriesEmpty
<1>3. PICK m \in b..c : Carries(<<Head(f)>>, ch, b, m) /\ Carries(Tail(f), ch, m, c)
  BY <1>1, CarriesHead
<1>4. Head(f) \in Items
  BY HeadTailProperties
<1>5. m \in Nat /\ b <= m /\ m <= c
  BY <1>1, <1>3
<1>6. Carries(Append(e, Head(f)), ch, 0, m)
  BY <1>1, <1>2, <1>3, <1>4, <1>5, CarriesAppend
<1>7. Carries(<<>>, ch, m, m)
  BY <1>5 DEF Carries
<1> QED BY <1>1, <1>3, <1>5, <1>6, <1>7 DEF Lined

\* readSome(), with nothing left to parse: for the channel that is read, and
\* for the other one.
LEMMA LinedRead ==
    ASSUME NEW ch \in Channels, NEW e, NEW t, NEW u \in Seq(Items), NEW n \in Nat,
           Lined(e, t, <<>>, u, ch, n), NEW k \in 1..Len(u)
    PROVE  Lined(e, t, SubSeq(u, 1, k), SubSeq(u, k + 1, Len(u)), ch, n)
<1> DEFINE l == Len(u)
           f == SubSeq(u, 1, k)
           v == SubSeq(u, k + 1, l)
<1>1. PICK a \in Nat, b \in Nat, c \in Nat :
        /\ a <= b /\ b <= c /\ c + l = n
        /\ Carries(e, ch, 0, a) /\ Carries(t, ch, a, b) /\ Carries(<<>>, ch, b, c)
        /\ \A i \in 1..l : u[i] = Item(ch, c + i)
  BY DEF Lined
<1>2. b = c
  BY <1>1, CarriesEmpty
<1>3. l \in Nat /\ k \in Nat /\ k <= l /\ 1 <= k
  OBVIOUS
<1>4. \A i \in 1..l : u[i] \in Items
  OBVIOUS
<1>5. f \in Seq(Items) /\ Len(f) = k /\ \A i \in 1..k : f[i] = u[i]
  <2>1. \A i \in 1..k : u[i] \in Items
    BY <1>3, <1>4
  <2> QED BY <1>3, <2>1, SubSeqProperties
<1>6. Len(v) = l - k /\ \A i \in 1..l - k : v[i] = u[k + i]
  <2>1. \A i \in k + 1..l : u[i] \in Items
    BY <1>3, <1>4
  <2>2. /\ Len(v) = IF k + 1 <= l THEN l - (k + 1) + 1 ELSE 0
        /\ \A i \in 1..l - (k + 1) + 1 : v[i] = u[k + 1 + i - 1]
    BY <1>3, <2>1, SubSeqProperties
  <2> QED BY <1>3, <2>2
<1> HIDE DEF l, f, v
<1>7. ASSUME NEW i \in 1..k PROVE f[i] = Item(ch, c + i)
  <2>1. i \in 1..l
    BY <1>3
  <2> QED BY <1>1, <1>5, <2>1
<1>8. Carries(f, ch, c, c + k)
  BY <1>3, <1>5, <1>7, CarriesRange
<1>9. ASSUME NEW i \in 1..l - k PROVE v[i] = Item(ch, (c + k) + i)
  <2>1. k + i \in 1..l /\ c + (k + i) = (c + k) + i
    BY <1>3
  <2>2. u[k + i] = Item(ch, c + (k + i))
    BY <1>1, <2>1
  <2> QED BY <1>6, <2>1, <2>2
<1>10. c + k \in Nat /\ b <= c + k /\ (c + k) + (l - k) = n
  BY <1>1, <1>3
<1>11. Lined(e, t, f, v, ch, n)
  BY <1>1, <1>2, <1>6, <1>8, <1>9, <1>10 DEF Lined
<1> QED BY <1>11 DEF f, v, l

\* ReadPty() of another channel.
LEMMA LinedReadOther ==
    ASSUME NEW ch \in Channels, NEW e, NEW t, NEW u, NEW n \in Nat, Lined(e, t, <<>>, u, ch, n),
           NEW f \in Seq(Items), \A i \in DOMAIN f : f[i][1] # ch
    PROVE  Lined(e, t, f, u, ch, n)
<1>1. PICK a \in Nat, b \in Nat, c \in Nat :
        /\ a <= b /\ b <= c /\ c + Len(u) = n
        /\ Carries(e, ch, 0, a) /\ Carries(t, ch, a, b) /\ Carries(<<>>, ch, b, c)
        /\ \A i \in 1..Len(u) : u[i] = Item(ch, c + i)
  BY DEF Lined
<1>2. b = c
  BY <1>1, CarriesEmpty
<1>3. Carries(f, ch, b, b)
  BY CarriesNothing
<1> QED BY <1>1, <1>2, <1>3 DEF Lined

\* Where nothing is traced, nothing is held back, unless the user leaves the trace mode.
NotTraced == mode = "Normal" => traced = <<>>

Flows == \A ch \in Channels : Lined(executed, traced, fragment, unread[ch], ch, sent[ch])

FlowInv == PInv /\ NotTraced /\ Flows

\* Nothing is written when the session starts.
LEMMA InitFlow ==
    ASSUME Init
    PROVE  FlowInv
<1>1. PInv
  BY InitPInv
<1>2. NotTraced
  BY DEF Init, NotTraced
<1>3. ASSUME NEW ch \in Channels
      PROVE  Lined(executed, traced, fragment, unread[ch], ch, sent[ch])
  <2>1. /\ executed = <<>> /\ traced = <<>> /\ fragment = <<>>
        /\ unread[ch] = <<>> /\ sent[ch] = 0
    BY DEF Init
  <2>2. Carries(<<>>, ch, 0, 0)
    BY DEF Carries
  <2>3. Len(<<>>) = 0 /\ \A i \in 1..0 : FALSE
    OBVIOUS
  <2>4. Lined(<<>>, <<>>, <<>>, <<>>, ch, 0)
    BY <2>2, <2>3 DEF Lined
  <2> QED BY <2>1, <2>4
<1> QED BY <1>1, <1>2, <1>3 DEF FlowInv, Flows

\* Steps that touch neither the output nor the mode.
LEMMA FlowSame ==
    ASSUME FlowInv, UNCHANGED <<sent, unread, traced, executed, fragment>>,
           mode' = "Normal" => mode = "Normal"
    PROVE  NotTraced' /\ Flows'
  BY DEF FlowInv, NotTraced, Flows

\* Every step of the application, the user and the terminal thread keeps the ledger.
LEMMA FlowStep ==
    ASSUME "Normal" \notin GuiModes, FlowInv, Next
    PROVE  NotTraced' /\ Flows'
<1>0. /\ executed \in Seq(Items) /\ traced \in Seq(Items) /\ fragment \in Seq(Items)
      /\ unread \in [Channels -> Seq(Items)] /\ sent \in [Channels -> Nat] /\ fd \in Channels
      /\ FragmentParsed /\ NotTraced /\ Flows
  <2>1. sent \in [Channels -> 0..MaxSent]
    BY DEF FlowInv, PInv, TypeOK
  <2>2. sent \in [Channels -> Nat]
    BY <2>1
  <2> QED BY <2>2 DEF FlowInv, PInv, TypeOK
<1>1. ASSUME NEW ch \in Channels, WriteOutput(ch) PROVE NotTraced' /\ Flows'
  <2>1. /\ sent' = [sent EXCEPT ![ch] = @ + 1]
        /\ unread' = [unread EXCEPT ![ch] = Append(@, Item(ch, sent[ch] + 1))]
        /\ UNCHANGED <<mode, traced, executed, fragment>>
    BY <1>1 DEF WriteOutput, modeVars, parseVars
  <2>2. ASSUME NEW c \in Channels
        PROVE  Lined(executed', traced', fragment', unread'[c], c, sent'[c])
    <3>1. Lined(executed, traced, fragment, unread[c], c, sent[c])
      BY <1>0 DEF Flows
    <3>2. CASE c # ch
      BY <1>0, <2>1, <3>1, <3>2
    <3>3. CASE c = ch
      <4>1. unread[ch] \in Seq(Items) /\ sent[ch] \in Nat
        BY <1>0
      <4>2. Lined(executed, traced, fragment, Append(unread[ch], Item(ch, sent[ch] + 1)), ch, sent[ch] + 1)
        BY <3>1, <3>3, <4>1, LinedWrite
      <4>3. unread'[ch] = Append(unread[ch], Item(ch, sent[ch] + 1)) /\ sent'[ch] = sent[ch] + 1
        BY <1>0, <2>1
      <4> QED BY <2>1, <3>3, <4>2, <4>3
    <3> QED BY <3>2, <3>3
  <2> QED BY <1>0, <2>1, <2>2 DEF Flows, NotTraced
<1>2. CASE \/ (\E ch \in Channels : Release(ch)) \/ Exit \/ WatchExit \/ OnClosed
           \/ CheckMode \/ WaitForCommand \/ WaitPending \/ WaitReadable \/ WaitInterrupted
           \/ ReadPipeEnd \/ ReadFails \/ LoopCloses \/ EndFragment
  <2>1. UNCHANGED <<sent, unread, traced, executed, fragment, mode>>
    BY <1>2 DEF Release, Exit, WatchExit, OnClosed, CheckMode, WaitForCommand, WaitPending, WaitReadable,
                WaitInterrupted, ReadPipeEnd, ReadFails, LoopCloses, EndFragment, appVars, modeVars, parseVars
  <2> QED BY <2>1, FlowSame
<1>3. CASE BreakAtEmptyQueue
  BY <1>3, FlowSame DEF BreakAtEmptyQueue, appVars, parseVars
<1>4. CASE \E m \in GuiModes : SetExecutionMode(m)
  <2>1. mode' # "Normal" /\ UNCHANGED <<sent, unread, traced, executed, fragment>>
    BY <1>4 DEF SetExecutionMode, appVars, parseVars
  <2> QED BY <2>1, FlowSame
<1>5. CASE FlushAll
  <2>1. executed' = executed \o traced /\ traced' = <<>> /\ UNCHANGED <<sent, unread, fragment, mode>>
    BY <1>5 DEF FlushAll, appVars, modeVars
  <2>2. ASSUME NEW ch \in Channels
        PROVE  Lined(executed \o traced, <<>>, fragment, unread[ch], ch, sent[ch])
    <3>1. Lined(executed, traced, fragment, unread[ch], ch, sent[ch]) /\ sent[ch] \in Nat
      BY <1>0 DEF Flows
    <3> QED BY <1>0, <3>1, LinedFlush
  <2> QED BY <2>1, <2>2 DEF Flows, NotTraced
<1>6. CASE SingleStep
  <2>1. CASE traced = <<>>
    <3>1. UNCHANGED <<sent, unread, traced, executed, fragment, mode>>
      BY <1>6, <2>1 DEF SingleStep, appVars
    <3> QED BY <3>1, FlowSame
  <2>2. CASE traced # <<>>
    <3>1. /\ mode' = "Waiting" /\ executed' = Append(executed, Head(traced)) /\ traced' = Tail(traced)
          /\ UNCHANGED <<sent, unread, fragment>>
      BY <1>6, <2>2 DEF SingleStep, appVars
    <3>2. ASSUME NEW ch \in Channels
          PROVE  Lined(Append(executed, Head(traced)), Tail(traced), fragment, unread[ch], ch, sent[ch])
      <4>1. Lined(executed, traced, fragment, unread[ch], ch, sent[ch]) /\ sent[ch] \in Nat
        BY <1>0 DEF Flows
      <4> QED BY <1>0, <2>2, <4>1, LinedStep
    <3> QED BY <3>1, <3>2 DEF Flows, NotTraced
  <2> QED BY <2>1, <2>2
<1>7. CASE ParseItem
  <2>1. fragment # <<>> /\ fragment' = Tail(fragment) /\ UNCHANGED <<sent, unread, mode>>
    BY <1>7 DEF ParseItem, appVars, modeVars
  <2>2. CASE mode = "Normal"
    <3>1. traced = <<>> /\ traced' = traced /\ executed' = Append(executed, Head(fragment))
      BY <1>0, <1>7, <2>2 DEF ParseItem, NotTraced
    <3>2. ASSUME NEW ch \in Channels
          PROVE  Lined(Append(executed, Head(fragment)), <<>>, Tail(fragment), unread[ch], ch, sent[ch])
      <4>1. Lined(executed, <<>>, fragment, unread[ch], ch, sent[ch]) /\ sent[ch] \in Nat
        BY <1>0, <3>1 DEF Flows
      <4> QED BY <1>0, <2>1, <4>1, LinedExecute
    <3> QED BY <2>1, <3>1, <3>2 DEF Flows, NotTraced
  <2>3. CASE mode # "Normal"
    <3>1. traced' = Append(traced, Head(fragment)) /\ executed' = executed
      BY <1>7, <2>3 DEF ParseItem
    <3>2. ASSUME NEW ch \in Channels
          PROVE  Lined(executed, Append(traced, Head(fragment)), Tail(fragment), unread[ch], ch, sent[ch])
      <4>1. Lined(executed, traced, fragment, unread[ch], ch, sent[ch]) /\ sent[ch] \in Nat
        BY <1>0 DEF Flows
      <4> QED BY <1>0, <2>1, <4>1, LinedHold
    <3> QED BY <2>1, <2>3, <3>1, <3>2 DEF Flows, NotTraced
  <2> QED BY <2>2, <2>3
<1>8. CASE ReadSome
  <2>1. PICK n \in 1..Len(unread[fd]) :
          /\ fragment' = SubSeq(unread[fd], 1, n)
          /\ unread' = [unread EXCEPT ![fd] = SubSeq(@, n + 1, Len(@))]
    BY <1>8 DEF ReadSome
  <2>2. fragment = <<>> /\ UNCHANGED <<sent, traced, executed, mode>>
    BY <1>0, <1>8 DEF ReadSome, FragmentParsed, appVars, modeVars
  <2>3. unread[fd] \in Seq(Items)
    BY <1>0
  <2>4. ASSUME NEW ch \in Channels
        PROVE  Lined(executed, traced, fragment', unread'[ch], ch, sent[ch])
    <3>1. Lined(executed, traced, <<>>, unread[ch], ch, sent[ch]) /\ sent[ch] \in Nat
      BY <1>0, <2>2 DEF Flows
    <3>2. CASE ch = fd
      <4>1. unread'[fd] = SubSeq(unread[fd], n + 1, Len(unread[fd]))
        BY <1>0, <2>1
      <4>2. Lined(executed, traced, SubSeq(unread[fd], 1, n), SubSeq(unread[fd], n + 1, Len(unread[fd])),
                  fd, sent[fd])
        BY <2>1, <2>3, <3>1, <3>2, LinedRead
      <4> QED BY <2>1, <3>2, <4>1, <4>2
    <3>3. CASE ch # fd
      <4> DEFINE u == unread[fd]
      <4>1. Lined(executed, traced, <<>>, u, fd, sent[fd])
        BY <1>0, <2>2 DEF Flows
      <4>2. \A i \in 1..Len(u) : u[i][1] = fd
        BY <4>1 DEF Lined, Item
      <4>3. Len(u) \in Nat /\ \A i \in 1..Len(u) : u[i] \in Items
        BY <2>3
      <4>4. \A i \in 1..n : u[i] \in Items
        BY <2>1, <4>3
      <4> HIDE DEF u
      <4>5. /\ SubSeq(u, 1, n) \in Seq(Items) /\ DOMAIN SubSeq(u, 1, n) = 1..n
            /\ \A i \in 1..n : SubSeq(u, 1, n)[i] = u[i]
        <5>1. n \in Nat /\ 1 <= n /\ n <= Len(u) /\ u \in Seq(Items)
          BY <2>1, <2>3, <4>3 DEF u
        <5>2. /\ SubSeq(u, 1, n) \in Seq(Items) /\ Len(SubSeq(u, 1, n)) = n
              /\ \A i \in 1..n : SubSeq(u, 1, n)[i] = u[i]
          BY <4>4, <5>1, SubSeqProperties
        <5> QED BY <5>2
      <4>6. \A i \in 1..n : i \in 1..Len(u)
        BY <2>1, <4>3 DEF u
      <4>7. \A i \in DOMAIN SubSeq(u, 1, n) : SubSeq(u, 1, n)[i][1] # ch
        BY <3>3, <4>2, <4>5, <4>6
      <4>8. Lined(executed, traced, SubSeq(u, 1, n), unread[ch], ch, sent[ch])
        BY <3>1, <4>5, <4>7, LinedReadOther
      <4>9. unread'[ch] = unread[ch]
        BY <1>0, <2>1, <3>3
      <4> QED BY <2>1, <4>8, <4>9 DEF u
    <3> QED BY <3>2, <3>3
  <2> QED BY <1>0, <2>2, <2>4 DEF Flows, NotTraced
<1> QED BY <1>1, <1>2, <1>3, <1>4, <1>5, <1>6, <1>7, <1>8 DEF Next, LoopSteps

\* Output is executed in the order in which it was written, nothing twice and nothing
\* left out, for any amount of output and in any interleaving with stops, steps and
\* breaks of the user.  Leaving the trace mode is excepted: the rest of the fragment
\* that is being parsed is then executed before what is held back.
THEOREM PtyInOrder ==
    ASSUME "Normal" \notin GuiModes
    PROVE  Spec => []InOrder
<1>1. Init => FlowInv
  BY InitFlow
<1>2. FlowInv /\ [Next]_vars => FlowInv'
  <2>1. ASSUME FlowInv, Next PROVE FlowInv'
    BY <2>1, FlowStep, NextPInv DEF FlowInv
  <2>2. ASSUME FlowInv, UNCHANGED vars PROVE FlowInv'
    <3>1. NotTraced' /\ Flows'
      BY <2>2, FlowSame DEF vars
    <3> QED BY <2>2, <3>1, NextPInv DEF FlowInv
  <2> QED BY <2>1, <2>2
<1>3. FlowInv => InOrder
  <2>1. ASSUME FlowInv, NEW ch \in Channels
        PROVE  Carries(executed \o traced \o fragment \o unread[ch], ch, 0, sent[ch])
    <3>1. /\ executed \in Seq(Items) /\ traced \in Seq(Items) /\ fragment \in Seq(Items)
          /\ unread[ch] \in Seq(Items) /\ sent[ch] \in Nat
      BY <2>1 DEF FlowInv, PInv, TypeOK
    <3>2. Lined(executed, traced, fragment, unread[ch], ch, sent[ch])
      BY <2>1 DEF FlowInv, Flows
    <3> QED BY <3>1, <3>2, LinedCarries
  <2> QED BY <2>1 DEF InOrder
<1> QED BY <1>1, <1>2, <1>3, PTL DEF Spec

=============================================================================
