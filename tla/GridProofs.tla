----------------------------- MODULE GridProofs -----------------------------
(***************************************************************************)
(* Proofs about Grid, for every page height, history limit and bound.      *)
(*                                                                         *)
(* VerifyState is what Grid::verifyState() asserts.  It is not inductive:  *)
(* that a resize keeps linesUsed >= pageLines needs the cursor to be on    *)
(* the page, and that the ring's first line stays inside the vector needs  *)
(* the vector to be non-empty.  GridInv adds both.                         *)
(*                                                                         *)
(* The refinement of Scrollback rests on RingInv: where the page is in the *)
(* ring and that offsets less than the ring apart are different lines.     *)
(***************************************************************************)
EXTENDS Grid, SequenceTheorems, TLAPS

\* Where the ring starts, how much of it is used, and where the cursor is.
Counters ==
    /\ size \in Nat \ {0}
    /\ zero \in 0..(size - 1)
    /\ linesUsed \in Nat
    /\ pageLines \in Nat \ {0}
    /\ limit \in Nat \cup {Infinite}
    /\ cursor \in 0..(pageLines - 1)

GridInv == Counters /\ VerifyState

counterVars == <<size, zero, linesUsed, pageLines, limit, cursor>>

\* A ring index is always inside the vector.
LEMMA ModRange ==
    ASSUME NEW a \in Int, NEW n \in Nat \ {0}
    PROVE  a % n \in 0..(n - 1)
OBVIOUS

\* Quotient and remainder.
LEMMA DivMod ==
    ASSUME NEW a \in Int, NEW n \in Nat \ {0}
    PROVE  a = n * (a \div n) + (a % n) /\ a \div n \in Int /\ a % n \in 0..(n - 1)
OBVIOUS

\* The remainder is unique.
LEMMA ModUnique ==
    ASSUME NEW n \in Nat \ {0}, NEW q \in Int, NEW r \in 0..(n - 1), NEW a \in Int, a = n * q + r
    PROVE  a % n = r
OBVIOUS

\* Multiplication distributes over subtraction.
LEMMA TimesMinus ==
    ASSUME NEW n \in Int, NEW p \in Int, NEW q \in Int
    PROVE  n * (p - q) = n * p - n * q
OBVIOUS

\* Rotating the ring by a and then by b is rotating it by a + b.
LEMMA ModShift ==
    ASSUME NEW a \in Int, NEW b \in Int, NEW n \in Nat \ {0}
    PROVE  ((a % n) + b) % n = (a + b) % n
<1> DEFINE p == (a + b) \div n
           q == a \div n
           r == (a + b) % n
           t == a % n
<1>1. a = n * q + t /\ q \in Int /\ t \in 0..(n - 1)
  BY DivMod
<1>2. a + b = n * p + r /\ p \in Int /\ r \in 0..(n - 1)
  BY DivMod
<1> HIDE DEF p, q, r, t
<1>3. n * (p - q) = n * p - n * q
  BY <1>1, <1>2, TimesMinus
<1>4. n * p \in Int /\ n * q \in Int
  BY <1>1, <1>2
<1> DEFINE k == p - q
           x == t + b
<1>5. k \in Int /\ x \in Int /\ x = n * k + r
  BY <1>1, <1>2, <1>3, <1>4
<1> HIDE DEF k, x
<1>6. x % n = r
  BY <1>2, <1>5, ModUnique
<1> QED BY <1>6 DEF t, r, x

\* The grid is made consistent.
LEMMA InitGridInv == Init => GridInv
<1> SUFFICES ASSUME Init PROVE GridInv
  OBVIOUS
<1>1. CASE InitLimit = Infinite
  BY <1>1, GridAssumption DEF Init, GridInv, Counters, VerifyState, totalLineCount, maxHistoryLineCount
<1>2. CASE InitLimit \in Nat
  BY <1>2, GridAssumption DEF Init, GridInv, Counters, VerifyState, totalLineCount, maxHistoryLineCount
<1> QED BY <1>1, <1>2, GridAssumption

\* An operation that leaves the counters alone.
LEMMA SameCounters ==
    ASSUME GridInv, UNCHANGED counterVars
    PROVE  GridInv'
BY DEF GridInv, Counters, VerifyState, totalLineCount, maxHistoryLineCount, counterVars

\* scrollUp(), with and without room in the ring.
LEMMA ScrollUpKeepsGridInv ==
    ASSUME GridInv, NEW n \in 1..MaxScroll, ScrollUp(n)
    PROVE  GridInv'
<1> USE GridAssumption DEF GridInv, Counters, VerifyState, totalLineCount, maxHistoryLineCount
<1> DEFINE s == IF limit = Infinite /\ size - linesUsed < n THEN linesUsed + n ELSE size
           z == (zero + s + n) % s
           u == linesUsed + Lower(n, s - linesUsed)
<1>1. /\ size' = s /\ zero' = z /\ linesUsed' = u
      /\ pageLines' = pageLines /\ limit' = limit /\ cursor' = cursor
  BY DEF ScrollUp
<1>2. s \in Nat \ {0} /\ s >= size
  OBVIOUS
<1>3. z \in 0..(s - 1)
  <2>1. zero + s + n \in Int
    BY <1>2
  <2> QED BY <2>1, <1>2, ModRange
<1>4. u >= linesUsed /\ u <= s /\ u \in Nat
  BY <1>2 DEF Lower
<1> HIDE DEF s, z, u
<1>5. Counters'
  BY <1>1, <1>2, <1>3, <1>4
<1>6. s >= (IF limit = Infinite THEN s - pageLines ELSE limit) + pageLines
  <2>1. CASE limit = Infinite BY <2>1, <1>2
  <2>2. CASE limit # Infinite BY <2>2, <1>2
  <2> QED BY <2>1, <2>2
<1>7. VerifyState'
  BY <1>1, <1>4, <1>6
<1> QED BY <1>5, <1>7

\* A full-screen scrollDown() only rotates the ring.
LEMMA ScrollDownKeepsGridInv ==
    ASSUME GridInv, NEW n \in 1..MaxScroll, ScrollDownPage(n)
    PROVE  GridInv'
<1>1. zero' \in 0..(size - 1)
  <2>1. zero' = (zero + size - Lower(n, pageLines)) % size
    BY DEF ScrollDownPage
  <2>2. zero + size - Lower(n, pageLines) \in Int
    BY DEF GridInv, Counters, Lower
  <2> QED BY <2>1, <2>2, ModRange DEF GridInv, Counters
<1> QED
  BY <1>1 DEF ScrollDownPage, GridInv, Counters, VerifyState, totalLineCount, maxHistoryLineCount

\* clearHistory() and reset() give up the history, never the page.
LEMMA ClearKeepsGridInv ==
    ASSUME GridInv, ClearHistory \/ Reset
    PROVE  GridInv'
<1>1. CASE ClearHistory
  BY <1>1 DEF ClearHistory, ring, GridInv, Counters, VerifyState, totalLineCount, maxHistoryLineCount
<1>2. CASE Reset
  BY <1>2 DEF Reset, GridInv, Counters, VerifyState, totalLineCount, maxHistoryLineCount
<1> QED BY <1>1, <1>2

\* growLines(): the page grows out of the history, then out of new lines.
LEMMA GrowKeepsGridInv ==
    ASSUME GridInv, NEW h \in 1..MaxPageLines, GrowLines(h)
    PROVE  GridInv'
<1> USE GridAssumption DEF GridInv, Counters, VerifyState, totalLineCount, maxHistoryLineCount
<1> DEFINE pulled == LinesPulled(h)
           maxHistory == IF limit = Infinite THEN size - (pageLines + pulled) ELSE limit
           s == Higher(size, maxHistory + h)
           z == (zero + size - pulled) % size
           u == Lower(linesUsed + h - (pageLines + pulled), s)
           c == Clamp(cursor + pulled, 0, h - 1)
<1>1. /\ size' = s /\ zero' = z /\ linesUsed' = u
      /\ pageLines' = h /\ limit' = limit /\ cursor' = c
  BY DEF GrowLines
<1>2. h \in Nat /\ h > pageLines
  BY DEF GrowLines
<1>3. /\ pulled \in Nat
      /\ pulled <= h - pageLines
      /\ pulled <= linesUsed - pageLines
  BY <1>2 DEF LinesPulled, Lower, historyLineCount
<1> HIDE DEF pulled
<1>4. maxHistory \in Int
  <2>1. CASE limit = Infinite BY <2>1, <1>3
  <2>2. CASE limit # Infinite BY <2>2
  <2> QED BY <2>1, <2>2
<1>5. s \in Nat \ {0} /\ s >= size /\ s >= maxHistory + h
  <2> HIDE DEF maxHistory
  <2> QED BY <1>2, <1>4 DEF Higher
<1>6. s >= h
  <2>1. CASE limit = Infinite BY <2>1, <1>2, <1>3, <1>5
  <2>2. CASE limit # Infinite BY <2>2, <1>2, <1>3, <1>5
  <2> QED BY <2>1, <2>2
<1>7. s >= (IF limit = Infinite THEN s - h ELSE limit) + h
  <2> HIDE DEF s
  <2>1. CASE limit = Infinite BY <2>1, <1>2, <1>5
  <2>2. CASE limit # Infinite BY <2>2, <1>2, <1>5
  <2> QED BY <2>1, <2>2
<1> HIDE DEF s
<1>8. z \in 0..(s - 1)
  <2>1. zero + size - pulled \in Int
    BY <1>3
  <2>2. z \in 0..(size - 1)
    BY <2>1, ModRange
  <2> QED BY <2>2, <1>5
<1>9. u \in Nat /\ u <= s /\ u >= h
  BY <1>2, <1>3, <1>5, <1>6 DEF Lower
<1>10. c \in 0..(h - 1)
  BY <1>2, <1>3 DEF Clamp, Higher, Lower
<1> HIDE DEF z, u, c
<1>11. Counters'
  BY <1>1, <1>2, <1>5, <1>8, <1>9, <1>10
<1>12. VerifyState'
  BY <1>1, <1>7, <1>9
<1> QED BY <1>11, <1>12

\* shrinkLines(): what is cut off below the cursor is given up, the rest moves
\* into the history.
LEMMA ShrinkKeepsGridInv ==
    ASSUME GridInv, NEW h \in 1..MaxPageLines, ShrinkLines(h)
    PROVE  GridInv'
<1> USE GridAssumption DEF GridInv, Counters, VerifyState, totalLineCount, maxHistoryLineCount
<1> DEFINE cutoff == Lower(pageLines - h, pageLines - (cursor + 1))
           pushedUp == pageLines - h - cutoff
<1>1. h \in Nat /\ h >= 1 /\ h < pageLines
  BY DEF ShrinkLines
<1>2. cutoff \in Nat /\ pushedUp \in Nat /\ cutoff + pushedUp = pageLines - h
  BY <1>1 DEF Lower
<1>3. zero' \in 0..(size - 1)
  <2>1. zero' = (zero + size + pushedUp) % size
    BY DEF ShrinkLines
  <2>2. zero + size + pushedUp \in Int
    BY <1>2
  <2> QED BY <2>1, <2>2, ModRange
<1>4. /\ size' = size /\ limit' = limit /\ pageLines' = h
      /\ linesUsed' = linesUsed - cutoff
  BY DEF ShrinkLines
<1>5. cursor' \in 0..(h - 1)
  <2>1. cursor' = Clamp(cursor - pushedUp, 0, h - 1)
    BY DEF ShrinkLines
  <2> QED BY <2>1, <1>1, <1>2 DEF Clamp, Higher, Lower
<1>6. size' >= totalLineCount'
  <2>1. CASE limit = Infinite BY <2>1, <1>1, <1>4
  <2>2. CASE limit # Infinite BY <2>2, <1>1, <1>4
  <2> QED BY <2>1, <2>2
<1> QED BY <1>1, <1>2, <1>3, <1>4, <1>5, <1>6

\* setMaxHistoryLineCount(): the ring is cut to the page and the new limit.
LEMMA LimitKeepsGridInv ==
    ASSUME GridInv, NEW l \in (0..MaxLimit) \cup {Infinite}, SetMaxHistoryLineCount(l)
    PROVE  GridInv'
<1> USE GridAssumption DEF GridInv, Counters, VerifyState, totalLineCount, maxHistoryLineCount
<1>1. /\ limit' = l /\ zero' = 0 /\ pageLines' = pageLines /\ cursor' = cursor
      /\ size' = (IF l = Infinite THEN size ELSE pageLines + l)
      /\ linesUsed' = Lower(linesUsed, size')
  BY DEF SetMaxHistoryLineCount
<1>2. CASE l = Infinite
  BY <1>1, <1>2 DEF Lower
<1>3. CASE l \in Nat
  BY <1>1, <1>3 DEF Lower
<1> QED BY <1>2, <1>3

\* The invariant is inductive.
LEMMA NextGridInv == GridInv /\ [Next]_vars => GridInv'
<1> SUFFICES ASSUME GridInv, [Next]_vars PROVE GridInv'
  OBVIOUS
<1>1. CASE WriteLine
  BY <1>1, SameCounters DEF WriteLine, counterVars
<1>2. CASE MoveCursor
  <2>1. cursor' \in 0..(pageLines - 1)
    BY <1>2 DEF MoveCursor
  <2> QED
    BY <1>2, <2>1 DEF MoveCursor, ring, GridInv, Counters, VerifyState, totalLineCount, maxHistoryLineCount
<1>3. ASSUME NEW n \in 1..MaxScroll, ScrollUp(n) PROVE GridInv'
  BY <1>3, ScrollUpKeepsGridInv
<1>4. ASSUME NEW n \in 1..MaxScroll, NEW m \in Margins, NEW cs, ScrollUpRegion(n, m[1], m[2], cs)
      PROVE  GridInv'
  BY <1>4, SameCounters DEF ScrollUpRegion, counterVars
<1>5. ASSUME NEW n \in 1..MaxScroll, ScrollDownPage(n) PROVE GridInv'
  BY <1>5, ScrollDownKeepsGridInv
<1>6. ASSUME NEW n \in 1..MaxScroll, NEW m \in Margins, ScrollDownVertical(n, m[1], m[2])
      PROVE  GridInv'
  BY <1>6, SameCounters DEF ScrollDownVertical, counterVars
<1>7. ASSUME NEW n \in 1..MaxScroll, NEW m \in Margins, ScrollDownInside(n, m[1], m[2])
      PROVE  GridInv'
  BY <1>7, SameCounters DEF ScrollDownInside, counterVars
<1>8. CASE ClearHistory BY <1>8, ClearKeepsGridInv
<1>9. CASE Reset BY <1>9, ClearKeepsGridInv
<1>10. ASSUME NEW h \in 1..MaxPageLines, GrowLines(h) PROVE GridInv'
  BY <1>10, GrowKeepsGridInv
<1>11. ASSUME NEW h \in 1..MaxPageLines, ShrinkLines(h) PROVE GridInv'
  BY <1>11, ShrinkKeepsGridInv
<1>12. ASSUME NEW l \in (0..MaxLimit) \cup {Infinite}, SetMaxHistoryLineCount(l) PROVE GridInv'
  BY <1>12, LimitKeepsGridInv
<1>13. CASE UNCHANGED vars
  BY <1>13, SameCounters DEF vars, counterVars
<1> QED
  BY <1>1, <1>2, <1>3, <1>4, <1>5, <1>6, <1>7, <1>8, <1>9, <1>10, <1>11, <1>12, <1>13 DEF Next

\* shrinkLines() moves the page by as many lines as it moves the cursor, so the
\* cursor's line and the lines above it stay where they are in the ring.
LEMMA ShrinkStepKeepsLines ==
    ASSUME GridInv, NEW h \in 1..MaxPageLines, ShrinkLines(h),
           NEW i \in 0..(cursor + historyLineCount)
    PROVE  i <= cursor' + historyLineCount' /\ At(cursor - i) = At(cursor - i)'
<1> USE GridAssumption DEF GridInv, Counters, VerifyState, historyLineCount
<1> DEFINE cutoff == Lower(pageLines - h, pageLines - (cursor + 1))
           up == pageLines - h - cutoff
           z == (zero + size + up) % size
           c == Clamp(cursor - up, 0, h - 1)
<1>1. /\ size' = size /\ storage' = storage /\ zero' = z
      /\ linesUsed' = linesUsed - cutoff /\ pageLines' = h /\ cursor' = c
  BY DEF ShrinkLines
<1>2. h \in Nat /\ h < pageLines
  BY DEF ShrinkLines
<1>3. cutoff \in Nat /\ up \in Nat /\ cutoff + up = pageLines - h
  BY <1>2 DEF Lower
<1>4. c = cursor - up
  BY <1>2 DEF Clamp, Higher, Lower
<1>5. i \in Int /\ i <= cursor + (linesUsed - pageLines)
  OBVIOUS
<1> HIDE DEF cutoff, up, z, c
<1>6. i <= cursor' + historyLineCount'
  <2>1. i <= c + ((linesUsed - cutoff) - h)
    BY <1>2, <1>3, <1>4, <1>5
  <2> QED BY <2>1, <1>1
<1>7. (z + size + (c - i)) % size = (zero + size + (cursor - i)) % size
  <2> DEFINE a == zero + size + up
             b == size + (c - i)
             e == zero + size + (cursor - i)
  <2>1. a \in Int /\ b \in Int /\ e \in Int /\ a + b = e + size
    BY <1>3, <1>4, <1>5
  <2>2. z + size + (c - i) = (a % size) + b
    <3>1. a % size \in Int
      BY <1>3, ModRange
    <3> HIDE DEF a
    <3>2. z = a % size
      BY DEF z, a
    <3> QED BY <3>1, <3>2, <1>3, <1>4, <1>5
  <2> HIDE DEF a, b, e
  <2>3. ((a % size) + b) % size = (a + b) % size
    BY <2>1, ModShift
  <2>4. (e + size) % size = e % size
    <3> DEFINE q == e \div size
               r == e % size
               w == e + size
    <3>1. e = size * q + r /\ q \in Int /\ r \in 0..(size - 1)
      BY <2>1, DivMod
    <3> HIDE DEF q, r
    <3>2. size * (q + 1) = size * q + size
      BY <3>1
    <3> DEFINE k == q + 1
    <3>3. w \in Int /\ k \in Int /\ w = size * k + r
      BY <2>1, <3>1, <3>2
    <3> HIDE DEF w, k
    <3>4. w % size = r
      BY <3>1, <3>3, ModUnique
    <3> QED BY <3>4 DEF w, r
  <2> QED BY <2>1, <2>2, <2>3, <2>4 DEF e
<1>8. At(cursor - i) = At(cursor - i)'
  BY <1>1, <1>7 DEF At, RingIndex
<1> QED BY <1>6, <1>8

\* Only a resize to fewer lines lowers the page.
LEMMA OnlyShrinkLowersPage ==
    ASSUME GridInv, Next, pageLines' < pageLines
    PROVE  \E h \in 1..MaxPageLines : ShrinkLines(h)
<1>1. pageLines \in Nat
  BY DEF GridInv, Counters
<1>2. pageLines' # pageLines
  BY <1>1
<1>3. ASSUME NEW h \in 1..MaxPageLines, GrowLines(h) PROVE FALSE
  <2>1. pageLines' = h /\ h > pageLines /\ h \in Int
    BY <1>3, GridAssumption DEF GrowLines
  <2> QED BY <1>1, <2>1
<1> QED
  BY <1>2, <1>3 DEF Next, WriteLine, MoveCursor, ScrollUp, ScrollUpRegion, ScrollDownPage,
     ScrollDownVertical, ScrollDownInside, ClearHistory, Reset, SetMaxHistoryLineCount

\* A resize to fewer lines never loses the cursor's line or a line above it.
THEOREM GridShrinkKeepsLines == Spec => ShrinkKeepsLines
<1> DEFINE Kept ==
        pageLines' < pageLines =>
            \A i \in 0..(cursor + historyLineCount) :
                i <= cursor' + historyLineCount' /\ At(cursor - i) = At(cursor - i)'
<1>1. GridInv /\ [Next]_vars => [Kept]_vars
  <2> SUFFICES ASSUME GridInv, Next, pageLines' < pageLines,
                      NEW i \in 0..(cursor + historyLineCount)
               PROVE  i <= cursor' + historyLineCount' /\ At(cursor - i) = At(cursor - i)'
    OBVIOUS
  <2>1. PICK h \in 1..MaxPageLines : ShrinkLines(h)
    BY OnlyShrinkLowersPage
  <2> QED BY <2>1, ShrinkStepKeepsLines
<1> QED BY <1>1, InitGridInv, NextGridInv, PTL DEF Spec, ShrinkKeepsLines

\* Whatever sequence of writes, scrolls, resizes, resets and configuration
\* changes came before, the ring holds the page and the history limit.
THEOREM GridVerifyState == Spec => []VerifyState
<1>1. GridInv => VerifyState BY DEF GridInv
<1> QED BY <1>1, InitGridInv, NextGridInv, PTL DEF Spec

\* The ring never addresses a line outside its vector, and the cursor is on
\* the page.
THEOREM GridCounters == Spec => []Counters
<1>1. GridInv => Counters BY DEF GridInv
<1> QED BY <1>1, InitGridInv, NextGridInv, PTL DEF Spec

-----------------------------------------------------------------------------
(* The refinement of Scrollback.                                           *)

\* The operations for which the grid does what Scrollback says.
Plain == {"region", "inner", "clear", "reset"}

\* The page and the limit stay as they are and lines have the right type.  A limited
\* history has all its lines from the start; an unlimited one grows at the end of the
\* vector, which is where the page is, unless ED 3 gives up lines in front of it.
RingInv ==
    /\ GridInv
    /\ storage \in [0..(size - 1) -> Line]
    /\ written \in 0..MaxWrites
    /\ pageLines = InitPageLines
    /\ limit = InitLimit
    /\ InitLimit \in Nat => size = InitPageLines + InitLimit
    /\ InitLimit = Infinite => zero = linesUsed - pageLines

\* Once around the ring is where one started.
LEMMA ModAround ==
    ASSUME NEW a \in Int, NEW n \in Nat \ {0}
    PROVE  (a + n) % n = a % n
<1> DEFINE q == a \div n
           r == a % n
           w == a + n
           k == q + 1
<1>1. a = n * q + r /\ q \in Int /\ r \in 0..(n - 1)
  BY DivMod
<1> HIDE DEF q, r
<1>2. n * (q + 1) = n * q + n
  BY <1>1
<1>3. w \in Int /\ k \in Int /\ w = n * k + r
  BY <1>1, <1>2
<1> HIDE DEF w, k
<1>4. w % n = r
  BY <1>1, <1>3, ModUnique
<1> QED BY <1>4 DEF w, r

\* A number below n is its own remainder.
LEMMA ModSmall ==
    ASSUME NEW n \in Nat \ {0}, NEW r \in 0..(n - 1)
    PROVE  r % n = r
<1>1. r \in Int /\ r = n * 0 + r
  OBVIOUS
<1> QED BY <1>1, ModUnique

\* Offsets of the ring are stored inside the vector.
LEMMA IndexInside ==
    ASSUME NEW n \in Nat \ {0}, NEW z \in 0..(n - 1), NEW i \in Int
    PROVE  RingIndex(z, n, i) \in 0..(n - 1)
<1>1. z + n + i \in Int
  OBVIOUS
<1> QED BY <1>1, ModRange DEF RingIndex

\* The offset of an index is the offset that is stored there.
LEMMA OffsetOfIndex ==
    ASSUME NEW n \in Nat \ {0}, NEW z \in 0..(n - 1), NEW i \in Int
    PROVE  OffsetOf(z, n, RingIndex(z, n, i)) = i % n
<1> DEFINE a == z + n + i
           b == 0 - z
           c == i + n
<1>1. a \in Int /\ b \in Int /\ c \in Int /\ a + b = c
  OBVIOUS
<1>2. a % n \in Int
  BY <1>1, ModRange
<1>3. RingIndex(z, n, i) = a % n
  BY DEF RingIndex
<1>4. OffsetOf(z, n, RingIndex(z, n, i)) = ((a % n) + b) % n
  <2> DEFINE x == a % n
  <2>1. x \in Int /\ RingIndex(z, n, i) = x
    BY <1>2, <1>3
  <2> HIDE DEF x
  <2>2. x - z = x + b
    BY <2>1
  <2> QED BY <2>1, <2>2 DEF OffsetOf, x
<1> HIDE DEF a, b, c
<1>5. ((a % n) + b) % n = c % n
  BY <1>1, ModShift
<1>6. c % n = i % n
  BY ModAround DEF c
<1> QED BY <1>4, <1>5, <1>6

\* Offsets less than the ring apart are stored at different indices.
LEMMA IndexUnique ==
    ASSUME NEW n \in Nat \ {0}, NEW z \in 0..(n - 1), NEW i \in Int, NEW j \in Int,
           i < j, j - i < n
    PROVE  RingIndex(z, n, i) # RingIndex(z, n, j)
<1> SUFFICES ASSUME RingIndex(z, n, i) = RingIndex(z, n, j) PROVE FALSE
  OBVIOUS
<1> DEFINE d == j - i
           p == i % n
           b == 0 - i
<1>1. i % n = j % n
  BY OffsetOfIndex
<1>2. d \in 0..(n - 1) /\ d # 0 /\ b \in Int /\ j + b = d /\ i + b = 0
  OBVIOUS
<1> HIDE DEF d, b
<1>3. ((i % n) + b) % n = (i + b) % n
  BY <1>2, ModShift
<1>4. ((j % n) + b) % n = (j + b) % n
  BY <1>2, ModShift
<1>5. 0 % n = d % n
  BY <1>1, <1>2, <1>3, <1>4
<1>6. 0 \in 0..(n - 1)
  OBVIOUS
<1>7. 0 % n = 0 /\ d % n = d
  BY <1>2, <1>6, ModSmall
<1> QED BY <1>2, <1>5, <1>7

\* Rotating the ring by k renames its offsets.
LEMMA IndexRotated ==
    ASSUME NEW n \in Nat \ {0}, NEW z \in 0..(n - 1), NEW i \in Int, NEW k \in Int
    PROVE  RingIndex((z + n + k) % n, n, i) = RingIndex(z, n, i + k)
<1> DEFINE a == z + n + k
           b == n + i
           c == z + n + (i + k)
           y == a % n
<1>1. a \in Int /\ b \in Int /\ c \in Int /\ a + b = c + n
  OBVIOUS
<1>2. y \in Int
  BY <1>1, ModRange
<1> HIDE DEF y
<1>3. y + n + i = y + b
  BY <1>2
<1> HIDE DEF a, b, c
<1>4. ((a % n) + b) % n = (c + n) % n
  <2>1. ((a % n) + b) % n = (a + b) % n
    BY <1>1, ModShift
  <2> QED BY <1>1, <2>1
<1>5. (c + n) % n = c % n
  BY <1>1, ModAround
<1>6. RingIndex(y, n, i) = (y + b) % n
  BY <1>3 DEF RingIndex
<1>7. RingIndex(z, n, i + k) = c % n
  BY DEF RingIndex, c
<1>8. y = (z + n + k) % n
  BY Zenon DEF y, a
<1>9. y = a % n
  BY DEF y
<1>10. RingIndex(y, n, i) = RingIndex(z, n, i + k)
  BY <1>4, <1>5, <1>6, <1>7, <1>9
<1> QED BY <1>8, <1>10

-----------------------------------------------------------------------------
\* A list is a sequence of the lines it has.
LEMMA ListIsSeq ==
    ASSUME NEW S, NEW n \in Nat, NEW q \in [1..n -> S]
    PROVE  q \in Seq(S) /\ Len(q) = n /\ DOMAIN q = 1..n
<1>1. q \in Seq(S) /\ DOMAIN q = 1..n
  BY SeqDef
<1>2. Len(q) \in Nat /\ DOMAIN q = 1..Len(q)
  BY <1>1, LenProperties
<1>3. Len(q) = n
  BY <1>1, <1>2
<1> QED BY <1>1, <1>3

\* What the invariant says of the page and the history.
LEMMA RingFacts ==
    ASSUME RingInv
    PROVE  /\ size \in Nat \ {0} /\ zero \in 0..(size - 1)
           /\ pageLines \in Nat \ {0} /\ historyLineCount \in Nat
           /\ linesUsed \in Nat /\ linesUsed = pageLines + historyLineCount
           /\ size >= linesUsed
           /\ \A i \in Int : At(i) \in Line
<1>1. /\ size \in Nat \ {0} /\ zero \in 0..(size - 1)
      /\ pageLines \in Nat \ {0} /\ linesUsed \in Nat /\ linesUsed >= pageLines /\ size >= linesUsed
  BY DEF RingInv, GridInv, Counters, VerifyState
<1>3. ASSUME NEW i \in Int PROVE At(i) \in Line
  <2>1. RingIndex(zero, size, i) \in 0..(size - 1)
    BY <1>1, IndexInside
  <2> QED BY <2>1 DEF At, RingInv
<1> QED BY <1>1, <1>3 DEF historyLineCount

\* Page and history are lists of lines.
LEMMA ListTypes ==
    ASSUME RingInv
    PROVE  /\ Page \in [1..pageLines -> Line] /\ History \in [1..historyLineCount -> Line]
           /\ Page \in Seq(Line) /\ Len(Page) = pageLines /\ DOMAIN Page = 1..pageLines
           /\ History \in Seq(Line) /\ Len(History) = historyLineCount
           /\ DOMAIN History = 1..historyLineCount
<1>1. Page \in [1..pageLines -> Line]
  <2>1. \A i \in 1..pageLines : At(i - 1) \in Line
    BY RingFacts
  <2> QED BY <2>1 DEF Page
<1>2. History \in [1..historyLineCount -> Line]
  <2> DEFINE h == historyLineCount
  <2>1. \A i \in 1..h : i - 1 - h \in Int
    BY RingFacts
  <2>2. \A i \in 1..h : At(i - 1 - h) \in Line
    BY <2>1, RingFacts
  <2> QED BY <2>2 DEF History
<1>3. pageLines \in Nat /\ historyLineCount \in Nat
  BY RingFacts
<1> HIDE DEF Page, History
<1> QED BY <1>1, <1>2, <1>3, ListIsSeq

\* A step that leaves the page and the history alone is a stuttering step of
\* Scrollback.
LEMMA SameLists ==
    ASSUME Page' = Page, History' = History
    PROVE  UNCHANGED Abstract!sbVars
BY DEF Abstract!sbVars

\* The grid is made as Scrollback says.
LEMMA InitRefines ==
    ASSUME Init
    PROVE  RingInv /\ Abstract!SbInit
<1>1. /\ pageLines = InitPageLines /\ linesUsed = InitPageLines /\ zero = 0
      /\ limit = InitLimit /\ written = 0 /\ InitPageLines \in Nat \ {0}
  BY GridAssumption DEF Init
<1>2. InitLimit \in Nat => size = InitPageLines + InitLimit
  BY GridAssumption DEF Init
<1>3. Blank \in Line
  BY GridAssumption DEF Blank, Line, Cells
<1>4. storage = [j \in 0..(size - 1) |-> Blank]
  BY DEF Init
<1>5. storage \in [0..(size - 1) -> Line]
  BY <1>3, <1>4
<1>6. GridInv
  BY InitGridInv
<1>7. RingInv
  BY <1>1, <1>2, <1>5, <1>6, GridAssumption DEF RingInv
<1>8. historyLineCount = 0
  BY <1>1 DEF historyLineCount
<1>9. History = <<>>
  BY <1>8 DEF History
<1>10. ASSUME NEW i \in 1..InitPageLines PROVE At(i - 1) = Blank
  <2>1. i - 1 \in Int
    BY <1>1
  <2>2. RingIndex(zero, size, i - 1) \in 0..(size - 1)
    BY <2>1, <1>7, IndexInside, RingFacts
  <2> QED BY <1>4, <2>2 DEF At
<1>11. Page = [i \in 1..InitPageLines |-> Blank]
  BY <1>1, <1>10 DEF Page
<1> QED BY <1>7, <1>9, <1>11 DEF Abstract!SbInit, Abstract!BlankLines, Abstract!BlankLine, Blank

-----------------------------------------------------------------------------
(* The operations, one by one.                                             *)

\* What a step leaves alone in the ring it leaves alone in the history.
LEMMA SameHistory ==
    ASSUME RingInv, UNCHANGED <<size, zero, linesUsed, pageLines>>,
           \A i \in (-historyLineCount)..(-1) :
               storage'[RingIndex(zero, size, i)] = storage[RingIndex(zero, size, i)]
    PROVE  History' = History
<1> DEFINE h == historyLineCount
<1>1. h \in Nat /\ historyLineCount' = h
  BY RingFacts DEF historyLineCount
<1> HIDE DEF h
<1>2. \A i \in 1..h : storage'[RingIndex(zero, size, i - 1 - h)] = storage[RingIndex(zero, size, i - 1 - h)]
  <2> TAKE i \in 1..h
  <2>1. i - 1 - h \in (-h)..(-1)
    BY <1>1
  <2> QED BY <2>1 DEF h
<1>3. History = [i \in 1..h |-> storage[RingIndex(zero, size, i - 1 - h)]]
  BY DEF History, At, h
<1>4. History' = [i \in 1..h |-> storage'[RingIndex(zero, size, i - 1 - h)]]
  BY <1>1 DEF History, At, RingIndex
<1> QED BY <1>2, <1>3, <1>4

\* The page after a step that does not turn the ring.
LEMMA NextPage ==
    ASSUME UNCHANGED <<size, zero, pageLines>>
    PROVE  Page' = [i \in 1..pageLines |-> storage'[RingIndex(zero, size, i - 1)]]
BY DEF Page, At, RingIndex

\* The application writes the cursor's line.
LEMMA WriteLineRefines ==
    ASSUME RingInv, WriteLine
    PROVE  RingInv' /\ Abstract!Write
<1> DEFINE l == [c \in Cols |-> written + 1]
           x == RingIndex(zero, size, cursor)
           h == historyLineCount
<1>1. /\ storage' = [storage EXCEPT ![x] = l] /\ written' = written + 1 /\ written < MaxWrites
      /\ UNCHANGED <<size, zero, linesUsed, pageLines, limit, cursor>>
  BY DEF WriteLine
<1>2. /\ size \in Nat \ {0} /\ zero \in 0..(size - 1) /\ pageLines \in Nat \ {0} /\ h \in Nat
      /\ size >= pageLines + h /\ cursor \in 0..(pageLines - 1)
      /\ storage \in [0..(size - 1) -> Line] /\ written \in 0..MaxWrites
  BY RingFacts, GridAssumption DEF RingInv, GridInv, Counters
<1> HIDE DEF h
<1>3. l \in Line /\ written + 1 \in 0..MaxWrites
  BY <1>1, <1>2, GridAssumption DEF Line, Cells
<1> HIDE DEF l
<1>4. x \in 0..(size - 1)
  BY <1>2, IndexInside
<1>5. RingInv'
  <2>1. storage' \in [0..(size - 1) -> Line]
    BY <1>1, <1>2, <1>3, <1>4
  <2>2. GridInv'
    BY <1>1, SameCounters DEF RingInv, counterVars
  <2> QED BY <1>1, <1>3, <2>1, <2>2 DEF RingInv
<1>6. \A i \in (-h)..(pageLines - 1) : i # cursor => RingIndex(zero, size, i) # x
  <2> TAKE i \in (-h)..(pageLines - 1)
  <2>1. CASE i < cursor
    <3>1. i \in Int /\ cursor \in Int /\ cursor - i < size
      BY <1>2
    <3> QED BY <1>2, <2>1, <3>1, IndexUnique
  <2>2. CASE cursor < i
    <3>1. i \in Int /\ cursor \in Int /\ i - cursor < size
      BY <1>2
    <3> QED BY <1>2, <2>2, <3>1, IndexUnique
  <2> QED BY <2>1, <2>2, <1>2
<1>7. \A i \in (-h)..(pageLines - 1) : RingIndex(zero, size, i) \in 0..(size - 1)
  BY <1>2, IndexInside
<1>8. \A i \in (-h)..(pageLines - 1) : i # cursor =>
        storage'[RingIndex(zero, size, i)] = storage[RingIndex(zero, size, i)]
  BY <1>1, <1>2, <1>6, <1>7
<1>9. History' = History
  <2>1. \A i \in (-h)..(-1) : i \in (-h)..(pageLines - 1) /\ i # cursor
    BY <1>2
  <2> QED BY <1>1, <1>8, <2>1, SameHistory DEF h
<1>10. Page' = [Page EXCEPT ![cursor + 1] = l]
  <2>1. Page' = [i \in 1..pageLines |-> storage'[RingIndex(zero, size, i - 1)]]
    BY <1>1, NextPage
  <2>2. ASSUME NEW i \in 1..pageLines, i # cursor + 1
        PROVE  storage'[RingIndex(zero, size, i - 1)] = At(i - 1)
    <3>1. i - 1 \in (-h)..(pageLines - 1) /\ i - 1 # cursor
      BY <1>2, <2>2
    <3> QED BY <1>8, <3>1 DEF At
  <2>3. (cursor + 1) - 1 = cursor /\ cursor + 1 \in 1..pageLines
    BY <1>2
  <2>4. storage'[x] = l
    BY <1>1, <1>2, <1>4
  <2> HIDE DEF x
  <2>5. storage'[RingIndex(zero, size, (cursor + 1) - 1)] = l
    BY <2>3, <2>4 DEF x
  <2>6. Page = [i \in 1..pageLines |-> At(i - 1)]
    BY DEF Page
  <2> DEFINE F(i) == storage'[RingIndex(zero, size, i - 1)]
             G(i) == At(i - 1)
  <2>7. /\ \A i \in 1..pageLines : i # cursor + 1 => F(i) = G(i)
        /\ F(cursor + 1) = l
    BY <2>2, <2>5
  <2> HIDE DEF F, G
  <2>8. [i \in 1..pageLines |-> F(i)] = [[i \in 1..pageLines |-> G(i)] EXCEPT ![cursor + 1] = l]
    BY <2>3, <2>7
  <2> QED BY <2>1, <2>6, <2>8 DEF F, G
<1>11. cursor + 1 \in DOMAIN Page
  BY <1>2 DEF Page
<1> QED BY <1>3, <1>5, <1>9, <1>10, <1>11 DEF Abstract!Write, Line

\* The cursor moves.
LEMMA MoveCursorRefines ==
    ASSUME RingInv, MoveCursor
    PROVE  RingInv' /\ UNCHANGED Abstract!sbVars
<1>1. cursor' \in 0..(pageLines - 1) /\ UNCHANGED <<storage, size, zero, linesUsed, pageLines, limit, written>>
  BY DEF MoveCursor, ring
<1>2. GridInv'
  BY <1>1 DEF RingInv, GridInv, Counters, VerifyState, totalLineCount, maxHistoryLineCount
<1>3. RingInv'
  BY <1>1, <1>2 DEF RingInv
<1>4. Page' = Page /\ History' = History
  BY <1>1 DEF Page, History, At, RingIndex, historyLineCount
<1> QED BY <1>3, <1>4, SameLists

\* ED 3: clearHistory().
LEMMA ClearRefines ==
    ASSUME RingInv, InitLimit \in Nat, ClearHistory
    PROVE  RingInv' /\ Abstract!ClearHistory
<1>1. linesUsed' = pageLines /\ UNCHANGED <<storage, size, zero, pageLines, limit, cursor, written>>
  BY DEF ClearHistory, ring
<1>2. RingInv'
  <2>1. GridInv'
    BY ClearKeepsGridInv DEF RingInv
  <2>2. InitLimit # Infinite
    BY GridAssumption
  <2> QED BY <1>1, <2>1, <2>2 DEF RingInv
<1>3. Page' = Page
  BY <1>1 DEF Page, At, RingIndex
<1>4. historyLineCount' = 0
  BY <1>1, RingFacts DEF historyLineCount
<1>5. History' = <<>>
  BY <1>4 DEF History
<1> QED BY <1>2, <1>3, <1>5 DEF Abstract!ClearHistory

\* RIS: reset().
LEMMA ResetRefines ==
    ASSUME RingInv, Reset
    PROVE  RingInv' /\ Abstract!Reset
<1>1. /\ linesUsed' = pageLines /\ zero' = 0 /\ UNCHANGED <<size, pageLines, limit, written>>
      /\ storage' = [j \in 0..(size - 1) |->
            IF \E i \in 0..(pageLines - 1) : RingIndex(0, size, i) = j THEN Blank ELSE storage[j]]
  BY DEF Reset, Cleared
<1>2. /\ size \in Nat \ {0} /\ 0 \in 0..(size - 1) /\ pageLines \in Nat \ {0}
      /\ storage \in [0..(size - 1) -> Line]
  BY RingFacts DEF RingInv
<1>3. Blank \in Line
  BY GridAssumption DEF Blank, Line, Cells
<1>4. storage' \in [0..(size - 1) -> Line]
  BY <1>1, <1>2, <1>3
<1>5. RingInv'
  <2>1. GridInv'
    BY ClearKeepsGridInv DEF RingInv
  <2>2. InitLimit = Infinite => zero' = linesUsed' - pageLines'
    BY <1>1, <1>2
  <2> QED BY <1>1, <1>4, <2>1, <2>2 DEF RingInv
<1>6. historyLineCount' = 0
  BY <1>1, <1>2 DEF historyLineCount
<1>7. History' = <<>>
  BY <1>6 DEF History
<1>8. ASSUME NEW i \in 1..pageLines PROVE storage'[RingIndex(0, size, i - 1)] = Blank
  <2>1. i - 1 \in 0..(pageLines - 1) /\ i - 1 \in Int
    BY <1>2
  <2>2. RingIndex(0, size, i - 1) \in 0..(size - 1)
    BY <1>2, <2>1, IndexInside
  <2> QED BY <1>1, <2>1, <2>2
<1>9. Page' = [i \in 1..pageLines |-> storage'[RingIndex(0, size, i - 1)]]
  BY <1>1 DEF Page, At, RingIndex
<1>10. Page' = [i \in 1..pageLines |-> Blank]
  BY <1>8, <1>9
<1>11. Len(Page) = pageLines
  BY ListTypes
<1> QED BY <1>5, <1>7, <1>10, <1>11
        DEF Abstract!Reset, Abstract!BlankLines, Abstract!BlankLine, Blank

\* Offsets of the page and of the history, and what OffsetOf() says of their indices.
LEMMA Offsets ==
    ASSUME RingInv
    PROVE  /\ \A i \in 0..(pageLines - 1) :
                 /\ RingIndex(zero, size, i) \in 0..(size - 1)
                 /\ OffsetOf(zero, size, RingIndex(zero, size, i)) = i
           /\ \A i \in (-historyLineCount)..(-1) :
                 /\ RingIndex(zero, size, i) \in 0..(size - 1)
                 /\ OffsetOf(zero, size, RingIndex(zero, size, i)) \notin 0..(pageLines - 1)
<1> DEFINE h == historyLineCount
<1>1. /\ size \in Nat \ {0} /\ zero \in 0..(size - 1) /\ pageLines \in Nat \ {0} /\ h \in Nat
      /\ size >= pageLines + h
  BY RingFacts
<1> HIDE DEF h
<1>2. ASSUME NEW i \in 0..(pageLines - 1)
      PROVE  /\ RingIndex(zero, size, i) \in 0..(size - 1)
             /\ OffsetOf(zero, size, RingIndex(zero, size, i)) = i
  <2>1. i \in 0..(size - 1) /\ i \in Int
    BY <1>1
  <2>2. i % size = i
    BY <1>1, <2>1, ModSmall
  <2> QED BY <1>1, <2>1, <2>2, IndexInside, OffsetOfIndex
<1>3. ASSUME NEW i \in (-h)..(-1)
      PROVE  /\ RingIndex(zero, size, i) \in 0..(size - 1)
             /\ OffsetOf(zero, size, RingIndex(zero, size, i)) \notin 0..(pageLines - 1)
  <2> DEFINE k == i + size
  <2>1. i \in Int /\ k \in 0..(size - 1) /\ k > pageLines - 1
    BY <1>1
  <2>2. k % size = k
    BY <1>1, <2>1, ModSmall
  <2>3. k % size = i % size
    BY <1>1, <2>1, ModAround
  <2> HIDE DEF k
  <2>4. OffsetOf(zero, size, RingIndex(zero, size, i)) = k
    BY <1>1, <2>1, <2>2, <2>3, OffsetOfIndex
  <2>5. k \notin 0..(pageLines - 1)
    BY <1>1, <2>1
  <2> QED BY <1>1, <2>1, <2>4, <2>5, IndexInside
<1> QED BY <1>2, <1>3 DEF h

\* Cells of two lines make a line.
LEMMA MergeType ==
    ASSUME NEW l \in Line, NEW o \in Line, NEW cs
    PROVE  Merge(l, o, cs) \in Line
BY DEF Merge, Line

\* A line all of whose cells are taken from another one is that one.
LEMMA MergeAll ==
    ASSUME NEW l \in Line, NEW o \in Line
    PROVE  Merge(l, o, Cols) = o
BY DEF Merge, Line

\* A step that rewrites lines of the page by their offsets.
LEMMA RegionRefines ==
    ASSUME RingInv, NEW F \in [0..(pageLines - 1) -> Line],
           NEW top \in 0..(pageLines - 1), NEW bottom \in 0..(pageLines - 1),
           UNCHANGED <<size, zero, linesUsed, pageLines, limit, cursor, written>>,
           storage' \in [0..(size - 1) -> Line],
           \A j \in 0..(size - 1) : OffsetOf(zero, size, j) \notin top..bottom => storage'[j] = storage[j],
           \A j \in 0..(size - 1) : OffsetOf(zero, size, j) \in top..bottom =>
               storage'[j] = F[OffsetOf(zero, size, j)]
    PROVE  /\ RingInv' /\ History' = History
           /\ DOMAIN Page' = 1..pageLines /\ Page' = [i \in DOMAIN Page' |-> Page'[i]]
           /\ \A i \in 1..pageLines : i - 1 \notin top..bottom => Page'[i] = At(i - 1)
           /\ \A i \in 1..pageLines : i - 1 \in top..bottom => Page'[i] = F[i - 1]
<1>1. /\ size \in Nat \ {0} /\ zero \in 0..(size - 1) /\ pageLines \in Nat \ {0}
  BY RingFacts DEF RingInv
<1>3. RingInv'
  <2>1. GridInv'
    BY SameCounters DEF RingInv, counterVars
  <2> QED BY <2>1 DEF RingInv
<1>4. History' = History
  <2>1. ASSUME NEW i \in (-historyLineCount)..(-1)
        PROVE  storage'[RingIndex(zero, size, i)] = storage[RingIndex(zero, size, i)]
    <3> DEFINE x == RingIndex(zero, size, i)
    <3>1. x \in 0..(size - 1) /\ OffsetOf(zero, size, x) \notin 0..(pageLines - 1)
      BY Offsets
    <3> HIDE DEF x
    <3>2. OffsetOf(zero, size, x) \notin top..bottom
      BY <1>1, <3>1
    <3>3. storage'[x] = storage[x]
      BY <3>1, <3>2
    <3> QED BY <3>3 DEF x
  <2> QED BY <2>1, SameHistory
<1>5. Page' = [i \in 1..pageLines |-> storage'[RingIndex(zero, size, i - 1)]]
  BY NextPage
<1>6. ASSUME NEW i \in 1..pageLines
      PROVE  /\ i - 1 \notin top..bottom => Page'[i] = At(i - 1)
             /\ i - 1 \in top..bottom => Page'[i] = F[i - 1]
  <2> DEFINE k == i - 1
             x == RingIndex(zero, size, k)
  <2>0. Page'[i] = storage'[x]
    BY <1>5
  <2>1. k \in 0..(pageLines - 1)
    BY <1>1
  <2> HIDE DEF k
  <2>2. x \in 0..(size - 1) /\ OffsetOf(zero, size, x) = k
    BY <2>1, Offsets
  <2> HIDE DEF x
  <2>3. k \notin top..bottom => storage'[x] = storage[x]
    BY <2>2
  <2>4. k \in top..bottom => storage'[x] = F[k]
    BY <2>2
  <2> QED BY <2>0, <2>3, <2>4 DEF x, k, At
<1>7. DOMAIN Page' = 1..pageLines /\ Page' = [i \in DOMAIN Page' |-> Page'[i]]
  BY <1>5
<1> QED BY <1>3, <1>4, <1>6, <1>7

\* Every index of the vector holds the offset that OffsetOf() says.
LEMMA IndexOfOffset ==
    ASSUME NEW n \in Nat \ {0}, NEW z \in 0..(n - 1), NEW j \in 0..(n - 1)
    PROVE  RingIndex(z, n, OffsetOf(z, n, j)) = j
<1> DEFINE a == j - z
           b == z + n
           o == a % n
<1>1. a \in Int /\ b \in Int /\ a + b = j + n /\ j \in Int
  OBVIOUS
<1>2. o \in Int
  BY <1>1, ModRange
<1>3. OffsetOf(z, n, j) = o
  BY DEF OffsetOf
<1> HIDE DEF o
<1>4. z + n + o = o + b
  BY <1>2
<1>5. RingIndex(z, n, o) = (o + b) % n
  BY <1>4 DEF RingIndex
<1> HIDE DEF a, b
<1>6. ((a % n) + b) % n = (a + b) % n
  BY <1>1, ModShift
<1>7. (j + n) % n = j % n /\ j % n = j
  BY <1>1, ModAround, ModSmall
<1>8. o = a % n
  BY DEF o
<1> QED BY <1>1, <1>3, <1>5, <1>6, <1>7, <1>8

\* A part of the page is shifted as Scrollback says.
LEMMA ShiftedRefines ==
    ASSUME RingInv, NEW cs \in {Cols, InnerCols},
           NEW top \in 0..(pageLines - 1), NEW bottom \in 0..(pageLines - 1),
           NEW n \in -MaxScroll..MaxScroll,
           UNCHANGED <<size, zero, linesUsed, pageLines, limit, cursor, written>>,
           DOMAIN storage' = 0..(size - 1), storage' = [j \in DOMAIN storage' |-> storage'[j]],
           \A j \in 0..(size - 1) : OffsetOf(zero, size, j) \notin top..bottom => storage'[j] = storage[j],
           \A j \in 0..(size - 1) :
               OffsetOf(zero, size, j) \in top..bottom /\ OffsetOf(zero, size, j) + n \in top..bottom =>
                   storage'[j] = Merge(storage[j], At(OffsetOf(zero, size, j) + n), cs),
           \A j \in 0..(size - 1) :
               OffsetOf(zero, size, j) \in top..bottom /\ OffsetOf(zero, size, j) + n \notin top..bottom =>
                   storage'[j] = Merge(storage[j], Blank, cs)
    PROVE  RingInv' /\ Abstract!ScrollRegion
<1> DEFINE p == pageLines
           s == size
           O(j) == OffsetOf(zero, s, j)
           G == [i \in 0..(p - 1) |-> Merge(At(i), IF i + n \in top..bottom THEN At(i + n) ELSE Blank, cs)]
           t == top + 1
           b == bottom + 1
<1>0. Blank \in Line
  BY GridAssumption DEF Blank, Line, Cells
<1>1. /\ p \in Nat \ {0} /\ (\A i \in Int : At(i) \in Line) /\ n \in Int /\ Blank \in Line
      /\ s \in Nat \ {0} /\ zero \in 0..(s - 1) /\ storage \in [0..(s - 1) -> Line]
  <2>1. n \in Int
    BY GridAssumption
  <2>2. storage \in [0..(s - 1) -> Line]
    BY DEF RingInv
  <2> QED BY <1>0, <2>1, <2>2, RingFacts
<1>2. ASSUME NEW i \in 0..(p - 1)
      PROVE  /\ G[i] \in Line
             /\ i + n \in top..bottom => G[i] = Merge(At(i), At(i + n), cs)
             /\ i + n \notin top..bottom => G[i] = Merge(At(i), Blank, cs)
  <2>1. i \in Int /\ i + n \in Int
    BY <1>1
  <2>2. At(i) \in Line /\ (IF i + n \in top..bottom THEN At(i + n) ELSE Blank) \in Line
    BY <1>1, <2>1
  <2>3. Merge(At(i), IF i + n \in top..bottom THEN At(i + n) ELSE Blank, cs) \in Line
    BY <2>2, MergeType
  <2> QED BY <2>3
<1>3. G \in [0..(p - 1) -> Line]
  BY <1>2
<1> HIDE DEF G
<1>4. ASSUME NEW j \in 0..(s - 1), O(j) \in top..bottom
      PROVE  storage'[j] = G[O(j)] /\ G[O(j)] \in Line
  <2> DEFINE i == O(j)
  <2>1. i \in 0..(p - 1) /\ i \in top..bottom
    BY <1>1, <1>4
  <2>2. RingIndex(zero, s, i) = j
    BY <1>1, IndexOfOffset
  <2>6. i + n \in top..bottom => storage'[j] = Merge(storage[j], At(i + n), cs)
    BY <2>1
  <2>7. i + n \notin top..bottom => storage'[j] = Merge(storage[j], Blank, cs)
    BY <2>1
  <2> HIDE DEF i
  <2>4. storage[j] = At(i)
    BY <2>2 DEF At
  <2>5. storage'[j] = G[i] /\ G[i] \in Line
    BY <1>2, <2>1, <2>4, <2>6, <2>7
  <2> QED BY <2>5 DEF i
<1>5. storage' \in [0..(s - 1) -> Line]
  <2>1. ASSUME NEW j \in 0..(s - 1) PROVE storage'[j] \in Line
    <3>1. CASE O(j) \in top..bottom BY <1>4, <3>1
    <3>2. CASE O(j) \notin top..bottom BY <1>1, <3>2
    <3> QED BY <3>1, <3>2
  <2> QED BY <2>1
<1>6. /\ \A j \in 0..(s - 1) : O(j) \notin top..bottom => storage'[j] = storage[j]
      /\ \A j \in 0..(s - 1) : O(j) \in top..bottom => storage'[j] = G[O(j)]
  BY <1>4
<1>7. /\ RingInv' /\ History' = History
      /\ DOMAIN Page' = 1..p /\ Page' = [i \in DOMAIN Page' |-> Page'[i]]
      /\ \A i \in 1..p : i - 1 \notin top..bottom => Page'[i] = At(i - 1)
      /\ \A i \in 1..p : i - 1 \in top..bottom => Page'[i] = G[i - 1]
  BY <1>3, <1>5, <1>6, RegionRefines
<1>8. Page = [i \in 1..p |-> At(i - 1)] /\ DOMAIN Page = 1..p
  BY DEF Page
<1>9. t \in 1..p /\ b \in 1..p
  BY <1>1
<1>10. Page' = Abstract!Shifted(t, b, n, cs)
  <2> DEFINE Q(i) == IF i \notin t..b THEN Page[i]
                     ELSE IF i + n \in t..b THEN Merge(Page[i], Page[i + n], cs)
                     ELSE Merge(Page[i], Blank, cs)
  <2>1. Abstract!Shifted(t, b, n, cs) = [i \in 1..p |-> Q(i)]
    BY <1>8 DEF Abstract!Shifted, Abstract!Merge, Abstract!BlankLine, Merge, Blank
  <2>2. ASSUME NEW i \in 1..p PROVE Page'[i] = Q(i)
    <3> DEFINE k == i - 1
    <3>1. Page[i] = At(k)
      BY <1>8
    <3>2. (k \in top..bottom) <=> (i \in t..b)
      BY <1>1
    <3>3. CASE i \in t..b
      <4>1. k \in 0..(p - 1) /\ k \in top..bottom /\ k \in Int
        BY <1>1, <3>2, <3>3
      <4>2. Page'[i] = G[k]
        BY <1>7, <4>1
      <4>3. CASE i + n \in t..b
        <5>1. k + n \in top..bottom /\ (i + n) - 1 = k + n /\ i + n \in 1..p
          BY SMTT(30), <1>1, <1>9, <4>3
        <5>2. Page[i + n] = At(k + n)
          BY <1>8, <5>1
        <5> HIDE DEF k
        <5>3. G[k] = Merge(At(k), At(k + n), cs)
          BY <1>2, <4>1, <5>1
        <5> QED BY <3>1, <3>3, <4>2, <4>3, <5>2, <5>3
      <4>4. CASE i + n \notin t..b
        <5>1. k + n \notin top..bottom
          BY <1>1, <4>4
        <5> HIDE DEF k
        <5>2. G[k] = Merge(At(k), Blank, cs)
          BY <1>2, <4>1, <5>1
        <5> QED BY <3>1, <3>3, <4>2, <4>4, <5>2
      <4> QED BY <4>3, <4>4
    <3>4. CASE i \notin t..b
      BY <1>7, <3>1, <3>2, <3>4
    <3> QED BY <3>3, <3>4
  <2> HIDE DEF Q
  <2> QED BY <1>7, <2>1, <2>2
<1> HIDE DEF t, b
<1>11. t \in DOMAIN Page /\ b \in DOMAIN Page
  BY <1>8, <1>9
<1> QED BY <1>7, <1>10, <1>11 DEF Abstract!ScrollRegion

\* scrollUp() inside margins.
LEMMA ScrollUpRegionRefines ==
    ASSUME RingInv, NEW n \in 1..MaxScroll, NEW m \in Margins,
           NEW cs \in {Cols, InnerCols}, ScrollUpRegion(n, m[1], m[2], cs)
    PROVE  RingInv' /\ Abstract!ScrollRegion
<1> DEFINE top == m[1]
           bottom == m[2]
           k == Lower(n, bottom - top + 1)
           O(j) == OffsetOf(zero, size, j)
<1>1. /\ size \in Nat \ {0} /\ zero \in 0..(size - 1) /\ pageLines \in Nat \ {0}
  BY RingFacts
<1>2. top \in 0..(pageLines - 1) /\ bottom \in 0..(pageLines - 1) /\ top < bottom
  BY DEF Margins
<1>3. k \in Nat /\ k <= n /\ k \in -MaxScroll..MaxScroll
  BY <1>1, <1>2, GridAssumption DEF Lower
<1>4. storage' = [j \in 0..(size - 1) |->
         IF O(j) \notin top..bottom THEN storage[j]
         ELSE Merge(storage[j], IF O(j) + k <= bottom THEN At(O(j) + k) ELSE Blank, cs)]
  BY DEF ScrollUpRegion
<1>5. UNCHANGED <<size, zero, linesUsed, pageLines, limit, cursor, written>>
  BY DEF ScrollUpRegion
<1> HIDE DEF top, bottom, k
<1>6. ASSUME NEW j \in 0..(size - 1)
      PROVE  /\ O(j) \notin top..bottom => storage'[j] = storage[j]
             /\ O(j) \in top..bottom /\ O(j) + k \in top..bottom => storage'[j] = Merge(storage[j], At(O(j) + k), cs)
             /\ O(j) \in top..bottom /\ O(j) + k \notin top..bottom => storage'[j] = Merge(storage[j], Blank, cs)
  <2> DEFINE i == O(j)
  <2>1. storage'[j] = IF i \notin top..bottom THEN storage[j]
               ELSE Merge(storage[j], IF i + k <= bottom THEN At(i + k) ELSE Blank, cs)
    BY <1>4
  <2> HIDE DEF i
  <2>2. i \in top..bottom => (i + k <= bottom <=> i + k \in top..bottom)
    BY <1>1, <1>2, <1>3
  <2>3. /\ i \notin top..bottom => storage'[j] = storage[j]
        /\ i \in top..bottom /\ i + k \in top..bottom => storage'[j] = Merge(storage[j], At(i + k), cs)
        /\ i \in top..bottom /\ i + k \notin top..bottom => storage'[j] = Merge(storage[j], Blank, cs)
    BY <2>1, <2>2
  <2> QED BY <2>3 DEF i
<1>7. DOMAIN storage' = 0..(size - 1) /\ storage' = [j \in DOMAIN storage' |-> storage'[j]]
  BY <1>4
<1> QED BY SMTT(30), <1>2, <1>3, <1>5, <1>6, <1>7, ShiftedRefines

\* scrollDown() between a top and a bottom margin.
LEMMA ScrollDownVerticalRefines ==
    ASSUME RingInv, NEW n \in 1..MaxScroll, NEW m \in Margins,
           ScrollDownVertical(n, m[1], m[2])
    PROVE  RingInv' /\ Abstract!ScrollRegion
<1> DEFINE top == m[1]
           bottom == m[2]
           k == Lower(n, bottom - top + 1)
           d == -k
           O(j) == OffsetOf(zero, size, j)
<1>0. Blank \in Line
  BY GridAssumption DEF Blank, Line, Cells
<1>1. /\ size \in Nat \ {0} /\ zero \in 0..(size - 1) /\ pageLines \in Nat \ {0}
      /\ \A i \in Int : At(i) \in Line
      /\ storage \in [0..(size - 1) -> Line]
  BY RingFacts DEF RingInv
<1>2. top \in 0..(pageLines - 1) /\ bottom \in 0..(pageLines - 1) /\ top < bottom
  BY DEF Margins
<1>3. k \in Nat /\ k <= n /\ d \in -MaxScroll..MaxScroll /\ d \in Int
  BY <1>1, <1>2, GridAssumption DEF Lower
<1>4. storage' = [j \in 0..(size - 1) |->
         IF O(j) \notin top..bottom THEN storage[j]
         ELSE IF O(j) - k >= top THEN At(O(j) - k) ELSE Blank]
  BY DEF ScrollDownVertical
<1>5. UNCHANGED <<size, zero, linesUsed, pageLines, limit, cursor, written>>
  BY DEF ScrollDownVertical
<1> HIDE DEF top, bottom, k
<1>6. ASSUME NEW j \in 0..(size - 1)
      PROVE  /\ O(j) \notin top..bottom => storage'[j] = storage[j]
             /\ O(j) \in top..bottom /\ O(j) + d \in top..bottom => storage'[j] = Merge(storage[j], At(O(j) + d), Cols)
             /\ O(j) \in top..bottom /\ O(j) + d \notin top..bottom => storage'[j] = Merge(storage[j], Blank, Cols)
  <2> DEFINE i == O(j)
             e == i + d
             l == storage[j]
  <2>1. storage'[j] = IF i \notin top..bottom THEN l ELSE IF i - k >= top THEN At(i - k) ELSE Blank
    BY <1>4
  <2>2. l \in Line
    BY <1>1
  <2> HIDE DEF i, l
  <2>3. i \in top..bottom =>
          /\ e \in Int /\ i - k = e
          /\ (i - k >= top <=> e \in top..bottom)
    BY <1>1, <1>2, <1>3
  <2> HIDE DEF e
  <2>4. CASE i \in top..bottom /\ e \in top..bottom
    <3>1. storage'[j] = At(e) /\ At(e) \in Line
      BY <1>1, <2>1, <2>3, <2>4
    <3>2. Merge(l, At(e), Cols) = At(e)
      BY <2>2, <3>1, MergeAll
    <3> QED BY <2>4, <3>1, <3>2 DEF i, e, l
  <2>5. CASE i \in top..bottom /\ e \notin top..bottom
    <3>1. storage'[j] = Blank
      BY <2>1, <2>3, <2>5
    <3>2. Merge(l, Blank, Cols) = Blank
      BY <1>0, <2>2, MergeAll
    <3> QED BY <2>5, <3>1, <3>2 DEF i, e, l
  <2>6. CASE i \notin top..bottom
    BY <2>1, <2>6 DEF i, l
  <2> QED BY <2>4, <2>5, <2>6
<1>7. DOMAIN storage' = 0..(size - 1) /\ storage' = [j \in DOMAIN storage' |-> storage'[j]]
  BY <1>4
<1> HIDE DEF d
<1> QED BY <1>2, <1>3, <1>5, <1>6, <1>7, ShiftedRefines

-----------------------------------------------------------------------------
(* scrollUp() of the whole page.                                           *)

\* The last k elements of a sequence.
LEMMA SuffixElements ==
    ASSUME NEW S, NEW q \in Seq(S), NEW k \in 0..Len(q)
    PROVE  /\ SubSeq(q, Len(q) - k + 1, Len(q)) \in Seq(S)
           /\ Len(SubSeq(q, Len(q) - k + 1, Len(q))) = k
           /\ \A i \in 1..k : SubSeq(q, Len(q) - k + 1, Len(q))[i] = q[Len(q) - k + i]
<1> DEFINE n == Len(q)
           a == n - k + 1
           r == SubSeq(q, a, n)
<1>1. n \in Nat /\ k \in Nat /\ k <= n /\ \A j \in 1..n : q[j] \in S
  BY LenProperties
<1> HIDE DEF n
<1>2. a \in Int /\ n \in Int /\ n - a + 1 = k /\ (a <= n \/ k = 0)
  BY <1>1
<1>3. \A j \in a..n : q[j] \in S
  BY <1>1
<1> HIDE DEF a
<1>4. /\ r \in Seq(S) /\ Len(r) = IF a <= n THEN n - a + 1 ELSE 0
      /\ \A i \in 1..n - a + 1 : r[i] = q[a + i - 1]
  BY <1>2, <1>3, SubSeqProperties
<1> HIDE DEF r
<1>5. r \in Seq(S) /\ Len(r) = k
  <2>1. CASE a <= n BY <1>2, <1>4, <2>1
  <2>2. CASE ~(a <= n) BY <1>2, <1>4, <2>2
  <2> QED BY <2>1, <2>2
<1>6. ASSUME NEW i \in 1..k PROVE r[i] = q[n - k + i]
  <2>1. i \in 1..n - a + 1 /\ a + i - 1 = n - k + i
    BY <1>1, <1>2 DEF a
  <2>2. r[i] = q[a + i - 1]
    BY <1>4, <2>1
  <2> QED BY <2>1, <2>2
<1> QED BY <1>5, <1>6 DEF r, a, n

\* The history, the page and the blank lines that scroll in, as one list.
LEMMA AllLines ==
    ASSUME RingInv, NEW n \in Nat,
           NEW all, all = (History \o Page) \o [i \in 1..n |-> Blank]
    PROVE  /\ all \in Seq(Line) /\ Len(all) = historyLineCount + pageLines + n
           /\ \A q \in 1..historyLineCount + pageLines : all[q] = At(q - 1 - historyLineCount)
           /\ \A q \in historyLineCount + pageLines + 1..historyLineCount + pageLines + n : all[q] = Blank
<1> DEFINE h == historyLineCount
           p == pageLines
           b == [i \in 1..n |-> Blank]
           c == History \o Page
<1>0. Blank \in Line
  BY GridAssumption DEF Blank, Line, Cells
<1>1. h \in Nat /\ p \in Nat
  BY RingFacts
<1>2. b \in [1..n -> Line] /\ \A i \in 1..n : b[i] = Blank
  BY <1>0
<1> HIDE DEF b
<1>3. b \in Seq(Line) /\ Len(b) = n
  BY <1>2, ListIsSeq
<1>4. /\ History \in Seq(Line) /\ Len(History) = h /\ Page \in Seq(Line) /\ Len(Page) = p
  BY ListTypes
<1>5. /\ c \in Seq(Line) /\ Len(c) = h + p
      /\ \A i \in 1..h + p : c[i] = IF i <= h THEN History[i] ELSE Page[i - h]
  BY <1>4, ConcatProperties
<1> HIDE DEF c
<1>6. /\ c \o b \in Seq(Line) /\ Len(c \o b) = (h + p) + n
      /\ \A i \in 1..(h + p) + n : (c \o b)[i] = IF i <= h + p THEN c[i] ELSE b[i - (h + p)]
  <2> DEFINE k == h + p
  <2>1. /\ c \o b \in Seq(Line) /\ Len(c \o b) = Len(c) + Len(b)
        /\ \A i \in 1..Len(c) + Len(b) : (c \o b)[i] = IF i <= Len(c) THEN c[i] ELSE b[i - Len(c)]
    BY <1>3, <1>5, ConcatProperties
  <2>2. Len(c) = k /\ Len(b) = n
    BY <1>3, <1>5
  <2> HIDE DEF k
  <2>3. /\ c \o b \in Seq(Line) /\ Len(c \o b) = k + n
        /\ \A i \in 1..k + n : (c \o b)[i] = IF i <= k THEN c[i] ELSE b[i - k]
    BY <2>1, <2>2
  <2> QED BY <2>3 DEF k
<1>7. all = c \o b
  BY DEF c, b
<1>8. \A i \in 1..h : History[i] = At(i - 1 - h)
  BY DEF History
<1>9. \A i \in 1..p : Page[i] = At(i - 1)
  BY DEF Page
<1> HIDE DEF h, p
<1>10. ASSUME NEW q \in 1..h + p PROVE all[q] = At(q - 1 - h)
  <2>1. q \in 1..(h + p) + n /\ q <= h + p
    BY <1>1
  <2>2. all[q] = c[q]
    BY <1>6, <1>7, <2>1
  <2>3. CASE q <= h
    <3>1. q \in 1..h
      BY <1>1, <2>3
    <3> QED BY <1>5, <1>8, <2>2, <2>3, <3>1
  <2>4. CASE ~(q <= h)
    <3>1. q - h \in 1..p /\ (q - h) - 1 = q - 1 - h
      BY <1>1, <2>1, <2>4
    <3>2. Page[q - h] = At(q - 1 - h)
      BY <1>9, <3>1
    <3> QED BY <1>5, <2>2, <2>4, <3>2
  <2> QED BY <2>3, <2>4
<1>11. ASSUME NEW q \in h + p + 1..h + p + n PROVE all[q] = Blank
  <2>1. q \in 1..(h + p) + n /\ ~(q <= h + p) /\ q - (h + p) \in 1..n
    BY <1>1
  <2> QED BY <1>2, <1>6, <1>7, <2>1
<1> QED BY <1>6, <1>7, <1>10, <1>11 DEF h, p

\* What is in the ring after a scroll: the lines moved up by n, the last n blank.  With a
\* limited history the ring is turned.
LEMMA ScrolledLimited ==
    ASSUME RingInv, InitLimit \in Nat, NEW n \in 1..MaxScroll, ScrollUp(n)
    PROVE  /\ RingInv' /\ size' = size /\ pageLines' = pageLines
           /\ historyLineCount' \in Nat
           /\ historyLineCount + n < InitLimit => historyLineCount' = historyLineCount + n
           /\ ~(historyLineCount + n < InitLimit) => historyLineCount' = InitLimit
           /\ historyLineCount' <= historyLineCount + n
           /\ \A i \in (-historyLineCount')..(pageLines - 1) :
                 /\ i >= pageLines - n => storage'[RingIndex(zero', size, i)] = Blank
                 /\ i < pageLines - n => storage'[RingIndex(zero', size, i)] = At(i + n)
<1> DEFINE h == historyLineCount
           p == pageLines
           s == size
           z == (zero + s + n) % s
           u == linesUsed + Lower(n, s - linesUsed)
           g == u - p
<1>1. /\ s \in Nat \ {0} /\ zero \in 0..(s - 1) /\ p \in Nat \ {0} /\ h \in Nat
      /\ linesUsed = p + h /\ h <= InitLimit /\ s = p + InitLimit /\ limit # Infinite
      /\ InitLimit # Infinite
  BY RingFacts, GridAssumption DEF RingInv
<1>2. storage \in [0..(s - 1) -> Line] /\ Blank \in Line
  <2>1. Blank \in Line
    BY GridAssumption DEF Blank, Line, Cells
  <2> QED BY <2>1 DEF RingInv
<1>3. n \in Nat \ {0}
  BY GridAssumption
<1>4. /\ size' = s /\ zero' = z /\ linesUsed' = u
      /\ UNCHANGED <<pageLines, limit, cursor, written>>
      /\ storage' = Cleared(Extended(s), z, s, p - n, p - 1)
  BY <1>1 DEF ScrollUp
<1>5. storage' = [j \in 0..(s - 1) |->
          IF \E i \in (p - n)..(p - 1) : RingIndex(z, s, i) = j THEN Blank ELSE storage[j]]
  <2>1. Extended(s) = [j \in 0..(s - 1) |-> IF j < s THEN storage[j] ELSE Blank]
    BY DEF Extended
  <2>2. \A j \in 0..(s - 1) : Extended(s)[j] = storage[j]
    BY <1>1, <2>1
  <2>3. Cleared(Extended(s), z, s, p - n, p - 1) = [j \in 0..(s - 1) |->
          IF \E i \in (p - n)..(p - 1) : RingIndex(z, s, i) = j THEN Blank ELSE Extended(s)[j]]
    BY DEF Cleared
  <2> QED BY <1>4, <2>2, <2>3
<1>6. zero + s + n \in Int /\ z \in 0..(s - 1)
  <2>1. zero + s + n \in Int
    BY <1>1, <1>3
  <2> QED BY <1>1, <2>1, ModRange
<1>7. historyLineCount' = g
  BY <1>4 DEF historyLineCount
<1>8. /\ g \in Nat /\ g <= InitLimit /\ g <= h + n
      /\ h + n < InitLimit => g = h + n
      /\ ~(h + n < InitLimit) => g = InitLimit
  BY <1>1, <1>3 DEF Lower
<1>9. storage' \in [0..(s - 1) -> Line]
  BY <1>2, <1>5
<1>10. RingInv'
  <2>1. GridInv'
    BY ScrollUpKeepsGridInv DEF RingInv
  <2> QED BY <1>1, <1>4, <1>9, <2>1 DEF RingInv
<1> DEFINE R(i) == RingIndex(z, s, i)
<1>11. \A i \in Int : R(i) = RingIndex(zero, s, i + n) /\ R(i) \in 0..(s - 1)
  <2> TAKE i \in Int
  <2>1. R(i) = RingIndex(zero, s, i + n)
    BY <1>1, <1>3, IndexRotated
  <2>2. R(i) \in 0..(s - 1)
    BY <1>1, <1>6, IndexInside
  <2> QED BY <2>1, <2>2
<1> HIDE DEF h, s, z, g, p
<1>12. ASSUME NEW i \in (-g)..(p - 1)
       PROVE  /\ i >= p - n => storage'[R(i)] = Blank
              /\ i < p - n => storage'[R(i)] = At(i + n)
  <2>1. i \in Int /\ R(i) \in 0..(s - 1)
    BY <1>1, <1>8, <1>11
  <2>2. CASE i >= p - n
    <3>1. i \in (p - n)..(p - 1)
      BY <1>1, <1>3, <2>1, <2>2
    <3>2. \E k \in (p - n)..(p - 1) : R(k) = R(i)
      BY <3>1
    <3>3. storage'[R(i)] = Blank
      BY <1>5, <2>1, <3>2
    <3> QED BY <1>1, <1>3, <2>1, <2>2, <3>3
  <2>3. CASE i < p - n
    <3>1. ASSUME NEW k \in (p - n)..(p - 1) PROVE R(k) # R(i)
      <4>1. k \in Int /\ i < k /\ k - i < s
        BY <1>1, <1>3, <1>8, <2>1, <2>3
      <4> QED BY <1>1, <1>6, <2>1, <4>1, IndexUnique
    <3>2. storage'[R(i)] = storage[R(i)]
      BY <1>5, <2>1, <3>1
    <3>3. storage[R(i)] = At(i + n)
      BY <1>11, <2>1 DEF At, s
    <3> QED BY <1>1, <1>3, <2>1, <2>3, <3>2, <3>3
  <2> QED BY <1>1, <1>3, <2>1, <2>2, <2>3
<1> QED BY <1>4, <1>7, <1>8, <1>10, <1>12 DEF h, s, p

\* An unlimited history grows at the end of the vector, behind the page.
LEMMA ScrolledUnlimited ==
    ASSUME RingInv, InitLimit = Infinite, NEW n \in 1..MaxScroll, ScrollUp(n)
    PROVE  /\ RingInv' /\ pageLines' = pageLines
           /\ historyLineCount' = historyLineCount + n
           /\ \A i \in (-historyLineCount')..(pageLines - 1) :
                 /\ i >= pageLines - n => storage'[RingIndex(zero', size', i)] = Blank
                 /\ i < pageLines - n => storage'[RingIndex(zero', size', i)] = At(i + n)
<1> DEFINE h == historyLineCount
           p == pageLines
           s == size
           N == IF s - linesUsed < n THEN linesUsed + n ELSE s
           z == (zero + N + n) % N
<1>1. /\ s \in Nat \ {0} /\ zero = h /\ p \in Nat \ {0} /\ h \in Nat
      /\ linesUsed = p + h /\ s >= p + h /\ limit = Infinite
  BY RingFacts DEF RingInv, historyLineCount
<1>2. storage \in [0..(s - 1) -> Line] /\ Blank \in Line
  <2>1. Blank \in Line
    BY GridAssumption DEF Blank, Line, Cells
  <2> QED BY <2>1 DEF RingInv
<1>3. n \in Nat \ {0}
  BY GridAssumption
<1>4. N \in Nat \ {0} /\ N >= s /\ N >= p + h + n
  BY <1>1, <1>3
<1>5. /\ size' = N /\ zero' = z /\ linesUsed' = linesUsed + Lower(n, N - linesUsed)
      /\ UNCHANGED <<pageLines, limit, cursor, written>>
      /\ storage' = Cleared(Extended(N), z, N, p - n, p - 1)
  BY <1>1 DEF ScrollUp
<1> HIDE DEF N
<1>6. linesUsed' = linesUsed + n
  BY <1>1, <1>3, <1>4, <1>5 DEF Lower
<1> DEFINE k == h + n
<1>7. z = k /\ k \in 0..(N - 1) /\ k \in Int
  <2>1. k \in 0..(N - 1) /\ k \in Int
    BY <1>1, <1>3, <1>4
  <2> HIDE DEF k
  <2>2. k % N = k /\ (k + N) % N = k % N
    BY <1>4, <2>1, ModSmall, ModAround
  <2>3. zero + N + n = k + N
    BY <1>1, <1>3, <1>4 DEF k
  <2> QED BY <2>1, <2>2, <2>3
<1>8. ASSUME NEW m \in Nat \ {0}, NEW y \in 0..(m - 1), NEW i \in Int, y + i \in 0..(m - 1)
      PROVE  RingIndex(y, m, i) = y + i
  <2> DEFINE x == y + i
  <2>1. x \in 0..(m - 1) /\ x \in Int /\ y + m + i = x + m
    BY <1>8
  <2> HIDE DEF x
  <2>2. x % m = x /\ (x + m) % m = x % m
    BY <2>1, ModSmall, ModAround
  <2>3. RingIndex(y, m, i) = x
    BY <2>1, <2>2 DEF RingIndex
  <2> QED BY <2>3 DEF x
<1> DEFINE E == Extended(N)
<1>9. E \in [0..(N - 1) -> Line] /\ \A j \in 0..(s - 1) : E[j] = storage[j]
  <2>1. E = [j \in 0..(N - 1) |-> IF j < s THEN storage[j] ELSE Blank]
    BY DEF Extended
  <2>2. ASSUME NEW j \in 0..(N - 1) PROVE (IF j < s THEN storage[j] ELSE Blank) \in Line
    <3>1. CASE j < s
      <4>1. j \in 0..(s - 1)
        BY <1>1, <1>4, <3>1
      <4> QED BY <1>2, <3>1, <4>1
    <3>2. CASE ~(j < s)
      BY <1>2, <3>2
    <3> QED BY <3>1, <3>2
  <2>3. ASSUME NEW j \in 0..(s - 1) PROVE j \in 0..(N - 1) /\ j < s
    BY <1>1, <1>4
  <2> QED BY <2>1, <2>2, <2>3
<1>10. storage' = [j \in 0..(N - 1) |->
          IF \E i \in (p - n)..(p - 1) : RingIndex(z, N, i) = j THEN Blank ELSE E[j]]
  BY <1>5 DEF Cleared
<1> HIDE DEF E, z, k
<1>11. storage' \in [0..(N - 1) -> Line]
  BY <1>2, <1>9, <1>10
<1>12. RingInv'
  <2>1. GridInv'
    BY ScrollUpKeepsGridInv DEF RingInv
  <2>2. zero' = linesUsed' - pageLines'
    BY <1>1, <1>3, <1>5, <1>6, <1>7 DEF k
  <2>3. InitLimit \notin Nat
    BY GridAssumption
  <2> QED BY <1>5, <1>11, <2>1, <2>2, <2>3 DEF RingInv
<1>13. historyLineCount' = k
  BY <1>1, <1>3, <1>5, <1>6 DEF historyLineCount, k
<1> HIDE DEF h, s, p
<1>14. ASSUME NEW i \in (-k)..(p - 1)
       PROVE  /\ i >= p - n => storage'[RingIndex(z, N, i)] = Blank
              /\ i < p - n => storage'[RingIndex(z, N, i)] = At(i + n)
  <2> DEFINE x == k + i
             R(o) == RingIndex(z, N, o)
  <2>1. i \in Int /\ x \in 0..(N - 1)
    BY <1>1, <1>3, <1>4 DEF k
  <2>2. R(i) = x
    BY <1>4, <1>7, <1>8, <2>1
  <2>3. CASE i >= p - n
    <3>1. i \in (p - n)..(p - 1)
      BY <1>1, <1>3, <2>1, <2>3
    <3>2. storage'[x] = Blank
      BY <1>10, <2>1, <2>2, <3>1
    <3> QED BY <1>1, <1>3, <2>1, <2>2, <2>3, <3>2
  <2>4. CASE i < p - n
    <3>1. ASSUME NEW o \in (p - n)..(p - 1) PROVE R(o) # x
      <4>1. o \in Int /\ i < o /\ o - i < N
        BY <1>1, <1>3, <1>4, <2>1, <2>4 DEF k
      <4>2. R(i) # R(o)
        BY <1>4, <1>7, <2>1, <4>1, IndexUnique
      <4> QED BY <2>2, <4>2
    <3>2. storage'[x] = E[x]
      BY <1>10, <2>1, <3>1
    <3>3. x \in 0..(s - 1) /\ i + n \in Int /\ zero + (i + n) = x /\ zero \in 0..(s - 1)
      BY <1>1, <1>3, <2>1, <2>4 DEF k
    <3>4. RingIndex(zero, s, i + n) = x
      BY <1>1, <1>8, <3>3
    <3>5. At(i + n) = storage[x]
      BY <3>4 DEF At, s
    <3> QED BY <1>1, <1>3, <1>9, <2>1, <2>2, <2>4, <3>2, <3>3, <3>5
  <2> QED BY <1>1, <1>3, <2>1, <2>3, <2>4
<1> QED BY <1>5, <1>12, <1>13, <1>14 DEF h, p, k

\* Both together.
LEMMA ScrolledRing ==
    ASSUME RingInv, NEW n \in 1..MaxScroll, ScrollUp(n)
    PROVE  /\ RingInv' /\ pageLines' = pageLines /\ historyLineCount' \in Nat
           /\ historyLineCount' <= historyLineCount + n
           /\ InitLimit = Infinite => historyLineCount' = historyLineCount + n
           /\ InitLimit \in Nat /\ historyLineCount + n < InitLimit => historyLineCount' = historyLineCount + n
           /\ InitLimit \in Nat /\ ~(historyLineCount + n < InitLimit) => historyLineCount' = InitLimit
           /\ \A i \in (-historyLineCount')..(pageLines - 1) :
                 /\ i >= pageLines - n => storage'[RingIndex(zero', size', i)] = Blank
                 /\ i < pageLines - n => storage'[RingIndex(zero', size', i)] = At(i + n)
<1>1. CASE InitLimit \in Nat
  <2>1. InitLimit # Infinite
    BY GridAssumption
  <2> QED BY <1>1, <2>1, ScrolledLimited
<1>2. CASE InitLimit = Infinite
  <2>1. InitLimit \notin Nat /\ historyLineCount \in Nat /\ n \in Nat
    BY <1>2, GridAssumption, RingFacts
  <2> QED BY <1>2, <2>1, ScrolledUnlimited
<1> QED BY <1>1, <1>2, GridAssumption

\* scrollUp() of the whole page: what leaves the page becomes history.
LEMMA ScrollUpRefines ==
    ASSUME RingInv, NEW n \in 1..MaxScroll, ScrollUp(n)
    PROVE  RingInv' /\ Abstract!ScrollUp
<1> DEFINE h == historyLineCount
           p == pageLines
           g == historyLineCount'
           all == (History \o Page) \o [i \in 1..n |-> Blank]
           past == SubSeq(all, 1, Len(all) - p)
           A(i) == storage'[RingIndex(zero', size', i)]
<1>1. /\ p \in Nat \ {0} /\ h \in Nat /\ n \in Nat \ {0} /\ n \in 0..MaxScroll
      /\ \A i \in Int : At(i) \in Line
  BY RingFacts, GridAssumption
<1>2. /\ RingInv' /\ pageLines' = p /\ g \in Nat
      /\ InitLimit = Infinite => g = h + n
      /\ InitLimit \in Nat /\ h + n < InitLimit => g = h + n
      /\ InitLimit \in Nat /\ ~(h + n < InitLimit) => g = InitLimit
      /\ g <= h + n
      /\ \A i \in (-g)..(p - 1) :
           /\ i >= p - n => A(i) = Blank
           /\ i < p - n => A(i) = At(i + n)
  BY ScrolledRing
<1>3. /\ all \in Seq(Line) /\ Len(all) = h + p + n
      /\ \A q \in 1..h + p : all[q] = At(q - 1 - h)
      /\ \A q \in h + p + 1..h + p + n : all[q] = Blank
  BY <1>1, AllLines
<1>4. Page' = [i \in 1..p |-> A(i - 1)]
  BY <1>2 DEF Page, At, RingIndex
<1>5. History' = [i \in 1..g |-> A(i - 1 - g)]
  BY <1>2 DEF History, At, RingIndex
<1> HIDE DEF h, p, g, all, A
<1>6. ASSUME NEW i \in (-g)..(p - 1) PROVE A(i) = all[h + n + i + 1] /\ A(i) \in Line
  <2>1. CASE i >= p - n
    <3>1. h + n + i + 1 \in h + p + 1..h + p + n
      BY <1>1, <1>2, <2>1
    <3>2. Blank \in Line
      BY GridAssumption DEF Blank, Line, Cells
    <3> QED BY <1>2, <1>3, <2>1, <3>1, <3>2
  <2>2. CASE i < p - n
    <3> DEFINE q == h + n + i + 1
    <3>1. q \in 1..h + p /\ q - 1 - h = i + n /\ i + n \in Int
      BY <1>1, <1>2, <2>2
    <3>2. all[q] = At(i + n)
      BY <1>3, <3>1
    <3> QED BY <1>1, <1>2, <2>2, <3>1, <3>2
  <2> QED BY <1>1, <1>2, <2>1, <2>2
<1>7. /\ past \in Seq(Line) /\ Len(past) = h + n
      /\ \A i \in 1..h + n : past[i] = all[i]
  <2> DEFINE m == h + n
  <2>1. Len(all) - p = m /\ m \in Nat /\ m \in Int /\ 1 <= m /\ m <= Len(all)
    BY <1>1, <1>3
  <2>2. \A j \in 1..m : all[j] \in Line
    BY <1>3, <2>1, LenProperties
  <2> HIDE DEF m
  <2>3. /\ SubSeq(all, 1, m) \in Seq(Line) /\ Len(SubSeq(all, 1, m)) = IF 1 <= m THEN m - 1 + 1 ELSE 0
        /\ \A i \in 1..m - 1 + 1 : SubSeq(all, 1, m)[i] = all[1 + i - 1]
    BY <2>1, <2>2, SubSeqProperties
  <2>4. past = SubSeq(all, 1, m)
    BY <2>1
  <2> HIDE DEF past
  <2>5. past \in Seq(Line) /\ Len(past) = m /\ \A i \in 1..m : past[i] = all[i]
    BY <2>1, <2>3, <2>4
  <2> QED BY <2>5 DEF m
<1> HIDE DEF past
<1>8. Page' = SubSeq(all, Len(all) - p + 1, Len(all))
  <2> DEFINE r == SubSeq(all, Len(all) - p + 1, Len(all))
  <2>1. p \in 0..Len(all)
    BY <1>1, <1>3
  <2>2. r \in Seq(Line) /\ Len(r) = p /\ \A i \in 1..p : r[i] = all[Len(all) - p + i]
    BY <1>3, <2>1, SuffixElements
  <2> HIDE DEF r
  <2>3. ASSUME NEW i \in 1..p PROVE A(i - 1) = r[i]
    <3>1. i - 1 \in (-g)..(p - 1) /\ h + n + (i - 1) + 1 = Len(all) - p + i
      BY <1>1, <1>2, <1>3
    <3>2. A(i - 1) = all[h + n + (i - 1) + 1]
      BY <1>6, <3>1
    <3> QED BY <2>2, <3>1, <3>2
  <2>4. DOMAIN r = 1..p /\ r \in [1..p -> Line]
    BY <2>2, LenProperties
  <2>5. r = [i \in 1..p |-> A(i - 1)]
    BY <2>3, <2>4
  <2> QED BY <1>4, <2>5 DEF r
<1>9. History' = SubSeq(past, Len(past) - g + 1, Len(past))
  <2> DEFINE r == SubSeq(past, Len(past) - g + 1, Len(past))
  <2>1. g \in 0..Len(past)
    BY <1>1, <1>2, <1>7
  <2>2. r \in Seq(Line) /\ Len(r) = g /\ \A i \in 1..g : r[i] = past[Len(past) - g + i]
    BY <1>7, <2>1, SuffixElements
  <2> HIDE DEF r
  <2>3. ASSUME NEW i \in 1..g PROVE A(i - 1 - g) = r[i]
    <3> DEFINE k == i - 1 - g
               q == (h + n) - g + i
    <3>1. k \in (-g)..(p - 1) /\ h + n + k + 1 = q /\ q \in 1..h + n /\ Len(past) - g + i = q
      BY <1>1, <1>2, <1>7
    <3> HIDE DEF k, q
    <3>2. A(k) = all[q]
      BY <1>6, <3>1
    <3>3. r[i] = past[q] /\ past[q] = all[q]
      BY <1>7, <2>2, <3>1
    <3> QED BY <3>2, <3>3 DEF k
  <2>4. DOMAIN r = 1..g /\ r \in [1..g -> Line]
    BY <2>2, LenProperties
  <2>5. r = [i \in 1..g |-> A(i - 1 - g)]
    BY <2>3, <2>4
  <2> QED BY <1>5, <2>5 DEF r
<1>10. Abstract!Keep(past) = SubSeq(past, Len(past) - g + 1, Len(past))
  <2>1. CASE InitLimit \in Nat
    <3>1. Abstract!Least(Len(past), InitLimit) = g
      BY <1>1, <1>2, <1>7, <2>1 DEF Abstract!Least
    <3>2. InitLimit # Infinite
      BY <2>1, GridAssumption
    <3> QED BY <3>1, <3>2 DEF Abstract!Keep, Abstract!Suffix
  <2>2. CASE InitLimit = Infinite
    <3>1. Abstract!Keep(past) = past
      BY <2>2 DEF Abstract!Keep
    <3>2. Len(past) = g /\ Len(past) - g + 1 = 1
      BY <1>1, <1>2, <1>7, <2>2
    <3> DEFINE r == SubSeq(past, Len(past) - g + 1, Len(past))
    <3>3. g \in 0..Len(past)
      BY <1>2, <3>2
    <3>4. r \in Seq(Line) /\ Len(r) = g /\ \A i \in 1..g : r[i] = past[Len(past) - g + i]
      BY <1>7, <3>3, SuffixElements
    <3> HIDE DEF r
    <3>5. \A i \in 1..Len(r) : r[i] = past[i]
      <4> TAKE i \in 1..Len(r)
      <4>1. i \in 1..g /\ Len(past) - g + i = i
        BY <1>2, <3>2, <3>4
      <4> QED BY <3>4, <4>1
    <3>6. r = past
      BY <1>7, <3>2, <3>4, <3>5, SeqEqual
    <3> QED BY <3>1, <3>6 DEF r
  <2> QED BY <2>1, <2>2, GridAssumption
<1>11. Len(Page) = p
  BY ListTypes DEF p
<1>12. Abstract!BlankLines(n) = [i \in 1..n |-> Blank]
  BY DEF Abstract!BlankLines, Abstract!BlankLine, Blank
<1>13. (History \o Page) \o Abstract!BlankLines(n) = all
  BY <1>12 DEF all
<1>14. Page' = Abstract!Suffix(all, Len(Page))
  BY <1>8, <1>11 DEF Abstract!Suffix
<1>15. History' = Abstract!Keep(SubSeq(all, 1, Len(all) - Len(Page)))
  BY <1>9, <1>10, <1>11 DEF past
<1> QED BY <1>1, <1>2, <1>13, <1>14, <1>15 DEF Abstract!ScrollUp

-----------------------------------------------------------------------------
\* Every step of the grid is a step of Scrollback or leaves page and history alone.
LEMMA NextRefines ==
    ASSUME Ops \subseteq Plain, InitLimit \in Nat \/ "clear" \notin Ops, RingInv, [Next]_vars
    PROVE  RingInv' /\ [Abstract!SbNext]_(Abstract!sbVars)
<1> USE DEF Abstract!SbNext
<1>0. \A o \in {"down", "innerDown", "grow", "shrink", "limit"} : o \notin Ops
  BY DEF Plain
<1>1. CASE WriteLine
  BY <1>1, WriteLineRefines
<1>2. CASE MoveCursor
  BY <1>2, MoveCursorRefines
<1>3. ASSUME NEW n \in 1..MaxScroll, ScrollUp(n)
      PROVE  RingInv' /\ Abstract!SbNext
  BY <1>3, ScrollUpRefines
<1>4. ASSUME NEW n \in 1..MaxScroll, NEW m \in Margins, NEW cs \in {Cols, InnerCols},
             ScrollUpRegion(n, m[1], m[2], cs)
      PROVE  RingInv' /\ Abstract!SbNext
  BY <1>4, ScrollUpRegionRefines
<1>5. ASSUME NEW n \in 1..MaxScroll, NEW m \in Margins, ScrollDownVertical(n, m[1], m[2])
      PROVE  RingInv' /\ Abstract!SbNext
  BY <1>5, ScrollDownVerticalRefines
<1>6. CASE InitLimit \in Nat /\ ClearHistory
  BY <1>6, ClearRefines
<1>7. CASE Reset
  BY <1>7, ResetRefines
<1>8. CASE UNCHANGED vars
  <2>1. UNCHANGED <<storage, size, zero, linesUsed, pageLines, limit, cursor, written>>
    BY <1>8 DEF vars
  <2>2. GridInv'
    BY <2>1, SameCounters DEF RingInv, counterVars
  <2>3. RingInv'
    BY <2>1, <2>2 DEF RingInv
  <2>4. Page' = Page /\ History' = History
    BY <2>1 DEF Page, History, At, RingIndex, historyLineCount
  <2> QED BY <2>3, <2>4, SameLists
<1> HIDE DEF Abstract!SbNext
<1> QED
  BY <1>0, <1>1, <1>2, <1>3, <1>4, <1>5, <1>6, <1>7, <1>8 DEF Next

\* For every page height, history limit and scroll: scrolling with and without margins,
\* ED 3 and RIS do to the page and the history what Scrollback says, although the ring is
\* only turned.  Excepted are an unlimited history after ED 3, which extends the vector where
\* the ring does not end, a full-screen scrollDown(), which pulls the history onto the page,
\* and the scrollDown() inside left and right margins, which copies too few lines; resizes
\* and changes of the limit are not operations of Scrollback.
THEOREM GridRefinesScrollback ==
    ASSUME Ops \subseteq Plain, InitLimit \in Nat \/ "clear" \notin Ops
    PROVE  Spec => RefinesScrollback
<1>1. Init => RingInv /\ Abstract!SbInit
  BY InitRefines
<1>2. RingInv /\ [Next]_vars => RingInv' /\ [Abstract!SbNext]_(Abstract!sbVars)
  BY NextRefines
<1> QED BY <1>1, <1>2, PTL DEF Spec, RefinesScrollback, Abstract!SbSpec
=============================================================================
