------------------------ MODULE SessionManagerProofs ------------------------
(***************************************************************************)
(* Proofs about SessionManager, for any number of sessions and a user who  *)
(* does not close the last tab with CloseTab.                              *)
(*                                                                         *)
(* PointersValid is not inductive: an empty list says nothing about the    *)
(* pointers, and nothing says that a window without tabs takes no more     *)
(* commands, that tabs are listed once, or that a new session is new.      *)
(* ShownAlive needs all of it: the active session is listed or waits, and  *)
(* no session that is listed has ended.                                    *)
(***************************************************************************)
EXTENDS SessionManager, ListLemmas

TabsType == [sessions : Seq(Session), active : Session, previous : Session \cup {None},
             info : Nat \X Nat, window : {"open", "closed", "crashed"}]

\* What every function of the manager keeps.
Once(q) == \A i, j \in DOMAIN q : q[i] = q[j] => i = j
Pointers(t) ==
    /\ Listed(t, t.active)
    /\ t.previous # None => Listed(t, t.previous)
    /\ t.previous # t.active
    /\ Len(t.sessions) > 1 => t.previous # None
Tabs(t) ==
    /\ t \in TabsType
    /\ Once(t.sessions)
    /\ t.sessions # <<>> => Pointers(t)
    /\ t.sessions = <<>> => t.previous = None

\* The status line shows the tabs as they are.
Fresh(t) == t.sessions # <<>> => t.info = TabsInfo(t)

\* A window without tabs waits for a key press.
EmptyWaits == tabs.sessions = <<>> /\ tabs.window = "open" => tabs.active \in waitingKey

\* Sessions are listed when they are created, not before.
ListedCreated == \A i \in DOMAIN tabs.sessions : tabs.sessions[i] <= created

\* onClosed() takes the tab away in the step that handles the end.
ListedAlive == \A i \in DOMAIN tabs.sessions : process[tabs.sessions[i]] # "done"

TabsInv ==
    /\ TypeOK /\ Tabs(tabs) /\ EmptyWaits /\ ListedCreated
    /\ Fresh(tabs) /\ ListedAlive

-----------------------------------------------------------------------------
\* getSessionIndexOf() of a session that is listed.
LEMMA IndexOfListed ==
    ASSUME NEW t \in TabsType, NEW s, Listed(t, s)
    PROVE  IndexOf(t, s) \in 1..Len(t.sessions) /\ t.sessions[IndexOf(t, s)] = s
<1>1. t.sessions \in Seq(Session)
  BY DEF TabsType
<1>2. DOMAIN t.sessions = 1..Len(t.sessions)
  BY <1>1
<1>3. \E i \in DOMAIN t.sessions : t.sessions[i] = s
  BY DEF Listed
<1> QED BY <1>2, <1>3 DEF IndexOf

\* updateStatusLine() changes what is shown and nothing else.
LEMMA UpdateStatusLineKeeps ==
    ASSUME NEW t \in TabsType
    PROVE  /\ UpdateStatusLine(t) \in TabsType
           /\ UpdateStatusLine(t).sessions = t.sessions
           /\ UpdateStatusLine(t).active = t.active
           /\ UpdateStatusLine(t).previous = t.previous
           /\ UpdateStatusLine(t).window = t.window
           /\ Fresh(UpdateStatusLine(t))
<1>1. t.sessions \in Seq(Session)
  BY DEF TabsType
<1>2. Len(t.sessions) \in Nat
  BY <1>1
<1>3. TabsInfo(t) \in Nat \X Nat
  <2>1. CASE Listed(t, t.active)
    BY <1>2, <2>1, IndexOfListed DEF TabsInfo
  <2>2. CASE ~Listed(t, t.active)
    BY <1>2, <2>2 DEF TabsInfo
  <2> QED BY <2>1, <2>2
<1> DEFINE u == UpdateStatusLine(t)
<1>4. /\ u \in TabsType /\ u.sessions = t.sessions /\ u.active = t.active
      /\ u.previous = t.previous /\ u.window = t.window /\ u.info = TabsInfo(t)
  BY <1>3 DEF UpdateStatusLine, TabsType
<1> HIDE DEF u
<1>5. TabsInfo(u) = TabsInfo(t)
  BY <1>4, Zenon DEF TabsInfo, Listed, IndexOf
<1>6. Fresh(u)
  BY <1>4, <1>5 DEF Fresh
<1> QED BY <1>4, <1>6 DEF u

\* closeDisplay() closes a window without tabs.
LEMMA CloseDisplayKeeps ==
    ASSUME NEW t \in TabsType
    PROVE  /\ CloseDisplay(t) \in TabsType
           /\ CloseDisplay(t).sessions = t.sessions
           /\ CloseDisplay(t).active = t.active
           /\ CloseDisplay(t).previous = t.previous
           /\ t.sessions = <<>> => CloseDisplay(t).window = "closed"
           /\ t.sessions # <<>> => CloseDisplay(t).window = t.window
           /\ Fresh(t) => Fresh(CloseDisplay(t))
<1>1. CASE t.sessions = <<>>
  BY <1>1 DEF CloseDisplay, TabsType, Fresh
<1>2. CASE t.sessions # <<>>
  BY <1>2 DEF CloseDisplay
<1> QED BY <1>1, <1>2

\* What Tabs() says depends on the list and the pointers alone.
LEMMA TabsSame ==
    ASSUME NEW t, Tabs(t), NEW u \in TabsType,
           u.sessions = t.sessions, u.active = t.active, u.previous = t.previous
    PROVE  Tabs(u)
  BY DEF Tabs, Pointers, Listed

-----------------------------------------------------------------------------
\* activateSession() of a tab that is listed: the one that was active becomes the
\* previous one.
LEMMA ActivateSessionKeeps ==
    ASSUME NEW t, Tabs(t), NEW s, s = None \/ Listed(t, s)
    PROVE  /\ Tabs(ActivateSession(t, s))
           /\ ActivateSession(t, s).sessions = t.sessions
           /\ s # None => ActivateSession(t, s).active = s
           /\ s = None => ActivateSession(t, s) = t
           /\ ActivateSession(t, s).window = t.window
           /\ Fresh(t) => Fresh(ActivateSession(t, s))
<1>1. CASE s \in {None, t.active}
  <2>1. ActivateSession(t, s) = t
    BY <1>1 DEF ActivateSession
  <2> QED BY <1>1, <2>1
<1>2. CASE s \notin {None, t.active}
  <2> DEFINE v == [t EXCEPT !.previous = t.active, !.active = s]
             u == UpdateStatusLine(v)
  <2>1. t \in TabsType /\ t.sessions \in Seq(Session)
    BY DEF Tabs, TabsType
  <2>2. Listed(t, s)
    BY <1>2
  <2>3. t.sessions # <<>> /\ s \in Session
    BY <2>1, <2>2 DEF Listed
  <2>4. /\ v \in TabsType /\ v.sessions = t.sessions /\ v.active = s
        /\ v.previous = t.active /\ v.window = t.window
    BY <2>1, <2>3 DEF TabsType
  <2>5. Listed(t, t.active) /\ t.active # None
    BY <2>1, <2>3 DEF Tabs, Pointers, TabsType, Session, None
  <2>6. Tabs(v)
    BY <1>2, <2>2, <2>3, <2>4, <2>5 DEF Tabs, Pointers, Listed
  <2>8. ActivateSession(t, s) = IF s \in handled THEN CloseDisplay(u) ELSE u
    BY <1>2 DEF ActivateSession
  <2> HIDE DEF v
  <2>7. /\ u \in TabsType /\ u.sessions = v.sessions /\ u.active = v.active
        /\ u.previous = v.previous /\ u.window = v.window /\ Fresh(u)
    BY <2>4, UpdateStatusLineKeeps
  <2> HIDE DEF u
  <2>9. /\ CloseDisplay(u) \in TabsType /\ CloseDisplay(u).sessions = v.sessions
        /\ CloseDisplay(u).active = v.active /\ CloseDisplay(u).previous = v.previous
        /\ CloseDisplay(u).window = v.window /\ Fresh(CloseDisplay(u))
    BY <2>3, <2>4, <2>7, CloseDisplayKeeps
  <2>10. Tabs(u) /\ Tabs(CloseDisplay(u))
    BY <2>6, <2>7, <2>9, TabsSame
  <2> QED BY <1>2, <2>4, <2>7, <2>8, <2>9, <2>10
<1> QED BY <1>1, <1>2

\* createSession(): the new tab is active and the one that was is the previous one.
LEMMA CreateSessionKeeps ==
    ASSUME NEW t, Tabs(t), t.sessions # <<>>, NEW s \in Session, ~Listed(t, s),
           NEW r, r = ActivateSession(AddSession(t, s), s)
    PROVE  /\ Tabs(r)
           /\ r.sessions # <<>> /\ Fresh(r)
           /\ \A i \in DOMAIN r.sessions : r.sessions[i] = s \/ Listed(t, r.sessions[i])
<1> DEFINE q == t.sessions
           k == IndexOf(t, t.active)
           p == InsertAt(q, k + 1, s)
           w == AddSession(t, s)
           v == [w EXCEPT !.previous = w.active, !.active = s]
           u == UpdateStatusLine(v)
<1>1. t \in TabsType /\ q \in Seq(Session) /\ Once(q) /\ Listed(t, t.active)
  BY DEF Tabs, TabsType, Pointers
<1>2. k \in 1..Len(q) /\ q[k] = t.active
  BY <1>1, IndexOfListed
<1>3. Len(q) \in Nat /\ k + 1 \in 1..Len(q) + 1 /\ DOMAIN q = 1..Len(q)
  BY <1>1, <1>2
<1>4. w = [t EXCEPT !.previous = t.active, !.sessions = p]
  BY <1>1 DEF AddSession
<1>14. s \notin {None, w.active} => r = IF s \in handled THEN CloseDisplay(u) ELSE u
  BY DEF ActivateSession
<1>9. \A j \in DOMAIN q : q[j] # s
  BY DEF Listed
<1>19. ASSUME NEW j \in DOMAIN q PROVE Listed(t, q[j])
  BY DEF Listed
<1> HIDE DEF q, k
<1>5. /\ p \in Seq(Session) /\ Len(p) = Len(q) + 1
      /\ \A j \in 1..Len(q) + 1 : p[j] = IF j < k + 1 THEN q[j] ELSE IF j = k + 1 THEN s ELSE q[j - 1]
  <2> DEFINE n == k + 1
  <2>1. n \in 1..Len(q) + 1
    BY <1>3
  <2> HIDE DEF n
  <2>2. /\ InsertAt(q, n, s) \in Seq(Session) /\ Len(InsertAt(q, n, s)) = Len(q) + 1
        /\ \A j \in 1..Len(q) + 1 :
              InsertAt(q, n, s)[j] = IF j < n THEN q[j] ELSE IF j = n THEN s ELSE q[j - 1]
    BY <1>1, <2>1, InsertAtElements
  <2> QED BY <2>2, Zenon DEF n, p
<1> HIDE DEF p, w
<1>6. /\ w \in TabsType /\ w.sessions = p /\ w.active = t.active
      /\ w.previous = t.active
  BY <1>1, <1>4, <1>5 DEF TabsType
<1>7. /\ v \in TabsType /\ v.sessions = p /\ v.active = s /\ v.previous = t.active
  BY <1>6 DEF TabsType
<1>8. s # None /\ s # t.active
  BY <1>1 DEF Session, None
<1>10. Once(p) /\ DOMAIN p = 1..Len(q) + 1
  <2>1. DOMAIN p = 1..Len(q) + 1
    BY <1>5
  <2>2. ASSUME NEW i \in 1..Len(q) + 1, NEW j \in 1..Len(q) + 1, p[i] = p[j]
        PROVE  i = j
    <3>1. k \in Nat /\ \A a, b \in 1..Len(q) : q[a] = q[b] => a = b
      BY <1>1, <1>2, <1>3 DEF Once
    <3>2. ASSUME NEW a \in 1..Len(q) + 1, a < k + 1
          PROVE  p[a] = q[a] /\ a \in 1..Len(q)
      BY <1>2, <1>3, <1>5, <3>1, <3>2
    <3>3. ASSUME NEW a \in 1..Len(q) + 1, a > k + 1
          PROVE  p[a] = q[a - 1] /\ a - 1 \in 1..Len(q)
      <4>1. ~(a < k + 1) /\ a # k + 1
        BY <1>3, <3>1, <3>3
      <4> QED BY <1>3, <1>5, <3>1, <3>3, <4>1
    <3>4. p[k + 1] = s
      BY <1>3, <1>5, <3>1
    <3>5. CASE i = k + 1
      BY <1>3, <1>9, <2>2, <3>1, <3>2, <3>3, <3>4, <3>5
    <3>6. CASE j = k + 1
      BY <1>3, <1>9, <2>2, <3>1, <3>2, <3>3, <3>4, <3>6
    <3>7. CASE i < k + 1 /\ j # k + 1
      BY <1>3, <2>2, <3>1, <3>2, <3>3, <3>7
    <3>8. CASE i > k + 1 /\ j # k + 1
      BY <1>3, <2>2, <3>1, <3>2, <3>3, <3>8
    <3> QED BY <1>3, <3>1, <3>5, <3>6, <3>7, <3>8
  <2> QED BY <2>1, <2>2 DEF Once
<1>11. p[k + 1] = s /\ p[k] = t.active /\ k \in 1..Len(q) + 1 /\ k + 1 \in 1..Len(q) + 1
  BY <1>2, <1>3, <1>5
<1>18. p # <<>>
  BY <1>3, <1>5
<1>12. Tabs(v)
  <2>2. Listed(v, s) /\ Listed(v, t.active)
    BY <1>7, <1>10, <1>11 DEF Listed
  <2>3. t.active # None
    BY <1>1 DEF TabsType, Session, None
  <2> QED BY <1>7, <1>8, <1>10, <1>18, <2>2, <2>3 DEF Tabs, Pointers
<1> HIDE DEF v
<1>13. /\ u \in TabsType /\ u.sessions = v.sessions /\ u.active = v.active
       /\ u.previous = v.previous /\ Fresh(u)
  BY <1>7, UpdateStatusLineKeeps
<1> HIDE DEF u
<1>15. /\ CloseDisplay(u) \in TabsType /\ CloseDisplay(u).sessions = v.sessions
       /\ CloseDisplay(u).active = v.active /\ CloseDisplay(u).previous = v.previous
       /\ Fresh(CloseDisplay(u))
  BY <1>13, CloseDisplayKeeps
<1>16. Tabs(r) /\ r.sessions = p /\ Fresh(r)
  <2>1. Tabs(u) /\ Tabs(CloseDisplay(u))
    BY <1>12, <1>13, <1>15, TabsSame
  <2>2. r = CloseDisplay(u) \/ r = u
    BY <1>6, <1>8, <1>14
  <2> QED BY <1>7, <1>13, <1>15, <2>1, <2>2
<1>17. ASSUME NEW i \in DOMAIN p PROVE p[i] = s \/ Listed(t, p[i])
  <2>1. CASE i < k + 1
    <3>1. i \in DOMAIN q /\ p[i] = q[i]
      BY <1>2, <1>3, <1>5, <1>10, <2>1
    <3> QED BY <1>19, <3>1
  <2>2. CASE i = k + 1
    BY <1>11, <2>2
  <2>3. CASE i > k + 1
    <3>1. i - 1 \in DOMAIN q /\ p[i] = q[i - 1]
      BY <1>2, <1>3, <1>5, <1>10, <2>3
    <3> QED BY <1>19, <3>1
  <2> QED BY <1>2, <1>10, <2>1, <2>2, <2>3
<1> QED BY <1>16, <1>17, <1>18

\* Erasing a tab that is not the active one, or the last one.
LEMMA EraseSessionKeeps ==
    ASSUME NEW t, Tabs(t), NEW s, Listed(t, s), s # t.active \/ Len(t.sessions) = 1,
           NEW r, r = EraseSession(t, s)
    PROVE  /\ Tabs(r)
           /\ Len(r.sessions) = Len(t.sessions) - 1
           /\ r.active = t.active
           /\ r.window = t.window
           /\ \A i \in DOMAIN r.sessions : Listed(t, r.sessions[i]) /\ r.sessions[i] # s
           /\ Fresh(r)
<1> DEFINE q == t.sessions
           k == IndexOf(t, s)
           p == RemoveAt(q, k)
           u == [t EXCEPT !.sessions = p]
           v == [u EXCEPT !.previous = Neighbour(u)]
<1>1. t \in TabsType /\ q \in Seq(Session) /\ Once(q)
  BY DEF Tabs, TabsType
<1>2. k \in 1..Len(q) /\ q[k] = s
  BY <1>1, IndexOfListed
<1>3. Len(q) \in Nat /\ DOMAIN q = 1..Len(q)
  BY <1>1
<1>4. r = UpdateStatusLine(v)
  BY DEF EraseSession
<1>5. ASSUME NEW j \in DOMAIN q PROVE Listed(t, q[j])
  BY DEF Listed
<1>6. Listed(t, t.active)
  BY <1>2, <1>3 DEF Tabs, Pointers
<1>7. PICK a \in DOMAIN q : q[a] = t.active
  BY <1>6 DEF Listed
<1> HIDE DEF q, k
<1>8. /\ p \in Seq(Session) /\ Len(p) = Len(q) - 1
      /\ \A j \in 1..Len(q) - 1 : p[j] = IF j < k THEN q[j] ELSE q[j + 1]
  BY <1>1, <1>2, RemoveAtElements
<1> HIDE DEF p
<1>9. DOMAIN p = 1..Len(q) - 1
  BY <1>8
<1>10. ASSUME NEW j \in DOMAIN p
       PROVE  \E i \in DOMAIN q : /\ p[j] = q[i] /\ i = IF j < k THEN j ELSE j + 1
  BY <1>2, <1>3, <1>8, <1>9
<1>11. Once(p)
  <2>1. ASSUME NEW i \in DOMAIN p, NEW j \in DOMAIN p, p[i] = p[j] PROVE i = j
    <3>1. PICK i2 \in DOMAIN q : p[i] = q[i2] /\ i2 = IF i < k THEN i ELSE i + 1
      BY <1>10
    <3>2. PICK j2 \in DOMAIN q : p[j] = q[j2] /\ j2 = IF j < k THEN j ELSE j + 1
      BY <1>10
    <3>3. i2 = j2
      BY <1>1, <2>1, <3>1, <3>2 DEF Once
    <3>4. i \in Int /\ j \in Int /\ k \in Int
      BY <1>2, <1>3, <1>9
    <3> QED BY <3>1, <3>2, <3>3, <3>4
  <2> QED BY <2>1 DEF Once
<1>12. /\ u \in TabsType /\ u.sessions = p /\ u.active = t.active /\ u.window = t.window
  BY <1>1, <1>8 DEF TabsType
<1> HIDE DEF u
<1>13. \A i \in DOMAIN p : p[i] \in Session
  BY <1>8
<1>14. t.active \in Session /\ \A x \in Session : x # None
  BY <1>1 DEF TabsType, Session, None
<1>15. ASSUME p # <<>>
       PROVE  \E i \in DOMAIN p : p[i] = t.active
  <2>1. Len(q) > 1
    BY <1>3, <1>8, <1>15
  <2>2. s # t.active
    <3> DEFINE n == Len(q)
    <3>1. n \in Nat /\ n > 1
      BY <1>3, <2>1
    <3> HIDE DEF n
    <3>2. n # 1
      BY <3>1
    <3> QED BY <3>2, Zenon DEF n, q
  <2>3. a \in 1..Len(q) /\ a # k
    BY <1>2, <1>3, <1>7, <2>2
  <2>4. CASE a < k
    <3>1. a \in 1..Len(q) - 1
      BY <1>2, <1>3, <2>3, <2>4
    <3>2. p[a] = q[a]
      BY <1>8, <2>4, <3>1
    <3> QED BY <1>7, <1>9, <3>1, <3>2
  <2>5. CASE a > k
    <3>1. a - 1 \in 1..Len(q) - 1 /\ ~(a - 1 < k) /\ (a - 1) + 1 = a
      BY <1>2, <1>3, <2>3, <2>5
    <3>2. p[a - 1] = q[a]
      BY <1>8, <3>1
    <3> QED BY <1>7, <1>9, <3>1, <3>2
  <2> QED BY <1>2, <2>3, <2>4, <2>5
<1>16. CASE p = <<>>
  <2>1. ~Listed(u, u.active) /\ Len(p) = 0
    BY <1>12, <1>16 DEF Listed
  <2>2. Neighbour(u) = None
    BY <1>12, <2>1 DEF Neighbour
  <2>3. /\ v \in TabsType /\ v.sessions = p /\ v.active = t.active
        /\ v.previous = None /\ v.window = t.window
    BY <1>12, <2>2 DEF TabsType
  <2>4. Tabs(v)
    BY <1>11, <1>16, <2>3 DEF Tabs
  <2> HIDE DEF v
  <2>5. /\ Tabs(r) /\ r.sessions = p /\ r.active = t.active /\ r.window = t.window
        /\ Fresh(r)
    BY <1>4, <2>3, <2>4, UpdateStatusLineKeeps, TabsSame
  <2> QED BY <1>8, <1>16, <2>5 DEF q
<1>17. CASE p # <<>>
  <2> DEFINE i == IndexOf(u, u.active)
  <2>1. Listed(u, u.active)
    BY <1>12, <1>15, <1>17 DEF Listed
  <2>2. i \in 1..Len(p) /\ p[i] = t.active
    BY <1>12, <2>1, IndexOfListed
  <2>3. Neighbour(u) = IF i < Len(p) THEN p[i + 1] ELSE IF i > 1 THEN p[i - 1] ELSE None
    BY <1>12, <2>1 DEF Neighbour
  <2> HIDE DEF i
  <2>4. Len(p) \in Nat /\ DOMAIN p = 1..Len(p)
    BY <1>8
  <2>5. /\ Neighbour(u) \in Session \cup {None}
        /\ Neighbour(u) # None => \E j \in DOMAIN p : p[j] = Neighbour(u)
        /\ Neighbour(u) # t.active
        /\ Len(p) > 1 => Neighbour(u) # None
    <3>1. \A j \in DOMAIN p : j # i => p[j] # t.active
      BY <1>11, <2>2, <2>4 DEF Once
    <3>2. CASE i < Len(p)
      <4>1. Neighbour(u) = p[i + 1] /\ i + 1 \in DOMAIN p /\ i # i + 1
        BY <2>2, <2>3, <2>4, <3>2
      <4> QED BY <1>13, <1>14, <3>1, <4>1
    <3>3. CASE ~(i < Len(p)) /\ i > 1
      <4>1. Neighbour(u) = p[i - 1] /\ i - 1 \in DOMAIN p /\ i # i - 1
        BY <2>2, <2>3, <2>4, <3>3
      <4> QED BY <1>13, <1>14, <3>1, <4>1
    <3>4. CASE ~(i < Len(p)) /\ ~(i > 1)
      <4>1. Neighbour(u) = None /\ ~(Len(p) > 1)
        BY <2>2, <2>3, <2>4, <3>4
      <4> QED BY <1>14, <4>1
    <3> QED BY <3>2, <3>3, <3>4
  <2>6. /\ v \in TabsType /\ v.sessions = p /\ v.active = t.active
        /\ v.previous = Neighbour(u) /\ v.window = t.window
    BY <1>12, <2>5 DEF TabsType
  <2>7. Tabs(v)
    <3>1. Listed(v, v.active)
      BY <1>12, <2>1, <2>6 DEF Listed
    <3>2. v.previous # None => Listed(v, v.previous)
      BY <2>5, <2>6 DEF Listed
    <3> QED BY <1>11, <1>17, <2>5, <2>6, <3>1, <3>2 DEF Tabs, Pointers
  <2> HIDE DEF v
  <2>8. /\ Tabs(r) /\ r.sessions = p /\ r.active = t.active /\ r.window = t.window
        /\ Fresh(r)
    BY <1>4, <2>6, <2>7, UpdateStatusLineKeeps, TabsSame
  <2>9. \A j \in DOMAIN p : Listed(t, p[j])
    BY <1>5, <1>10
  <2>10. ASSUME NEW j \in DOMAIN p PROVE p[j] # s
    <3>1. PICK i2 \in DOMAIN q : p[j] = q[i2] /\ i2 = IF j < k THEN j ELSE j + 1
      BY <1>10
    <3>2. j \in Int /\ k \in Int
      BY <1>2, <1>3, <1>9
    <3>3. i2 # k
      BY <3>1, <3>2
    <3> QED BY <1>1, <1>2, <1>3, <3>1, <3>3 DEF Once
  <2> QED BY <1>8, <2>8, <2>9, <2>10 DEF q
<1> QED BY <1>16, <1>17

\* removeSession(): the active tab is left for the previous one before it goes.
LEMMA RemoveSessionKeeps ==
    ASSUME NEW t, Tabs(t), NEW s, NEW r, r = RemoveSession(t, s)
    PROVE  /\ Tabs(r)
           /\ r.window = t.window
           /\ Len(r.sessions) >= Len(t.sessions) - 1
           /\ \A i \in DOMAIN r.sessions : Listed(t, r.sessions[i]) /\ r.sessions[i] # s
           /\ Fresh(t) => Fresh(r)
           /\ r.sessions = <<>> => r.active = t.active
           /\ r.sessions = <<>> /\ t.sessions # <<>> => t.active = s
<1> DEFINE u == LeaveSession(t, s)
<1>1. t \in TabsType /\ t.sessions \in Seq(Session)
  BY DEF Tabs, TabsType
<1>2. Len(t.sessions) \in Nat /\ DOMAIN t.sessions = 1..Len(t.sessions)
  BY <1>1
<1>3. t.previous = None \/ Listed(t, t.previous)
  <2>1. CASE t.sessions = <<>>
    BY <2>1 DEF Tabs
  <2>2. CASE t.sessions # <<>>
    BY <2>2 DEF Tabs, Pointers
  <2> QED BY <2>1, <2>2
<1>4. r = IF Listed(u, s) THEN EraseSession(u, s) ELSE u
  BY DEF RemoveSession
<1>5. /\ Tabs(u) /\ u.sessions = t.sessions /\ u.window = t.window
      /\ s # t.active => u = t
      /\ s = t.active /\ t.previous = None => u = t
      /\ s = t.active /\ t.previous # None => u.active = t.previous
      /\ Fresh(t) => Fresh(u)
  <2>1. CASE s = t.active
    <3>1. u = ActivateSession(t, t.previous)
      BY <2>1 DEF LeaveSession
    <3> QED BY <1>3, <2>1, <3>1, ActivateSessionKeeps
  <2>2. CASE s # t.active
    BY <2>2 DEF LeaveSession
  <2> QED BY <2>1, <2>2
<1> HIDE DEF u
<1>6. \A x : Listed(u, x) <=> Listed(t, x)
  BY <1>5 DEF Listed
<1>7. CASE ~Listed(u, s)
  <2>1. r = u
    BY <1>4, <1>7
  <2>2. t.sessions = <<>> => u = t
    BY <1>5 DEF Tabs
  <2>3. \A i \in DOMAIN t.sessions : Listed(t, t.sessions[i]) /\ t.sessions[i] # s
    BY <1>6, <1>7 DEF Listed
  <2> QED BY <1>2, <1>5, <2>1, <2>2, <2>3
<1>8. CASE Listed(u, s)
  <2>1. t.sessions # <<>>
    BY <1>6, <1>8 DEF Listed
  <2>2. Pointers(t)
    BY <2>1 DEF Tabs
  <2>3. s # u.active \/ Len(u.sessions) = 1
    <3>1. CASE s # t.active
      BY <1>5, <3>1
    <3>2. CASE s = t.active /\ t.previous # None
      BY <1>5, <2>2, <3>2 DEF Pointers
    <3>3. CASE s = t.active /\ t.previous = None
      <4>1. ~(Len(t.sessions) > 1)
        BY <2>2, <3>3 DEF Pointers
      <4>2. Len(t.sessions) # 0
        BY <1>1, <2>1
      <4>3. Len(t.sessions) = 1
        <5> DEFINE n == Len(t.sessions)
        <5>1. n \in Nat /\ ~(n > 1) /\ n # 0
          BY <1>2, <4>1, <4>2, Zenon
        <5> HIDE DEF n
        <5>2. n = 1
          BY <5>1
        <5> QED BY <5>2 DEF n
      <4> QED BY <1>5, <4>3
    <3> QED BY <3>1, <3>2, <3>3
  <2>4. /\ Tabs(r) /\ Len(r.sessions) = Len(t.sessions) - 1
        /\ r.active = u.active /\ r.window = t.window
        /\ \A i \in DOMAIN r.sessions : Listed(t, r.sessions[i]) /\ r.sessions[i] # s
        /\ Fresh(r)
    <3>1. r = EraseSession(u, s)
      BY <1>4, <1>8
    <3>2. /\ Tabs(r) /\ Len(r.sessions) = Len(u.sessions) - 1
          /\ r.active = u.active /\ r.window = u.window
          /\ \A i \in DOMAIN r.sessions : Listed(u, r.sessions[i]) /\ r.sessions[i] # s
          /\ Fresh(r)
      BY <1>5, <1>8, <2>3, <3>1, EraseSessionKeeps
    <3> QED BY <1>5, <1>6, <3>2
  <2>5. ASSUME r.sessions = <<>> PROVE s = t.active /\ r.active = t.active
    <3>1. Len(t.sessions) = 1
      BY <1>2, <2>4, <2>5
    <3>2. t.sessions[1] = s /\ t.sessions[1] = t.active
      BY <1>2, <1>6, <1>8, <2>2, <3>1 DEF Listed, Pointers
    <3>3. t.previous = None
      <4>1. t.previous # None => t.previous = t.sessions[1]
        BY <1>2, <2>2, <3>1 DEF Listed, Pointers
      <4> QED BY <2>2, <3>2, <4>1 DEF Pointers
    <3> QED BY <1>5, <2>4, <3>2, <3>3
  <2> QED BY <1>2, <2>4, <2>5
<1> QED BY <1>7, <1>8

\* Swapping two tabs.
LEMMA SwapTabsKeeps ==
    ASSUME NEW t, Tabs(t), NEW i \in DOMAIN t.sessions, NEW j \in DOMAIN t.sessions,
           NEW r, r = SwapTabs(t, i, j)
    PROVE  /\ Tabs(r)
           /\ r.sessions # <<>> /\ Fresh(r)
           /\ \A n \in DOMAIN r.sessions : Listed(t, r.sessions[n])
<1> DEFINE q == t.sessions
           p == [q EXCEPT ![i] = q[j], ![j] = q[i]]
           v == [t EXCEPT !.sessions = p]
<1>1. t \in TabsType /\ q \in Seq(Session) /\ Once(q) /\ t.sessions # <<>> /\ Pointers(t)
  <2>1. t \in TabsType /\ q \in Seq(Session) /\ Once(q)
    BY DEF Tabs, TabsType
  <2>2. t.sessions # <<>>
    BY <2>1
  <2> QED BY <2>1, <2>2 DEF Tabs
<1>2. Len(q) \in Nat /\ DOMAIN q = 1..Len(q) /\ \A n \in DOMAIN q : q[n] \in Session
  BY <1>1
<1>3. r = UpdateStatusLine(v)
  BY DEF SwapTabs
<1>4. \A n \in DOMAIN q : Listed(t, q[n])
  BY DEF Listed
<1>5. \A x : Listed(t, x) <=> \E n \in DOMAIN q : q[n] = x
  BY DEF Listed
<1> HIDE DEF q
<1>6. i \in DOMAIN q /\ j \in DOMAIN q
  BY DEF q
<1>7. /\ DOMAIN p = DOMAIN q
      /\ \A n \in DOMAIN q : p[n] = IF n = j THEN q[i] ELSE IF n = i THEN q[j] ELSE q[n]
  BY <1>6
<1>8. p \in Seq(Session) /\ Len(p) = Len(q)
  BY <1>1, <1>2, <1>6
<1> HIDE DEF p
<1>9. Once(p)
  BY <1>1, <1>6, <1>7 DEF Once
<1>10. \A n \in DOMAIN q : \E k \in DOMAIN p : p[k] = q[n]
  BY <1>6, <1>7
<1>11. /\ v \in TabsType /\ v.sessions = p /\ v.active = t.active /\ v.previous = t.previous
  BY <1>1, <1>8 DEF TabsType
<1>12. \A x : Listed(t, x) => Listed(v, x)
  BY <1>5, <1>10, <1>11 DEF Listed
<1>13. p # <<>>
  BY <1>2, <1>6, <1>8
<1>14. Tabs(v)
  BY <1>1, <1>8, <1>9, <1>11, <1>12, <1>13 DEF Tabs, Pointers, q
<1> HIDE DEF v
<1>15. Tabs(r) /\ r.sessions = p /\ Fresh(r)
  BY <1>3, <1>11, <1>14, UpdateStatusLineKeeps, TabsSame
<1>16. \A n \in DOMAIN p : Listed(t, p[n])
  BY <1>4, <1>6, <1>7
<1> QED BY <1>13, <1>15, <1>16

-----------------------------------------------------------------------------
\* The invariant holds when the window has opened.
LEMMA InitTabsInv == Init => TabsInv
<1> SUFFICES ASSUME Init PROVE TabsInv
  OBVIOUS
<1>1. 1 \in Session /\ None \notin Session /\ MaxSessions \in Nat
  BY TabsAssumption DEF Session, None
<1>2. painted \in BOOLEAN
  BY DEF Init
<1>3. /\ tabs \in TabsType /\ tabs.sessions = <<1>> /\ tabs.active = 1
      /\ tabs.previous = None /\ tabs.window = "open"
  BY <1>1 DEF Init, TabsType
<1>4. Len(<<1>>) = 1 /\ <<1>>[1] = 1 /\ DOMAIN <<1>> = 1..1
  OBVIOUS
<1>5. Once(tabs.sessions) /\ Listed(tabs, 1)
  BY <1>3, <1>4 DEF Once, Listed
<1>6. Tabs(tabs)
  BY <1>1, <1>3, <1>4, <1>5 DEF Tabs, Pointers
<1>7. TypeOK
  BY <1>1, <1>2, <1>3, <1>5 DEF TypeOK, Init, TabsType, Once
<1>8. ListedCreated
  BY <1>3, <1>4 DEF ListedCreated, Init
<1>9. EmptyWaits
  <2>1. <<1>> # <<>>
    OBVIOUS
  <2> QED BY <1>3, <2>1 DEF EmptyWaits
<1>10. Fresh(tabs)
  <2>1. tabs.info = <<1, 1>> /\ Len(tabs.sessions) = 1 /\ Listed(tabs, tabs.active)
    BY <1>3, <1>4, <1>5 DEF Init
  <2>2. IndexOf(tabs, tabs.active) \in 1..1
    BY <1>3, <2>1, IndexOfListed
  <2> QED BY <2>1, <2>2 DEF Fresh, TabsInfo
<1>11. ListedAlive
  BY <1>1, <1>3, <1>4 DEF ListedAlive, Init
<1> QED BY <1>6, <1>7, <1>8, <1>9, <1>10, <1>11 DEF TabsInv

\* A step that only changes the tabs, and lists no others.
LEMMA TabsStep ==
    ASSUME TabsInv, UNCHANGED sessionVars, Tabs(tabs'), Fresh(tabs'), EmptyWaits',
           \A i \in DOMAIN tabs'.sessions : Listed(tabs, tabs'.sessions[i])
    PROVE  TabsInv'
<1>1. TypeOK'
  BY DEF TabsInv, TypeOK, Tabs, TabsType, Once, sessionVars
<1>2. ListedCreated'
  BY DEF TabsInv, ListedCreated, Listed, sessionVars
<1>3. ListedAlive'
  BY DEF TabsInv, ListedAlive, Listed, sessionVars
<1> QED BY <1>1, <1>2, <1>3 DEF TabsInv

\* The user's commands find a tab to work on.
LEMMA KeysFindTab ==
    ASSUME TabsInv, KeysReachTabs
    PROVE  /\ Tabs(tabs) /\ Fresh(tabs) /\ tabs.sessions # <<>> /\ Listed(tabs, tabs.active)
           /\ tabs \in TabsType /\ tabs.sessions \in Seq(Session)
           /\ tabs.previous = None \/ Listed(tabs, tabs.previous)
           /\ Len(tabs.sessions) \in Nat /\ DOMAIN tabs.sessions = 1..Len(tabs.sessions)
<1>1. Tabs(tabs) /\ Fresh(tabs) /\ tabs.sessions # <<>>
  BY DEF TabsInv, EmptyWaits, KeysReachTabs
<1>2. /\ Listed(tabs, tabs.active) /\ tabs \in TabsType /\ tabs.sessions \in Seq(Session)
      /\ tabs.previous = None \/ Listed(tabs, tabs.previous)
  BY <1>1 DEF Tabs, Pointers, TabsType
<1> QED BY <1>1, <1>2

\* Activating a listed tab.
LEMMA ActivateStep ==
    ASSUME TabsInv, KeysReachTabs, UNCHANGED sessionVars,
           NEW s, s = None \/ Listed(tabs, s), tabs' = ActivateSession(tabs, s)
    PROVE  TabsInv'
<1>1. Tabs(tabs) /\ Fresh(tabs) /\ tabs.sessions # <<>>
  BY KeysFindTab
<1>2. Tabs(tabs') /\ Fresh(tabs') /\ tabs'.sessions = tabs.sessions
  BY <1>1, ActivateSessionKeeps
<1>3. \A i \in DOMAIN tabs'.sessions : Listed(tabs, tabs'.sessions[i])
  BY <1>2 DEF Listed
<1>4. EmptyWaits'
  BY <1>1, <1>2 DEF EmptyWaits
<1> QED BY <1>2, <1>3, <1>4, TabsStep

\* Moving the active tab.
LEMMA MoveStep ==
    ASSUME TabsInv, KeysReachTabs, UNCHANGED sessionVars,
           NEW i \in DOMAIN tabs.sessions, NEW j \in DOMAIN tabs.sessions,
           tabs' = SwapTabs(tabs, i, j)
    PROVE  TabsInv'
<1>1. Tabs(tabs)
  BY KeysFindTab
<1>2. /\ Tabs(tabs') /\ Fresh(tabs') /\ tabs'.sessions # <<>>
      /\ \A n \in DOMAIN tabs'.sessions : Listed(tabs, tabs'.sessions[n])
  BY <1>1, SwapTabsKeeps
<1>3. EmptyWaits'
  BY <1>2 DEF EmptyWaits
<1> QED BY <1>2, <1>3, TabsStep

\* What the user does.
LEMMA UserKeepsTabsInv ==
    ASSUME ~CloseLast, TabsInv,
           \/ CreateNewTab \/ CloseTab \/ SwitchToTabLeft \/ SwitchToTabRight
           \/ SwitchToPreviousTab
           \/ \E position \in Session : SwitchToTab(position) \/ MoveTabTo(position)
           \/ MoveTabToLeft \/ MoveTabToRight \/ KeyPress
    PROVE  TabsInv'
<1> DEFINE k == IndexOf(tabs, tabs.active)
           n == Len(tabs.sessions)
<1>0. ASSUME KeysReachTabs
      PROVE  k \in 1..n /\ n \in Nat /\ DOMAIN tabs.sessions = 1..n
  BY <1>0, KeysFindTab, IndexOfListed
<1>1. CASE CreateNewTab
  <2>1. created \in Nat /\ created' = created + 1 /\ created' \in Session
    BY <1>1, TabsAssumption DEF CreateNewTab, TabsInv, TypeOK, Session
  <2>2. KeysReachTabs /\ tabs' = ActivateSession(AddSession(tabs, created'), created')
    BY <1>1 DEF CreateNewTab
  <2>3. Tabs(tabs) /\ tabs.sessions # <<>> /\ tabs.sessions \in Seq(Session)
    BY <2>2, KeysFindTab
  <2>4. \A x : Listed(tabs, x) => x <= created
    BY DEF TabsInv, ListedCreated, Listed
  <2>5. ~Listed(tabs, created')
    BY <2>1, <2>4
  <2>6. /\ Tabs(tabs') /\ Fresh(tabs') /\ tabs'.sessions # <<>>
        /\ \A i \in DOMAIN tabs'.sessions :
              tabs'.sessions[i] = created' \/ Listed(tabs, tabs'.sessions[i])
    BY <2>1, <2>2, <2>3, <2>5, CreateSessionKeeps
  <2>7. TypeOK'
    <3>1. process' \in [Session -> {"none", "running", "exited", "posted", "done"}]
      BY <1>1, <2>1 DEF CreateNewTab, TabsInv, TypeOK
    <3> QED BY <1>1, <2>1, <2>6, <3>1 DEF CreateNewTab, TabsInv, TypeOK, Tabs, TabsType, Once
  <2>8. ListedCreated'
    <3>1. ASSUME NEW i \in DOMAIN tabs'.sessions PROVE tabs'.sessions[i] <= created'
      <4>1. CASE tabs'.sessions[i] = created'
        BY <2>1, <4>1 DEF Session
      <4>2. CASE Listed(tabs, tabs'.sessions[i])
        <5>1. tabs'.sessions[i] <= created /\ tabs'.sessions[i] \in Session
          BY <2>3, <2>4, <4>2 DEF Listed
        <5> QED BY <2>1, <5>1, TabsAssumption DEF Session
      <4> QED BY <2>6, <4>1, <4>2
    <3> QED BY <3>1 DEF ListedCreated
  <2>9. EmptyWaits'
    BY <2>6 DEF EmptyWaits
  <2>10. ListedAlive'
    <3>1. \A x : Listed(tabs, x) => process[x] # "done"
      BY DEF TabsInv, ListedAlive, Listed
    <3>2. /\ process \in [Session -> {"none", "running", "exited", "posted", "done"}]
          /\ process' = [process EXCEPT ![created'] = "running"]
      BY <1>1 DEF CreateNewTab, TabsInv, TypeOK
    <3>3. ASSUME NEW i \in DOMAIN tabs'.sessions PROVE process'[tabs'.sessions[i]] # "done"
      <4>1. CASE tabs'.sessions[i] = created'
        BY <2>1, <3>2, <4>1
      <4>2. CASE tabs'.sessions[i] # created' /\ Listed(tabs, tabs'.sessions[i])
        <5>1. tabs'.sessions[i] \in Session
          BY <2>3, <4>2 DEF Listed
        <5> QED BY <3>1, <3>2, <4>2, <5>1
      <4> QED BY <2>6, <4>1, <4>2
    <3> QED BY <3>3 DEF ListedAlive
  <2> QED BY <2>6, <2>7, <2>8, <2>9, <2>10 DEF TabsInv
<1>2. CASE CloseTab
  <2>1. KeysReachTabs /\ UNCHANGED sessionVars /\ n > 1 /\ tabs' = RemoveSession(tabs, tabs.active)
    BY <1>2 DEF CloseTab
  <2>2. Tabs(tabs) /\ Fresh(tabs)
    BY <2>1, KeysFindTab
  <2>3. /\ Tabs(tabs') /\ Fresh(tabs') /\ Len(tabs'.sessions) >= n - 1
        /\ \A i \in DOMAIN tabs'.sessions : Listed(tabs, tabs'.sessions[i])
    BY <2>1, <2>2, RemoveSessionKeeps
  <2>4. tabs'.sessions # <<>>
    <3>1. n \in Nat
      BY <1>0, <2>1
    <3> HIDE DEF n
    <3>2. ASSUME tabs'.sessions = <<>> PROVE FALSE
      <4>1. Len(tabs'.sessions) = 0
        BY <3>2
      <4> QED BY <2>1, <2>3, <3>1, <4>1
    <3> QED BY <3>2
  <2>5. EmptyWaits'
    BY <2>4 DEF EmptyWaits
  <2> QED BY <2>1, <2>3, <2>5, TabsStep
<1>3. CASE SwitchToTabLeft \/ SwitchToTabRight
  <2>1. /\ KeysReachTabs /\ UNCHANGED sessionVars
        /\ tabs' = SwitchAside(TRUE) \/ tabs' = SwitchAside(FALSE)
    BY <1>3 DEF SwitchToTabLeft, SwitchToTabRight
  <2>2. Listed(tabs, tabs.active)
    BY <2>1, KeysFindTab
  <2>3. ASSUME NEW left \in BOOLEAN
        PROVE  \E i \in 1..n : SwitchAside(left) = ActivateSession(tabs, tabs.sessions[i])
    <3> DEFINE m == IF left THEN (IF k > 1 THEN k - 1 ELSE n) ELSE (IF k < n THEN k + 1 ELSE 1)
    <3>1. SwitchAside(left) = ActivateSession(tabs, tabs.sessions[m])
      BY <2>2 DEF SwitchAside
    <3>2. k \in 1..n /\ n \in Nat
      BY <1>0, <2>1
    <3> HIDE DEF k, n
    <3>3. m \in 1..n
      BY <3>2
    <3> HIDE DEF m
    <3> QED BY <3>1, <3>3
  <2>4. PICK i \in 1..n : tabs' = ActivateSession(tabs, tabs.sessions[i])
    BY <2>1, <2>3
  <2>5. Listed(tabs, tabs.sessions[i])
    BY <1>0, <2>1, <2>4 DEF Listed
  <2> QED BY <2>1, <2>4, <2>5, ActivateStep
<1>4. CASE SwitchToPreviousTab
  <2>1. KeysReachTabs /\ UNCHANGED sessionVars /\ tabs' = ActivateSession(tabs, tabs.previous)
    BY <1>4 DEF SwitchToPreviousTab
  <2> QED BY <2>1, KeysFindTab, ActivateStep
<1>5. ASSUME NEW position \in Session, SwitchToTab(position) PROVE TabsInv'
  <2>1. /\ KeysReachTabs /\ UNCHANGED sessionVars /\ position \in DOMAIN tabs.sessions
        /\ tabs' = ActivateSession(tabs, tabs.sessions[position])
    BY <1>5 DEF SwitchToTab
  <2>2. Listed(tabs, tabs.sessions[position])
    BY <2>1 DEF Listed
  <2> QED BY <2>1, <2>2, ActivateStep
<1>6. ASSUME NEW position \in Session, MoveTabTo(position) PROVE TabsInv'
  <2>1. /\ KeysReachTabs /\ UNCHANGED sessionVars /\ position \in DOMAIN tabs.sessions
        /\ tabs' = SwapTabs(tabs, k, position)
    BY <1>6 DEF MoveTabTo
  <2>2. k \in DOMAIN tabs.sessions
    BY <1>0, <2>1
  <2> QED BY <2>1, <2>2, MoveStep
<1>7. CASE MoveTabToLeft \/ MoveTabToRight
  <2>1. /\ KeysReachTabs /\ UNCHANGED sessionVars
        /\ \/ k > 1 /\ tabs' = SwapTabs(tabs, k, k - 1)
           \/ k < n /\ tabs' = SwapTabs(tabs, k, k + 1)
    BY <1>7 DEF MoveTabToLeft, MoveTabToRight
  <2>2. k \in 1..n /\ n \in Nat /\ DOMAIN tabs.sessions = 1..n
    BY <1>0, <2>1
  <2> HIDE DEF k, n
  <2>3. PICK j \in 1..n : tabs' = SwapTabs(tabs, k, j)
    <3>1. k > 1 => k - 1 \in 1..n
      BY <2>2
    <3>2. k < n => k + 1 \in 1..n
      BY <2>2
    <3> QED BY <2>1, <3>1, <3>2
  <2> QED BY <2>1, <2>2, <2>3, MoveStep
<1>8. CASE KeyPress
  <2>1. tabs' = CloseDisplay(tabs) /\ UNCHANGED sessionVars
    BY <1>8 DEF KeyPress
  <2>2. Tabs(tabs) /\ Fresh(tabs) /\ tabs \in TabsType
    BY DEF TabsInv, Tabs
  <2>3. /\ tabs' \in TabsType /\ tabs'.sessions = tabs.sessions /\ tabs'.active = tabs.active
        /\ tabs'.previous = tabs.previous /\ Fresh(tabs')
        /\ tabs.sessions = <<>> => tabs'.window = "closed"
    BY <2>1, <2>2, CloseDisplayKeeps
  <2>4. Tabs(tabs')
    BY <2>2, <2>3, TabsSame
  <2>5. EmptyWaits'
    BY <2>3 DEF EmptyWaits
  <2>6. \A i \in DOMAIN tabs'.sessions : Listed(tabs, tabs'.sessions[i])
    BY <2>3 DEF Listed
  <2> QED BY <2>1, <2>3, <2>4, <2>5, <2>6, TabsStep
<1> QED BY <1>1, <1>2, <1>3, <1>4, <1>5, <1>6, <1>7, <1>8

\* onClosed(), whoever calls it.
LEMMA OnClosedKeeps ==
    ASSUME TabsInv, NEW s \in Session, OnClosed(s), created' = created
    PROVE  /\ Tabs(tabs') /\ Fresh(tabs') /\ EmptyWaits' /\ ListedCreated'
           /\ \A i \in DOMAIN tabs'.sessions :
                 Listed(tabs, tabs'.sessions[i]) /\ tabs'.sessions[i] # s
           /\ waitingKey' \subseteq Session /\ handled' \subseteq Session
<1> DEFINE r == RemoveSession(tabs, s)
<1>1. Tabs(tabs) /\ Fresh(tabs) /\ waitingKey \subseteq Session /\ handled \subseteq Session
  BY DEF TabsInv, TypeOK
<1>2. /\ Tabs(r) /\ Fresh(r) /\ r.window = tabs.window
      /\ \A i \in DOMAIN r.sessions : Listed(tabs, r.sessions[i]) /\ r.sessions[i] # s
      /\ r.sessions = <<>> => r.active = tabs.active
      /\ r.sessions = <<>> /\ tabs.sessions # <<>> => tabs.active = s
  BY <1>1, RemoveSessionKeeps
<1>3. \/ tabs' = r /\ waitingKey' = waitingKey \cup {s} /\ handled' = handled
      \/ tabs' = CloseDisplay(r) /\ handled' = handled \cup {s} /\ waitingKey' = waitingKey
  BY DEF OnClosed
<1> HIDE DEF r
<1>4. r \in TabsType
  BY <1>2 DEF Tabs
<1>5. \A i \in DOMAIN r.sessions : r.sessions[i] <= created
  BY <1>2 DEF TabsInv, ListedCreated, Listed
<1>6. CASE tabs' = r /\ waitingKey' = waitingKey \cup {s} /\ handled' = handled
  <2>1. EmptyWaits'
    BY <1>2, <1>6 DEF EmptyWaits, TabsInv
  <2> QED BY <1>1, <1>2, <1>5, <1>6, <2>1 DEF ListedCreated
<1>7. CASE tabs' = CloseDisplay(r) /\ handled' = handled \cup {s} /\ waitingKey' = waitingKey
  <2>1. /\ tabs' \in TabsType /\ tabs'.sessions = r.sessions /\ tabs'.active = r.active
        /\ tabs'.previous = r.previous /\ Fresh(tabs')
        /\ r.sessions = <<>> => tabs'.window = "closed"
    BY <1>2, <1>4, <1>7, CloseDisplayKeeps
  <2>2. Tabs(tabs')
    BY <1>2, <2>1, TabsSame
  <2>3. EmptyWaits'
    BY <2>1 DEF EmptyWaits
  <2>4. ListedCreated'
    BY <1>5, <2>1 DEF ListedCreated
  <2> QED BY <1>1, <1>2, <1>7, <2>1, <2>2, <2>3, <2>4
<1> QED BY <1>3, <1>6, <1>7

\* Processes that end, their watchers and the first frame.
LEMMA ExitKeepsTabsInv ==
    ASSUME TabsInv,
           \/ \E s \in Session : ProcessExit(s) \/ WatchExit(s) \/ HandleExit(s)
           \/ FirstFrame
    PROVE  TabsInv'
<1>1. ASSUME NEW s \in Session, ProcessExit(s) \/ WatchExit(s) PROVE TabsInv'
  <2>1. /\ UNCHANGED <<tabs, waitingKey, handled, created, painted>>
        /\ process' \in [Session -> {"none", "running", "exited", "posted", "done"}]
    BY <1>1 DEF ProcessExit, WatchExit, TabsInv, TypeOK
  <2>2. ListedAlive'
    <3>1. \A x \in Session : process'[x] = "done" => process[x] = "done"
      BY <1>1 DEF ProcessExit, WatchExit, TabsInv, TypeOK
    <3>2. \A i \in DOMAIN tabs.sessions : tabs.sessions[i] \in Session
      BY DEF TabsInv, Tabs, TabsType
    <3> QED BY <2>1, <3>1, <3>2 DEF TabsInv, ListedAlive
  <2>3. TypeOK' /\ Tabs(tabs') /\ Fresh(tabs') /\ EmptyWaits' /\ ListedCreated'
    BY <2>1 DEF TabsInv, TypeOK, EmptyWaits, ListedCreated
  <2> QED BY <2>2, <2>3 DEF TabsInv
<1>2. ASSUME NEW s \in Session, HandleExit(s) PROVE TabsInv'
  <2>1. OnClosed(s) /\ created' = created /\ painted' = painted
    BY <1>2 DEF HandleExit
  <2>2. process' \in [Session -> {"none", "running", "exited", "posted", "done"}]
    BY <1>2 DEF HandleExit, TabsInv, TypeOK
  <2>3. /\ Tabs(tabs') /\ Fresh(tabs') /\ EmptyWaits' /\ ListedCreated'
        /\ \A i \in DOMAIN tabs'.sessions :
              Listed(tabs, tabs'.sessions[i]) /\ tabs'.sessions[i] # s
        /\ waitingKey' \subseteq Session /\ handled' \subseteq Session
    BY <2>1, OnClosedKeeps
  <2>4. ListedAlive'
    <3>1. \A x \in Session : x # s => process'[x] = process[x]
      BY <1>2 DEF HandleExit, TabsInv, TypeOK
    <3>2. \A i \in DOMAIN tabs'.sessions : tabs'.sessions[i] \in Session
      BY <2>3 DEF Tabs, TabsType
    <3>3. \A x : Listed(tabs, x) => process[x] # "done"
      BY DEF TabsInv, ListedAlive, Listed
    <3> QED BY <2>3, <3>1, <3>2, <3>3 DEF ListedAlive
  <2>5. TypeOK'
    BY <2>1, <2>2, <2>3 DEF TabsInv, TypeOK, Tabs, TabsType, Once
  <2> QED BY <2>3, <2>4, <2>5 DEF TabsInv
<1>3. CASE FirstFrame
  <2>1. tabs.active \in Session /\ painted' \in BOOLEAN /\ created' = created /\ process' = process
    BY <1>3 DEF FirstFrame, TabsInv, Tabs, TabsType
  <2>2. CASE UNCHANGED <<tabs, waitingKey, handled>>
    BY <2>1, <2>2 DEF TabsInv, TypeOK, EmptyWaits, ListedCreated, ListedAlive
  <2>3. CASE OnClosed(tabs.active)
    <3>1. /\ Tabs(tabs') /\ Fresh(tabs') /\ EmptyWaits' /\ ListedCreated'
          /\ \A i \in DOMAIN tabs'.sessions : Listed(tabs, tabs'.sessions[i])
          /\ waitingKey' \subseteq Session /\ handled' \subseteq Session
      BY <2>1, <2>3, OnClosedKeeps
    <3>2. ListedAlive'
      BY <2>1, <3>1 DEF TabsInv, ListedAlive, Listed
    <3>3. TypeOK'
      BY <2>1, <3>1 DEF TabsInv, TypeOK, Tabs, TabsType, Once
    <3> QED BY <3>1, <3>2, <3>3 DEF TabsInv
  <2> QED BY <1>3, <2>2, <2>3 DEF FirstFrame
<1> QED BY <1>1, <1>2, <1>3

\* Every step of the window keeps the invariant.
LEMMA NextTabsInv ==
    ASSUME ~CloseLast
    PROVE  TabsInv /\ [Next]_vars => TabsInv'
<1> SUFFICES ASSUME TabsInv, [Next]_vars PROVE TabsInv'
  OBVIOUS
<1>1. CASE Next
  BY <1>1, UserKeepsTabsInv, ExitKeepsTabsInv DEF Next
<1>2. CASE UNCHANGED vars
  BY <1>2 DEF vars, TabsInv, TypeOK, EmptyWaits, ListedCreated, ListedAlive
<1> QED BY <1>1, <1>2

-----------------------------------------------------------------------------
\* Active and previous session are listed, whatever tabs the user opens, closes and
\* moves and whichever processes end, as long as the last tab is not closed with
\* CloseTab (removeSession(), activateSession()).
THEOREM TabsPointersValid ==
    ASSUME ~CloseLast
    PROVE  Spec => []PointersValid
<1>1. TabsInv => PointersValid
  BY DEF TabsInv, Tabs, Pointers, PointersValid
<1> QED BY <1>1, InitTabsInv, NextTabsInv, PTL DEF Spec

\* What the window shows has not ended, unless it says so and waits for a key press,
\* in whatever order tabs are closed and ends are handled (onClosed()).
THEOREM TabsShownAlive ==
    ASSUME ~CloseLast
    PROVE  Spec => []ShownAlive
<1>1. ASSUME TabsInv PROVE ShownAlive
  <2>1. CASE tabs.sessions = <<>>
    BY <1>1, <2>1 DEF TabsInv, EmptyWaits, ShownAlive
  <2>2. CASE tabs.sessions # <<>>
    <3>1. Listed(tabs, tabs.active)
      BY <1>1, <2>2 DEF TabsInv, Tabs, Pointers
    <3> QED BY <1>1, <3>1 DEF TabsInv, ListedAlive, Listed, ShownAlive
  <2> QED BY <2>1, <2>2
<1> QED BY <1>1, InitTabsInv, NextTabsInv, PTL DEF Spec

\* The status line shows how many tabs there are and which one is shown, after every
\* function that changes either (updateStatusLine()).
THEOREM TabsStatusFresh ==
    ASSUME ~CloseLast
    PROVE  Spec => []TabsInfoFresh
<1>1. TabsInv => TabsInfoFresh
  BY DEF TabsInv, Fresh, TabsInfoFresh
<1> QED BY <1>1, InitTabsInv, NextTabsInv, PTL DEF Spec

\* Under the same condition the types hold, no tab is listed twice, and an open
\* window without tabs waits for a key press.
THEOREM TabsTypes ==
    ASSUME ~CloseLast
    PROVE  Spec => [](TypeOK /\ EmptyWaits)
<1>1. TabsInv => TypeOK /\ EmptyWaits
  BY DEF TabsInv
<1> QED BY <1>1, InitTabsInv, NextTabsInv, PTL DEF Spec
=============================================================================
