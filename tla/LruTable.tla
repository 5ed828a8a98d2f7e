------------------------------ MODULE LruTable ------------------------------
(***************************************************************************)
(* strong_lru_hashtable and strong_lru_cache: one array of entries threads *)
(* three kinds of lists through indices.  Entry 0 is the sentinel: its     *)
(* nextInLRU and prevInLRU are the two ends of the recency list, its       *)
(* nextWithSameHash the head of the unused entries; a hash slot is the     *)
(* head of the entries whose hash falls into it.  A constructor may use    *)
(* the table while its own entry has no value yet (a wide glyph stores its *)
(* other tiles).  A member of the entries is a function of their index.    *)
(***************************************************************************)
EXTENDS Integers, Sequences, SequencesExt, FiniteSets

CONSTANTS
  LruKeys,           \* the hashes used, numbers from 1
  LruEntries,        \* the number of entries
  LruSlots,          \* the number of hash slots
  MaxNested          \* entries that one constructor stores

\* The Requires of the constructor; the constructor of a value stores fewer
\* entries than the table has.
ASSUME LruAssumption ==
  /\ LruEntries \in Nat /\ LruEntries >= 2 /\ LruSlots \in Nat /\ LruSlots >= 1
  /\ LruKeys \subseteq Nat \ {0} /\ MaxNested \in Nat /\ MaxNested < LruEntries

VARIABLE lru

NoEntryValue == 0 - 1       \* an optional without a value
DefaultValue == 0           \* Value{}
LruIndices == 0 .. LruEntries
UnusedEntries(s) ==
  [s EXCEPT !.slots = [k \in 0 .. LruSlots - 1 |-> 0],
            !.hashValue = [i \in LruIndices |-> 0],
            !.prevInLRU = [i \in LruIndices |-> 0], !.nextInLRU = [i \in LruIndices |-> 0],
            !.nextWithSameHash = [i \in LruIndices |-> IF i = LruEntries THEN 0 ELSE i + 1],
            !.value = [i \in LruIndices |-> NoEntryValue], !.size = 0]
LruInit == lru = UnusedEntries([slots |-> <<>>, hashValue |-> <<>>, prevInLRU |-> <<>>, nextInLRU |-> <<>>,
                                nextWithSameHash |-> <<>>, value |-> <<>>, size |-> 0,
                                construct |-> <<>>,      \* the hash and entry that a constructor works for
                                nested |-> 0,
                                asked |-> 0])            \* the hash of the last call

HashTableSlot(h) == h % LruSlots

(***************************************************************************)
(* The lists.                                                              *)
(***************************************************************************)
\* The entries from the first one on, until 0 is next.
Walk(next, first) ==
  LET at[n \in LruIndices] == IF n = 0 THEN first ELSE [next EXCEPT ![0] = 0][at[n - 1]]
      length == CHOOSE n \in 0 .. LruEntries + 1 :
                  (n <= LruEntries => at[n] = 0) /\ \A m \in 0 .. n - 1 : at[m] # 0
  IN  [n \in 1 .. length |-> at[n - 1]]
Used(s) == Walk(s.nextInLRU, s.nextInLRU[0])
UsedBackwards(s) == Reverse(Walk(s.prevInLRU, s.prevInLRU[0]))
Unused(s) == Walk(s.nextWithSameHash, s.nextWithSameHash[0])
Chain(s, h) == Walk(s.nextWithSameHash, s.slots[HashTableSlot(h)])
\* The entry of a hash, 0 without one.
Found(s, h) ==
  LET chain == Chain(s, h)
      hits == {n \in DOMAIN chain : s.hashValue[chain[n]] = h}
  IN  IF hits = {} THEN 0 ELSE chain[Min(hits)]

UnlinkFromLRUChain(s, i) ==
  [s EXCEPT !.nextInLRU[s.prevInLRU[i]] = s.nextInLRU[i], !.prevInLRU[s.nextInLRU[i]] = s.prevInLRU[i]]
LinkToLRUChainHead(s, i) ==
  [s EXCEPT !.nextInLRU = [[@ EXCEPT ![i] = s.nextInLRU[0]] EXCEPT ![0] = i],
            !.prevInLRU = [[@ EXCEPT ![i] = 0] EXCEPT ![s.nextInLRU[0]] = i]]
\* Takes one entry out of the list of its hash slot.
UnlinkFromHash(s, i) ==
  LET slot == HashTableSlot(s.hashValue[i])
      chain == Chain(s, s.hashValue[i])
      at == CHOOSE n \in DOMAIN chain : chain[n] = i
  IN  IF at = 1 THEN [s EXCEPT !.slots[slot] = s.nextWithSameHash[i]]
      ELSE [s EXCEPT !.nextWithSameHash[chain[at - 1]] = s.nextWithSameHash[i]]
Release(s, i) ==
  [s EXCEPT !.nextWithSameHash = [[@ EXCEPT ![i] = s.nextWithSameHash[0]] EXCEPT ![0] = i]]
\* The least recently used entry becomes unused.
Recycle(s) ==
  LET i == s.prevInLRU[0]
      prev == s.prevInLRU[i]
  IN  Release(UnlinkFromHash([s EXCEPT !.nextInLRU[prev] = 0, !.prevInLRU[0] = prev], i), i)
\* The first unused entry is put into the list of its slot.
Popped(s, h) ==
  LET i == s.nextWithSameHash[0]
      slot == HashTableSlot(h)
  IN  [s EXCEPT !.nextWithSameHash = [[@ EXCEPT ![0] = s.nextWithSameHash[i]] EXCEPT ![i] = s.slots[slot]],
                !.value[i] = NoEntryValue, !.hashValue[i] = h, !.slots[slot] = i]
AllocateEntry(s, h) ==
  LET t == IF s.nextWithSameHash[0] = 0 THEN Recycle(s) ELSE [s EXCEPT !.size = @ + 1]
  IN  LinkToLRUChainHead(Popped(t, h), t.nextWithSameHash[0])
HitInPlace(s, i) == s
Hit(s, i) == LinkToLRUChainHead(UnlinkFromLRUChain(s, i), i)
SetValue(s, i, v) == [s EXCEPT !.value[i] = v]
\* The entry of h afterwards is Found(FindEntry(..), h).
FindEntry(s, h, force) ==
  CASE Found(s, h) # 0 -> Hit(s, Found(s, h))
    [] Found(s, h) = 0 /\ force -> LET t == AllocateEntry(s, h) IN SetValue(t, Found(t, h), DefaultValue)
    [] OTHER -> s
\* An entry that is taken out points at the head of the recency list.
Freed(s, i) ==
  [Release([s EXCEPT !.prevInLRU[i] = 0, !.nextInLRU[i] = s.nextInLRU[0]], i) EXCEPT !.size = @ - 1]
RemoveFromSlot(s, h) ==
  LET i == Found(s, h)
      t == UnlinkFromLRUChain(s, i)
  IN  IF i = 0 THEN s ELSE Freed([t EXCEPT !.slots[HashTableSlot(h)] = t.nextWithSameHash[i]], i)
RemoveHash(s, h) ==
  LET i == Found(s, h)
  IN  IF i = 0 THEN s ELSE Freed(UnlinkFromHash(UnlinkFromLRUChain(s, i), i), i)

(***************************************************************************)
(* Operations.  The value constructed for a hash is the hash itself.       *)
(***************************************************************************)
Calls == lru.construct = <<>> \/ lru.nested < MaxNested
Inner(s) == IF lru.construct = <<>> THEN s ELSE [s EXCEPT !.nested = @ + 1]
AskedFor(h, s) == [s EXCEPT !.asked = h]
Other(h) == lru.construct # <<>> => h # Head(lru.construct)
\* touch, contains, try_get and at.
TouchHash(h) == lru.construct = <<>> /\ lru' = AskedFor(h, FindEntry(lru, h, FALSE))
\* operator[] makes a default value.
Subscript(h) == lru.construct = <<>> /\ lru' = AskedFor(h, FindEntry(lru, h, TRUE))
Emplace(h) ==
  LET s == FindEntry(lru, h, TRUE)
  IN  Calls /\ Other(h) /\ lru' = AskedFor(h, Inner(SetValue(s, Found(s, h), h)))
TryEmplace(h) ==
  LET s == FindEntry(FindEntry(lru, h, FALSE), h, TRUE)
  IN  /\ lru.construct = <<>>
      /\ lru' = AskedFor(h, IF Found(lru, h) # 0 THEN FindEntry(lru, h, FALSE) ELSE SetValue(s, Found(s, h), h))
\* get_or_emplace and get_or_try_emplace: the constructor runs with the entry already in the table.
GetOrEmplace(h) ==
  LET s == AllocateEntry(lru, h)
  IN  /\ lru.construct = <<>>
      /\ lru' = AskedFor(h, IF Found(lru, h) # 0 THEN Hit(lru, Found(lru, h))
                            ELSE [s EXCEPT !.construct = <<h, Found(s, h)>>])
Done(s) == [s EXCEPT !.construct = <<>>, !.nested = 0, !.asked = 0]
Constructed ==
  /\ lru.construct # <<>>
  /\ lru' = Done(SetValue(lru, lru.construct[2], lru.construct[1]))
ConstructionFails ==
  /\ lru.construct # <<>>
  /\ lru' = Done(RemoveHash(lru, lru.construct[1]))
RemoveKey(h) == lru.construct = <<>> /\ lru' = AskedFor(0, RemoveHash(lru, h))
ClearTable == lru.construct = <<>> /\ lru' = AskedFor(0, UnusedEntries(lru))

LruNext ==
  \/ \E h \in LruKeys : TouchHash(h) \/ Subscript(h) \/ Emplace(h) \/ TryEmplace(h) \/ GetOrEmplace(h) \/ RemoveKey(h)
  \/ Constructed \/ ConstructionFails \/ ClearTable
LruSpec == LruInit /\ [][LruNext]_lru

(***************************************************************************)
(* The table, read along its recency list, is a least-recently-used cache: *)
(* a hit moves a hash to the front, a full table drops the last one, and   *)
(* no other hash is lost or changes its value (StrongLRUHashtable.h).      *)
(***************************************************************************)
AsCache == [n \in DOMAIN Used(lru) |-> <<lru.hashValue[Used(lru)[n]], lru.value[Used(lru)[n]]>>]
Abstract == INSTANCE LruCache WITH cache <- AsCache, asked <- lru.asked, CacheKeys <- LruKeys, Capacity <- LruEntries,
                                   CacheValues <- {NoEntryValue, DefaultValue} \cup LruKeys
TableIsCache == Abstract!CacheSpec

(***************************************************************************)
(* The three kinds of lists share the entries: forwards and backwards the  *)
(* recency list has the same entries, each of them is in the list of its   *)
(* own slot and in no other, every other entry is unused, and the size     *)
(* counts the used ones (what Require and Guarantee in allocateEntry,      *)
(* recycle and hashes() rely on).                                          *)
(***************************************************************************)
ListsAgree ==
  LET used == Used(lru)
      unused == Unused(lru)
  IN  /\ used = UsedBackwards(lru)
      /\ Len(used) = lru.size /\ IsInjective(used) /\ IsInjective(unused)
      /\ ToSet(used) \cap ToSet(unused) = {} /\ ToSet(used) \cup ToSet(unused) = 1 .. LruEntries
      /\ \A k \in DOMAIN lru.slots :
           LET chain == Walk(lru.nextWithSameHash, lru.slots[k])
           IN  IsInjective(chain) /\ ToSet(chain) = {i \in ToSet(used) : HashTableSlot(lru.hashValue[i]) = k}

(***************************************************************************)
(* A value that a lookup returns was constructed for that hash, and there  *)
(* is one unless its constructor still runs; the constructor stores fewer  *)
(* entries than the table has (get_or_try_emplace keeps the entry's index  *)
(* over the constructor).                                                  *)
(***************************************************************************)
ValueOfItsHash ==
  \A i \in ToSet(Used(lru)) :
    IF lru.value[i] = NoEntryValue THEN lru.construct = <<lru.hashValue[i], i>>
    ELSE lru.value[i] \in {DefaultValue, lru.hashValue[i]}
=============================================================================
