----------------------------- MODULE Hyperlinks -----------------------------
(***************************************************************************)
(* Hyperlinks of the page (OSC 8).  A cell keeps a 16-bit number; what the *)
(* number stands for is in a cache of limited size (lru_cache: a list of   *)
(* items, the most recent first, and a map from a key to its list node).   *)
(* What both caches of the code promise is stated at the end.              *)
(***************************************************************************)
EXTENDS LruTable, Functions

CONSTANTS
  LinkCapacity,      \* 1024 in the code
  LinkIds,           \* how many numbers there are, 2^16 in the code
  MaxLinks,          \* links that are made in a behaviour
  LinkRequests       \* the requests that an application sends, by name

VARIABLE link

\* The cache has fewer links than there are numbers.
ASSUME LinkAssumption ==
  LinkCapacity \in Nat \ {0} /\ LinkIds \in Nat /\ LinkCapacity < LinkIds /\ MaxLinks \in Nat

\* The id and the address of a request, two sequences of letters.
Request == [plain |-> <<<<>>, <<"u">>>>, first |-> <<<<"i">>, <<"v">>>>, second |-> <<<<"i">>, <<"w">>>>,
            third |-> <<<<"i", "v">>, <<"u">>>>, fourth |-> <<<<"i">>, <<"v", "u">>>>, none |-> <<<<>>, <<>>>>]
ASSUME RequestAssumption == LinkRequests \subseteq DOMAIN Request

\* The number of the cursor or of a cell is its own while it was read as it was given and was not given again.
LinkInit == link = [items |-> <<>>,          \* of [node, key, value]
                    mapping |-> <<>>,        \* a key's node
                    nextId |-> 1, cursor |-> 0, own |-> FALSE,
                    want |-> <<<<>>, <<>>>>,
                    pending |-> FALSE,       \* a link that was found is made again
                    split |-> FALSE,         \* that has happened
                    cell |-> [c \in {1, 2} |-> [id |-> 0, own |-> FALSE, want |-> <<<<>>, <<>>>>]],
                    made |-> 0, asked |-> 0, fault |-> FALSE]

(***************************************************************************)
(* The cache.  Moving an item makes a new node at the front.               *)
(***************************************************************************)
FreeNode(s) == CHOOSE n \in 1 .. LinkCapacity + 1 : n \notin {s.items[i].node : i \in DOMAIN s.items}
NodeAt(s, node) == CHOOSE i \in DOMAIN s.items : s.items[i].node = node
MoveItemToFront(s, node) ==
  [s EXCEPT !.items = <<[s.items[NodeAt(s, node)] EXCEPT !.node = FreeNode(s)]>> \o RemoveAt(s.items, NodeAt(s, node))]
Map(s, key) ==
  [s EXCEPT !.mapping = [k \in DOMAIN @ \cup {key} |-> IF k = key THEN Head(s.items).node ELSE s.mapping[k]]]
TryGetInPlace(s, key) == s
TryGet(s, key) == IF key \in DOMAIN s.mapping THEN Map(MoveItemToFront(s, s.mapping[key]), key) ELSE s
EmplaceItemToFront(s, key, value) ==
  Map([s EXCEPT !.items = <<[node |-> FreeNode(s), key |-> key, value |-> value]>> \o @], key)
EvictOneAndPushFront(s, key, value) ==
  LET old == Last(s.items).key
      t == MoveItemToFront(s, s.mapping[old])
  IN  Map([t EXCEPT !.items = [@ EXCEPT ![1].key = key, ![1].value = value],
                    !.mapping = Restrict(@, DOMAIN @ \ {old})], key)
\* Emplacing a key that is there is a failed Require.
CanEmplace(s, key) == key \notin DOMAIN s.mapping
EmplaceLink(s, key, value) ==
  IF Len(s.items) = LinkCapacity THEN EvictOneAndPushFront(s, key, value) ELSE EmplaceItemToFront(s, key, value)

(***************************************************************************)
(* The store.                                                              *)
(***************************************************************************)
HyperlinkById(s, id) ==
  IF id = 0 \/ id \notin DOMAIN s.mapping THEN <<>> ELSE <<s.items[NodeAt(s, s.mapping[id])].value>>
ByUserId(s, userId) == {i \in DOMAIN s.items : s.items[i].value.userId = userId}

(***************************************************************************)
(* OSC 8: without an id every request makes a new link, with one the same  *)
(* id and address give the same link.  hyperlinkIdByUserId() returns the   *)
(* number out of a list node that its touch() has freed: `read' is what is *)
(* there, the number or anything else.  A number that is 0, or is read as  *)
(* 0, is taken for a link not found, and a new one is made.                *)
(***************************************************************************)
CacheId(want) == IF want[1] = <<>> THEN <<>> ELSE want[1] \o want[2]
NewLink(s) ==
  IF ~CanEmplace(s, s.nextId) THEN [s EXCEPT !.fault = TRUE]
  ELSE [EmplaceLink(s, s.nextId, [userId |-> CacheId(s.want), uri |-> s.want[2]]) EXCEPT
          !.cursor = s.nextId, !.own = TRUE, !.nextId = (s.nextId + 1) % LinkIds, !.made = s.made + 1,
          !.asked = s.nextId, !.pending = FALSE, !.split = s.split \/ s.pending,
          !.cell = [c \in {1, 2} |-> [s.cell[c] EXCEPT !.own = s.cell[c].own /\ s.cell[c].id # s.nextId]]]
TouchLink(s, key, read) ==
  [TryGet(s, key) EXCEPT !.cursor = read, !.own = read = key, !.asked = key, !.pending = read = 0]
SetHyperlink(s, read) ==
  LET hits == IF CacheId(s.want) = <<>> THEN {} ELSE ByUserId(s, CacheId(s.want))
  IN  CASE s.want[2] = <<>> -> [s EXCEPT !.cursor = 0, !.own = FALSE]
        [] s.want[2] # <<>> /\ hits # {} -> TouchLink(s, s.items[Min(hits)].key, read)
        [] OTHER -> NewLink(s)
Hyperlink(want, read) ==
  /\ link.made < MaxLinks /\ ~link.fault /\ ~link.pending
  /\ link' = SetHyperlink([link EXCEPT !.asked = 0, !.want = want], read)
\* The rest of the request that found the number 0.
MakeAgain == link.pending /\ ~link.fault /\ link' = NewLink([link EXCEPT !.asked = 0])
\* Text is written into one of the two cells that are watched.
WriteLinked(c) ==
  /\ ~link.fault /\ ~link.pending
  /\ link' = [link EXCEPT !.cell[c] = [id |-> link.cursor, own |-> link.own, want |-> link.want]]
\* A cell is drawn or pointed at: a lookup, which counts as a use.
ShowCell(c) ==
  /\ ~link.fault /\ ~link.pending /\ link.cell[c].id # 0
  /\ link' = [TryGet(link, link.cell[c].id) EXCEPT !.asked = link.cell[c].id]

LinkNext ==
  \/ \E r \in LinkRequests, read \in 0 .. LinkIds - 1 : Hyperlink(Request[r], read)
  \/ MakeAgain
  \/ \E c \in {1, 2} : WriteLinked(c) \/ ShowCell(c)
LinkSpec == LinkInit /\ [][LinkNext]_link

(***************************************************************************)
(* The list and the map together are a least-recently-used cache: a link   *)
(* that is shown stays, the one not used for longest is dropped            *)
(* (LRUCache.h).                                                           *)
(***************************************************************************)
Links == INSTANCE LruCache WITH cache <- [i \in DOMAIN link.items |-> <<link.items[i].key, link.items[i].value.uri>>],
                                asked <- link.asked, CacheKeys <- 0 .. LinkIds - 1, Capacity <- LinkCapacity,
                                CacheValues <- {Request[r][2] : r \in LinkRequests}
ListIsCache == Links!CacheSpec

(***************************************************************************)
(* Every item is reached through its own key, and nothing else is: a stale *)
(* node would be a dangling iterator (moveItemToFront, try_get).           *)
(***************************************************************************)
MappingReachesItems ==
  /\ DOMAIN link.mapping = {link.items[i].key : i \in DOMAIN link.items}
  /\ \A i \in DOMAIN link.items : link.mapping[link.items[i].key] = link.items[i].node

Shown(c) == HyperlinkById(link, link.cell[c].id)
\* Two requests whose id and address are the same when written one after the other.
Collide(v, w) == v # w /\ v[1] # <<>> /\ w[1] # <<>> /\ v[1] \o v[2] = w[1] \o w[2]
(***************************************************************************)
(* A cell's link, when it is still known, is the address it was written    *)
(* with, however many links came and went, unless its number was misread,  *)
(* was given again since, or two requests collide (Screen::hyperlink,      *)
(* HyperlinkStorage::hyperlinkById).                                       *)
(***************************************************************************)
LinkOfCell ==
  \A c \in {1, 2} :
    link.cell[c].own /\ Shown(c) # <<>> =>
      \/ Head(Shown(c)).uri = link.cell[c].want[2]
      \/ \E r \in LinkRequests : Collide(Request[r], link.cell[c].want) /\ Head(Shown(c)).uri = Request[r][2]
(***************************************************************************)
(* Cells of one id and address are one link, so that pointing at one       *)
(* highlights them all, unless the link was forgotten in between or some   *)
(* link was made again for the number 0 (hyperlinkIdByUserId).             *)
(***************************************************************************)
SameLinkTogether ==
  /\ ~link.split /\ link.cell[1].own /\ link.cell[2].own
  /\ link.cell[1].want = link.cell[2].want /\ link.cell[1].want[1] # <<>> /\ Shown(1) # <<>> /\ Shown(2) # <<>>
  => link.cell[1].id = link.cell[2].id

(***************************************************************************)
(* What does not hold of this code: that a number is free when it is given *)
(* (Require of emplace), that a cell leads to its own address whatever was *)
(* given and read since, and that one id and address are one link.         *)
(***************************************************************************)
NumberIsFree == ~link.fault
LinkOfEveryCell == \A c \in {1, 2} : Shown(c) # <<>> => Head(Shown(c)).uri = link.cell[c].want[2]
OneLinkEach == ~link.split

(***************************************************************************)
(* Whatever was evicted, recycled or left half-made, both caches find      *)
(* exactly the entries they hold, each with the value of its key, and a    *)
(* cell leads to the hyperlink it was written with as long as it has its   *)
(* number for itself (StrongLRUHashtable, LRUCache, Screen::hyperlink).    *)
(***************************************************************************)
CachesFindEntries ==
  /\ ListsAgree
  /\ ValueOfItsHash
  /\ MappingReachesItems
  /\ LinkOfCell
  /\ SameLinkTogether
=============================================================================
