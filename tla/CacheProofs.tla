------------------------------ MODULE CacheProofs ------------------------------
(***************************************************************************)
(* The two clients of the linked list, for any number of slots.            *)
(*                                                                         *)
(* First the hash table of hash_map.h: it keeps every basket searchable,   *)
(* loses no entry, and is a finite map of capacity N, for any number of    *)
(* baskets and any keys and values.                                        *)
(*                                                                         *)
(* Then LRUBuffer under every sequence of Get calls, for any set of pages: *)
(* its invariants, which are inductive together, and its order.            *)
(***************************************************************************)
EXTENDS HashMap, ReplacementOrder, ListProofs

Baskets == 0 .. BASKET_NUM - 1
Entry   == [key : Key \cup {NULL_ID}, value : Value \cup {NULL_ID}]

(* Basket b of a table with heads bs over the memory m, and the nodes that *)
(* its baskets reach. *)
ListAt(bs, m, b) == [head |-> bs[b].head, tail |-> bs[b].tail, node |-> m.node, pool |-> m.pool]
Held(bs, m)      == UNION {Reached(ListAt(bs, m, b)) : b \in Baskets}

(* The inductive invariant: every basket has a sound chain, of entries     *)
(* whose keys are different and hash to it, and the pool knows of them.    *)
Placed(d, b) ==
  /\ \A s \in Reached(d) : /\ d.node[s].t.key \in Key /\ d.node[s].t.value \in Value
                           /\ Hash(d.node[s].t.key) = b
  /\ \A r, s \in Reached(d) : d.node[r].t.key = d.node[s].t.key => r = s

Sound(bs, m) ==
  /\ bs \in [Baskets -> [head : Link, tail : Link]]
  /\ m \in [node : Nodes(Entry), pool : PoolType]
  /\ \A b \in Baskets : WellLinked(ListAt(bs, m, b)) /\ Placed(ListAt(bs, m, b), b)
  /\ PoolOK(m.pool, Held(bs, m))

(* Remove only follows a Find, which has put the node at the head. *)
FoundFirst ==
  found # NULL_ID => found \in Key /\ baskets[Hash(found)].head \in Locate(found)

IInv == Sound(baskets, h) /\ FoundFirst

-----------------------------------------------------------------------------
LEMMA HashInBaskets == \A k \in Key : Hash(k) \in Baskets
PROOF BY BasketAssumption DEF Hash, Baskets

(* What Sound says of one basket. *)
LEMMA BasketParts ==
  ASSUME NEW bs, NEW m, Sound(bs, m), NEW b \in Baskets
  PROVE  /\ ListAt(bs, m, b) \in ListsOf(Entry)
         /\ WellLinked(ListAt(bs, m, b)) /\ Placed(ListAt(bs, m, b), b)
         /\ ~Cyclic(ListAt(bs, m, b))
         /\ Reached(ListAt(bs, m, b)) \subseteq Slot
         /\ Reached(ListAt(bs, m, b)) \subseteq Held(bs, m)
         /\ Held(bs, m) \subseteq Slot
PROOF
<1>1. ASSUME NEW a \in Baskets
      PROVE  ListAt(bs, m, a) \in ListsOf(Entry) /\ WellLinked(ListAt(bs, m, a))
  BY DEF Sound, ListsOf, ListAt
<1>2. ASSUME NEW a \in Baskets
      PROVE  ~Cyclic(ListAt(bs, m, a)) /\ Reached(ListAt(bs, m, a)) \subseteq Slot
  <2> DEFINE d == ListAt(bs, m, a)
  <2>1. d \in ListsOf(Entry) /\ WellLinked(d)
    BY <1>1
  <2> HIDE DEF d
  <2>2. PICK n \in Nat : \E c \in [1 .. n -> Slot] : ChainOf(d, c, n)
    BY <2>1 DEF WellLinked
  <2>3. PICK c \in [1 .. n -> Slot] : ChainOf(d, c, n)
    BY <2>2
  <2>4. ~Cyclic(d) /\ Reached(d) \subseteq Slot
    BY <2>1, <2>3, LinkedParts
  <2> QED BY <2>4 DEF d
<1> QED BY <1>1, <1>2 DEF Sound, Held

(* Two baskets reach no node in common. *)
LEMMA BasketsApart ==
  ASSUME NEW bs, NEW m, Sound(bs, m), NEW a \in Baskets, NEW b \in Baskets, a # b
  PROVE  Reached(ListAt(bs, m, a)) \cap Reached(ListAt(bs, m, b)) = {}
PROOF
<1>1. Placed(ListAt(bs, m, a), a) /\ Placed(ListAt(bs, m, b), b)
  BY BasketParts
<1>2. ListAt(bs, m, a).node = m.node /\ ListAt(bs, m, b).node = m.node
  BY DEF ListAt
<1> QED BY <1>1, <1>2 DEF Placed

(* A call replaces the list d of one basket by e: it writes no node but    *)
(* those that d or e reaches, and e takes over no node that another basket *)
(* holds.                                                                  *)
Puts(bs, b, e, bs2, m2) ==
  /\ bs2 = [bs EXCEPT ![b] = [head |-> e.head, tail |-> e.tail]]
  /\ m2 = [node |-> e.node, pool |-> e.pool]

Replaces(bs, m, b, e, bs2, m2) ==
  /\ Puts(bs, b, e, bs2, m2)
  /\ e \in ListsOf(Entry) /\ WellLinked(e) /\ Placed(e, b)
  /\ Reached(e) \cap Held(bs, m) \subseteq Reached(ListAt(bs, m, b))
  /\ \A r \in Slot \ (Reached(ListAt(bs, m, b)) \cup Reached(e)) : e.node[r] = m.node[r]
  /\ PoolOK(e.pool, (Held(bs, m) \ Reached(ListAt(bs, m, b))) \cup Reached(e))

LEMMA ReplacedOK ==
  ASSUME NEW bs, NEW m, Sound(bs, m), NEW b \in Baskets, NEW e, NEW bs2, NEW m2,
         Replaces(bs, m, b, e, bs2, m2)
  PROVE  /\ Sound(bs2, m2)
         /\ ListAt(bs2, m2, b) = e
         /\ \A a \in Baskets \ {b} :
              /\ Reached(ListAt(bs2, m2, a)) = Reached(ListAt(bs, m, a))
              /\ \A r \in Reached(ListAt(bs, m, a)) : m2.node[r] = m.node[r]
PROOF
<1>1. e \in ListsOf(Entry) /\ WellLinked(e) /\ Placed(e, b)
  BY DEF Replaces
<1>0. /\ bs2 = [bs EXCEPT ![b] = [head |-> e.head, tail |-> e.tail]]
      /\ m2 = [node |-> e.node, pool |-> e.pool]
  BY DEF Replaces, Puts
<1>2. /\ bs \in [Baskets -> [head : Link, tail : Link]]
      /\ m \in [node : Nodes(Entry), pool : PoolType]
  BY DEF Sound
<1>3. /\ bs2 \in [Baskets -> [head : Link, tail : Link]]
      /\ m2 \in [node : Nodes(Entry), pool : PoolType]
  BY <1>0, <1>1, <1>2 DEF ListsOf
<1>4. ListAt(bs2, m2, b) = e
  <2>1. e = [head |-> e.head, tail |-> e.tail, node |-> e.node, pool |-> e.pool]
    BY <1>1 DEF ListsOf
  <2>2. bs2[b].head = e.head /\ bs2[b].tail = e.tail /\ m2.node = e.node /\ m2.pool = e.pool
    BY <1>0, <1>2
  <2> QED BY <2>1, <2>2 DEF ListAt
<1>5. ASSUME NEW a \in Baskets \ {b}
      PROVE  /\ WellLinked(ListAt(bs2, m2, a)) /\ Placed(ListAt(bs2, m2, a), a)
             /\ Reached(ListAt(bs2, m2, a)) = Reached(ListAt(bs, m, a))
             /\ \A r \in Reached(ListAt(bs, m, a)) : m2.node[r] = m.node[r]
  <2> DEFINE d == ListAt(bs, m, a)
             f == ListAt(bs2, m2, a)
  <2>1. d \in ListsOf(Entry) /\ WellLinked(d) /\ Placed(d, a) /\ d.node = m.node
        /\ Reached(d) \subseteq Slot /\ Reached(d) \subseteq Held(bs, m)
    BY BasketParts DEF ListAt
  <2>2. f \in ListsOf(Entry) /\ f.head = d.head /\ f.node = m2.node
    BY <1>0, <1>2, <1>3 DEF ListsOf, ListAt
  <2>3. Reached(d) \cap Reached(ListAt(bs, m, b)) = {}
    BY BasketsApart
  <2>4. \A r \in Reached(d) : m2.node[r] = m.node[r]
    <3> HIDE DEF d, f
    <3> QED BY <1>0, <2>1, <2>3 DEF Replaces
  <2> HIDE DEF d, f
  <2>5. \A r \in Reached(d) : f.node[r] = d.node[r]
    BY <2>1, <2>2, <2>4
  <2>6. WellLinked(f) /\ Reached(f) = Reached(d)
    BY <2>1, <2>2, <2>5, OtherList
  <2>7. Placed(f, a)
    BY <2>1, <2>5, <2>6 DEF Placed
  <2> QED BY <2>4, <2>6, <2>7 DEF d, f
<1>6. Held(bs2, m2) = (Held(bs, m) \ Reached(ListAt(bs, m, b))) \cup Reached(e)
  <2>1. \A a \in Baskets \ {b} : Reached(ListAt(bs, m, a)) \cap Reached(ListAt(bs, m, b)) = {}
    BY BasketsApart
  <2>2. \A a \in Baskets : Reached(ListAt(bs2, m2, a)) =
                             IF a = b THEN Reached(e) ELSE Reached(ListAt(bs, m, a))
    BY <1>4, <1>5
  <2> DEFINE R(a) == Reached(ListAt(bs, m, a))
             Q(a) == Reached(ListAt(bs2, m2, a))
  <2>3. /\ \A a \in Baskets \ {b} : R(a) \cap R(b) = {}
        /\ \A a \in Baskets : Q(a) = IF a = b THEN Reached(e) ELSE R(a)
        /\ Held(bs, m) = UNION {R(a) : a \in Baskets}
        /\ Held(bs2, m2) = UNION {Q(a) : a \in Baskets}
    BY <2>1, <2>2 DEF Held
  <2> HIDE DEF R, Q
  <2>4. \A s \in Held(bs2, m2) : s \in (Held(bs, m) \ R(b)) \cup Reached(e)
    BY <2>3
  <2>5. \A s \in (Held(bs, m) \ R(b)) \cup Reached(e) : s \in Held(bs2, m2)
    BY <2>3
  <2> QED BY <2>4, <2>5 DEF R
<1>7. PoolOK(m2.pool, Held(bs2, m2))
  <2>1. m2.pool = e.pool
    BY <1>0
  <2>2. PoolOK(e.pool, (Held(bs, m) \ Reached(ListAt(bs, m, b))) \cup Reached(e))
    BY DEF Replaces
  <2> QED BY <1>6, <2>1, <2>2
<1>8. Sound(bs2, m2)
  BY <1>1, <1>3, <1>4, <1>5, <1>7 DEF Sound
<1> QED BY <1>4, <1>5, <1>8

-----------------------------------------------------------------------------
(* The map that a table holds. *)
Hits(bs, m, k)    == {s \in Reached(ListAt(bs, m, Hash(k))) : m.node[s].t.key = k}
HitOf(bs, m, k)   == CHOOSE s \in Hits(bs, m, k) : TRUE
Holding(bs, m)    == [k \in Key |-> IF Hits(bs, m, k) = {} THEN Absent
                                    ELSE m.node[HitOf(bs, m, k)].t.value]

(* At most one node answers a search. *)
LEMMA OneHit ==
  ASSUME NEW bs, NEW m, Sound(bs, m), NEW k \in Key, NEW s \in Hits(bs, m, k)
  PROVE  /\ Hits(bs, m, k) = {s} /\ HitOf(bs, m, k) = s
         /\ s \in Slot /\ s \in Reached(ListAt(bs, m, Hash(k)))
         /\ m.node[s].t \in Entry /\ m.node[s].t.key = k
         /\ m.node[s].t.value \in Value /\ m.node[s].t.value # Absent
         /\ Holding(bs, m)[k] = m.node[s].t.value
PROOF
<1>1. Hash(k) \in Baskets
  BY HashInBaskets
<1>2. Placed(ListAt(bs, m, Hash(k)), Hash(k)) /\ Reached(ListAt(bs, m, Hash(k))) \subseteq Slot
  BY <1>1, BasketParts
<1>3. ListAt(bs, m, Hash(k)).node = m.node
  BY DEF ListAt
<1>4. Hits(bs, m, k) = {s}
  BY <1>2, <1>3 DEF Hits, Placed
<1>5. s \in Slot /\ s \in Reached(ListAt(bs, m, Hash(k))) /\ m.node[s].t.key = k
  BY <1>2 DEF Hits
<1>6. m.node[s].t.value \in Value /\ m.node[s].t.value # Absent
  BY <1>2, <1>3, <1>5, ValueAssumption DEF Placed, Absent
<1>7. m.node[s].t \in Entry
  BY <1>5 DEF Sound, Nodes
<1>8. HitOf(bs, m, k) = s
  BY <1>4 DEF HitOf
<1>9. Holding(bs, m)[k] = m.node[s].t.value
  BY <1>4, <1>8 DEF Holding
<1> QED BY <1>4, <1>5, <1>6, <1>7, <1>8, <1>9

(* A node that a basket reaches answers the search for its key. *)
LEMMA EveryHit ==
  ASSUME NEW bs, NEW m, Sound(bs, m), NEW s \in Held(bs, m)
  PROVE  m.node[s].t.key \in Key /\ s \in Hits(bs, m, m.node[s].t.key)
PROOF
<1>1. PICK b \in Baskets : s \in Reached(ListAt(bs, m, b))
  BY DEF Held
<1>2. Placed(ListAt(bs, m, b), b) /\ ListAt(bs, m, b).node = m.node
  BY BasketParts DEF ListAt
<1> QED BY <1>1, <1>2 DEF Placed, Hits

(* A call that replaces one basket changes what the searches of other      *)
(* baskets find in nothing.                                                *)
LEMMA OtherHits ==
  ASSUME NEW bs, NEW m, Sound(bs, m), NEW b \in Baskets, NEW e, NEW bs2, NEW m2,
         Replaces(bs, m, b, e, bs2, m2)
  PROVE  /\ \A k \in Key : Hash(k) # b => /\ Hits(bs2, m2, k) = Hits(bs, m, k)
                                          /\ Holding(bs2, m2)[k] = Holding(bs, m)[k]
         /\ \A k \in Key : Hash(k) = b => Hits(bs2, m2, k) = {s \in Reached(e) : e.node[s].t.key = k}
PROOF
<1>1. Sound(bs2, m2) /\ ListAt(bs2, m2, b) = e
  BY ReplacedOK
<1>2. ASSUME NEW k \in Key, Hash(k) # b
      PROVE  Hits(bs2, m2, k) = Hits(bs, m, k) /\ Holding(bs2, m2)[k] = Holding(bs, m)[k]
  <2>1. Hash(k) \in Baskets \ {b}
    BY <1>2, HashInBaskets
  <2>2. /\ Reached(ListAt(bs2, m2, Hash(k))) = Reached(ListAt(bs, m, Hash(k)))
        /\ \A r \in Reached(ListAt(bs, m, Hash(k))) : m2.node[r] = m.node[r]
    BY <2>1, ReplacedOK
  <2>3. Hits(bs2, m2, k) = Hits(bs, m, k)
    BY <2>2 DEF Hits
  <2>4. CASE Hits(bs, m, k) = {}
    BY <2>3, <2>4 DEF Holding
  <2>5. CASE Hits(bs, m, k) # {}
    <3>1. PICK s \in Hits(bs, m, k) : TRUE
      BY <2>5
    <3>2. Holding(bs, m)[k] = m.node[s].t.value /\ s \in Reached(ListAt(bs, m, Hash(k)))
      BY <3>1, OneHit
    <3>3. Holding(bs2, m2)[k] = m2.node[s].t.value
      BY <1>1, <2>3, <3>1, OneHit
    <3> QED BY <2>2, <2>3, <3>2, <3>3
  <2> QED BY <2>3, <2>4, <2>5
<1>3. m2.node = e.node
  BY DEF Replaces, Puts
<1> QED BY <1>1, <1>2, <1>3 DEF Hits

-----------------------------------------------------------------------------
(* Moving the node of key k to the front of its basket: the map is the     *)
(* same, and the node is the head.                                         *)
LEMMA MoveOK ==
  ASSUME NEW bs, NEW m, Sound(bs, m), NEW k \in Key, NEW s \in Hits(bs, m, k),
         NEW bs2, NEW m2,
         Puts(bs, Hash(k), MoveToFront(ListAt(bs, m, Hash(k)), s), bs2, m2)
  PROVE  /\ Sound(bs2, m2)
         /\ Holding(bs2, m2) = Holding(bs, m)
         /\ s \in Hits(bs2, m2, k) /\ bs2[Hash(k)].head = s
PROOF
<1> DEFINE b == Hash(k)
           d == ListAt(bs, m, b)
           e == MoveToFront(d, s)
<1>1. b \in Baskets /\ s \in Slot /\ s \in Reached(d)
  BY HashInBaskets, OneHit
<1>2. /\ d \in ListsOf(Entry) /\ WellLinked(d) /\ Placed(d, b) /\ Reached(d) \subseteq Slot
      /\ Reached(d) \subseteq Held(bs, m) /\ Held(bs, m) \subseteq Slot
      /\ d.node = m.node /\ d.pool = m.pool
  BY <1>1, BasketParts DEF ListAt
<1> HIDE DEF b, d
<1>3. /\ e \in ListsOf(Entry) /\ WellLinked(e) /\ Reached(e) = Reached(d)
      /\ e.head = s /\ e.pool = d.pool
      /\ \A r \in Slot : e.node[r].t = d.node[r].t
      /\ \A r \in Slot \ Reached(d) : e.node[r] = d.node[r]
  BY <1>1, <1>2, MovedOK
<1>4. Puts(bs, b, e, bs2, m2)
  BY DEF b, d
<1> HIDE DEF e
<1>5. Placed(e, b)
  BY <1>2, <1>3 DEF Placed
<1>6. PoolOK(e.pool, (Held(bs, m) \ Reached(d)) \cup Reached(e))
  <2>1. (Held(bs, m) \ Reached(d)) \cup Reached(e) = Held(bs, m)
    BY <1>2, <1>3
  <2>2. e.pool = m.pool
    BY <1>2, <1>3
  <2> QED BY <2>1, <2>2 DEF Sound
<1>7. Replaces(bs, m, b, e, bs2, m2)
  BY <1>2, <1>3, <1>4, <1>5, <1>6 DEF Replaces, d
<1>8. Sound(bs2, m2)
  BY <1>1, <1>7, ReplacedOK
<1>9. \A j \in Key : Hash(j) = b => Hits(bs2, m2, j) = {r \in Reached(e) : e.node[r].t.key = j}
  BY <1>1, <1>7, OtherHits
<1>10. ASSUME NEW j \in Key PROVE Holding(bs2, m2)[j] = Holding(bs, m)[j]
  <2>1. CASE Hash(j) # b
    BY <2>1, <1>1, <1>7, OtherHits
  <2>2. CASE Hash(j) = b
    <3>1. Hits(bs2, m2, j) = Hits(bs, m, j)
      BY <2>2, <1>2, <1>3, <1>9 DEF Hits, d
    <3>2. CASE Hits(bs, m, j) = {}
      BY <3>1, <3>2 DEF Holding
    <3>3. CASE Hits(bs, m, j) # {}
      <4>1. PICK r \in Hits(bs, m, j) : TRUE
        BY <3>3
      <4>2. Holding(bs, m)[j] = m.node[r].t.value /\ r \in Slot
        BY <4>1, OneHit
      <4>3. Holding(bs2, m2)[j] = m2.node[r].t.value
        BY <1>8, <3>1, <4>1, OneHit
      <4>4. m2.node = e.node
        BY <1>4 DEF Puts
      <4> QED BY <4>2, <4>3, <4>4, <1>2, <1>3
    <3> QED BY <3>2, <3>3
  <2> QED BY <2>1, <2>2
<1>11. Holding(bs2, m2) = Holding(bs, m)
  BY <1>10 DEF Holding
<1>12. s \in Hits(bs2, m2, k)
  <2>1. m.node[s].t.key = k
    BY OneHit
  <2>2. Hash(k) = b
    BY DEF b
  <2> QED BY <2>1, <2>2, <1>1, <1>2, <1>3, <1>9
<1>13. bs2[b].head = s
  <2>1. bs \in [Baskets -> [head : Link, tail : Link]]
    BY DEF Sound
  <2> QED BY <2>1, <1>1, <1>3, <1>4 DEF Puts
<1> QED BY <1>8, <1>11, <1>12, <1>13 DEF b

(* Pushing a record for a key that is not there, with a slot to spare. *)
LEMMA PushOK ==
  ASSUME NEW bs, NEW m, Sound(bs, m), NEW k \in Key, Hits(bs, m, k) = {}, NEW v \in Value,
         ~Exhausted(m.pool), NEW bs2, NEW m2,
         Puts(bs, Hash(k), PushFront(ListAt(bs, m, Hash(k)), [key |-> k, value |-> v]), bs2, m2)
  PROVE  /\ Sound(bs2, m2)
         /\ Holding(bs2, m2) = [Holding(bs, m) EXCEPT ![k] = v]
PROOF
<1> DEFINE b == Hash(k)
           x == [key |-> k, value |-> v]
           d == ListAt(bs, m, b)
           e == PushFront(d, x)
           s == NextId(d.pool)
           U == Held(bs, m)
<1>1. b \in Baskets /\ x \in Entry /\ x.key = k /\ x.value = v
  BY HashInBaskets DEF Entry
<1>2. /\ d \in ListsOf(Entry) /\ WellLinked(d) /\ Placed(d, b) /\ Reached(d) \subseteq Slot
      /\ Reached(d) \subseteq U /\ U \subseteq Slot
      /\ d.node = m.node /\ d.pool = m.pool
  BY <1>1, BasketParts DEF ListAt
<1>3. PoolOK(d.pool, U) /\ ~Exhausted(d.pool)
  <2>1. PoolOK(m.pool, U)
    BY DEF Sound
  <2> HIDE DEF d
  <2> QED BY <2>1, <1>2
<1> HIDE DEF b, d, x, U
<1>4. /\ s \in Slot \ U
      /\ e \in ListsOf(Entry) /\ WellLinked(e) /\ Reached(e) = Reached(d) \cup {s}
      /\ PoolOK(e.pool, U \cup {s})
      /\ e.head = s /\ e.node[s].t = x
      /\ \A r \in Slot \ {s} : e.node[r].t = d.node[r].t
      /\ \A r \in Slot \ (Reached(d) \cup {s}) : e.node[r] = d.node[r]
  BY <1>1, <1>2, <1>3, PushedFrontOK
<1>5. Puts(bs, b, e, bs2, m2)
  BY DEF b, d, x
<1> HIDE DEF e, s
<1>6. \A r \in Reached(d) : r \in Slot /\ r # s /\ d.node[r].t.key # k /\ e.node[r].t = d.node[r].t
  <2>1. \A r \in Reached(d) : m.node[r].t.key # k
    BY DEF Hits, d, b
  <2> QED BY <2>1, <1>2, <1>4
<1>7. Placed(e, b)
  <2>1. Hash(k) = b
    BY DEF b
  <2> QED BY <2>1, <1>1, <1>2, <1>4, <1>6 DEF Placed
<1>8. Replaces(bs, m, b, e, bs2, m2)
  <2>1. (U \ Reached(d)) \cup Reached(e) = U \cup {s}
    BY <1>2, <1>4
  <2>2. Reached(e) \cap U \subseteq Reached(d)
    BY <1>4
  <2>3. \A r \in Slot \ (Reached(d) \cup Reached(e)) : e.node[r] = m.node[r]
    BY <1>2, <1>4
  <2>4. PoolOK(e.pool, (U \ Reached(d)) \cup Reached(e))
    BY <2>1, <1>4
  <2> QED BY <2>2, <2>3, <2>4, <1>4, <1>5, <1>7 DEF Replaces, d, U
<1>9. Sound(bs2, m2)
  BY <1>1, <1>8, ReplacedOK
<1>10. \A j \in Key : Hash(j) = b => Hits(bs2, m2, j) = {r \in Reached(e) : e.node[r].t.key = j}
  BY <1>1, <1>8, OtherHits
<1>11. m2.node = e.node
  BY <1>5 DEF Puts
<1>12. ASSUME NEW j \in Key
       PROVE  Holding(bs2, m2)[j] = IF j = k THEN v ELSE Holding(bs, m)[j]
  <2>1. CASE Hash(j) # b
    <3>1. j # k
      BY <2>1 DEF b
    <3> QED BY <2>1, <3>1, <1>1, <1>8, OtherHits
  <2>2. CASE j = k
    <3>1. s \in Hits(bs2, m2, k)
      <4>1. Hash(k) = b
        BY DEF b
      <4> QED BY <4>1, <1>1, <1>4, <1>10
    <3>2. Holding(bs2, m2)[k] = m2.node[s].t.value
      BY <3>1, <1>9, OneHit
    <3> QED BY <2>2, <3>2, <1>1, <1>4, <1>11
  <2>3. CASE Hash(j) = b /\ j # k
    <3>1. Hits(bs2, m2, j) = Hits(bs, m, j)
      <4>1. Hits(bs, m, j) = {r \in Reached(d) : m.node[r].t.key = j}
        BY <2>3 DEF Hits, d
      <4> QED BY <4>1, <2>3, <1>1, <1>2, <1>4, <1>6, <1>10
    <3>2. CASE Hits(bs, m, j) = {}
      BY <3>1, <3>2, <2>3 DEF Holding
    <3>3. CASE Hits(bs, m, j) # {}
      <4>1. PICK r \in Hits(bs, m, j) : TRUE
        BY <3>3
      <4>2. Holding(bs, m)[j] = m.node[r].t.value /\ r \in Reached(d)
        BY <4>1, <2>3, OneHit DEF d
      <4>3. Holding(bs2, m2)[j] = m2.node[r].t.value
        BY <1>9, <3>1, <4>1, OneHit
      <4> QED BY <4>2, <4>3, <2>3, <1>2, <1>6, <1>11
    <3> QED BY <3>2, <3>3
  <2> QED BY <2>1, <2>2, <2>3
<1>13. Holding(bs2, m2) = [Holding(bs, m) EXCEPT ![k] = v]
  <2>1. Holding(bs2, m2) = [j \in Key |-> Holding(bs2, m2)[j]]
        /\ Holding(bs, m) = [j \in Key |-> Holding(bs, m)[j]]
    BY DEF Holding
  <2> QED BY <2>1, <1>12
<1> QED BY <1>9, <1>13

(* Removing the node of key k, when it is the head of its basket. *)
LEMMA RemoveOK ==
  ASSUME NEW bs, NEW m, Sound(bs, m), NEW k \in Key, NEW s \in Hits(bs, m, k),
         bs[Hash(k)].head = s, NEW bs2, NEW m2,
         Puts(bs, Hash(k), Remove(ListAt(bs, m, Hash(k)), s), bs2, m2)
  PROVE  /\ Sound(bs2, m2)
         /\ Holding(bs2, m2) = [Holding(bs, m) EXCEPT ![k] = Absent]
PROOF
<1> DEFINE b == Hash(k)
           d == ListAt(bs, m, b)
           e == PopFront(d)
           U == Held(bs, m)
<1>1. b \in Baskets /\ s \in Slot /\ s \in Reached(d) /\ m.node[s].t.key = k /\ s # NULL_ID
  BY HashInBaskets, OneHit, NAssumption DEF Slot, NULL_ID
<1>2. /\ d \in ListsOf(Entry) /\ WellLinked(d) /\ Placed(d, b) /\ Reached(d) \subseteq Slot
      /\ Reached(d) \subseteq U /\ U \subseteq Slot
      /\ d.node = m.node /\ d.pool = m.pool /\ d.head = s
  BY <1>1, BasketParts DEF ListAt
<1>3. PoolOK(d.pool, U)
  <2>1. PoolOK(m.pool, U)
    BY DEF Sound
  <2> HIDE DEF d
  <2> QED BY <2>1, <1>2
<1> HIDE DEF b, d, U
<1>4. /\ e \in ListsOf(Entry) /\ WellLinked(e) /\ Reached(e) = Reached(d) \ {s}
      /\ PoolOK(e.pool, U \ {s})
      /\ \A r \in Slot : e.node[r].t = d.node[r].t
      /\ \A r \in Slot \ Reached(d) : e.node[r] = d.node[r]
  <2>1. d.head # NULL_ID
    BY <1>1, <1>2
  <2>2. /\ e \in ListsOf(Entry) /\ WellLinked(e) /\ Reached(e) = Reached(d) \ {d.head}
        /\ PoolOK(e.pool, U \ {d.head})
        /\ \A r \in Slot : e.node[r].t = d.node[r].t
        /\ \A r \in Slot \ Reached(d) : e.node[r] = d.node[r]
    BY <2>1, <1>2, <1>3, PoppedFrontOK
  <2> HIDE DEF e
  <2> QED BY <2>2, <1>2
<1>5. Puts(bs, b, e, bs2, m2)
  <2>1. Remove(d, s) = e
    BY <1>1, <1>2 DEF Remove
  <2> QED BY <2>1 DEF b, d
<1> HIDE DEF e
<1>6. Placed(e, b)
  BY <1>2, <1>4 DEF Placed
<1>7. Replaces(bs, m, b, e, bs2, m2)
  <2>1. (U \ Reached(d)) \cup Reached(e) = U \ {s}
    BY <1>1, <1>2, <1>4
  <2>2. PoolOK(e.pool, (U \ Reached(d)) \cup Reached(e))
    BY <2>1, <1>4
  <2>3. \A r \in Slot \ (Reached(d) \cup Reached(e)) : e.node[r] = m.node[r]
    BY <1>2, <1>4
  <2>4. Reached(e) \cap U \subseteq Reached(d)
    BY <1>4
  <2> QED BY <2>2, <2>3, <2>4, <1>4, <1>5, <1>6 DEF Replaces, d, U
<1>8. Sound(bs2, m2)
  BY <1>1, <1>7, ReplacedOK
<1>9. \A j \in Key : Hash(j) = b => Hits(bs2, m2, j) = {r \in Reached(e) : e.node[r].t.key = j}
  BY <1>1, <1>7, OtherHits
<1>10. m2.node = e.node
  BY <1>5 DEF Puts
<1>11. ASSUME NEW j \in Key
       PROVE  Holding(bs2, m2)[j] = IF j = k THEN Absent ELSE Holding(bs, m)[j]
  <2>1. CASE Hash(j) # b
    <3>1. j # k
      BY <2>1 DEF b
    <3> QED BY <2>1, <3>1, <1>1, <1>7, OtherHits
  <2>2. CASE j = k
    <3>1. Hits(bs2, m2, k) = {}
      <4>1. Hash(k) = b
        BY DEF b
      <4>2. \A r \in Reached(d) : d.node[r].t.key = k => r = s
        BY <1>1, <1>2 DEF Placed
      <4> QED BY <4>1, <4>2, <1>2, <1>4, <1>9
    <3> QED BY <2>2, <3>1 DEF Holding
  <2>3. CASE Hash(j) = b /\ j # k
    <3>1. Hits(bs2, m2, j) = Hits(bs, m, j)
      <4>1. Hits(bs, m, j) = {r \in Reached(d) : m.node[r].t.key = j}
        BY <2>3 DEF Hits, d
      <4> QED BY <4>1, <2>3, <1>1, <1>2, <1>4, <1>9
    <3>2. CASE Hits(bs, m, j) = {}
      BY <3>1, <3>2, <2>3 DEF Holding
    <3>3. CASE Hits(bs, m, j) # {}
      <4>1. PICK r \in Hits(bs, m, j) : TRUE
        BY <3>3
      <4>2. Holding(bs, m)[j] = m.node[r].t.value /\ r \in Slot
        BY <4>1, OneHit
      <4>3. Holding(bs2, m2)[j] = m2.node[r].t.value
        BY <1>8, <3>1, <4>1, OneHit
      <4> QED BY <4>2, <4>3, <2>3, <1>2, <1>4, <1>10
    <3> QED BY <3>2, <3>3
  <2> QED BY <2>1, <2>2, <2>3
<1>12. Holding(bs2, m2) = [Holding(bs, m) EXCEPT ![k] = Absent]
  <2>1. Holding(bs2, m2) = [j \in Key |-> Holding(bs2, m2)[j]]
        /\ Holding(bs, m) = [j \in Key |-> Holding(bs, m)[j]]
    BY DEF Holding
  <2> QED BY <2>1, <1>11
<1> QED BY <1>8, <1>12

-----------------------------------------------------------------------------
(* The memory runs out exactly when the map holds N entries. *)
LEMMA FullWhenExhausted ==
  ASSUME NEW bs, NEW m, Sound(bs, m)
  PROVE  Exhausted(m.pool) <=> ~(Cardinality({k \in Key : Holding(bs, m)[k] # Absent}) < N)
PROOF
<1> DEFINE P == {k \in Key : Holding(bs, m)[k] # Absent}
           U == Held(bs, m)
           p == m.pool
           g == [s \in U |-> m.node[s].t.key]
<1>n. N \in Nat \ {0} BY NAssumption
<1>1. PoolOK(p, U) /\ p \in PoolType
  BY DEF Sound
<1>2. Cardinality(P) = Cardinality(U)
  <2>1. ASSUME NEW s \in U
        PROVE  g[s] \in P /\ s \in Hits(bs, m, g[s])
    <3>1. g[s] \in Key /\ s \in Hits(bs, m, g[s])
      BY EveryHit
    <3>2. Holding(bs, m)[g[s]] # Absent
      <4> DEFINE k == g[s]
      <4> HIDE DEF g, k
      <4>1. k \in Key /\ s \in Hits(bs, m, k)
        BY <3>1 DEF k
      <4>2. Holding(bs, m)[k] = m.node[s].t.value /\ m.node[s].t.value # Absent
        BY <4>1, OneHit
      <4> QED BY <4>2 DEF k
    <3> QED BY <3>1, <3>2
  <2>2. ASSUME NEW r \in U, NEW s \in U, g[r] = g[s] PROVE r = s
    <3> HIDE DEF g
    <3>1. r \in Hits(bs, m, g[s]) /\ s \in Hits(bs, m, g[s]) /\ g[s] \in Key
      BY <2>1, <2>2
    <3>2. Hits(bs, m, g[s]) = {s}
      BY <3>1, OneHit
    <3> QED BY <3>1, <3>2
  <2>3. ASSUME NEW k \in P PROVE \E s \in U : g[s] = k
    <3>1. Hits(bs, m, k) # {}
      BY DEF Holding
    <3>2. PICK s \in Hits(bs, m, k) : TRUE
      BY <3>1
    <3>3. s \in Reached(ListAt(bs, m, Hash(k))) /\ m.node[s].t.key = k
      BY <3>2, OneHit
    <3>4. s \in U
      BY <3>3, HashInBaskets, BasketParts
    <3> QED BY <3>3, <3>4
  <2>4. g \in [U -> P]
    BY <2>1
  <2> HIDE DEF g, P, U
  <2>5. g \in Bijection(U, P)
    BY <2>2, <2>3, <2>4 DEF Bijection, Injection, Surjection, IsInjective
  <2>6. ExistsBijection(U, P) /\ IsFiniteSet(U)
    BY <2>5, <1>1 DEF ExistsBijection, PoolOK
  <2> QED BY <2>6, FS_Bijection
<1> HIDE DEF P, U, p
<1>3. /\ p.size = Cardinality(P) /\ Len(p.free) + p.size = p.max_page
      /\ Exhausted(p) => p.max_page = N
      /\ p.max_page \in 1 .. N /\ p.size \in 0 .. N /\ Len(p.free) \in Nat /\ p.free \in Seq(Slot)
  BY <1>1, <1>2 DEF PoolOK, PoolType
<1>4. Exhausted(p) <=> Len(p.free) = 0
  BY <1>3 DEF Exhausted
<1>5. Exhausted(p) <=> ~(Cardinality(P) < N)
  BY <1>3, <1>4, <1>n
<1> QED BY <1>5 DEF P, p

-----------------------------------------------------------------------------
(* The state of HashMap in these terms. *)
LEMMA StateRead ==
  /\ \A b : Basket(b) = ListAt(baskets, h, b)
  /\ \A k : Locate(k) = Hits(baskets, h, k) /\ SlotOf(k) = HitOf(baskets, h, k)
  /\ Stored = Held(baskets, h) /\ Contents = Holding(baskets, h)
  /\ \A b, d : SetBasket(b, d) <=> Puts(baskets, b, d, baskets', h')
PROOF
<1>1. \A b : Basket(b) = ListAt(baskets, h, b)
  BY DEF Basket, ListAt
<1>2. \A k : Locate(k) = Hits(baskets, h, k) /\ SlotOf(k) = HitOf(baskets, h, k)
  BY <1>1 DEF Locate, SlotOf, Hits, HitOf
<1>3. Stored = Held(baskets, h)
  BY <1>1 DEF Stored, Held, Baskets
<1>4. Contents = Holding(baskets, h)
  BY <1>2 DEF Contents, Holding
<1>5. \A b, d : SetBasket(b, d) <=> Puts(baskets, b, d, baskets', h')
  BY DEF SetBasket, Puts
<1> QED BY <1>1, <1>2, <1>3, <1>4, <1>5

LEMMA InitSound ==
  ASSUME MapInit
  PROVE  IInv /\ Holding(baskets, h) = [k \in Key |-> Absent]
PROOF
<1> DEFINE l == NewList(NoEntry)
<1>n. N \in Nat \ {0} /\ NULL_ID \in Link /\ Slot # {}
  BY NAssumption DEF Slot, Link
<1>1. /\ l.head = NULL_ID /\ l.tail = NULL_ID /\ l.pool = NewPool
      /\ l.node = [s \in Slot |-> [t |-> NoEntry, prev |-> NULL_ID, next |-> NULL_ID]]
  BY DEF NewList
<1>2. /\ baskets = [b \in Baskets |-> [head |-> l.head, tail |-> l.tail]]
      /\ h = [node |-> l.node, pool |-> l.pool] /\ found = NULL_ID
  BY DEF MapInit, Baskets
<1> HIDE DEF l
<1>3. baskets \in [Baskets -> [head : Link, tail : Link]]
  BY <1>n, <1>1, <1>2
<1>4. h.node \in Nodes(Entry) /\ h.pool = NewPool
  <2>1. NoEntry \in Entry
    BY DEF NoEntry, Entry, Absent
  <2> QED BY <2>1, <1>n, <1>1, <1>2 DEF Nodes
<1>5. h \in [node : Nodes(Entry), pool : PoolType]
  BY <1>2, <1>4, NewPoolOK
<1>6. ASSUME NEW b \in Baskets
      PROVE  WellLinked(ListAt(baskets, h, b)) /\ Reached(ListAt(baskets, h, b)) = {}
  <2> DEFINE d == ListAt(baskets, h, b)
             c == [j \in 1 .. 0 |-> 0]
  <2>1. d \in ListsOf(Entry)
    BY <1>3, <1>5 DEF ListAt, ListsOf
  <2>2. d.head = NULL_ID
    BY <1>1, <1>2 DEF ListAt
  <2> HIDE DEF d
  <2>3. ChainOf(d, c, 0) /\ Members(c, 0) = {}
    BY <2>2 DEF ChainOf, Members
  <2> HIDE DEF c
  <2>4. WellLinked(d) /\ Reached(d) = {}
    BY <2>1, <2>3, LinkedParts
  <2> QED BY <2>4 DEF d
<1>7. \A b \in Baskets : Placed(ListAt(baskets, h, b), b)
  BY <1>6 DEF Placed
<1>8. PoolOK(h.pool, Held(baskets, h))
  <2>1. Held(baskets, h) = {}
    BY <1>6 DEF Held
  <2> QED BY <2>1, <1>4, NewPoolOK
<1>9. Sound(baskets, h)
  BY <1>3, <1>5, <1>6, <1>7, <1>8 DEF Sound
<1>10. Holding(baskets, h) = [k \in Key |-> Absent]
  <2>1. \A k \in Key : Hits(baskets, h, k) = {}
    BY <1>6, HashInBaskets DEF Hits
  <2> QED BY <2>1 DEF Holding
<1> QED BY <1>2, <1>9, <1>10 DEF IInv, FoundFirst


(* The same after a step. *)
LEMMA StateReadNext ==
  Contents' = Holding(baskets', h') /\ \A k : Locate(k)' = Hits(baskets', h', k)
PROOF
<1>1. \A b : Basket(b)' = ListAt(baskets', h', b)
  BY DEF Basket, ListAt
<1>2. \A k : /\ Locate(k)' = Hits(baskets', h', k)
             /\ SlotOf(k)' = HitOf(baskets', h', k)
  BY <1>1 DEF Locate, SlotOf, Hits, HitOf
<1>3. Contents' = Holding(baskets', h')
  BY <1>2 DEF Contents, Holding
<1> QED BY <1>2, <1>3

(* Whether the search for a key hits is whether the map has it. *)
LEMMA Present ==
  ASSUME NEW bs, NEW m, Sound(bs, m), NEW k \in Key
  PROVE  Hits(bs, m, k) = {} <=> Holding(bs, m)[k] = Absent
PROOF
<1>1. CASE Hits(bs, m, k) = {}
  BY <1>1 DEF Holding
<1>2. CASE Hits(bs, m, k) # {}
  <2>1. PICK s \in Hits(bs, m, k) : TRUE
    BY <1>2
  <2>2. Holding(bs, m)[k] = m.node[s].t.value /\ m.node[s].t.value # Absent
    BY <2>1, OneHit
  <2> QED BY <1>2, <2>2
<1> QED BY <1>1, <1>2

(* FiniteMap counts its entries with the same operator. *)
LEMMA SameCount == ASSUME NEW S PROVE Abstract!Cardinality(S) = Cardinality(S)
PROOF BY DEF Abstract!Cardinality, Cardinality

(* Find(k, v), of a key that is there and of one that is not. *)
LEMMA FindHitStep ==
  ASSUME IInv, NEW k \in Key, FindHit(k)
  PROVE  IInv' /\ Abstract!Find(k)
PROOF
<1> DEFINE s == SlotOf(k)
<1>1. Sound(baskets, h) /\ Hits(baskets, h, k) # {}
  BY StateRead DEF IInv, FindHit
<1>2. s \in Hits(baskets, h, k)
  BY <1>1, StateRead DEF HitOf
<1>3. Puts(baskets, Hash(k), MoveToFront(ListAt(baskets, h, Hash(k)), s), baskets', h')
  BY StateRead DEF FindHit
<1>4. reply' = Answer(TRUE, h.node[s].t.value) /\ found' = k
  BY DEF FindHit
<1> HIDE DEF s
<1>5. /\ Sound(baskets', h') /\ Holding(baskets', h') = Holding(baskets, h)
      /\ s \in Hits(baskets', h', k) /\ baskets'[Hash(k)].head = s
  BY <1>1, <1>2, <1>3, MoveOK
<1>6. Holding(baskets, h)[k] = h.node[s].t.value /\ h.node[s].t.value # Absent
  BY <1>1, <1>2, OneHit
<1>7. Contents' = Contents /\ Contents[k] = h.node[s].t.value /\ Contents[k] # Absent
  BY <1>5, <1>6, StateRead, StateReadNext
<1>8. FoundFirst'
  BY <1>4, <1>5, StateReadNext DEF FoundFirst
<1>9. Abstract!Find(k)
  BY <1>4, <1>7 DEF Abstract!Find, Abstract!Reply, Abstract!Present, Answer
<1> QED BY <1>5, <1>8, <1>9 DEF IInv

LEMMA FindMissStep ==
  ASSUME IInv, NEW k \in Key, FindMiss(k)
  PROVE  IInv' /\ Abstract!Find(k)
PROOF
<1>1. /\ Sound(baskets, h) /\ Hits(baskets, h, k) = {} /\ baskets' = baskets /\ h' = h
      /\ reply' = Answer(FALSE, Absent) /\ found' = NULL_ID
  BY StateRead DEF IInv, FindMiss
<1>2. Contents' = Contents /\ Contents[k] = Absent
  BY <1>1, StateRead, StateReadNext, Present
<1>3. Abstract!Find(k)
  <2>1. (k \in Abstract!Present) = FALSE
    BY <1>2 DEF Abstract!Present
  <2>2. reply' = Answer(k \in Abstract!Present, Contents[k])
    BY <1>1, <1>2, <2>1
  <2> QED BY <1>2, <2>2 DEF Abstract!Find, Abstract!Reply, Answer
<1> QED BY <1>1, <1>3 DEF IInv, FoundFirst

(* Insert(k, v): refused when the key is there or the memory is full. *)
LEMMA InsertPresentStep ==
  ASSUME IInv, NEW k \in Key, NEW v \in Value, InsertPresent(k, v)
  PROVE  IInv' /\ Abstract!Insert(k, v)
PROOF
<1> DEFINE s == SlotOf(k)
<1>1. Sound(baskets, h) /\ Hits(baskets, h, k) # {}
  BY StateRead DEF IInv, InsertPresent
<1>2. s \in Hits(baskets, h, k)
  BY <1>1, StateRead DEF HitOf
<1>3. Puts(baskets, Hash(k), MoveToFront(ListAt(baskets, h, Hash(k)), s), baskets', h')
  BY StateRead DEF InsertPresent
<1>4. reply' = Answer(FALSE, Absent) /\ found' = NULL_ID
  BY DEF InsertPresent
<1> HIDE DEF s
<1>5. Sound(baskets', h') /\ Holding(baskets', h') = Holding(baskets, h)
  BY <1>1, <1>2, <1>3, MoveOK
<1>6. Contents' = Contents /\ Contents[k] # Absent
  BY <1>1, <1>5, StateRead, StateReadNext, Present
<1>7. Abstract!Insert(k, v)
  BY <1>4, <1>6 DEF Abstract!Insert, Abstract!Reply, Abstract!Present, Answer
<1> QED BY <1>4, <1>5, <1>7 DEF IInv, FoundFirst

LEMMA InsertNewStep ==
  ASSUME IInv, NEW k \in Key, NEW v \in Value, InsertNew(k, v)
  PROVE  IInv' /\ Abstract!Insert(k, v)
PROOF
<1> DEFINE d == ListAt(baskets, h, Hash(k))
           x == [key |-> k, value |-> v]
<1>1. Sound(baskets, h) /\ Hits(baskets, h, k) = {}
  BY StateRead DEF IInv, InsertNew
<1>2. Puts(baskets, Hash(k), PushFront(d, x), baskets', h')
  BY StateRead DEF InsertNew
<1>3. reply' = Answer(~Exhausted(h.pool), Absent) /\ found' = NULL_ID
  BY DEF InsertNew
<1>4. Contents[k] = Absent /\ Contents = Holding(baskets, h)
      /\ Contents' = Holding(baskets', h')
  BY <1>1, StateRead, StateReadNext, Present
<1>5. Exhausted(h.pool) <=> ~(Cardinality(Abstract!Present) < N)
  BY <1>1, <1>4, FullWhenExhausted DEF Abstract!Present
<1>6. CASE Exhausted(h.pool)
  <2>1. PushFront(d, x) = d
    BY <1>6 DEF PushFront, ListAt
  <2>2. Hash(k) \in Baskets /\ baskets \in [Baskets -> [head : Link, tail : Link]]
        /\ h \in [node : Nodes(Entry), pool : PoolType]
    BY <1>1, HashInBaskets DEF Sound
  <2>3. baskets' = baskets /\ h' = h
    BY <1>2, <2>1, <2>2 DEF Puts, ListAt
  <2>4. Contents' = Contents
    BY <1>4, <2>3
  <2>5. Abstract!Insert(k, v)
    <3> DEFINE stored == k \notin Abstract!Present /\ Cardinality(Abstract!Present) < N
    <3>1. stored = FALSE /\ (~Exhausted(h.pool)) = FALSE
      BY <1>5, <1>6
    <3>2. reply' = Answer(stored, Absent)
      BY <1>3, <3>1
    <3>3. Contents' = IF stored THEN [Contents EXCEPT ![k] = v] ELSE Contents
      BY <2>4, <3>1
    <3> QED BY <3>2, <3>3, SameCount DEF Abstract!Insert, Abstract!Reply, Answer
  <2> QED BY <1>1, <1>3, <2>3, <2>5 DEF IInv, FoundFirst
<1>7. CASE ~Exhausted(h.pool)
  <2>1. Sound(baskets', h') /\ Contents' = [Contents EXCEPT ![k] = v]
    BY <1>1, <1>2, <1>4, <1>7, PushOK
  <2>2. k \notin Abstract!Present
    BY <1>4 DEF Abstract!Present
  <2>3. Abstract!Insert(k, v)
    <3> DEFINE stored == k \notin Abstract!Present /\ Cardinality(Abstract!Present) < N
    <3>1. stored = TRUE /\ (~Exhausted(h.pool)) = TRUE
      BY <1>5, <1>7, <2>2
    <3>2. reply' = Answer(stored, Absent)
      BY <1>3, <3>1
    <3>3. Contents' = IF stored THEN [Contents EXCEPT ![k] = v] ELSE Contents
      BY <2>1, <3>1
    <3> QED BY <3>2, <3>3, SameCount DEF Abstract!Insert, Abstract!Reply, Answer
  <2> QED BY <1>3, <2>1, <2>3 DEF IInv, FoundFirst
<1> QED BY <1>6, <1>7

(* Remove(k) of the key just found, and of one that is not there. *)
LEMMA RemoveFoundStep ==
  ASSUME IInv, NEW k \in Key, RemoveFound(k)
  PROVE  IInv' /\ Abstract!Remove(k)
PROOF
<1> DEFINE s == SlotOf(k)
<1>1. Sound(baskets, h) /\ Hits(baskets, h, k) # {}
  BY StateRead DEF IInv, RemoveFound
<1>2. s \in Hits(baskets, h, k)
  BY <1>1, StateRead DEF HitOf
<1>3. baskets[Hash(k)].head = s
  <2>1. k # NULL_ID /\ found = k
    BY BasketAssumption DEF RemoveFound, NULL_ID
  <2>2. baskets[Hash(k)].head \in Hits(baskets, h, k)
    BY <2>1, StateRead DEF IInv, FoundFirst
  <2>3. Hits(baskets, h, k) = {s}
    <3> HIDE DEF s
    <3> QED BY <1>1, <1>2, OneHit
  <2> QED BY <2>2, <2>3
<1>4. Puts(baskets, Hash(k), Remove(ListAt(baskets, h, Hash(k)), s), baskets', h')
  BY StateRead DEF RemoveFound
<1>5. reply' = Answer(TRUE, Absent) /\ found' = NULL_ID
  BY DEF RemoveFound
<1> HIDE DEF s
<1>6. /\ Sound(baskets', h')
      /\ Holding(baskets', h') = [Holding(baskets, h) EXCEPT ![k] = Absent]
  BY <1>1, <1>2, <1>3, <1>4, RemoveOK
<1>7. Contents' = [Contents EXCEPT ![k] = Absent] /\ Contents[k] # Absent
  BY <1>1, <1>6, StateRead, StateReadNext, Present
<1>8. Abstract!Remove(k)
  BY <1>5, <1>7 DEF Abstract!Remove, Abstract!Reply, Abstract!Present, Answer
<1> QED BY <1>5, <1>6, <1>8 DEF IInv, FoundFirst

LEMMA RemoveMissingStep ==
  ASSUME IInv, NEW k \in Key, RemoveMissing(k)
  PROVE  IInv' /\ Abstract!Remove(k)
PROOF
<1>1. /\ Sound(baskets, h) /\ Hits(baskets, h, k) = {} /\ baskets' = baskets /\ h' = h
      /\ reply' = Answer(FALSE, Absent) /\ found' = NULL_ID
  BY StateRead DEF IInv, RemoveMissing
<1>2. Contents' = Contents /\ Contents[k] = Absent
  BY <1>1, StateRead, StateReadNext, Present
<1>3. Contents = [Contents EXCEPT ![k] = Absent]
  <2>1. Contents = [j \in Key |-> Contents[j]]
    BY DEF Contents
  <2> QED BY <1>2, <2>1
<1>4. Abstract!Remove(k)
  <2>1. (k \in Abstract!Present) = FALSE
    BY <1>2 DEF Abstract!Present
  <2>2. reply' = Answer(k \in Abstract!Present, Absent)
    BY <1>1, <2>1
  <2> QED BY <1>2, <1>3, <2>2 DEF Abstract!Remove, Abstract!Reply, Answer
<1> QED BY <1>1, <1>4 DEF IInv, FoundFirst

(* Every call keeps the invariant and does to the map what FiniteMap says. *)
LEMMA StepSound ==
  ASSUME IInv, MapNext
  PROVE  IInv' /\ Abstract!Next
PROOF
<1>1. PICK k \in Key : \/ FindHit(k) \/ FindMiss(k) \/ RemoveFound(k) \/ RemoveMissing(k)
                       \/ \E v \in Value : InsertPresent(k, v) \/ InsertNew(k, v)
  BY DEF MapNext
<1>2. CASE FindHit(k)
  BY <1>2, FindHitStep DEF Abstract!Next
<1>3. CASE FindMiss(k)
  BY <1>3, FindMissStep DEF Abstract!Next
<1>4. CASE RemoveFound(k)
  BY <1>4, RemoveFoundStep DEF Abstract!Next
<1>5. CASE RemoveMissing(k)
  BY <1>5, RemoveMissingStep DEF Abstract!Next
<1>6. CASE \E v \in Value : InsertPresent(k, v) \/ InsertNew(k, v)
  BY <1>6, InsertPresentStep, InsertNewStep DEF Abstract!Next
<1> QED BY <1>1, <1>2, <1>3, <1>4, <1>5, <1>6

(* A step that changes nothing. *)
LEMMA StutterSound ==
  ASSUME IInv, UNCHANGED mapVars
  PROVE  IInv' /\ UNCHANGED Abstract!vars
PROOF
<1>1. baskets' = baskets /\ h' = h /\ found' = found /\ reply' = reply
  BY DEF mapVars
<1>2. Contents' = Contents
  BY <1>1, StateRead, StateReadNext
<1>3. FoundFirst'
  BY <1>1, StateRead, StateReadNext DEF IInv, FoundFirst
<1> QED BY <1>1, <1>2, <1>3 DEF IInv, Abstract!vars

LEMMA MapInvariance == MapSpec => []IInv
PROOF
<1>1. MapInit => IInv
  BY InitSound
<1>2. IInv /\ [MapNext]_mapVars => IInv'
  BY StepSound, StutterSound
<1> QED BY <1>1, <1>2, PTL DEF MapSpec

-----------------------------------------------------------------------------
(* The search loops of hash_map.h (lines 36 and 46) end in every basket,   *)
(* although MoveToFront leaves tail and prev behind.                       *)
THEOREM SearchesAlwaysEnd == MapSpec => []SearchesEnd
PROOF
<1>1. IInv => SearchesEnd
  BY BasketParts, StateRead DEF IInv, SearchesEnd, Baskets
<1> QED BY <1>1, MapInvariance, PTL

(* The nodes in use are exactly those that some basket reaches: the        *)
(* allocator and the baskets agree (hash_map.h with MemoryManager.h).      *)
THEOREM EntriesKept == MapSpec => []NoEntryLost
PROOF
<1>1. IInv => NoEntryLost
  BY StateRead DEF IInv, NoEntryLost, Sound
<1> QED BY <1>1, MapInvariance, PTL

(* HashMap is a finite map of capacity N: Find, Insert and Remove answer   *)
(* and change it as FiniteMap says, which is what LRUBuffer assumes.       *)
THEOREM MapImplemented == MapSpec => RefinesFiniteMap
PROOF
<1>1. MapInit => Abstract!Init
  <2> SUFFICES ASSUME MapInit PROVE Abstract!Init
    OBVIOUS
  <2>1. Contents = [k \in Key |-> Absent]
    BY InitSound, StateRead
  <2> QED BY <2>1 DEF MapInit, Abstract!Init, Abstract!Reply, Answer
<1>2. IInv /\ [MapNext]_mapVars => [Abstract!Next]_(Abstract!vars)
  BY StepSound, StutterSound
<1> QED BY <1>1, <1>2, MapInvariance, PTL DEF MapSpec, RefinesFiniteMap, Abstract!Spec

-----------------------------------------------------------------------------
(* The inductive invariant: each conjunct needs the others, since a Get    *)
(* reads its victim through a tail that only LinksOK keeps in use, and     *)
(* frees a slot that only TableOK and PoolOK tie to the page forgotten.    *)
BufferInv == BufferOK(lru)

LEMMA InitInv == Init => BufferInv
PROOF BY NewBufferOK DEF Init, BufferInv

LEMMA NextInv == BufferInv /\ [Next]_vars => BufferInv'
PROOF
<1> SUFFICES ASSUME BufferInv, [Next]_vars PROVE BufferInv'
  OBVIOUS
<1>1. ASSUME NEW i \in Page, Get(i) PROVE BufferInv'
  BY <1>1, BufferGetOK DEF Get, BufferInv
<1>2. ASSUME NEW i \in Page, GetHit(i) PROVE BufferInv'
  BY <1>1, <1>2 DEF GetHit
<1>3. ASSUME NEW i \in Page, GetFill(i) PROVE BufferInv'
  BY <1>1, <1>3 DEF GetFill
<1>4. ASSUME NEW i \in Page, GetEvict(i) PROVE BufferInv'
  BY <1>1, <1>4 DEF GetEvict
<1>5. CASE UNCHANGED vars
  BY <1>5 DEF vars, BufferInv
<1> QED BY <1>2, <1>3, <1>4, <1>5 DEF Next

(* The inductive invariant holds always. *)
LEMMA Invariance == Spec => []BufferInv
PROOF BY InitInv, NextInv, PTL DEF Spec

(* The state of the buffer stays of its type. *)
THEOREM TypeCorrect == Spec => []TypeOK
PROOF
<1>1. BufferInv => TypeOK
  BY DEF BufferInv, BufferOK, TypeOK
<1> QED BY <1>1, Invariance, PTL

(* The page table stays a bijection between the cached pages and the nodes *)
(* that name them, for every N and every sequence of Get calls.            *)
THEOREM TableCorrect == Spec => []PageTableConsistent
PROOF
<1>1. BufferInv => PageTableConsistent
  BY DEF BufferInv, BufferOK, PageTableConsistent
<1> QED BY <1>1, Invariance, PTL

(* No slot is lost and none is both free and in use. *)
THEOREM FramesCorrect == Spec => []FramesInUse
PROOF
<1>1. BufferInv => FramesInUse
  BY DEF BufferInv, BufferOK, FramesInUse
<1> QED BY <1>1, Invariance, PTL

(* A full buffer always has a tail to evict. *)
THEOREM VictimCorrect == Spec => []VictimExists
PROOF
<1>1. BufferInv => VictimExists
  BY DEF BufferInv, BufferOK, VictimExists
<1> QED BY <1>1, Invariance, PTL

-----------------------------------------------------------------------------
(* When every slot is in use, N pages are cached: each slot has one. *)
LEMMA FullCount ==
  ASSUME NEW b, BufferOK(b), Used(b) = Slot
  PROVE  Cardinality(Cached(b)) = N
PROOF
<1> DEFINE f == [p \in Cached(b) |-> b.table[p]]
<1>1. f \in [Cached(b) -> Slot]
  BY PartsOK
<1>2. f \in Injection(Cached(b), Slot)
  BY <1>1 DEF Injection, IsInjective, BufferOK, TableOK
<1>3. f \in Surjection(Cached(b), Slot)
  BY <1>1 DEF Surjection, Used
<1>4. IsFiniteSet(Slot) /\ Cardinality(Slot) = N
  <2>1. N \in Nat \ {0} /\ 0 \in Int /\ N - 1 \in Int
    BY NAssumption
  <2> QED BY <2>1, FS_Interval DEF Slot
<1> HIDE DEF f
<1> QED BY <1>2, <1>3, <1>4, FS_Injection

(* A Get changes the set of cached pages by one page in and at most one    *)
(* page out, the latter only when all slots were taken, and hands on the   *)
(* slot of the page that left.                                             *)
THEOREM EvictionCorrect == Spec => EvictsOneForOne
PROOF
<1> DEFINE gone == Cached(lru) \ Cached(lru')
           come == Cached(lru') \ Cached(lru)
           OneForOne ==
             /\ gone # {} => Cardinality(Cached(lru)) = N
             /\ \A p \in gone, q \in come : lru'.table[q] = lru.table[p]
             /\ Cardinality(gone) <= Cardinality(come) /\ Cardinality(come) <= 1
             /\ \A p \in Cached(lru) \cap Cached(lru') : lru'.table[p] = lru.table[p]
<1>0. /\ Cardinality({}) = 0 /\ \A x : Cardinality({x}) = 1
  BY FS_EmptySet, FS_Singleton
<1>1. ASSUME BufferInv, NEW i \in Page, Get(i) PROVE OneForOne
  <2> DEFINE g == BufferGet(lru, i)
  <2>1. lru' = g.buffer
    BY <1>1 DEF Get
  <2>2. /\ BufferOK(lru) /\ \A p \in Page : p # NULL_ID
        /\ \A p : p \in Cached(lru)  <=> p \in Page /\ lru.table[p] # NULL_ID
        /\ \A p : p \in Cached(lru') <=> p \in Page /\ lru'.table[p] # NULL_ID
    BY <1>1, PageAssumption DEF BufferInv, Cached, NULL_ID
  <2>3. /\ lru'.table[i] = g.ret /\ g.ret # NULL_ID
        /\ g.miss <=> i \notin Cached(lru)
        /\ ~g.miss => lru'.table = lru.table
        /\ g.replace_key # NULL_ID => /\ g.replace_key \in Cached(lru) \ {i}
                                      /\ g.ret = lru.table[g.replace_key]
                                      /\ Used(lru) = Slot
        /\ \A p \in Page \ {i} : lru'.table[p] = IF p = g.replace_key THEN NULL_ID
                                                 ELSE lru.table[p]
        /\ ~g.miss => g.replace_key = NULL_ID
    <3>1. g.ret \in Slot => g.ret # NULL_ID
      BY DEF Slot, NULL_ID
    <3> QED BY <2>1, <2>2, <3>1, BufferGetOK
  <2> HIDE DEF g
  <2>4. CASE ~g.miss
    <3>1. gone = {} /\ come = {}
      BY <2>2, <2>3, <2>4
    <3>2. \A p \in Cached(lru) \cap Cached(lru') : lru'.table[p] = lru.table[p]
      BY <2>3, <2>4
    <3> QED BY <1>0, <3>1, <3>2
  <2>5. CASE g.miss /\ g.replace_key = NULL_ID
    <3>1. gone = {} /\ come = {i}
      BY <2>2, <2>3, <2>5
    <3>2. \A p \in Cached(lru) \cap Cached(lru') : lru'.table[p] = lru.table[p]
      BY <2>2, <2>3, <2>5
    <3> HIDE DEF gone, come
    <3> QED BY <1>0, <3>1, <3>2
  <2>6. CASE g.miss /\ g.replace_key # NULL_ID
    <3>1. gone = {g.replace_key} /\ come = {i}
      BY <2>2, <2>3, <2>6
    <3>2. \A p \in Cached(lru) \cap Cached(lru') : lru'.table[p] = lru.table[p]
      BY <2>2, <2>3, <2>6
    <3>3. Cardinality(Cached(lru)) = N
      BY <2>2, <2>3, <2>6, FullCount
    <3>4. \A p \in gone, q \in come : lru'.table[q] = lru.table[p]
      BY <2>3, <2>6, <3>1
    <3>5. Cardinality(gone) = 1 /\ Cardinality(come) = 1
      BY <1>0, <3>1
    <3> HIDE DEF gone, come
    <3>6. Cardinality(gone) <= Cardinality(come) /\ Cardinality(come) <= 1
      BY <3>5
    <3> QED BY <3>2, <3>3, <3>4, <3>6
  <2> QED BY <2>3, <2>4, <2>5, <2>6
<1>2. BufferInv /\ [Next]_vars => [OneForOne]_vars
  BY <1>1 DEF Next, GetHit, GetFill, GetEvict
<1> QED BY <1>2, Invariance, PTL DEF Spec, EvictsOneForOne


-----------------------------------------------------------------------------
(* S[p] is the set of the cached pages used since p was: a strict total    *)
(* order of the pages of P.                                                *)
OrderOf(P, S) ==
  /\ S \in [Page -> SUBSET Page]
  /\ \A p \in P : S[p] \subseteq P \ {p}
  /\ \A p, q \in P : p # q => (p \in S[q] <=> q \notin S[p])

(* The list is in that order, which is what Get keeps until a hit finds    *)
(* its page at the tail.  The head's prev may be stale, any other node's   *)
(* is not, and no node is its own predecessor.                             *)
InOrder(b, S) ==
  /\ OrderOf(Cached(b), S)
  /\ \A p \in Cached(b) :
       LET s == b.table[p]
           d == b.list
       IN /\ d.head = s => S[p] = {}
          /\ d.tail = s => S[p] = Cached(b) \ {p}
          /\ d.node[s].next = NULL_ID => d.tail = s
          /\ d.node[s].prev # s
          /\ d.head # s => d.node[s].prev # NULL_ID
          /\ \A q \in Cached(b) : d.node[s].next = b.table[q] => S[q] = S[p] \cup {p}
          /\ d.head # s => \A q \in Cached(b) :
                             d.node[s].prev = b.table[q] => S[p] = S[q] \cup {q}

(* The pages used since, once i is used and P are the cached pages. *)
Later(S, P, i) ==
  [p \in Page |-> IF p \in P \ {i} THEN (S[p] \cup {i}) \cap P ELSE {}]

(* No two pages have the same pages used since them, themselves counted or *)
(* not.                                                                    *)
LEMMA OrderUnique ==
  ASSUME NEW P, NEW S, OrderOf(P, S), NEW p \in P, NEW q \in P,
         S[p] = S[q] \/ S[p] \cup {p} = S[q] \cup {q}
  PROVE  p = q
PROOF BY DEF OrderOf

(* The cached pages were P and are R, now that i has been used. *)
Turns(P, S, R, i) ==
  /\ P \in SUBSET Page /\ R \in SUBSET Page /\ i \in R /\ R \subseteq P \cup {i}
  /\ OrderOf(P, S)
  /\ \A p \in R \ {i} : S[p] \subseteq R

(* Using i puts it before the pages that stay, in the order they had. *)
LEMMA LaterOrder ==
  ASSUME NEW P, NEW S, NEW R, NEW i, Turns(P, S, R, i)
  PROVE  /\ OrderOf(R, Later(S, R, i))
         /\ Later(S, R, i)[i] = {}
         /\ \A p \in R \ {i} : Later(S, R, i)[p] = S[p] \cup {i}
PROOF
<1> USE DEF Turns
<1> DEFINE T == Later(S, R, i)
<1>1. T \in [Page -> SUBSET Page] /\ T[i] = {}
  BY DEF Later, OrderOf
<1>2. \A p \in R \ {i} : T[p] = S[p] \cup {i}
  BY DEF Later
<1> HIDE DEF T
<1>3. \A p \in R : T[p] \subseteq R \ {p}
  BY <1>1, <1>2 DEF OrderOf
<1>4. ASSUME NEW p \in R, NEW q \in R, p # q
      PROVE  p \in T[q] <=> q \notin T[p]
  <2>1. CASE p = i
    BY <1>1, <1>2, <1>4, <2>1
  <2>2. CASE q = i
    BY <1>1, <1>2, <1>4, <2>2
  <2>3. CASE p # i /\ q # i
    <3>1. p \in S[q] <=> q \notin S[p]
      BY <1>4, <2>3 DEF OrderOf
    <3> QED BY <1>2, <1>4, <2>3, <3>1
  <2> QED BY <2>1, <2>2, <2>3
<1> QED BY <1>1, <1>2, <1>3, <1>4 DEF OrderOf, T

(* What a move of the node s from between v and n to the head leaves in    *)
(* the links (double_linked_list.h:102-113).                               *)
LEMMA MovedLinks ==
  ASSUME NEW node, node \in [Slot -> NodeType], NEW f \in Slot, NEW s \in Slot, s # f,
         node[s].next \in Slot \ {s}, node[s].prev \in Slot \ {s}
  PROVE  LET m == SetNext(SetPrev(Unlinked(node, s), f, s), s, f)
         IN \A r \in Slot :
              /\ m[r].prev = IF r = f THEN s
                             ELSE IF r = node[s].next THEN node[s].prev ELSE node[r].prev
              /\ m[r].next = IF r = s THEN f
                             ELSE IF r = node[s].prev THEN node[s].next ELSE node[r].next
PROOF
<1> DEFINE n == node[s].next
           v == node[s].prev
           n1 == SetPrev(node, n, v)
           n2 == Unlinked(node, s)
           n3 == SetPrev(n2, f, s)
           n4 == SetNext(n3, s, f)
<1>0. /\ \A r \in Slot : r # NULL_ID
      /\ n \in Slot \ {s} /\ v \in Slot \ {s}
  BY DEF Slot, NULL_ID
<1>1. n1 \in [Slot -> NodeType]
  BY <1>0 DEF SetPrev, NodeType, Link
<1>2. \A r \in Slot : /\ n1[r].next = node[r].next
                      /\ n1[r].prev = IF r = n THEN v ELSE node[r].prev
  BY <1>0 DEF SetPrev, NodeType
<1>3. n2 = SetNext(n1, v, n)
  BY <1>0, <1>2 DEF Unlinked
<1> HIDE DEF n, v, n1
<1>4. n2 \in [Slot -> NodeType]
  BY <1>0, <1>1, <1>3 DEF SetNext, NodeType, Link
<1>5. \A r \in Slot : /\ n2[r].prev = n1[r].prev
                      /\ n2[r].next = IF r = v THEN n ELSE n1[r].next
  BY <1>0, <1>1, <1>3 DEF SetNext, NodeType
<1> HIDE DEF n2
<1>6. n3 \in [Slot -> NodeType]
  BY <1>0, <1>4 DEF SetPrev, NodeType, Link
<1>7. \A r \in Slot : /\ n3[r].next = n2[r].next
                      /\ n3[r].prev = IF r = f THEN s ELSE n2[r].prev
  BY <1>0, <1>4 DEF SetPrev, NodeType
<1> HIDE DEF n3
<1>8. \A r \in Slot : /\ n4[r].prev = n3[r].prev
                      /\ n4[r].next = IF r = s THEN f ELSE n3[r].next
  BY <1>0, <1>6 DEF SetNext, NodeType
<1> HIDE DEF n4
<1>9. \A r \in Slot : /\ n4[r].prev = IF r = f THEN s ELSE IF r = n THEN v ELSE node[r].prev
                      /\ n4[r].next = IF r = s THEN f ELSE IF r = v THEN n ELSE node[r].next
  BY <1>0, <1>2, <1>5, <1>7, <1>8
<1> QED BY <1>9 DEF n, v, n2, n3, n4


(* A hit on a page that is not at the tail, or is the only one there. *)
LEMMA HitOrdered ==
  ASSUME NEW b, BufferOK(b), NEW S, InOrder(b, S), NEW i \in Cached(b),
         b.table[i] = b.list.tail => b.list.tail = b.list.head
  PROVE  InOrder(Hit(b, i).buffer, Later(S, Cached(b), i))
PROOF
<1> DEFINE P == Cached(b)
           tb == b.table
           d == b.list
           node == d.node
           s == tb[i]
           T == Later(S, P, i)
           c == Hit(b, i).buffer
<1>1. /\ P \in SUBSET Page /\ i \in Page /\ i \in P /\ OrderOf(P, S)
      /\ \A p \in P : tb[p] \in Slot /\ tb[p] # NULL_ID /\ tb[p] \in Used(b)
      /\ \A p, q \in P : tb[p] = tb[q] => p = q
      /\ node \in [Slot -> NodeType]
  <2>1. Used(b) \in SUBSET Slot /\ \A p \in P : p \in Page /\ tb[p] \in Used(b)
    BY PartsOK
  <2> QED BY <2>1, PartsOK DEF BufferOK, TableOK, InOrder, NodesOK, Slot, NULL_ID
<1>2. /\ \A r \in Used(b) : \E p \in P : tb[p] = r
      /\ \A p \in P : /\ node[tb[p]].prev \in Used(b) \cup {NULL_ID}
                      /\ node[tb[p]].next \in Used(b) \cup {NULL_ID}
      /\ d.head \in Used(b) /\ d.tail \in Used(b)
  <2>1. LinksOK(b) /\ P # {}
    BY <1>1 DEF BufferOK
  <2> QED BY <2>1, <1>1 DEF Used, LinksOK
<1>3. /\ OrderOf(P, T) /\ T[i] = {} /\ \A p \in P \ {i} : T[p] = S[p] \cup {i}
  <2>1. P \subseteq P \cup {i} /\ \A p \in P \ {i} : S[p] \subseteq P
    BY <1>1 DEF OrderOf
  <2> HIDE DEF P
  <2>2. Turns(P, S, P, i)
    BY <2>1, <1>1 DEF Turns
  <2> QED BY <2>2, LaterOrder
<1>4. /\ c = [list |-> MoveToFront(d, s), table |-> tb]
      /\ Cached(c) = P /\ c.table = tb
  BY DEF Hit, Cached
<1>5. ASSUME NEW p \in P
      PROVE  /\ d.head = tb[p] => S[p] = {}
             /\ d.tail = tb[p] => S[p] = P \ {p}
             /\ node[tb[p]].next = NULL_ID => d.tail = tb[p]
             /\ node[tb[p]].prev # tb[p]
             /\ d.head # tb[p] => node[tb[p]].prev # NULL_ID
             /\ \A q \in P : node[tb[p]].next = tb[q] => S[q] = S[p] \cup {p}
             /\ d.head # tb[p] => \A q \in P : node[tb[p]].prev = tb[q] => S[p] = S[q] \cup {q}
  BY DEF InOrder
<1> HIDE DEF P, T
<1>6. CASE s = d.head
  <2>1. c.list = d
    BY <1>4, <1>6 DEF MoveToFront
  <2>2. S[i] = {} /\ \A p \in P \ {i} : T[p] = S[p]
    <3>1. S[i] = {}
      BY <1>1, <1>5, <1>6
    <3>2. \A p \in P \ {i} : i \in S[p]
      BY <1>1, <3>1 DEF OrderOf
    <3>3. \A p \in P \ {i} : S[p] \cup {i} = S[p]
      BY <3>2
    <3> QED BY <3>1, <3>3, <1>3
  <2>3. \A p \in P : T[p] = S[p]
    BY <2>2, <1>3
  <2> HIDE DEF c, d, tb, node, s
  <2>4. InOrder(c, T)
    BY <1>3, <1>4, <1>5, <2>1, <2>3 DEF InOrder, node
  <2> QED BY <2>4 DEF c, T, P
<1>7. CASE s # d.head
  <2> DEFINE m == SetNext(SetPrev(Unlinked(node, s), d.head, s), s, d.head)
             n == node[s].next
             v == node[s].prev
  <2>1. d.tail # s /\ s # NULL_ID /\ s \in Slot /\ d.head \in Slot
    BY <1>1, <1>2, <1>7, PartsOK
  <2>2. c.list = [head |-> s, tail |-> d.tail, node |-> m, pool |-> d.pool]
    BY <1>4, <1>7, <2>1 DEF MoveToFront
  <2>3. PICK pn \in P : n = tb[pn] /\ S[pn] = S[i] \cup {i}
    <3>1. n # NULL_ID
      BY <1>1, <1>5, <2>1
    <3>2. PICK q \in P : n = tb[q]
      BY <1>1, <1>2, <3>1
    <3> QED BY <1>1, <1>5, <3>2
  <2>4. PICK pv \in P : v = tb[pv] /\ S[i] = S[pv] \cup {pv}
    <3>1. v # NULL_ID
      BY <1>1, <1>5, <1>7
    <3>2. PICK q \in P : v = tb[q]
      BY <1>1, <1>2, <3>1
    <3> QED BY <1>1, <1>5, <1>7, <3>2
  <2>5. PICK ph \in P : d.head = tb[ph] /\ S[ph] = {}
    BY <1>2, <1>5
  <2>6. pn # i /\ pv # i /\ pn # pv /\ ph # i /\ ph # pn
    <3>1. i \notin S[i] /\ i \in S[pn] /\ pv \in S[i] /\ pv \notin S[pv] /\ pv \in S[pn]
      BY <1>1, <2>3, <2>4 DEF OrderOf
    <3> QED BY <3>1, <1>7, <2>5
  <2>7. n \in Slot \ {s} /\ v \in Slot \ {s}
    BY <1>1, <2>3, <2>4, <2>6
  <2>8. \A r \in Slot :
          /\ m[r].prev = IF r = d.head THEN s ELSE IF r = n THEN v ELSE node[r].prev
          /\ m[r].next = IF r = s THEN d.head ELSE IF r = v THEN n ELSE node[r].next
    <3> HIDE DEF node, s, d, tb
    <3> QED BY <1>1, <1>7, <2>1, <2>7, MovedLinks
  <2>9. /\ c.list.head = s /\ c.list.tail = d.tail /\ c.list.node = m
    BY <2>2
  <2> HIDE DEF c, d, tb, node, s, m, n, v
  <2>10. ASSUME NEW p \in P
         PROVE  /\ m[tb[p]].prev = IF p = ph THEN s ELSE IF p = pn THEN v ELSE node[tb[p]].prev
                /\ m[tb[p]].next = IF p = i THEN tb[ph]
                                   ELSE IF p = pv THEN tb[pn] ELSE node[tb[p]].next
    <3>1. /\ tb[p] \in Slot /\ (tb[p] = d.head <=> p = ph) /\ (tb[p] = n <=> p = pn)
          /\ (tb[p] = s <=> p = i) /\ (tb[p] = v <=> p = pv)
      BY <1>1, <2>3, <2>4, <2>5 DEF s
    <3> QED BY <3>1, <2>3, <2>5, <2>8
  <2>11. ASSUME NEW p \in P
         PROVE  /\ s = tb[p] => T[p] = {}
                /\ d.tail = tb[p] => T[p] = P \ {p}
                /\ m[tb[p]].next = NULL_ID => d.tail = tb[p]
                /\ m[tb[p]].prev # tb[p]
                /\ s # tb[p] => m[tb[p]].prev # NULL_ID
    <3>1. s = tb[p] <=> p = i
      BY <1>1 DEF s
    <3>2. d.tail = tb[p] => T[p] = P \ {p}
      BY <1>1, <1>3, <1>5, <2>1, <3>1
    <3>3. m[tb[p]].next = NULL_ID => d.tail = tb[p]
      BY <1>1, <1>5, <2>10
    <3>4. m[tb[p]].prev # tb[p]
      BY <1>1, <1>5, <2>4, <2>6, <2>10 DEF s
    <3>5. s # tb[p] => m[tb[p]].prev # NULL_ID
      <4>1. d.head = tb[p] <=> p = ph
        BY <1>1, <2>5
      <4> QED BY <1>1, <1>5, <2>1, <2>4, <2>10, <3>1, <4>1
    <3> QED BY <1>3, <3>1, <3>2, <3>3, <3>4, <3>5
  <2>12. ASSUME NEW p \in P, NEW q \in P, m[tb[p]].next = tb[q]
         PROVE  T[q] = T[p] \cup {p}
    <3>1. CASE p = i
      <4>1. q = ph
        BY <1>1, <2>10, <2>12, <3>1
      <4> QED BY <1>3, <2>5, <2>6, <3>1, <4>1
    <3>2. CASE p = pv
      <4>1. q = pn
        BY <1>1, <2>6, <2>10, <2>12, <3>2
      <4>2. S[pn] = S[pv] \cup {pv} \cup {i}
        BY <2>3, <2>4
      <4> QED BY <1>3, <2>6, <3>2, <4>1, <4>2
    <3>3. CASE p \notin {i, pv}
      <4>1. S[q] = S[p] \cup {p}
        BY <1>5, <2>10, <2>12, <3>3
      <4>2. q # i
        BY <1>1, <2>4, <3>3, <4>1, OrderUnique
      <4> QED BY <1>3, <3>3, <4>1, <4>2
    <3> QED BY <3>1, <3>2, <3>3
  <2>13. ASSUME NEW p \in P, NEW q \in P, s # tb[p], m[tb[p]].prev = tb[q]
         PROVE  T[p] = T[q] \cup {q}
    <3>1. p # i
      BY <2>13 DEF s
    <3>2. CASE p = ph
      <4>1. q = i
        BY <1>1, <2>10, <2>13, <3>2 DEF s
      <4> QED BY <1>3, <2>5, <3>1, <3>2, <4>1
    <3>3. CASE p = pn
      <4>1. q = pv
        BY <1>1, <2>4, <2>6, <2>10, <2>13, <3>3
      <4>2. S[pn] = S[pv] \cup {pv} \cup {i}
        BY <2>3, <2>4
      <4> QED BY <1>3, <2>6, <3>3, <4>1, <4>2
    <3>4. CASE p \notin {ph, pn}
      <4>1. d.head # tb[p]
        BY <1>1, <2>5, <3>4
      <4>2. S[p] = S[q] \cup {q}
        BY <1>5, <2>10, <2>13, <3>4, <4>1
      <4>3. q # i
        <5>1. q = i => S[p] = S[pn]
          BY <2>3, <4>2
        <5> QED BY <1>1, <3>4, <5>1, OrderUnique
      <4> QED BY <1>3, <3>1, <4>2, <4>3
    <3> QED BY <3>2, <3>3, <3>4
  <2>14. InOrder(c, T)
    BY <1>3, <1>4, <2>9, <2>11, <2>12, <2>13 DEF InOrder
  <2> QED BY <2>14 DEF c, T, P
<1> QED BY <1>6, <1>7


(* What a push needs of the list: every link followed is to a page's node. *)
Shape(b) ==
  /\ b.table \in [Page -> Link] /\ b.list.node \in [Slot -> NodeType]
  /\ \A p, q \in Cached(b) : b.table[p] = b.table[q] => p = q
  /\ {b.list.head, b.list.tail} \subseteq Used(b) \cup {NULL_ID}
  /\ b.list.head = NULL_ID <=> Cached(b) = {}
  /\ \A p \in Cached(b) :
       /\ b.list.node[b.table[p]].next \in Used(b) \cup {NULL_ID}
       /\ b.list.head # b.table[p] => b.list.node[b.table[p]].prev \in Used(b) \cup {NULL_ID}

LEMMA Shaped == ASSUME NEW b, BufferOK(b) PROVE Shape(b)
PROOF
<1>1. /\ \A p \in Cached(b) : b.table[p] \in Used(b)
      /\ NodesOK(b.list.node, Used(b)) /\ b.table \in [Page -> Link]
      /\ {b.list.head, b.list.tail} \subseteq Used(b) \cup {NULL_ID}
      /\ \A r \in Used(b) : r # NULL_ID /\ \E p \in Cached(b) : b.table[p] = r
  <2>1. \A r \in Used(b) : r # NULL_ID
    BY PartsOK DEF Slot, NULL_ID
  <2> QED BY <2>1, PartsOK
<1>2. b.list.head = NULL_ID <=> Cached(b) = {}
  BY <1>1 DEF BufferOK, LinksOK
<1> QED BY <1>1, <1>2 DEF Shape, BufferOK, TableOK, NodesOK

(* PushFront(i) puts i before the pages of the list.                       *)
LEMMA PushedOrdered ==
  ASSUME NEW b, Shape(b), NEW S, InOrder(b, S), NEW i \in Page, i \notin Cached(b),
         ~Exhausted(b.list.pool), NextId(b.list.pool) \in Slot \ Used(b)
  PROVE  InOrder([list  |-> PushFront(b.list, i),
                  table |-> [b.table EXCEPT ![i] = NextId(b.list.pool)]],
                 Later(S, Cached(b) \cup {i}, i))
PROOF
<1> DEFINE P == Cached(b)
           R == P \cup {i}
           tb == b.table
           d == b.list
           node == d.node
           first == d.head
           s == NextId(d.pool)
           made == Created(node, s, i, first, NULL_ID)
           m == SetPrev(made, first, s)
           tail == IF first = NULL_ID THEN s ELSE d.tail
           tc == [tb EXCEPT ![i] = s]
           T == Later(S, R, i)
           c == [list |-> PushFront(d, i), table |-> tc]
<1>1. /\ P \in SUBSET Page /\ OrderOf(P, S) /\ i \notin P /\ s \in Slot /\ s # NULL_ID
      /\ s \notin Used(b)
      /\ \A p \in P : tb[p] \in Slot /\ tb[p] # NULL_ID /\ tb[p] \in Used(b) /\ tb[p] # s
      /\ \A p, q \in P : tb[p] = tb[q] => p = q
      /\ first = NULL_ID <=> P = {}
      /\ first # s /\ first \in Slot \cup {NULL_ID}
      /\ d.tail # s
  BY DEF Shape, InOrder, Cached, Used, Link, Slot, NULL_ID
<1>2. /\ \A r \in Used(b) : \E p \in P : tb[p] = r
      /\ \A p \in P : /\ node[tb[p]].next # s
                      /\ first # tb[p] => node[tb[p]].prev # s
  BY <1>1 DEF Shape, Used
<1>3. /\ OrderOf(R, T) /\ T[i] = {} /\ \A p \in P : T[p] = S[p] \cup {i}
  <2>1. Turns(P, S, R, i)
    BY <1>1 DEF Turns, OrderOf
  <2>2. R \ {i} = P
    BY <1>1
  <2> HIDE DEF P, R
  <2> QED BY <2>1, <2>2, LaterOrder
<1>4. /\ PushFront(d, i).head = s /\ PushFront(d, i).tail = tail /\ PushFront(d, i).node = m
  BY DEF PushFront
<1>5. \A r \in Slot :
        /\ m[r].prev = IF r = first THEN s ELSE IF r = s THEN NULL_ID ELSE node[r].prev
        /\ m[r].next = IF r = s THEN first ELSE node[r].next
  <2>1. \A r \in Slot : /\ made[r].next = IF r = s THEN first ELSE node[r].next
                        /\ made[r].prev = IF r = s THEN NULL_ID ELSE node[r].prev
    BY <1>1 DEF Created, Shape
  <2>2. made \in [Slot -> NodeType]
    BY <1>1 DEF Created, Shape, NodeType, Link
  <2> HIDE DEF made, s, first
  <2>3. CASE first = NULL_ID
    <3>1. m = made /\ \A r \in Slot : r # first
      BY <2>3 DEF SetPrev, Slot, NULL_ID
    <3> HIDE DEF m
    <3> QED BY <2>1, <3>1
  <2>4. CASE first \in Slot
    <3>1. first # NULL_ID
      BY <2>4 DEF Slot, NULL_ID
    <3>2. m = [made EXCEPT ![first].prev = s]
      BY <3>1 DEF SetPrev
    <3> HIDE DEF m
    <3> QED BY <1>1, <2>1, <2>2, <2>4, <3>2 DEF NodeType
  <2> QED BY <1>1, <2>3, <2>4
<1>6. /\ \A p \in Page : tc[p] = IF p = i THEN s ELSE tb[p]
      /\ Cached(c) = R
  <2>1. \A p \in Page : tc[p] = IF p = i THEN s ELSE tb[p]
    BY DEF Shape
  <2> QED BY <2>1, <1>1 DEF Cached
<1>7. ASSUME NEW p \in P
      PROVE  /\ d.head = tb[p] => S[p] = {}
             /\ d.tail = tb[p] => S[p] = P \ {p}
             /\ node[tb[p]].next = NULL_ID => d.tail = tb[p]
             /\ node[tb[p]].prev # tb[p]
             /\ d.head # tb[p] => node[tb[p]].prev # NULL_ID
             /\ \A q \in P : node[tb[p]].next = tb[q] => S[q] = S[p] \cup {p}
             /\ d.head # tb[p] => \A q \in P : node[tb[p]].prev = tb[q] => S[p] = S[q] \cup {q}
  BY DEF InOrder
<1>8. c.list = PushFront(d, i) /\ c.table = tc
  OBVIOUS
<1> HIDE DEF P, R, T, c, tc, m, made, node, tb, d, s
<1>9. ASSUME NEW p \in P
      PROVE  /\ p \in Page /\ p # i /\ tc[p] = tb[p]
             /\ m[tb[p]].prev = IF tb[p] = first THEN s ELSE node[tb[p]].prev
             /\ m[tb[p]].next = node[tb[p]].next
  BY <1>1, <1>5, <1>6
<1>10. /\ tc[i] = s /\ m[s].prev = NULL_ID /\ m[s].next = first
  BY <1>1, <1>5, <1>6
<1>11. ASSUME NEW p \in R
       PROVE  /\ s = tc[p] => T[p] = {}
              /\ tail = tc[p] => T[p] = R \ {p}
              /\ m[tc[p]].next = NULL_ID => tail = tc[p]
              /\ m[tc[p]].prev # tc[p]
              /\ s # tc[p] => m[tc[p]].prev # NULL_ID
  <2>1. CASE p = i
    <3>1. tail = s => P = {}
      <4>1. first # NULL_ID => d.tail # s
        BY <1>1
      <4> QED BY <1>1, <4>1
    <3>2. P = {} => R = {i}
      BY DEF R
    <3> QED BY <1>1, <1>3, <1>10, <2>1, <3>1, <3>2
  <2>2. CASE p \in P
    <3>1. tail = tb[p] => d.tail = tb[p]
      BY <1>1, <2>2
    <3>2. tail = tb[p] => T[p] = R \ {p}
      BY <1>1, <1>3, <1>7, <2>2, <3>1 DEF R
    <3>3. node[tb[p]].next = NULL_ID => tail = tb[p]
      BY <1>1, <1>7, <2>2
    <3> QED BY <1>1, <1>7, <1>9, <2>2, <3>2, <3>3
  <2> QED BY <2>1, <2>2 DEF R
<1>12. ASSUME NEW p \in R, NEW q \in R, m[tc[p]].next = tc[q]
       PROVE  T[q] = T[p] \cup {p}
  <2>1. CASE p = i
    <3>1. tc[q] = first
      BY <1>10, <1>12, <2>1
    <3>2. q \in P
      BY <1>1, <1>10, <3>1 DEF R
    <3>3. S[q] = {}
      BY <1>7, <1>9, <3>1, <3>2
    <3> QED BY <1>3, <2>1, <3>2, <3>3
  <2>2. CASE p \in P
    <3>1. node[tb[p]].next = tc[q]
      BY <1>9, <1>12, <2>2
    <3>2. q \in P
      BY <1>2, <1>10, <2>2, <3>1 DEF R
    <3>3. S[q] = S[p] \cup {p}
      BY <1>7, <1>9, <2>2, <3>1, <3>2
    <3> QED BY <1>3, <2>2, <3>2, <3>3
  <2> QED BY <2>1, <2>2 DEF R
<1>13. ASSUME NEW p \in R, NEW q \in R, s # tc[p], m[tc[p]].prev = tc[q]
       PROVE  T[p] = T[q] \cup {q}
  <2>1. p \in P
    BY <1>10, <1>13 DEF R
  <2>2. CASE tb[p] = first
    <3>1. q = i
      BY <1>1, <1>9, <1>13, <2>1, <2>2 DEF R
    <3>2. S[p] = {}
      BY <1>7, <2>1, <2>2 DEF first
    <3> QED BY <1>3, <2>1, <3>1, <3>2
  <2>3. CASE tb[p] # first
    <3>1. node[tb[p]].prev = tc[q]
      BY <1>9, <1>13, <2>1, <2>3
    <3>2. q \in P
      BY <1>2, <1>10, <2>1, <2>3, <3>1 DEF R
    <3>3. S[p] = S[q] \cup {q}
      BY <1>7, <1>9, <2>1, <2>3, <3>1, <3>2
    <3> QED BY <1>3, <2>1, <3>2, <3>3
  <2> QED BY <2>2, <2>3
<1>14. c.list.head = s /\ c.list.tail = tail /\ c.list.node = m
  BY <1>4, <1>8
<1> HIDE DEF tail
<1>15. InOrder(c, T)
  BY <1>3, <1>6, <1>8, <1>11, <1>12, <1>13, <1>14 DEF InOrder
<1> QED BY <1>15 DEF c, T, R, P, tc, tb, d, s


(* PopBack, while the list is in order, takes the page x used least        *)
(* recently, and leaves the others in order.                               *)
Popped(b) ==
  [list  |-> PopBack(b.list),
   table |-> [b.table EXCEPT ![b.list.node[b.list.tail].t] = NULL_ID]]

LEMMA PoppedOrdered ==
  ASSUME NEW b, BufferOK(b), NEW S, InOrder(b, S), Cached(b) # {}
  PROVE  LET x == b.list.node[b.list.tail].t
         IN /\ x \in Cached(b) /\ b.table[x] = b.list.tail /\ S[x] = Cached(b) \ {x}
            /\ Cached(Popped(b)) = Cached(b) \ {x}
            /\ b.list.tail \in Slot \ Used(Popped(b))
            /\ Shape(Popped(b)) /\ InOrder(Popped(b), S)
PROOF
<1> DEFINE P == Cached(b)
           tb == b.table
           d == b.list
           node == d.node
           s == d.tail
           x == node[s].t
           t == node[s].prev
           first == IF t = NULL_ID THEN NULL_ID ELSE d.head
           m == SetNext(node, t, NULL_ID)
           tc == [tb EXCEPT ![x] = NULL_ID]
           R == P \ {x}
           c == Popped(b)
<1>1. /\ P \in SUBSET Page /\ OrderOf(P, S)
      /\ \A p \in P : tb[p] \in Slot /\ tb[p] # NULL_ID /\ tb[p] \in Used(b)
      /\ \A p, q \in P : tb[p] = tb[q] => p = q
      /\ node \in [Slot -> NodeType] /\ tb \in [Page -> Link]
      /\ x \in P /\ tb[x] = s /\ s \in Slot /\ d.head \in Used(b)
      /\ \A p \in P : node[tb[p]].prev \in Used(b) \cup {NULL_ID}
      /\ \A p \in P : node[tb[p]].next \in Used(b) \cup {NULL_ID}
      /\ \A r \in Used(b) : r \in Slot /\ \E p \in P : tb[p] = r
  <2>1. /\ Used(b) \in SUBSET Slot /\ \A p \in P : p \in Page /\ tb[p] \in Used(b)
        /\ NodesOK(node, Used(b)) /\ tb \in [Page -> Link]
        /\ \A r \in Used(b) : \E p \in P : tb[p] = r /\ node[r].t = p
    BY PartsOK
  <2>2. s \in Used(b) /\ d.head \in Used(b) /\ \A r \in Slot : r # NULL_ID
    BY PartsOK DEF BufferOK, LinksOK, Slot, NULL_ID
  <2>3. x \in P /\ tb[x] = s
    BY <2>1, <2>2
  <2>4. \A p, q \in P : tb[p] = tb[q] => p = q
    BY DEF BufferOK, TableOK
  <2> QED BY <2>1, <2>2, <2>3, <2>4 DEF InOrder, NodesOK
<1>2. ASSUME NEW p \in P
      PROVE  /\ d.head = tb[p] => S[p] = {}
             /\ d.tail = tb[p] => S[p] = P \ {p}
             /\ node[tb[p]].next = NULL_ID => d.tail = tb[p]
             /\ node[tb[p]].prev # tb[p]
             /\ d.head # tb[p] => node[tb[p]].prev # NULL_ID
             /\ \A q \in P : node[tb[p]].next = tb[q] => S[q] = S[p] \cup {p}
             /\ d.head # tb[p] => \A q \in P : node[tb[p]].prev = tb[q] => S[p] = S[q] \cup {q}
  BY DEF InOrder
<1>3. /\ c = [list |-> [head |-> first, tail |-> t, node |-> m, pool |-> Released(d.pool, s)],
              table |-> tc]
  BY <1>1 DEF Popped, PopBack, Slot, NULL_ID
<1>4. /\ \A p \in Page : tc[p] = IF p = x THEN NULL_ID ELSE tb[p]
      /\ tc \in [Page -> Link]
      /\ Cached(c) = R
  <2>1. tc \in [Page -> Link] /\ \A p \in Page : tc[p] = IF p = x THEN NULL_ID ELSE tb[p]
    BY <1>1 DEF Link
  <2>2. c.table = tc
    BY <1>3
  <2> HIDE DEF tc
  <2> QED BY <1>1, <2>1, <2>2 DEF Cached
<1>5. c.list.head = first /\ c.list.tail = t /\ c.list.node = m /\ c.table = tc
  BY <1>3
<1> HIDE DEF c, tc, tb, d, node
<1>6. m \in [Slot -> NodeType] /\ \A r \in Slot : /\ m[r].prev = node[r].prev
                       /\ m[r].next = IF r = t THEN NULL_ID ELSE node[r].next
  <2>1. CASE t = NULL_ID
    <3>1. m = node /\ \A r \in Slot : r # t
      BY <2>1 DEF SetNext, Slot, NULL_ID
    <3> HIDE DEF m
    <3> QED BY <1>1, <3>1
  <2>2. CASE t # NULL_ID
    <3>1. m = [node EXCEPT ![t].next = NULL_ID] /\ t \in Slot
      BY <1>1, <2>2 DEF SetNext
    <3> HIDE DEF m, t
    <3> QED BY <1>1, <3>1 DEF NodeType, Link
  <2> QED BY <2>1, <2>2
<1>7. S[x] = R
  BY <1>1, <1>2
<1> HIDE DEF P, m
<1>8. /\ \A p \in R : x \notin S[p]
      /\ OrderOf(R, S)
  <2>1. \A p \in R : x \notin S[p]
    BY <1>1, <1>7 DEF OrderOf
  <2> QED BY <1>1, <2>1 DEF OrderOf
<1>9. Used(c) = Used(b) \ {s}
  <2>1. \A p \in R : tc[p] = tb[p] /\ tb[p] # s
    BY <1>1, <1>4
  <2>2. \A p \in R : tc[p] \in Used(b) \ {s}
    BY <2>1, <1>1
  <2>3. \A r \in Used(b) \ {s} : \E p \in R : tc[p] = r
    BY <2>1, <1>1
  <2>4. Used(c) = {tc[p] : p \in R}
    BY <1>4, <1>5 DEF Used
  <2> QED BY <2>2, <2>3, <2>4
<1>10. CASE R = {}
  <2>1. s = d.head
    <3>1. PICK p \in P : tb[p] = d.head
      BY <1>1
    <3> QED BY <1>1, <1>10, <3>1
  <2>2. t = NULL_ID
    <3>1. t # s /\ t \in Used(b) \cup {NULL_ID}
      BY <1>1, <1>2
    <3>2. t \in Used(b) => t = s
      BY <1>1, <1>10
    <3> QED BY <3>1, <3>2
  <2>3. InOrder(c, S)
    BY <1>4, <1>8, <1>10 DEF InOrder
  <2>4. Shape(c)
    BY <1>4, <1>5, <1>6, <1>10, <2>2 DEF Shape
  <2> QED BY <1>1, <1>4, <1>7, <1>9, <2>3, <2>4 DEF c, P, tb, d, node
<1>11. CASE R # {}
  <2>1. s # d.head
    BY <1>1, <1>2, <1>7, <1>11
  <2>2. t # NULL_ID /\ t \in Used(b)
    BY <1>1, <1>2, <2>1
  <2>3. PICK pt \in P : t = tb[pt] /\ S[x] = S[pt] \cup {pt}
    BY <1>1, <1>2, <2>1, <2>2
  <2>4. pt # x /\ t # s /\ pt \in R /\ first = d.head
    BY <1>1, <1>2, <2>2, <2>3
  <2> HIDE DEF first, t
  <2>5. ASSUME NEW p \in R
        PROVE  /\ p \in P /\ p \in Page /\ p # x /\ tc[p] = tb[p] /\ tb[p] # s
               /\ tb[p] = t <=> p = pt
               /\ m[tb[p]].prev = node[tb[p]].prev
               /\ m[tb[p]].next = IF p = pt THEN NULL_ID ELSE node[tb[p]].next
    BY <1>1, <1>4, <1>6, <2>3
  <2>6. ASSUME NEW p \in R, p # pt
        PROVE  node[tb[p]].next # s /\ node[tb[p]].next # NULL_ID
    <3>1. node[tb[p]].next = tb[x] => S[x] = S[p] \cup {p}
      BY <1>1, <1>2
    <3>2. S[x] # S[p] \cup {p}
      <4>1. S[x] = S[p] \cup {p} => S[p] \cup {p} = S[pt] \cup {pt}
        BY <2>3
      <4> QED BY <1>8, <2>4, <2>6, <4>1, OrderUnique
    <3>3. node[tb[p]].next # NULL_ID
      BY <1>2, <2>5
    <3> QED BY <1>1, <3>1, <3>2, <3>3
  <2>7. ASSUME NEW p \in R, first # tb[p] PROVE node[tb[p]].prev # s
    <3>1. node[tb[p]].prev = tb[x] => S[p] = S[x] \cup {x}
      BY <1>1, <1>2, <2>4, <2>7
    <3> QED BY <1>1, <1>8, <3>1
  <2>8. Shape(c)
    <3>1. \A p \in R : /\ m[tc[p]].next \in Used(c) \cup {NULL_ID}
                       /\ first # tc[p] => m[tc[p]].prev \in Used(c) \cup {NULL_ID}
      BY <1>1, <1>9, <2>5, <2>6, <2>7
    <3>2. {first, t} \subseteq Used(c) /\ first # NULL_ID
      BY <1>1, <1>9, <2>1, <2>2, <2>4
    <3>3. \A p, q \in R : tc[p] = tc[q] => p = q
      BY <1>1, <2>5
    <3> QED BY <1>4, <1>5, <1>6, <1>11, <3>1, <3>2, <3>3 DEF Shape
  <2>9. ASSUME NEW p \in R
        PROVE  /\ first = tc[p] => S[p] = {}
               /\ t = tc[p] => S[p] = R \ {p}
               /\ m[tc[p]].next = NULL_ID => t = tc[p]
               /\ m[tc[p]].prev # tc[p]
               /\ first # tc[p] => m[tc[p]].prev # NULL_ID
    <3>1. S[pt] = R \ {pt}
      BY <1>1, <1>7, <2>3 DEF OrderOf
    <3> QED BY <1>2, <2>4, <2>5, <2>6, <3>1
  <2>10. ASSUME NEW p \in R, NEW q \in R
         PROVE  /\ m[tc[p]].next = tc[q] => S[q] = S[p] \cup {p}
                /\ first # tc[p] /\ m[tc[p]].prev = tc[q] => S[p] = S[q] \cup {q}
    BY <1>1, <1>2, <2>4, <2>5
  <2>11. InOrder(c, S)
    BY <1>4, <1>5, <1>8, <2>9, <2>10 DEF InOrder
  <2> QED BY <1>1, <1>4, <1>7, <1>9, <2>8, <2>11 DEF c, P, tb, d, node
<1> QED BY <1>10, <1>11


(* A miss keeps the order, and drops the page used least recently. *)
LEMMA MissOrdered ==
  ASSUME NEW b, BufferOK(b), NEW S, InOrder(b, S), NEW i \in Page, i \notin Cached(b)
  PROVE  LET c == BufferGet(b, i).buffer
         IN /\ InOrder(c, Later(S, Cached(c), i))
            /\ \A p \in Cached(b) \ Cached(c) : S[p] = Cached(b) \ {p}
PROOF
<1> DEFINE l == b.list
           s == l.tail
           x == l.node[s].t
           a == Popped(b)
           c == BufferGet(b, i).buffer
<1>0. b.table[i] = NULL_ID
  BY DEF Cached
<1>1. CASE ~Exhausted(l.pool)
  <2> DEFINE k == NextId(l.pool)
  <2>1. k \in Slot \ Used(b)
    BY <1>1, PartsOK, TakenOK DEF BufferOK
  <2>2. PushFront(l, i).head = k
    BY <1>1 DEF PushFront
  <2>3. c = [list |-> PushFront(l, i), table |-> [b.table EXCEPT ![i] = k]]
    BY <1>0, <1>1, <2>2 DEF BufferGet, Fill
  <2>4. Cached(c) = Cached(b) \cup {i}
    <3>1. b.table \in [Page -> Link] /\ k # NULL_ID
      BY <2>1, PartsOK DEF Slot, NULL_ID
    <3> QED BY <2>3, <3>1 DEF Cached
  <2>5. InOrder(c, Later(S, Cached(b) \cup {i}, i))
    <3>1. Shape(b)
      BY Shaped
    <3> HIDE DEF c
    <3> QED BY <1>1, <2>1, <2>3, <3>1, PushedOrdered
  <2> QED BY <2>4, <2>5
<1>2. CASE Exhausted(l.pool)
  <2>1. Used(b) = Slot /\ l.pool.max_page = N /\ l.pool \in PoolType
    <3>1. FreeSlots(l.pool) = {}
      BY <1>2 DEF FreeSlots, Exhausted
    <3> QED BY <1>2, <3>1, PartsOK DEF BufferOK, PoolOK, Slot
  <2>2. Cached(b) # {}
    <3>1. 0 \in Slot
      BY NAssumption DEF Slot
    <3> QED BY <2>1, <3>1 DEF Used
  <2>3. /\ x \in Cached(b) /\ b.table[x] = s /\ S[x] = Cached(b) \ {x}
        /\ Cached(a) = Cached(b) \ {x} /\ s \in Slot \ Used(a)
        /\ Shape(a) /\ InOrder(a, S)
    <3> HIDE DEF a, x, s
    <3> QED BY <2>2, PoppedOrdered DEF a, x, s
  <2>4. /\ a.list = PopBack(l) /\ a.table = [b.table EXCEPT ![x] = NULL_ID]
        /\ a.list.pool = Released(l.pool, s)
    <3>1. a.list = PopBack(l) /\ a.table = [b.table EXCEPT ![x] = NULL_ID]
      BY DEF Popped
    <3>2. PopBack(l).pool = Released(l.pool, s)
      BY <2>3 DEF PopBack, Slot, NULL_ID
    <3> HIDE DEF a
    <3> QED BY <3>1, <3>2
  <2>5. /\ ~Exhausted(a.list.pool) /\ NextId(a.list.pool) = s
    BY <1>2, <2>1, <2>3, <2>4, TurnedOver
  <2>6. PushFront(a.list, i).head = s
    BY <2>5 DEF PushFront
  <2>7. c = [list |-> PushFront(a.list, i), table |-> [a.table EXCEPT ![i] = s]]
    BY <1>0, <1>2, <2>4, <2>6 DEF BufferGet, Evict
  <2> HIDE DEF a, c, x, s, l
  <2>8. i \notin Cached(a)
    BY <2>3
  <2>9. InOrder(c, Later(S, Cached(a) \cup {i}, i))
    BY <2>3, <2>5, <2>7, <2>8, PushedOrdered
  <2>10. Cached(c) = Cached(a) \cup {i}
    <3>1. a.table \in [Page -> Link] /\ s # NULL_ID
      BY <2>3 DEF Shape, Slot, NULL_ID
    <3> QED BY <2>7, <3>1 DEF Cached
  <2>11. \A p \in Cached(b) \ Cached(c) : p = x
    BY <2>3, <2>10
  <2> QED BY <2>3, <2>9, <2>10, <2>11 DEF c
<1> QED BY <1>1, <1>2

(* The list stays in the order of use while no hit has found its page at   *)
(* the tail.                                                               *)
ExactInOrder == exact => InOrder(lru, since)

LEMMA GetOrdered ==
  ASSUME BufferInv, ExactInOrder, NEW i \in Page, Get(i)
  PROVE  /\ ExactInOrder'
         /\ exact => \A p \in Cached(lru) \ Cached(lru') : since[p] = Cached(lru) \ {p}
PROOF
<1> DEFINE c == BufferGet(lru, i).buffer
<1>1. lru' = c /\ since' = Later(since, Cached(lru'), i)
  BY DEF Get, UsedNow, Later
<1>2. exact' => exact /\ ~ HitsTail(i)
  BY DEF Get
<1>3. CASE i \in Cached(lru)
  <2>1. c = Hit(lru, i).buffer
    BY <1>3 DEF BufferGet, Cached
  <2>2. Cached(c) = Cached(lru)
    BY <2>1 DEF Hit, Cached
  <2>3. exact' => InOrder(c, Later(since, Cached(lru), i))
    BY <1>2, <1>3, <2>1, HitOrdered DEF BufferInv, ExactInOrder, HitsTail
  <2> QED BY <1>1, <2>2, <2>3 DEF ExactInOrder
<1>4. CASE i \notin Cached(lru)
  <2>1. exact => /\ InOrder(c, Later(since, Cached(c), i))
                 /\ \A p \in Cached(lru) \ Cached(c) : since[p] = Cached(lru) \ {p}
    BY <1>4, MissOrdered DEF BufferInv, ExactInOrder
  <2> QED BY <1>1, <1>2, <2>1 DEF ExactInOrder
<1> QED BY <1>3, <1>4

LEMMA InitOrdered == Init => ExactInOrder
PROOF
<1> SUFFICES ASSUME Init PROVE InOrder(lru, since)
  BY DEF ExactInOrder
<1>1. Cached(lru) = {}
  BY NewBufferOK DEF Init
<1> QED BY <1>1 DEF Init, InOrder, OrderOf

(* Until a hit finds its page at the tail, the page that a Get drops is    *)
(* the one used least recently: every other cached page has been used      *)
(* since (LRUBuffer.h:21-46, double_linked_list.h:102-113).                *)
THEOREM ExactReplacement == Spec => LRUUntilTailHit
PROOF
<1> DEFINE Inv == BufferInv /\ ExactInOrder
           Drops == exact => \A p \in Cached(lru) \ Cached(lru') : LeastRecent(p)
<1>1. Init => Inv
  BY InitInv, InitOrdered
<1>2. ASSUME NEW i \in Page, GetHit(i) \/ GetFill(i) \/ GetEvict(i) PROVE Get(i)
  BY <1>2 DEF GetHit, GetFill, GetEvict
<1>3. Inv /\ [Next]_vars => Inv'
  <2>1. Inv /\ UNCHANGED vars => ExactInOrder'
    BY DEF ExactInOrder, vars
  <2>2. Inv /\ Next => ExactInOrder'
    BY <1>2, GetOrdered DEF Next
  <2> QED BY <2>1, <2>2, NextInv
<1>4. Inv /\ [Next]_vars => [Drops]_vars
  <2>1. ASSUME Inv, NEW i \in Page, Get(i) PROVE Drops
    <3> SUFFICES ASSUME exact, NEW p \in Cached(lru) \ Cached(lru') PROVE LeastRecent(p)
      OBVIOUS
    <3>1. since[p] = Cached(lru) \ {p}
      BY <2>1, GetOrdered
    <3> QED BY <3>1 DEF LeastRecent
  <2> QED BY <1>2, <2>1 DEF Next
<1> QED BY <1>1, <1>3, <1>4, PTL DEF Spec, LRUUntilTailHit
================================================================================
