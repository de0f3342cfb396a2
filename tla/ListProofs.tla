------------------------------ MODULE ListProofs -------------------------------
(***************************************************************************)
(* What the allocator of MemoryPool keeps consistent, what the operations  *)
(* of DoubleLinkedList do to a list whose forward chain is sound, and what *)
(* LRUBuffer, which is built on both, does to its pages: for any number N  *)
(* of slots.                                                               *)
(***************************************************************************)
EXTENDS LRUBuffer, Iteration, FiniteSetTheorems

PoolType == [free : Seq(Slot), max_page : 1 .. N, size : 0 .. N]

(* The pool of the constructor, of which nothing is held. *)
LEMMA NewPoolOK == NewPool \in PoolType /\ PoolOK(NewPool, {})
PROOF
<1>n. N \in Nat \ {0} BY NAssumption
<1>1. /\ NewPool.free \in Seq(Slot) /\ Len(NewPool.free) = 1 /\ NewPool.free[1] = 0
      /\ NewPool.max_page = 1 /\ NewPool.size = 0
  BY <1>n DEF NewPool, Slot
<1>2. FreeSlots(NewPool) = {0} /\ 0 .. NewPool.max_page - 1 = {0}
  BY <1>1 DEF FreeSlots
<1>3. IsFiniteSet({}) /\ Cardinality({}) = 0
  BY FS_EmptySet
<1>4. ~Exhausted(NewPool)
  BY DEF NewPool, Exhausted
<1>5. NewPool \in PoolType
  BY <1>1, <1>n DEF NewPool, PoolType
<1> QED BY <1>1, <1>2, <1>3, <1>4, <1>5, <1>n DEF PoolOK

(* Create() hands out a slot that nobody holds, and the pool stays         *)
(* consistent with its owner holding that slot (MemoryManager.h:25-29).    *)
LEMMA TakenOK ==
  ASSUME NEW p \in PoolType, NEW U, PoolOK(p, U), ~Exhausted(p)
  PROVE  /\ NextId(p) \in Slot \ U
         /\ Taken(p) \in PoolType
         /\ PoolOK(Taken(p), U \cup {NextId(p)})
PROOF
<1> DEFINE s == NextId(p)
           q == Taken(p)
           n == Len(p.free)
           V == U \cup {s}
<1>n. N \in Nat \ {0} BY NAssumption
<1>1. n \in Nat /\ n >= 1 /\ p.free # <<>> /\ p.free \in Seq(Slot)
  <2>1. p.free \in Seq(Slot) /\ p.free # <<>>
    BY DEF PoolType, Exhausted
  <2> QED BY <2>1
<1>2. s = p.free[n] /\ s \in Slot /\ s \in FreeSlots(p)
  BY <1>1 DEF NextId, Top, FreeSlots, Exhausted
<1>3. s \notin U
  BY <1>2 DEF PoolOK
<1>4. IsFiniteSet(V) /\ Cardinality(V) = Cardinality(U) + 1
  BY <1>3, FS_AddElement DEF PoolOK
<1>5. n + p.size = p.max_page /\ p.size = Cardinality(U) /\ p.max_page \in 1 .. N /\ p.size \in 0 .. N
  BY DEF PoolOK, PoolType
<1>6. /\ Rest(p.free) \in Seq(Slot) /\ Len(Rest(p.free)) = n - 1
      /\ \A k \in 1 .. n - 1 : Rest(p.free)[k] = p.free[k]
  BY <1>1 DEF Rest
<1>7. FreeSlots(p) = {p.free[k] : k \in 1 .. n - 1} \cup {s}
  BY <1>1, <1>2 DEF FreeSlots
<1>8. s \notin {p.free[k] : k \in 1 .. n - 1}
  <2>1. \A k \in 1 .. n - 1 : k \in 1 .. Len(p.free) /\ n \in 1 .. Len(p.free) /\ k # n
    BY <1>1
  <2>2. \A k \in 1 .. n - 1 : p.free[k] # p.free[n]
    BY <2>1 DEF PoolOK
  <2> QED BY <1>2, <2>2
<1>9. CASE Rest(p.free) = <<>> /\ p.max_page < N
  <2>1. q = [free |-> <<p.max_page>>, max_page |-> p.max_page + 1, size |-> p.size + 1]
    BY <1>1, <1>9 DEF Taken, Exhausted
  <2>2. n = 1
    BY <1>1, <1>6, <1>9
  <2>3. q \in PoolType /\ q.free \in Seq(Slot) /\ Len(q.free) = 1 /\ q.free[1] = p.max_page
    BY <2>1, <2>2, <1>5, <1>9, <1>n DEF PoolType, Slot
  <2>4. FreeSlots(q) = {p.max_page}
    BY <2>3 DEF FreeSlots
  <2>5. FreeSlots(p) = {s}
    BY <1>7, <2>2
  <2>6. V = 0 .. p.max_page - 1
    BY <2>5 DEF PoolOK
  <2>7. /\ FreeSlots(q) \cap V = {}
        /\ FreeSlots(q) \cup V = 0 .. q.max_page - 1
    <3>1. q.max_page - 1 = p.max_page /\ p.max_page \in Nat
      BY <2>1, <1>5, <1>n
    <3>2. 0 .. p.max_page = (0 .. p.max_page - 1) \cup {p.max_page}
      BY <3>1
    <3>3. p.max_page \notin 0 .. p.max_page - 1
      BY <3>1
    <3> QED BY <2>4, <2>6, <3>1, <3>2, <3>3
  <2>8. PoolOK(q, V)
    <3>1. q.max_page \in 1 .. N /\ q.size = Cardinality(V) /\ Len(q.free) + q.size = q.max_page
      BY <2>1, <2>2, <2>3, <1>4, <1>5, <1>9, <1>n
    <3>2. ~Exhausted(q)
      BY <2>1 DEF Exhausted
    <3> QED BY <3>1, <3>2, <2>3, <2>7, <1>4 DEF PoolOK
  <2> QED BY <1>2, <1>3, <2>3, <2>8
<1>10. CASE ~(Rest(p.free) = <<>> /\ p.max_page < N)
  <2>1. q = [free |-> Rest(p.free), max_page |-> p.max_page, size |-> p.size + 1]
    BY <1>1, <1>10 DEF Taken, Exhausted
  <2>2. q \in PoolType
    BY <2>1, <1>6, <1>5, <1>1, <1>n DEF PoolType
  <2>3. FreeSlots(q) = {p.free[k] : k \in 1 .. n - 1}
    BY <2>1, <1>6 DEF FreeSlots
  <2>4. /\ FreeSlots(q) \cap V = {}
        /\ FreeSlots(q) \cup V = 0 .. q.max_page - 1
    BY <2>1, <2>3, <1>7, <1>8 DEF PoolOK
  <2>5. \A j, k \in 1 .. Len(q.free) : j # k => q.free[j] # q.free[k]
    BY <2>1, <1>6, <1>1 DEF PoolOK
  <2>6. q.size = Cardinality(V) /\ Len(q.free) + q.size = q.max_page
    <3>1. q.size = p.size + 1 /\ Len(q.free) = n - 1 /\ q.max_page = p.max_page
      BY <2>1, <1>6
    <3>2. n \in Int /\ p.size \in Int
      BY <1>1, <1>5, <1>n
    <3> QED BY <3>1, <3>2, <1>4, <1>5
  <2>7. Exhausted(q) => q.max_page = N
    BY <2>1, <1>10, <1>5, <1>n DEF Exhausted
  <2>8. PoolOK(q, V)
    BY <2>2, <2>4, <2>5, <2>6, <2>7, <1>4 DEF PoolOK, PoolType
  <2> QED BY <1>2, <1>3, <2>2, <2>8
<1> QED BY <1>9, <1>10

(* Remove(i) of the only slot missing from an exhausted pool, followed by  *)
(* Create(), returns that slot and leaves the pool as it was.              *)
LEMMA TurnedOver ==
  ASSUME NEW p \in PoolType, NEW i \in Slot, Exhausted(p),
         p.max_page = N
  PROVE  /\ ~Exhausted(Released(p, i))
         /\ NextId(Released(p, i)) = i
         /\ Taken(Released(p, i)) = p
PROOF
<1>n. N \in Nat \ {0} BY NAssumption
<1>0. p = [free |-> p.free, max_page |-> p.max_page, size |-> p.size] /\ p.size \in Int
  BY DEF PoolType
<1>1. p.free = <<>> /\ Len(p.free) = 0
  BY DEF Exhausted
<1>2. Push(p.free, i) = <<i>>
  BY <1>1, <1>n DEF Push
<1>3. Released(p, i) = [free |-> <<i>>, max_page |-> N, size |-> p.size - 1]
  BY <1>2 DEF Released
<1>4. Top(<<i>>) = i /\ Rest(<<i>>) = <<>> /\ <<i>> # <<>>
  BY DEF Top, Rest
<1>5. ~Exhausted(Released(p, i)) /\ NextId(Released(p, i)) = i
  BY <1>3, <1>4 DEF Exhausted, NextId
<1>6. Taken(Released(p, i)) = [free |-> <<>>, max_page |-> N, size |-> p.size - 1 + 1]
  BY <1>3, <1>4, <1>5, <1>n DEF Taken
<1> QED BY <1>0, <1>1, <1>5, <1>6

(* Remove(i) takes back a slot that was held (MemoryManager.h).  The stack *)
(* of free slots has room for it.                                          *)
LEMMA ReleasedOK ==
  ASSUME NEW p \in PoolType, NEW U, U \subseteq Slot, PoolOK(p, U), NEW i \in U
  PROVE  /\ Released(p, i) \in PoolType
         /\ PoolOK(Released(p, i), U \ {i})
PROOF
<1> DEFINE q == Released(p, i)
           n == Len(p.free)
           V == U \ {i}
<1>n. N \in Nat \ {0} BY NAssumption
<1>1. n \in Nat /\ p.free \in Seq(Slot) /\ i \in Slot
  BY DEF PoolType
<1>2. IsFiniteSet(V) /\ Cardinality(V) = Cardinality(U) - 1 /\ IsFiniteSet(U)
  BY FS_RemoveElement DEF PoolOK
<1>3. Cardinality(V) \in Nat
  BY <1>2, FS_CardinalityType
<1>4. n + p.size = p.max_page /\ p.size = Cardinality(U) /\ p.max_page \in 1 .. N /\ p.size \in 0 .. N
  BY DEF PoolOK, PoolType
<1>5. p.size - 1 \in 0 .. N /\ p.size - 1 = Cardinality(V) /\ n < N
  BY <1>1, <1>2, <1>3, <1>4, <1>n
<1>6. Push(p.free, i) = Append(p.free, i)
  BY <1>5 DEF Push
<1>7. q = [free |-> Append(p.free, i), max_page |-> p.max_page, size |-> p.size - 1]
  BY <1>6 DEF Released
<1>8. /\ q.free \in Seq(Slot) /\ Len(q.free) = n + 1 /\ q.free[n + 1] = i
      /\ \A k \in 1 .. n : q.free[k] = p.free[k]
      /\ q.max_page = p.max_page /\ q.size = p.size - 1
  BY <1>1, <1>7
<1>9. q \in PoolType
  BY <1>7, <1>8, <1>4, <1>5 DEF PoolType
<1> HIDE DEF q
<1>10. FreeSlots(q) = FreeSlots(p) \cup {i}
  <2>1. 1 .. n + 1 = (1 .. n) \cup {n + 1}
    BY <1>1
  <2> QED BY <1>1, <1>8, <2>1 DEF FreeSlots
<1>11. i \notin FreeSlots(p)
  BY DEF PoolOK
<1>12. \A j, k \in 1 .. n + 1 : j # k => q.free[j] # q.free[k]
  <2>1. \A k \in 1 .. n : p.free[k] # i
    BY <1>11 DEF FreeSlots
  <2>2. \A j, k \in 1 .. n : j # k => p.free[j] # p.free[k]
    BY DEF PoolOK
  <2>3. \A k \in 1 .. n + 1 : k \in 1 .. n \/ k = n + 1
    BY <1>1
  <2> QED BY <1>8, <2>1, <2>2, <2>3
<1>13. FreeSlots(q) \cap V = {} /\ FreeSlots(q) \cup V = 0 .. q.max_page - 1
  BY <1>8, <1>10 DEF PoolOK
<1>14. ~Exhausted(q)
  BY <1>1, <1>8 DEF Exhausted
<1>15. Len(q.free) + q.size = q.max_page
  BY <1>1, <1>4, <1>8
<1> QED BY <1>2, <1>4, <1>5, <1>8, <1>9, <1>12, <1>13, <1>14, <1>15 DEF PoolOK, q

-----------------------------------------------------------------------------
(* A list whose nodes hold members of T. *)
Nodes(T)   == [Slot -> [t : T, prev : Link, next : Link]]
ListsOf(T) == [head : Link, tail : Link, node : Nodes(T), pool : PoolType]

(* The slots c[1], ..., c[n] are the forward chain of d: each once, each   *)
(* linked to the one after it, and each but the first back to the one      *)
(* before it.  Nothing is said of the first node's prev, nor of tail.      *)
ChainOf(d, c, n) ==
  /\ n \in Nat /\ c \in [1 .. n -> Slot]
  /\ \A j, k \in 1 .. n : c[j] = c[k] => j = k
  /\ d.head = IF n = 0 THEN NULL_ID ELSE c[1]
  /\ \A j \in 1 .. n : d.node[c[j]].next = IF j = n THEN NULL_ID ELSE c[j + 1]
  /\ \A j \in 2 .. n : d.node[c[j]].prev = c[j - 1]

Members(c, n) == {c[j] : j \in 1 .. n}

WellLinked(d) == \E n \in Nat : \E c \in [1 .. n -> Slot] : ChainOf(d, c, n)

(* Chain(d) starts at the head and follows next. *)
LEMMA ChainSteps ==
  ASSUME NEW d, d.head \in Link, \A s \in Slot : d.node[s].next \in Link
  PROVE  /\ Chain(d) \in [0 .. N -> Link]
         /\ Chain(d)[0] = d.head
         /\ \A m \in 1 .. N : Chain(d)[m] = IF Chain(d)[m - 1] = NULL_ID THEN NULL_ID
                                           ELSE d.node[Chain(d)[m - 1]].next
PROOF
<1> DEFINE G == [m \in 1 .. N |-> [x \in Link |-> IF x = NULL_ID THEN NULL_ID ELSE d.node[x].next]]
           at[n \in 0 .. N] == IF n = 0 THEN d.head
                               ELSE IF at[n - 1] = NULL_ID THEN NULL_ID ELSE d.node[at[n - 1]].next
<1>n. N \in Nat \ {0} BY NAssumption
<1>1. G \in [1 .. N -> [Link -> Link]]
  BY DEF Link
<1>2. \A m \in 1 .. N, x \in Link : G[m][x] = IF x = NULL_ID THEN NULL_ID ELSE d.node[x].next
  OBVIOUS
<1> HIDE DEF G
<1>3. PICK f \in [0 .. N -> Link] : f[0] = d.head /\ \A m \in 1 .. N : f[m] = G[m][f[m - 1]]
  <2> DEFINE a == d.head
  <2>1. a \in Link /\ N \in Nat
    BY <1>n
  <2> HIDE DEF a
  <2>2. Iterations(Link, N, G, a) # {}
    BY <1>1, <2>1, Iterated
  <2> QED BY <2>2 DEF a, Iterations
<1>4. \A m \in 1 .. N : m - 1 \in 0 .. N /\ m # 0
  BY <1>n
<1>5. \A m \in 1 .. N : f[m] = IF f[m - 1] = NULL_ID THEN NULL_ID ELSE d.node[f[m - 1]].next
  BY <1>2, <1>3, <1>4
<1>6. \A n \in 0 .. N : n # 0 => n \in 1 .. N
  BY <1>n
<1>7. f = [n \in 0 .. N |-> IF n = 0 THEN d.head
                           ELSE IF f[n - 1] = NULL_ID THEN NULL_ID ELSE d.node[f[n - 1]].next]
  BY <1>3, <1>5, <1>6
<1>8. at = CHOOSE g : g = [n \in 0 .. N |-> IF n = 0 THEN d.head
                           ELSE IF g[n - 1] = NULL_ID THEN NULL_ID ELSE d.node[g[n - 1]].next]
  OBVIOUS
<1>9. Chain(d) = at
  BY DEF Chain
<1> HIDE DEF at
<1>10. at = [n \in 0 .. N |-> IF n = 0 THEN d.head
                           ELSE IF at[n - 1] = NULL_ID THEN NULL_ID ELSE d.node[at[n - 1]].next]
  BY <1>7, <1>8
<1>11. at[0] = d.head
       /\ \A m \in 1 .. N : at[m] = IF at[m - 1] = NULL_ID THEN NULL_ID ELSE d.node[at[m - 1]].next
  <2>1. 0 \in 0 .. N /\ \A m \in 1 .. N : m \in 0 .. N
    BY <1>n
  <2> QED BY <2>1, <1>4, <1>10
<1>12. at \in [0 .. N -> Link]
  <2> DEFINE T == {n \in 0 .. N : at[n] \in Link}
  <2>1. 0 \in T
    BY <1>n, <1>11
  <2>2. ASSUME NEW n \in 0 .. N - 1, n \in T PROVE n + 1 \in T
    <3>1. n + 1 \in 1 .. N /\ n + 1 \in 0 .. N /\ n + 1 - 1 = n
      BY <1>n
    <3>2. at[n + 1] = IF at[n] = NULL_ID THEN NULL_ID ELSE d.node[at[n]].next
      BY <3>1, <1>11
    <3>3. at[n + 1] \in Link
      BY <3>2, <2>2 DEF Link
    <3> QED BY <3>1, <3>3
  <2> HIDE DEF T
  <2>3. \A n \in 0 .. N : n \in T
    BY <1>n, <2>1, <2>2, UpTo
  <2>4. \A n \in 0 .. N : at[n] \in Link
    BY <2>3 DEF T
  <2>5. \E S : at = [n \in 0 .. N |-> S[n]]
    <3> DEFINE S == [n \in 0 .. N |-> IF n = 0 THEN d.head
                           ELSE IF at[n - 1] = NULL_ID THEN NULL_ID ELSE d.node[at[n - 1]].next]
    <3>1. at = S
      BY <1>10
    <3>2. S = [n \in 0 .. N |-> S[n]]
      OBVIOUS
    <3> HIDE DEF S
    <3> QED BY <3>1, <3>2
  <2> QED BY <2>4, <2>5
<1> QED BY <1>9, <1>11, <1>12

(* A chain is no longer than the memory, and what is reached from the head *)
(* is what is on it; nothing comes back to a slot passed before.           *)
LEMMA ChainReached ==
  ASSUME NEW d, d.head \in Link, \A s \in Slot : d.node[s].next \in Link,
         NEW c, NEW n, ChainOf(d, c, n)
  PROVE  /\ n <= N
         /\ \A m \in 0 .. N : Chain(d)[m] = IF m < n THEN c[m + 1] ELSE NULL_ID
         /\ Reached(d) = Members(c, n)
         /\ ~Cyclic(d)
PROOF
<1>n. N \in Nat \ {0} BY NAssumption
<1>0. /\ n \in Nat /\ c \in [1 .. n -> Slot]
      /\ \A j, k \in 1 .. n : c[j] = c[k] => j = k
      /\ d.head = IF n = 0 THEN NULL_ID ELSE c[1]
      /\ \A j \in 1 .. n : d.node[c[j]].next = IF j = n THEN NULL_ID ELSE c[j + 1]
  BY DEF ChainOf
<1>1. n <= N
  <2>1. c \in Injection(1 .. n, Slot)
    BY <1>0 DEF Injection, IsInjective
  <2>2. IsFiniteSet(Slot) /\ Cardinality(Slot) = N
    <3>1. N - 1 \in Int /\ ~(0 > N - 1) /\ N - 1 - 0 + 1 = N
      BY <1>n
    <3>2. IsFiniteSet(0 .. N - 1)
          /\ Cardinality(0 .. N - 1) = IF 0 > N - 1 THEN 0 ELSE N - 1 - 0 + 1
      BY <3>1, FS_Interval
    <3> QED BY <3>1, <3>2 DEF Slot
  <2>3. IsFiniteSet(1 .. n) /\ Cardinality(1 .. n) = n
    BY <1>0, FS_Interval
  <2>4. Cardinality(1 .. n) <= Cardinality(Slot)
    BY <2>1, <2>2, FS_Injection
  <2> QED BY <2>2, <2>3, <2>4
<1>2. \A j \in 1 .. n : c[j] \in Slot /\ c[j] # NULL_ID
  BY <1>0, <1>n DEF Slot, NULL_ID
<1> DEFINE T == {m \in 0 .. N : Chain(d)[m] = IF m < n THEN c[m + 1] ELSE NULL_ID}
<1>3. 0 \in T
  BY <1>n, <1>0, ChainSteps
<1>4. ASSUME NEW m \in 0 .. N - 1, m \in T PROVE m + 1 \in T
  <2>1. m + 1 \in 1 .. N /\ m + 1 \in 0 .. N /\ m + 1 - 1 = m /\ m \in Nat
    BY <1>n
  <2>2. Chain(d)[m + 1] = IF Chain(d)[m] = NULL_ID THEN NULL_ID ELSE d.node[Chain(d)[m]].next
    BY <2>1, ChainSteps
  <2>3. Chain(d)[m] = IF m < n THEN c[m + 1] ELSE NULL_ID
    BY <1>4
  <2>4. CASE m < n
    <3>1. m + 1 \in 1 .. n
      BY <2>1, <2>4, <1>0
    <3>2. Chain(d)[m + 1] = d.node[c[m + 1]].next
      BY <3>1, <2>2, <2>3, <2>4, <1>2
    <3>3. Chain(d)[m + 1] = IF m + 1 = n THEN NULL_ID ELSE c[m + 1 + 1]
      BY <3>1, <3>2, <1>0
    <3> QED BY <3>1, <3>3, <2>1, <1>0
  <2>5. CASE ~(m < n)
    <3>1. Chain(d)[m + 1] = NULL_ID /\ ~(m + 1 < n)
      BY <2>1, <2>2, <2>3, <2>5, <1>0
    <3> QED BY <3>1, <2>1
  <2> QED BY <2>4, <2>5
<1> HIDE DEF T
<1>5. \A m \in 0 .. N : m \in T
  BY <1>n, <1>3, <1>4, UpTo
<1>6. \A m \in 0 .. N : Chain(d)[m] = IF m < n THEN c[m + 1] ELSE NULL_ID
  BY <1>5 DEF T
<1>7. ~Cyclic(d)
  BY <1>n, <1>0, <1>1, <1>6 DEF Cyclic
<1>8. Reached(d) = Members(c, n)
  <2>1. ASSUME NEW s \in Reached(d) PROVE s \in Members(c, n)
    <3>1. PICK m \in 0 .. N : s = Chain(d)[m] /\ s # NULL_ID
      BY DEF Reached
    <3>2. m < n /\ s = c[m + 1]
      BY <3>1, <1>6
    <3>3. m + 1 \in 1 .. n
      BY <3>2, <1>0
    <3> QED BY <3>2, <3>3 DEF Members
  <2>2. ASSUME NEW s \in Members(c, n) PROVE s \in Reached(d)
    <3>1. PICK j \in 1 .. n : s = c[j]
      BY DEF Members
    <3>2. j - 1 \in 0 .. N /\ j - 1 < n /\ j - 1 + 1 = j
      BY <1>0, <1>1, <1>n
    <3>3. Chain(d)[j - 1] = s /\ s # NULL_ID
      BY <3>1, <3>2, <1>2, <1>6
    <3> QED BY <3>2, <3>3 DEF Reached
  <2> QED BY <2>1, <2>2
<1> QED BY <1>1, <1>6, <1>7, <1>8

-----------------------------------------------------------------------------
(* Writing one link of a node changes that link and nothing else. *)
LEMMA PrevSet ==
  ASSUME NEW T, NEW node \in Nodes(T), NEW i \in Link, NEW v \in Link
  PROVE  /\ SetPrev(node, i, v) \in Nodes(T)
         /\ \A s \in Slot : /\ SetPrev(node, i, v)[s].t = node[s].t
                            /\ SetPrev(node, i, v)[s].next = node[s].next
                            /\ SetPrev(node, i, v)[s].prev = IF s = i THEN v ELSE node[s].prev
                            /\ s # i => SetPrev(node, i, v)[s] = node[s]
PROOF
<1>1. \A s \in Slot : s # NULL_ID
  BY NAssumption DEF Slot, NULL_ID
<1>2. CASE i = NULL_ID
  <2>1. SetPrev(node, i, v) = node
    BY <1>2 DEF SetPrev
  <2>2. \A s \in Slot : s # i
    BY <1>1, <1>2
  <2> QED BY <2>1, <2>2
<1>3. CASE i # NULL_ID
  <2>1. SetPrev(node, i, v) = [node EXCEPT ![i].prev = v]
    BY <1>3 DEF SetPrev
  <2>2. i \in Slot /\ node \in [Slot -> [t : T, prev : Link, next : Link]]
    BY <1>3 DEF Link, Nodes
  <2> DEFINE e == [node EXCEPT ![i].prev = v]
  <2>3. e \in [Slot -> [t : T, prev : Link, next : Link]]
    BY <2>2
  <2>4. \A s \in Slot : /\ e[s].t = node[s].t
                        /\ e[s].next = node[s].next
                        /\ e[s].prev = IF s = i THEN v ELSE node[s].prev
                        /\ s # i => e[s] = node[s]
    BY <2>2
  <2> QED BY <2>1, <2>3, <2>4 DEF Nodes
<1> QED BY <1>2, <1>3

LEMMA NextSet ==
  ASSUME NEW T, NEW node \in Nodes(T), NEW i \in Link, NEW v \in Link
  PROVE  /\ SetNext(node, i, v) \in Nodes(T)
         /\ \A s \in Slot : /\ SetNext(node, i, v)[s].t = node[s].t
                            /\ SetNext(node, i, v)[s].prev = node[s].prev
                            /\ SetNext(node, i, v)[s].next = IF s = i THEN v ELSE node[s].next
                            /\ s # i => SetNext(node, i, v)[s] = node[s]
PROOF
<1>1. \A s \in Slot : s # NULL_ID
  BY NAssumption DEF Slot, NULL_ID
<1>2. CASE i = NULL_ID
  <2>1. SetNext(node, i, v) = node
    BY <1>2 DEF SetNext
  <2>2. \A s \in Slot : s # i
    BY <1>1, <1>2
  <2> QED BY <2>1, <2>2
<1>3. CASE i # NULL_ID
  <2>1. SetNext(node, i, v) = [node EXCEPT ![i].next = v]
    BY <1>3 DEF SetNext
  <2>2. i \in Slot /\ node \in [Slot -> [t : T, prev : Link, next : Link]]
    BY <1>3 DEF Link, Nodes
  <2> DEFINE e == [node EXCEPT ![i].next = v]
  <2>3. e \in [Slot -> [t : T, prev : Link, next : Link]]
    BY <2>2
  <2>4. \A s \in Slot : /\ e[s].t = node[s].t
                        /\ e[s].prev = node[s].prev
                        /\ e[s].next = IF s = i THEN v ELSE node[s].next
                        /\ s # i => e[s] = node[s]
    BY <2>2
  <2> QED BY <2>1, <2>3, <2>4 DEF Nodes
<1> QED BY <1>2, <1>3

(* A list with a sound chain: what it reaches are the members of that      *)
(* chain, and its searches end.                                            *)
LEMMA LinkedParts ==
  ASSUME NEW T, NEW d \in ListsOf(T)
  PROVE  /\ d.head \in Link /\ d.tail \in Link /\ d.node \in Nodes(T) /\ d.pool \in PoolType
         /\ \A s \in Slot : d.node[s].next \in Link /\ d.node[s].prev \in Link /\ d.node[s].t \in T
         /\ \A c, n : ChainOf(d, c, n) => WellLinked(d) /\ ~Cyclic(d) /\ Reached(d) = Members(c, n)
         /\ WellLinked(d) => Reached(d) \subseteq Slot
PROOF
<1>1. /\ d.head \in Link /\ d.tail \in Link /\ d.node \in Nodes(T) /\ d.pool \in PoolType
  BY DEF ListsOf
<1>2. \A s \in Slot : d.node[s].next \in Link /\ d.node[s].prev \in Link /\ d.node[s].t \in T
  BY <1>1 DEF Nodes
<1>3. ASSUME NEW c, NEW n, ChainOf(d, c, n)
      PROVE  WellLinked(d) /\ ~Cyclic(d) /\ Reached(d) = Members(c, n)
  <2>1. WellLinked(d)
    <3>1. n \in Nat /\ c \in [1 .. n -> Slot]
      BY <1>3 DEF ChainOf
    <3> QED BY <3>1, <1>3 DEF WellLinked
  <2>2. ~Cyclic(d) /\ Reached(d) = Members(c, n)
    BY <1>1, <1>2, <1>3, ChainReached
  <2> QED BY <2>1, <2>2
<1>4. ASSUME WellLinked(d) PROVE Reached(d) \subseteq Slot
  <2>1. PICK n \in Nat : \E c \in [1 .. n -> Slot] : ChainOf(d, c, n)
    BY <1>4 DEF WellLinked
  <2>2. PICK c \in [1 .. n -> Slot] : ChainOf(d, c, n)
    BY <2>1
  <2>3. Reached(d) = Members(c, n)
    BY <2>2, <1>3
  <2> QED BY <2>3 DEF Members
<1> QED BY <1>1, <1>2, <1>3, <1>4

(* A list that another one leaves alone keeps its chain. *)
LEMMA OtherList ==
  ASSUME NEW T, NEW d \in ListsOf(T), NEW e \in ListsOf(T), WellLinked(d),
         e.head = d.head, \A s \in Reached(d) : e.node[s] = d.node[s]
  PROVE  WellLinked(e) /\ Reached(e) = Reached(d)
PROOF
<1>1. PICK n \in Nat : \E c \in [1 .. n -> Slot] : ChainOf(d, c, n)
  BY DEF WellLinked
<1>2. PICK c \in [1 .. n -> Slot] : ChainOf(d, c, n)
  BY <1>1
<1>3. Reached(d) = Members(c, n)
  BY <1>2, LinkedParts
<1>4. \A j \in 1 .. n : e.node[c[j]] = d.node[c[j]]
  BY <1>3 DEF Members
<1>5. \A j \in 2 .. n : e.node[c[j]] = d.node[c[j]]
  BY <1>4
<1>6. ChainOf(e, c, n)
  BY <1>2, <1>4, <1>5 DEF ChainOf
<1> QED BY <1>3, <1>6, LinkedParts

(* MoveToFront(i) of a node on the chain: the same nodes are reached, i    *)
(* first, and no node off the chain is written (double_linked_list.h).     *)
LEMMA MovedOK ==
  ASSUME NEW T, NEW d \in ListsOf(T), WellLinked(d), NEW i \in Reached(d)
  PROVE  LET e == MoveToFront(d, i)
         IN /\ e \in ListsOf(T) /\ WellLinked(e) /\ Reached(e) = Reached(d)
            /\ e.head = i /\ e.pool = d.pool
            /\ \A s \in Slot : e.node[s].t = d.node[s].t
            /\ \A s \in Slot \ Reached(d) : e.node[s] = d.node[s]
PROOF
<1> DEFINE e == MoveToFront(d, i)
<1>1. PICK n \in Nat : \E c \in [1 .. n -> Slot] : ChainOf(d, c, n)
  BY DEF WellLinked
<1>2. PICK c \in [1 .. n -> Slot] : ChainOf(d, c, n)
  BY <1>1
<1>3. Reached(d) = Members(c, n)
  BY <1>2, LinkedParts
<1>4. PICK k \in 1 .. n : i = c[k]
  BY <1>3 DEF Members
<1>5. /\ d.head \in Link /\ d.tail \in Link /\ d.node \in Nodes(T) /\ d.pool \in PoolType
      /\ \A s \in Slot : s # NULL_ID /\ s \in Link
  BY LinkedParts, NAssumption DEF Slot, NULL_ID, Link
<1>6. /\ \A j, m \in 1 .. n : c[j] = c[m] => j = m
      /\ d.head = c[1] /\ n # 0 /\ 1 \in 1 .. n
      /\ \A j \in 1 .. n : d.node[c[j]].next = IF j = n THEN NULL_ID ELSE c[j + 1]
      /\ \A j \in 2 .. n : d.node[c[j]].prev = c[j - 1]
  BY <1>2, <1>4 DEF ChainOf
<1>7. CASE k = 1
  <2>1. e = d
    BY <1>4, <1>6, <1>7 DEF MoveToFront
  <2> QED BY <2>1, <1>4, <1>5, <1>6, <1>7
<1>8. CASE k # 1
  <2> DEFINE a  == c[1]
             pv == c[k - 1]
             nx == IF k = n THEN NULL_ID ELSE c[k + 1]
             n0 == d.node
             n1 == SetPrev(n0, nx, pv)
             n2 == SetNext(n1, pv, nx)
             n3 == SetPrev(n2, a, i)
             n4 == SetNext(n3, i, a)
  <2>1. k \in 2 .. n /\ k - 1 \in 1 .. n /\ (k # n => k + 1 \in 1 .. n)
    BY <1>8
  <2>2. /\ a \in Slot /\ pv \in Slot /\ nx \in Link /\ i \in Slot
        /\ i # a /\ i # pv /\ i # nx /\ a # nx
    BY <2>1, <1>4, <1>5, <1>6, <1>8 DEF Link
  <2>3. n0[i].next = nx /\ n0[i].prev = pv
    BY <2>1, <1>4, <1>6
  <2>4. e = [head |-> i, tail |-> d.tail, node |-> SetNext(SetPrev(Unlinked(n0, i), a, i), i, a),
             pool |-> d.pool]
    BY <2>2, <1>5, <1>6 DEF MoveToFront
  <2> HIDE DEF e, a, pv, nx
  <2>5. /\ n1 \in Nodes(T)
        /\ \A s \in Slot : /\ n1[s].t = n0[s].t /\ n1[s].next = n0[s].next
                           /\ n1[s].prev = IF s = nx THEN pv ELSE n0[s].prev
                           /\ s # nx => n1[s] = n0[s]
    <3> HIDE DEF n0
    <3>1. n0 \in Nodes(T) /\ nx \in Link /\ pv \in Link
      BY <2>2, <1>5 DEF n0
    <3> QED BY <3>1, PrevSet
  <2>6. Unlinked(n0, i) = n2
    <3>1. n1[i].prev = pv /\ n1[i].next = nx
      <4>1. n1[i].prev = n0[i].prev /\ n1[i].next = n0[i].next
        BY <2>2, <2>5
      <4> QED BY <4>1, <2>3
    <3> HIDE DEF n0
    <3>2. Unlinked(n0, i) = SetNext(n1, n1[i].prev, n1[i].next)
      BY <2>3 DEF Unlinked
    <3> HIDE DEF n1
    <3> QED BY <3>1, <3>2
  <2> HIDE DEF n0, n1
  <2>7. /\ n2 \in Nodes(T)
        /\ \A s \in Slot : /\ n2[s].t = n1[s].t /\ n2[s].prev = n1[s].prev
                           /\ n2[s].next = IF s = pv THEN nx ELSE n1[s].next
                           /\ s # pv => n2[s] = n1[s]
    <3>1. n1 \in Nodes(T) /\ nx \in Link /\ pv \in Link
      BY <2>2, <2>5, <1>5
    <3> QED BY <3>1, NextSet
  <2> HIDE DEF n2
  <2>8. /\ n3 \in Nodes(T)
        /\ \A s \in Slot : /\ n3[s].t = n2[s].t /\ n3[s].next = n2[s].next
                           /\ n3[s].prev = IF s = a THEN i ELSE n2[s].prev
                           /\ s # a => n3[s] = n2[s]
    <3>1. n2 \in Nodes(T) /\ a \in Link /\ i \in Link
      BY <2>2, <2>7, <1>5
    <3> QED BY <3>1, PrevSet
  <2> HIDE DEF n3
  <2>9. /\ n4 \in Nodes(T)
        /\ \A s \in Slot : /\ n4[s].t = n3[s].t /\ n4[s].prev = n3[s].prev
                           /\ n4[s].next = IF s = i THEN a ELSE n3[s].next
                           /\ s # i => n4[s] = n3[s]
    <3>1. n3 \in Nodes(T) /\ a \in Link /\ i \in Link
      BY <2>2, <2>8, <1>5
    <3> QED BY <3>1, NextSet
  <2>10. e = [head |-> i, tail |-> d.tail, node |-> n4, pool |-> d.pool]
    BY <2>4, <2>6 DEF n3
  <2> HIDE DEF n4
  <2>11. e \in ListsOf(T)
    BY <2>2, <2>9, <2>10, <1>5 DEF ListsOf
  <2>12. e.head = i /\ e.node = n4 /\ e.pool = d.pool
    BY <2>10
  <2> DEFINE c2 == [j \in 1 .. n |-> IF j = 1 THEN i ELSE IF j <= k THEN c[j - 1] ELSE c[j]]
  <2>13. /\ c2[1] = i
         /\ \A j \in 2 .. k : c2[j] = c[j - 1] /\ j \in 1 .. n /\ j - 1 \in 1 .. n
         /\ \A j \in k + 1 .. n : c2[j] = c[j] /\ j \in 1 .. n
         /\ \A j \in 1 .. n : j = 1 \/ j \in 2 .. k \/ j \in k + 1 .. n
    BY <2>1, <1>6
  <2>14. c2 \in [1 .. n -> Slot]
    BY <2>2, <2>13
  <2> HIDE DEF c2
  <2>15. \A j, m \in 1 .. n : c2[j] = c2[m] => j = m
    BY <2>1, <2>13, <1>4, <1>6
  <2>16. Members(c2, n) = Members(c, n)
    <3>1. \A j \in 1 .. n : c2[j] \in Members(c, n)
      BY <2>13, <1>4 DEF Members
    <3>2. ASSUME NEW j \in 1 .. n PROVE c[j] \in Members(c2, n)
      <4>1. CASE j < k
        <5>1. j + 1 \in 2 .. k /\ j + 1 \in 1 .. n /\ j + 1 - 1 = j
          BY <4>1, <2>1
        <5>2. c2[j + 1] = c[j]
          BY <5>1, <2>13
        <5> QED BY <5>1, <5>2 DEF Members
      <4>2. CASE j = k
        BY <4>2, <2>13, <1>4, <1>6 DEF Members
      <4>3. CASE j > k
        <5>1. j \in k + 1 .. n
          BY <4>3, <2>1
        <5>2. c2[j] = c[j]
          BY <5>1, <2>13
        <5> QED BY <5>2 DEF Members
      <4> QED BY <4>1, <4>2, <4>3
    <3> QED BY <3>1, <3>2 DEF Members
  <2>17. \A s \in Slot : /\ n4[s].next = IF s = i THEN a ELSE IF s = pv THEN nx ELSE n0[s].next
                         /\ n4[s].prev = IF s = a THEN i ELSE IF s = nx THEN pv ELSE n0[s].prev
                         /\ n4[s].t = n0[s].t
                         /\ s \notin {i, a, pv, nx} => n4[s] = n0[s]
    <3>1. TAKE s \in Slot
    <3>2. n4[s].t = n0[s].t
      BY <2>5, <2>7, <2>8, <2>9
    <3>3. n4[s].next = IF s = i THEN a ELSE IF s = pv THEN nx ELSE n0[s].next
      BY <2>5, <2>7, <2>8, <2>9
    <3>4. n4[s].prev = IF s = a THEN i ELSE IF s = nx THEN pv ELSE n0[s].prev
      BY <2>5, <2>7, <2>8, <2>9
    <3>5. s \notin {i, a, pv, nx} => n4[s] = n0[s]
      BY <2>5, <2>7, <2>8, <2>9
    <3> QED BY <3>2, <3>3, <3>4, <3>5
  <2>18. ASSUME NEW j \in 1 .. n PROVE n4[c2[j]].next = IF j = n THEN NULL_ID ELSE c2[j + 1]
    <3>1. c2[j] \in Slot
      BY <2>14
    <3>2. CASE j = 1
      <4>1. j + 1 \in 2 .. k /\ j # n /\ j + 1 - 1 = 1
        BY <3>2, <2>1
      <4>2. c2[j + 1] = a /\ c2[j] = i
        BY <4>1, <3>2, <2>13 DEF a
      <4> QED BY <4>1, <4>2, <3>1, <2>17
    <3>3. CASE j \in 2 .. k - 1
      <4>1. j \in 2 .. k /\ j + 1 \in 2 .. k /\ j # n /\ j - 1 \in 1 .. n /\ j + 1 - 1 = j
            /\ j - 1 # n /\ j - 1 # k - 1 /\ j - 1 # k /\ j - 1 + 1 = j
        BY <3>3, <2>1
      <4>2. c2[j] = c[j - 1] /\ c2[j + 1] = c[j]
        BY <4>1, <2>13
      <4>3. c[j - 1] # i /\ c[j - 1] # pv
        BY <4>1, <2>1, <1>4, <1>6 DEF pv
      <4>4. n0[c[j - 1]].next = c[j]
        BY <4>1, <1>6 DEF n0
      <4> QED BY <3>1, <4>1, <4>2, <4>3, <4>4, <2>17
    <3>4. CASE j = k
      <4>1. j \in 2 .. k /\ (j # n => j + 1 \in k + 1 .. n)
        BY <3>4, <2>1
      <4>2. c2[j] = pv /\ (j # n => c2[j + 1] = c[k + 1])
        BY <3>4, <4>1, <2>13 DEF pv
      <4> QED BY <3>1, <3>4, <4>2, <2>2, <2>17 DEF nx
    <3>5. CASE j \in k + 1 .. n
      <4>1. j # n => j + 1 \in k + 1 .. n
        BY <3>5, <2>1
      <4>2. c2[j] = c[j] /\ (j # n => c2[j + 1] = c[j + 1])
        BY <3>5, <4>1, <2>13
      <4>3. c[j] # i /\ c[j] # pv
        <5>1. j # k /\ j # k - 1
          BY <3>5, <2>1
        <5> QED BY <5>1, <2>1, <1>4, <1>6 DEF pv
      <4>4. n0[c[j]].next = IF j = n THEN NULL_ID ELSE c[j + 1]
        BY <1>6 DEF n0
      <4> QED BY <3>1, <4>2, <4>3, <4>4, <2>17
    <3>6. j = 1 \/ j \in 2 .. k - 1 \/ j = k \/ j \in k + 1 .. n
      BY <2>1
    <3> QED BY <3>2, <3>3, <3>4, <3>5, <3>6
  <2>19. ASSUME NEW j \in 2 .. n PROVE n4[c2[j]].prev = c2[j - 1]
    <3>1. c2[j] \in Slot /\ j \in 1 .. n /\ j - 1 \in 1 .. n
      BY <2>14
    <3>2. CASE j = 2
      <4>1. j \in 2 .. k /\ j - 1 = 1
        BY <3>2, <2>1
      <4>2. c2[j] = a /\ c2[j - 1] = i
        BY <4>1, <2>13 DEF a
      <4> QED BY <3>1, <4>2, <2>17
    <3>3. CASE j \in 3 .. k
      <4>1. j \in 2 .. k /\ j - 1 \in 2 .. k /\ j - 1 \in 2 .. n /\ j - 1 # 1
            /\ j - 1 \in 1 .. n /\ (k # n => j - 1 # k + 1)
        BY <3>3, <2>1
      <4>2. c2[j] = c[j - 1] /\ c2[j - 1] = c[j - 1 - 1]
        BY <4>1, <2>13
      <4>3. c[j - 1] # a /\ c[j - 1] # nx
        BY <4>1, <2>1, <1>5, <1>6 DEF a, nx
      <4>4. n0[c[j - 1]].prev = c[j - 1 - 1]
        BY <4>1, <1>6 DEF n0
      <4> QED BY <3>1, <4>2, <4>3, <4>4, <2>17
    <3>4. CASE j = k + 1
      <4>1. j \in k + 1 .. n /\ j - 1 = k /\ k # n /\ k \in 2 .. k
        BY <3>4, <2>1
      <4>2. c2[j] = nx /\ c2[j - 1] = pv
        BY <3>4, <4>1, <2>13 DEF nx, pv
      <4> QED BY <3>1, <4>2, <2>2, <2>17
    <3>5. CASE j \in k + 2 .. n
      <4>1. j \in k + 1 .. n /\ j - 1 \in k + 1 .. n /\ j # 1 /\ j # k + 1
        BY <3>5, <2>1
      <4>2. c2[j] = c[j] /\ c2[j - 1] = c[j - 1]
        BY <4>1, <2>13
      <4>3. c[j] # a /\ c[j] # nx
        BY <3>1, <4>1, <2>1, <1>5, <1>6 DEF a, nx
      <4>4. n0[c[j]].prev = c[j - 1]
        BY <1>6 DEF n0
      <4> QED BY <3>1, <4>2, <4>3, <4>4, <2>17
    <3>6. j = 2 \/ j \in 3 .. k \/ j = k + 1 \/ j \in k + 2 .. n
      BY <2>1
    <3> QED BY <3>2, <3>3, <3>4, <3>5, <3>6
  <2>20. ChainOf(e, c2, n)
    BY <2>12, <2>13, <2>14, <2>15, <2>18, <2>19, <1>6 DEF ChainOf
  <2>21. WellLinked(e) /\ Reached(e) = Reached(d)
    BY <2>11, <2>16, <2>20, <1>3, LinkedParts
  <2>22. ASSUME NEW s \in Slot \ Reached(d) PROVE n4[s] = n0[s]
    <3>1. s \notin {i, a, pv, nx}
      BY <2>1, <1>3, <1>4, <1>5, <1>6 DEF a, pv, nx, Members
    <3> QED BY <3>1, <2>17
  <2> QED BY <2>11, <2>12, <2>17, <2>21, <2>22 DEF n0, e
<1> QED BY <1>7, <1>8

(* PushFront(x, i) with a slot to spare: the slot, which nobody held, goes *)
(* before the nodes reached so far (double_linked_list.h:42-53).           *)
LEMMA PushedFrontOK ==
  ASSUME NEW T, NEW d \in ListsOf(T), WellLinked(d), NEW x \in T,
         NEW U, Reached(d) \subseteq U, PoolOK(d.pool, U), ~Exhausted(d.pool)
  PROVE  LET e == PushFront(d, x)
             s == NextId(d.pool)
         IN /\ s \in Slot \ U
            /\ e \in ListsOf(T) /\ WellLinked(e) /\ Reached(e) = Reached(d) \cup {s}
            /\ PoolOK(e.pool, U \cup {s})
            /\ e.head = s /\ e.node[s].t = x
            /\ \A r \in Slot \ {s} : e.node[r].t = d.node[r].t
            /\ \A r \in Slot \ (Reached(d) \cup {s}) : e.node[r] = d.node[r]
PROOF
<1> DEFINE e == PushFront(d, x)
           s == NextId(d.pool)
           a == d.head
           n0 == d.node
           n1 == Created(n0, s, x, a, NULL_ID)
           n2 == SetPrev(n1, a, s)
<1>1. PICK n \in Nat : \E c \in [1 .. n -> Slot] : ChainOf(d, c, n)
  BY DEF WellLinked
<1>2. PICK c \in [1 .. n -> Slot] : ChainOf(d, c, n)
  BY <1>1
<1>3. Reached(d) = Members(c, n)
  BY <1>2, LinkedParts
<1>4. /\ a \in Link /\ d.tail \in Link /\ n0 \in Nodes(T) /\ d.pool \in PoolType
      /\ \A r \in Slot : r # NULL_ID /\ r \in Link
      /\ NULL_ID \in Link
  BY LinkedParts, NAssumption DEF Slot, NULL_ID, Link
<1>5. s \in Slot \ U /\ Taken(d.pool) \in PoolType /\ PoolOK(Taken(d.pool), U \cup {s})
  BY <1>4, TakenOK
<1>6. e = [head |-> s, tail |-> IF a = NULL_ID THEN s ELSE d.tail, node |-> n2,
           pool |-> Taken(d.pool)]
  BY DEF PushFront
<1> HIDE DEF e, s, a, n0, n1, n2
<1>7. /\ n1 \in Nodes(T) /\ n1[s].t = x /\ n1[s].next = a
      /\ \A r \in Slot \ {s} : n1[r] = n0[r]
  BY <1>4, <1>5 DEF n1, Created, Nodes
<1>8. /\ n2 \in Nodes(T)
      /\ \A r \in Slot : /\ n2[r].t = n1[r].t /\ n2[r].next = n1[r].next
                         /\ n2[r].prev = IF r = a THEN s ELSE n1[r].prev
                         /\ r # a => n2[r] = n1[r]
  <2>1. n1 \in Nodes(T) /\ a \in Link /\ s \in Link
    BY <1>4, <1>5, <1>7
  <2> QED BY <2>1, PrevSet DEF n2
<1>9. e \in ListsOf(T)
  BY <1>4, <1>5, <1>6, <1>8 DEF ListsOf
<1>10. e.head = s /\ e.node = n2 /\ e.pool = Taken(d.pool)
  BY <1>6
<1>11. /\ c \in [1 .. n -> Slot]
       /\ \A j, m \in 1 .. n : c[j] = c[m] => j = m
       /\ a = IF n = 0 THEN NULL_ID ELSE c[1]
       /\ \A j \in 1 .. n : n0[c[j]].next = IF j = n THEN NULL_ID ELSE c[j + 1]
       /\ \A j \in 2 .. n : n0[c[j]].prev = c[j - 1]
       /\ \A j \in 1 .. n : c[j] \in Slot /\ c[j] # s
  <2>1. \A j \in 1 .. n : c[j] # s
    BY <1>3, <1>5 DEF Members
  <2> QED BY <2>1, <1>2 DEF ChainOf, a, n0
<1> DEFINE c2 == [j \in 1 .. n + 1 |-> IF j = 1 THEN s ELSE c[j - 1]]
<1>12. /\ c2[1] = s
       /\ \A j \in 2 .. n + 1 : c2[j] = c[j - 1] /\ j - 1 \in 1 .. n /\ j \in 1 .. n + 1
       /\ \A j \in 1 .. n + 1 : j = 1 \/ j \in 2 .. n + 1
       /\ n + 1 \in Nat
  OBVIOUS
<1>13. c2 \in [1 .. n + 1 -> Slot]
  BY <1>5, <1>12
<1> HIDE DEF c2
<1>14. \A j, m \in 1 .. n + 1 : c2[j] = c2[m] => j = m
  <2>1. TAKE j, m \in 1 .. n + 1
  <2>2. j # 1 => c2[j] = c[j - 1] /\ j - 1 \in 1 .. n /\ c[j - 1] # s
    BY <1>11, <1>12
  <2>3. m # 1 => c2[m] = c[m - 1] /\ m - 1 \in 1 .. n /\ c[m - 1] # s
    BY <1>11, <1>12
  <2>4. j # 1 /\ m # 1 /\ c2[j] = c2[m] => j - 1 = m - 1
    BY <2>2, <2>3, <1>11
  <2> QED BY <2>2, <2>3, <2>4, <1>12
<1>15. Members(c2, n + 1) = Members(c, n) \cup {s}
  <2>1. \A j \in 1 .. n + 1 : c2[j] \in Members(c, n) \cup {s}
    BY <1>12 DEF Members
  <2>2. ASSUME NEW j \in 1 .. n PROVE c[j] \in Members(c2, n + 1)
    <3>1. j + 1 \in 1 .. n + 1 /\ j + 1 \in 2 .. n + 1 /\ j + 1 - 1 = j
      OBVIOUS
    <3>2. c2[j + 1] = c[j]
      BY <3>1, <1>12
    <3> QED BY <3>1, <3>2 DEF Members
  <2>3. s \in Members(c2, n + 1)
    <3>1. 1 \in 1 .. n + 1
      OBVIOUS
    <3> QED BY <3>1, <1>12 DEF Members
  <2> QED BY <2>1, <2>2, <2>3 DEF Members
<1>16. ASSUME NEW j \in 1 .. n + 1 PROVE n2[c2[j]].next = IF j = n + 1 THEN NULL_ID ELSE c2[j + 1]
  <2>1. CASE j = 1
    <3>1. n2[c2[j]].next = a
      BY <2>1, <1>5, <1>7, <1>8, <1>12
    <3>2. n # 0 => c2[j + 1] = c[1]
      <4>1. n # 0 => 2 \in 2 .. n + 1
        OBVIOUS
      <4> QED BY <4>1, <2>1, <1>12
    <3> QED BY <2>1, <3>1, <3>2, <1>11
  <2>2. CASE j \in 2 .. n + 1
    <3>1. j - 1 \in 1 .. n /\ c2[j] = c[j - 1] /\ j - 1 + 1 = j /\ (j = n + 1 <=> j - 1 = n)
      BY <2>2, <1>12
    <3>2. j # n + 1 => j + 1 \in 2 .. n + 1 /\ j + 1 - 1 = j
      BY <2>2
    <3>3. j # n + 1 => c2[j + 1] = c[j]
      BY <3>2, <1>12
    <3>4. n2[c[j - 1]].next = n0[c[j - 1]].next
      BY <3>1, <1>7, <1>8, <1>11
    <3> QED BY <3>1, <3>3, <3>4, <1>11
  <2> QED BY <2>1, <2>2, <1>12
<1>17. ASSUME NEW j \in 2 .. n + 1 PROVE n2[c2[j]].prev = c2[j - 1]
  <2>1. j - 1 \in 1 .. n /\ c2[j] = c[j - 1] /\ c[j - 1] \in Slot
    BY <1>11, <1>12
  <2>2. CASE j = 2
    <3>1. c2[j] = a /\ c2[j - 1] = s
      BY <2>1, <2>2, <1>11, <1>12
    <3> QED BY <2>1, <3>1, <1>8
  <2>3. CASE j \in 3 .. n + 1
    <3>1. j - 1 \in 2 .. n /\ j - 1 \in 2 .. n + 1 /\ j - 1 # 1 /\ 1 \in 1 .. n
      BY <2>3
    <3>2. c2[j - 1] = c[j - 1 - 1] /\ n0[c[j - 1]].prev = c[j - 1 - 1]
      BY <3>1, <1>11, <1>12
    <3>3. c[j - 1] # a
      BY <2>1, <3>1, <1>11
    <3>4. n2[c[j - 1]].prev = n0[c[j - 1]].prev
      BY <2>1, <3>3, <1>7, <1>8, <1>11
    <3> QED BY <2>1, <3>2, <3>4
  <2>4. j = 2 \/ j \in 3 .. n + 1
    OBVIOUS
  <2> QED BY <2>2, <2>3, <2>4
<1>18. ChainOf(e, c2, n + 1)
  <2>1. e.head = IF n + 1 = 0 THEN NULL_ID ELSE c2[1]
    BY <1>10, <1>12
  <2> QED BY <2>1, <1>10, <1>12, <1>13, <1>14, <1>16, <1>17 DEF ChainOf
<1>19. WellLinked(e) /\ Reached(e) = Reached(d) \cup {s}
  BY <1>3, <1>9, <1>15, <1>18, LinkedParts
<1>20. PoolOK(e.pool, U \cup {s})
  BY <1>5, <1>10
<1>21. e.node[s].t = x /\ \A r \in Slot \ {s} : n2[r].t = n0[r].t
  BY <1>5, <1>7, <1>8, <1>10
<1>22. \A r \in Slot \ (Reached(d) \cup {s}) : n2[r] = n0[r]
  <2>1. \A r \in Slot \ Reached(d) : r # a
    BY <1>3, <1>4, <1>11 DEF Members
  <2> QED BY <2>1, <1>7, <1>8
<1> QED BY <1>5, <1>9, <1>10, <1>19, <1>20, <1>21, <1>22 DEF e, s, n0

(* PopFront() of a list that is not empty: the head is no longer reached,  *)
(* and its slot goes back to the pool.                                     *)
LEMMA PoppedFrontOK ==
  ASSUME NEW T, NEW d \in ListsOf(T), WellLinked(d), d.head # NULL_ID,
         NEW U, Reached(d) \subseteq U, U \subseteq Slot, PoolOK(d.pool, U)
  PROVE  LET e == PopFront(d)
         IN /\ d.head \in Reached(d)
            /\ e \in ListsOf(T) /\ WellLinked(e) /\ Reached(e) = Reached(d) \ {d.head}
            /\ PoolOK(e.pool, U \ {d.head})
            /\ \A r \in Slot : e.node[r].t = d.node[r].t
            /\ \A r \in Slot \ Reached(d) : e.node[r] = d.node[r]
PROOF
<1> DEFINE e == PopFront(d)
           a == d.head
           n0 == d.node
           b == n0[a].next
           n1 == SetPrev(n0, b, NULL_ID)
<1>1. PICK n \in Nat : \E c \in [1 .. n -> Slot] : ChainOf(d, c, n)
  BY DEF WellLinked
<1>2. PICK c \in [1 .. n -> Slot] : ChainOf(d, c, n)
  BY <1>1
<1>3. Reached(d) = Members(c, n)
  BY <1>2, LinkedParts
<1>4. /\ a \in Link /\ d.tail \in Link /\ n0 \in Nodes(T) /\ d.pool \in PoolType
      /\ \A r \in Slot : r # NULL_ID /\ r \in Link /\ n0[r].next \in Link
      /\ NULL_ID \in Link
  BY LinkedParts, NAssumption DEF Slot, NULL_ID, Link
<1>5. /\ c \in [1 .. n -> Slot]
      /\ \A j, m \in 1 .. n : c[j] = c[m] => j = m
      /\ a = IF n = 0 THEN NULL_ID ELSE c[1]
      /\ \A j \in 1 .. n : n0[c[j]].next = IF j = n THEN NULL_ID ELSE c[j + 1]
      /\ \A j \in 2 .. n : n0[c[j]].prev = c[j - 1]
  BY <1>2 DEF ChainOf
<1>6. n # 0 /\ n - 1 \in Nat /\ 1 \in 1 .. n /\ a = c[1] /\ a \in Slot
  BY <1>5
<1>7. a \in Reached(d) /\ a \in U
  BY <1>3, <1>6 DEF Members
<1>8. Released(d.pool, a) \in PoolType /\ PoolOK(Released(d.pool, a), U \ {a})
  <2> DEFINE p == d.pool
  <2>1. p \in PoolType /\ PoolOK(p, U)
    BY <1>4
  <2> HIDE DEF p, a
  <2>2. Released(p, a) \in PoolType /\ PoolOK(Released(p, a), U \ {a})
    BY <2>1, <1>7, ReleasedOK
  <2> QED BY <2>2 DEF p
<1>9. b = IF n = 1 THEN NULL_ID ELSE c[2]
  BY <1>5, <1>6
<1>10. e = [head |-> b, tail |-> IF b = NULL_ID THEN NULL_ID ELSE d.tail, node |-> n1,
            pool |-> Released(d.pool, a)]
  BY DEF PopFront
<1> HIDE DEF e, a, n0, b, n1
<1>11. b \in Link /\ (n # 1 => 2 \in 1 .. n /\ b \in Slot)
  BY <1>4, <1>5, <1>6, <1>9
<1>12. /\ n1 \in Nodes(T)
       /\ \A r \in Slot : /\ n1[r].t = n0[r].t /\ n1[r].next = n0[r].next
                          /\ n1[r].prev = IF r = b THEN NULL_ID ELSE n0[r].prev
                          /\ r # b => n1[r] = n0[r]
  BY <1>4, <1>11, PrevSet DEF n1
<1>13. e \in ListsOf(T)
  BY <1>4, <1>8, <1>10, <1>11, <1>12 DEF ListsOf
<1>14. e.head = b /\ e.node = n1 /\ e.pool = Released(d.pool, a)
  BY <1>10
<1> DEFINE c2 == [j \in 1 .. n - 1 |-> c[j + 1]]
<1>15. \A j \in 1 .. n - 1 : c2[j] = c[j + 1] /\ j + 1 \in 1 .. n /\ j + 1 \in 2 .. n
  OBVIOUS
<1>16. c2 \in [1 .. n - 1 -> Slot]
  BY <1>5, <1>15
<1> HIDE DEF c2
<1>17. \A j, m \in 1 .. n - 1 : c2[j] = c2[m] => j = m
  BY <1>5, <1>15
<1>18. Members(c2, n - 1) = Members(c, n) \ {a}
  <2>1. ASSUME NEW j \in 1 .. n - 1 PROVE c2[j] \in Members(c, n) \ {a}
    <3>1. c[j + 1] # c[1]
      BY <1>5, <1>6, <1>15
    <3> QED BY <3>1, <1>6, <1>15 DEF Members
  <2>2. ASSUME NEW j \in 1 .. n, c[j] # a PROVE c[j] \in Members(c2, n - 1)
    <3>1. j # 1
      BY <2>2, <1>6
    <3>2. j - 1 \in 1 .. n - 1 /\ j - 1 + 1 = j
      BY <3>1
    <3>3. c2[j - 1] = c[j]
      BY <3>2, <1>15
    <3> QED BY <3>2, <3>3 DEF Members
  <2> QED BY <2>1, <2>2 DEF Members
<1>19. ASSUME NEW j \in 1 .. n - 1 PROVE n1[c2[j]].next = IF j = n - 1 THEN NULL_ID ELSE c2[j + 1]
  <2>1. c2[j] = c[j + 1] /\ c[j + 1] \in Slot /\ j + 1 \in 1 .. n /\ (j = n - 1 <=> j + 1 = n)
    BY <1>5, <1>15
  <2>2. n1[c[j + 1]].next = IF j + 1 = n THEN NULL_ID ELSE c[j + 1 + 1]
    BY <2>1, <1>5, <1>12
  <2>3. j # n - 1 => j + 1 \in 1 .. n - 1
    OBVIOUS
  <2>4. j # n - 1 => c2[j + 1] = c[j + 1 + 1]
    BY <2>3, <1>15
  <2> QED BY <2>1, <2>2, <2>4
<1>20. ASSUME NEW j \in 2 .. n - 1 PROVE n1[c2[j]].prev = c2[j - 1]
  <2>1. j \in 1 .. n - 1 /\ j - 1 \in 1 .. n - 1 /\ j + 1 \in 2 .. n /\ j - 1 + 1 = j /\ j + 1 - 1 = j
        /\ j + 1 # 2 /\ n # 1 /\ j + 1 \in 1 .. n
    OBVIOUS
  <2>2. c2[j] = c[j + 1] /\ c2[j - 1] = c[j] /\ c[j + 1] \in Slot
    BY <2>1, <1>5, <1>15
  <2>3. c[j + 1] # b
    BY <2>1, <1>5, <1>9, <1>11
  <2>4. n0[c[j + 1]].prev = c[j]
    BY <2>1, <1>5
  <2> QED BY <2>2, <2>3, <2>4, <1>12
<1>21. ChainOf(e, c2, n - 1)
  <2>1. e.head = IF n - 1 = 0 THEN NULL_ID ELSE c2[1]
    <3>1. n # 1 => 1 \in 1 .. n - 1
      BY <1>6
    <3> QED BY <3>1, <1>9, <1>14, <1>15
  <2> QED BY <2>1, <1>6, <1>14, <1>16, <1>17, <1>19, <1>20 DEF ChainOf
<1>22. WellLinked(e) /\ Reached(e) = Reached(d) \ {a}
  BY <1>3, <1>13, <1>18, <1>21, LinkedParts
<1>23. \A r \in Slot \ Reached(d) : n1[r] = n0[r]
  <2>1. \A r \in Slot \ Reached(d) : r # b
    BY <1>3, <1>4, <1>9, <1>11 DEF Members
  <2> QED BY <2>1, <1>12
<1> QED BY <1>7, <1>8, <1>12, <1>13, <1>14, <1>22, <1>23 DEF e, a, n0

-----------------------------------------------------------------------------
(***************************************************************************)
(* What LRUBuffer::Get preserves, for any set of pages.                    *)
(***************************************************************************)

(* The buffer is well formed: what BufferGet assumes and preserves. *)
BufferOK(b) ==
  /\ b \in BufferType
  /\ TableOK(b) /\ LinksOK(b) /\ PoolOK(b.list.pool, Used(b))

-----------------------------------------------------------------------------
(* Nodes whose links, from slots of U, stay within U. *)
NodesOK(node, U) ==
  /\ node \in [Slot -> NodeType]
  /\ \A s \in U : {node[s].prev, node[s].next} \subseteq U \cup {NULL_ID}

(* Writing one link keeps the links inside U and what the nodes hold. *)
LEMMA SetPrevOK ==
  ASSUME NEW U \in SUBSET Slot, NEW node, NodesOK(node, U),
         NEW i \in U \cup {NULL_ID}, NEW v \in U \cup {NULL_ID}
  PROVE  /\ NodesOK(SetPrev(node, i, v), U)
         /\ \A s \in Slot : SetPrev(node, i, v)[s].t = node[s].t
PROOF BY DEF NodesOK, SetPrev, NodeType, Link

LEMMA SetNextOK ==
  ASSUME NEW U \in SUBSET Slot, NEW node, NodesOK(node, U),
         NEW i \in U \cup {NULL_ID}, NEW v \in U \cup {NULL_ID}
  PROVE  /\ NodesOK(SetNext(node, i, v), U)
         /\ \A s \in Slot : SetNext(node, i, v)[s].t = node[s].t
PROOF BY DEF NodesOK, SetNext, NodeType, Link

(* The unlinking writes do too, whatever the links of i are. *)
LEMMA UnlinkedOK ==
  ASSUME NEW U \in SUBSET Slot, NEW node, NodesOK(node, U), NEW i \in U
  PROVE  /\ NodesOK(Unlinked(node, i), U)
         /\ \A s \in Slot : Unlinked(node, i)[s].t = node[s].t
PROOF
<1> DEFINE n1 == SetPrev(node, node[i].next, node[i].prev)
<1>1. node[i].next \in U \cup {NULL_ID} /\ node[i].prev \in U \cup {NULL_ID}
  BY DEF NodesOK
<1>2. NodesOK(n1, U) /\ \A s \in Slot : n1[s].t = node[s].t
  BY <1>1, SetPrevOK
<1>3. n1[i].next \in U \cup {NULL_ID} /\ n1[i].prev \in U \cup {NULL_ID}
  BY <1>2 DEF NodesOK
<1>4. Unlinked(node, i) = SetNext(n1, n1[i].prev, n1[i].next)
  BY DEF Unlinked
<1> HIDE DEF n1
<1>5. NodesOK(SetNext(n1, n1[i].prev, n1[i].next), U)
      /\ \A s \in Slot : SetNext(n1, n1[i].prev, n1[i].next)[s].t = n1[s].t
  BY <1>2, <1>3, SetNextOK
<1> QED BY <1>2, <1>4, <1>5

(* What BufferOK says of the parts of a buffer. *)
LEMMA PartsOK ==
  ASSUME NEW b, BufferOK(b)
  PROVE  /\ Used(b) \in SUBSET Slot
         /\ NodesOK(b.list.node, Used(b))
         /\ b.list.head \in Used(b) \cup {NULL_ID}
         /\ b.list.tail \in Used(b) \cup {NULL_ID}
         /\ b.list.pool \in PoolType
         /\ b.table \in [Page -> Link]
         /\ \A p \in Cached(b) : p \in Page /\ b.table[p] \in Used(b)
         /\ \A s \in Used(b) : \E p \in Cached(b) : b.table[p] = s /\ b.list.node[s].t = p
PROOF
<1>1. b.list \in ListType /\ b.table \in [Page -> Link]
  BY DEF BufferOK, BufferType
<1>2. /\ b.list.node \in [Slot -> NodeType]
      /\ b.list.pool \in PoolType
  BY <1>1 DEF ListType, PoolType
<1>3. \A p \in Cached(b) : p \in Page /\ b.table[p] \in Used(b)
  BY DEF Cached, Used
<1>4. Used(b) \in SUBSET Slot
  BY <1>1 DEF Used, Cached, Link
<1>5. \A s \in Used(b) : \E p \in Cached(b) : b.table[p] = s /\ b.list.node[s].t = p
  BY DEF Used, BufferOK, TableOK
<1>6. LinksOK(b)
  BY DEF BufferOK
<1>7. /\ b.list.head \in Used(b) \cup {NULL_ID}
      /\ b.list.tail \in Used(b) \cup {NULL_ID}
      /\ NodesOK(b.list.node, Used(b))
  BY <1>2, <1>6 DEF LinksOK, NodesOK
<1> QED BY <1>1, <1>2, <1>3, <1>4, <1>5, <1>7

(* The empty buffer of the constructor. *)
LEMMA NewBufferOK == BufferOK(NewBuffer) /\ Cached(NewBuffer) = {}
PROOF
<1>n. N \in Nat \ {0} BY NAssumption
<1>1. Cached(NewBuffer) = {} /\ Used(NewBuffer) = {}
  BY DEF Cached, Used, NewBuffer
<1>2. NewPool \in PoolType /\ PoolOK(NewPool, {})
  BY NewPoolOK
<1>3. NewBuffer \in BufferType
  <2>1. NewPool \in [free : Seq(Slot), max_page : 1 .. N, size : 0 .. N]
    BY <1>2 DEF PoolType
  <2>2. NewList(NULL_ID) \in ListType
    BY <2>1 DEF NewList, ListType, NodeType, Link
  <2> QED BY <2>2 DEF NewBuffer, BufferType, Link
<1>4. TableOK(NewBuffer)
  BY <1>1 DEF TableOK
<1>5. LinksOK(NewBuffer)
  BY <1>1 DEF LinksOK, NewBuffer, NewList
<1>6. NewBuffer.list.pool = NewPool
  BY DEF NewBuffer, NewList
<1> QED BY <1>1, <1>2, <1>3, <1>4, <1>5, <1>6 DEF BufferOK

(* A hit: nothing but the order of the list changes. *)
LEMMA HitOK ==
  ASSUME NEW b, BufferOK(b), NEW i \in Cached(b)
  PROVE  /\ BufferOK(Hit(b, i).buffer)
         /\ Hit(b, i).buffer.table = b.table
PROOF
<1> DEFINE c == Hit(b, i).buffer
           l == b.list
           s == b.table[i]
           n1 == Unlinked(l.node, s)
           n2 == SetPrev(n1, l.head, s)
           n3 == SetNext(n2, s, l.head)
           U == Used(b)
<1>1. /\ U \in SUBSET Slot /\ NodesOK(l.node, U) /\ l.head \in U \cup {NULL_ID}
      /\ s \in U /\ s \in Slot /\ l.pool \in PoolType
  BY PartsOK
<1>2. c = [list |-> MoveToFront(l, s), table |-> b.table]
  BY DEF Hit
<1>3. CASE s \in {NULL_ID, l.head}
  <2>1. MoveToFront(l, s) = l
    BY <1>3 DEF MoveToFront
  <2>2. b = [list |-> b.list, table |-> b.table]
    BY DEF BufferOK, BufferType
  <2> QED BY <1>2, <2>1, <2>2
<1>4. CASE s \notin {NULL_ID, l.head}
  <2>1. MoveToFront(l, s) = [head |-> s, tail |-> l.tail, node |-> n3, pool |-> l.pool]
    BY <1>4 DEF MoveToFront
  <2>2. NodesOK(n1, U) /\ \A x \in Slot : n1[x].t = l.node[x].t
    BY <1>1, UnlinkedOK
  <2>3. NodesOK(n2, U) /\ \A x \in Slot : n2[x].t = n1[x].t
    <3> HIDE DEF n1, n3, U, l, s
    <3>1. U \in SUBSET Slot /\ NodesOK(n1, U) /\ l.head \in U \cup {NULL_ID} /\ s \in U \cup {NULL_ID}
      BY <1>1, <2>2
    <3>2. NodesOK(SetPrev(n1, l.head, s), U)
          /\ \A x \in Slot : SetPrev(n1, l.head, s)[x].t = n1[x].t
      BY <3>1, SetPrevOK
    <3> QED BY <3>2
  <2>4. NodesOK(n3, U) /\ \A x \in Slot : n3[x].t = n2[x].t
    <3> HIDE DEF n2
    <3> QED BY <1>1, <2>3, SetNextOK
  <2> HIDE DEF n1, n2, n3
  <2>5. /\ c.list.head = s /\ c.list.tail = l.tail /\ c.list.node = n3
        /\ c.list.pool = l.pool /\ c.table = b.table
    BY <1>2, <2>1
  <2>6. Cached(c) = Cached(b) /\ Used(c) = U
    BY <2>5 DEF Cached, Used
  <2>7. c \in BufferType
    <3>1. l.tail \in Link /\ s \in Link /\ b.table \in [Page -> Link]
      BY <1>1 DEF BufferOK, BufferType, ListType, Link
    <3>2. c.list \in ListType
      BY <3>1, <1>1, <1>2, <2>1, <2>4 DEF ListType, PoolType, NodesOK
    <3> QED BY <3>1, <3>2, <1>2 DEF BufferType
  <2>8. TableOK(c)
    <3>1. \A p \in Cached(b) : b.table[p] \in Slot /\ l.node[b.table[p]].t = p
      BY <1>1, PartsOK DEF BufferOK, TableOK
    <3>2. \A p, q \in Cached(b) : b.table[p] = b.table[q] => p = q
      BY DEF BufferOK, TableOK
    <3> QED BY <3>1, <3>2, <2>2, <2>3, <2>4, <2>5, <2>6 DEF TableOK
  <2>9. LinksOK(c)
    <3>1. s # NULL_ID /\ l.tail # NULL_ID /\ l.tail \in U \cup {NULL_ID}
      BY <1>4, PartsOK DEF BufferOK, LinksOK
    <3> QED BY <3>1, <1>1, <2>4, <2>5, <2>6 DEF LinksOK, NodesOK
  <2>10. PoolOK(c.list.pool, Used(c))
    BY <2>5, <2>6 DEF BufferOK
  <2> QED BY <2>5, <2>7, <2>8, <2>9, <2>10 DEF BufferOK
<1> QED BY <1>3, <1>4

(* PushFront(i) into a slot s that serves no page keeps the nodes of       *)
(* U \cup {s} linked among themselves; s then holds i, and no other node   *)
(* changes what it holds (double_linked_list.h:42-53).                     *)
LEMMA PushedOK ==
  ASSUME NEW U \in SUBSET Slot, NEW node, NodesOK(node, U),
         NEW s \in Slot, NEW h, h \in U \cup {s, NULL_ID}, NEW i \in Page
  PROVE  /\ NodesOK(SetPrev(Created(node, s, i, h, NULL_ID), h, s), U \cup {s})
         /\ SetPrev(Created(node, s, i, h, NULL_ID), h, s)[s].t = i
         /\ \A r \in Slot \ {s} :
              SetPrev(Created(node, s, i, h, NULL_ID), h, s)[r].t = node[r].t
PROOF
<1> DEFINE made == Created(node, s, i, h, NULL_ID)
           V == U \cup {s}
<1>1. NodesOK(made, V) /\ made[s].t = i /\ \A r \in Slot \ {s} : made[r].t = node[r].t
  BY DEF NodesOK, NodeType, Link, Created
<1>2. V \in SUBSET Slot /\ h \in V \cup {NULL_ID} /\ s \in V \cup {NULL_ID}
  OBVIOUS
<1> HIDE DEF made, V
<1>3. NodesOK(SetPrev(made, h, s), V) /\ \A r \in Slot : SetPrev(made, h, s)[r].t = made[r].t
  BY <1>1, <1>2, SetPrevOK
<1> QED BY <1>1, <1>3 DEF made, V

(* A miss with a slot to spare: the page gets a slot that served no page. *)
LEMMA FillOK ==
  ASSUME NEW b, BufferOK(b), NEW i \in Page, i \notin Cached(b), ~Exhausted(b.list.pool)
  PROVE  /\ BufferOK(Fill(b, i).buffer)
         /\ Fill(b, i).ret \in Slot \ Used(b)
         /\ Fill(b, i).buffer.table = [b.table EXCEPT ![i] = Fill(b, i).ret]
PROOF
<1> DEFINE c == Fill(b, i).buffer
           l == b.list
           s == NextId(l.pool)
           h == l.head
           made == Created(l.node, s, i, h, NULL_ID)
           node == SetPrev(made, h, s)
           U == Used(b)
<1>1. /\ U \in SUBSET Slot /\ NodesOK(l.node, U) /\ h \in U \cup {NULL_ID}
      /\ l.pool \in PoolType /\ l.tail \in U \cup {NULL_ID} /\ b.table \in [Page -> Link]
  BY PartsOK
<1>2. s \in Slot \ U /\ Taken(l.pool) \in PoolType /\ PoolOK(Taken(l.pool), U \cup {s})
  BY <1>1, TakenOK DEF BufferOK
<1>3. PushFront(l, i) = [head |-> s, tail |-> IF h = NULL_ID THEN s ELSE l.tail,
                         node |-> node, pool |-> Taken(l.pool)]
  BY DEF PushFront
<1>4. /\ NodesOK(node, U \cup {s}) /\ node[s].t = i
      /\ \A r \in Slot \ {s} : node[r].t = l.node[r].t
  <2>1. U \in SUBSET Slot /\ NodesOK(l.node, U) /\ s \in Slot /\ h \in U \cup {s, NULL_ID}
        /\ i \in Page
    BY <1>1, <1>2
  <2> HIDE DEF U, l, s, h
  <2>2. /\ NodesOK(SetPrev(Created(l.node, s, i, h, NULL_ID), h, s), U \cup {s})
        /\ SetPrev(Created(l.node, s, i, h, NULL_ID), h, s)[s].t = i
        /\ \A r \in Slot \ {s} :
             SetPrev(Created(l.node, s, i, h, NULL_ID), h, s)[r].t = l.node[r].t
    BY <2>1, PushedOK
  <2> QED BY <2>2
<1> HIDE DEF made, node
<1>5. c = [list  |-> [head |-> s, tail |-> IF h = NULL_ID THEN s ELSE l.tail,
                      node |-> node, pool |-> Taken(l.pool)],
           table |-> [b.table EXCEPT ![i] = s]]
      /\ Fill(b, i).ret = s
  BY <1>3 DEF Fill
<1>6. s # NULL_ID /\ s \in Link
  BY <1>2 DEF Slot, NULL_ID, Link
<1>7. Cached(c) = Cached(b) \cup {i} /\ Used(c) = U \cup {s}
  <2>1. \A p \in Page : c.table[p] = IF p = i THEN s ELSE b.table[p]
    BY <1>1, <1>5
  <2>2. Cached(c) = Cached(b) \cup {i}
    BY <2>1, <1>6 DEF Cached
  <2> QED BY <2>1, <2>2 DEF Used, Cached
<1>8. c \in BufferType
  <2>1. c.table \in [Page -> Link]
    BY <1>1, <1>5, <1>6
  <2>2. c.list \in ListType
    BY <1>1, <1>2, <1>4, <1>5, <1>6 DEF ListType, PoolType, NodesOK, Link
  <2> QED BY <2>1, <2>2, <1>5 DEF BufferType
<1>9. TableOK(c)
  <2>1. \A p \in Cached(b) : /\ p # i /\ b.table[p] \in U /\ b.table[p] \in Slot
                             /\ l.node[b.table[p]].t = p
    BY <1>1, PartsOK DEF BufferOK, TableOK
  <2>2. \A p \in Cached(b) : c.table[p] = b.table[p] /\ b.table[p] # s
    BY <2>1, <1>1, <1>2, <1>5
  <2>3. c.table[i] = s /\ c.list.node = node
    BY <1>1, <1>5
  <2>4. \A p, q \in Cached(b) : b.table[p] = b.table[q] => p = q
    BY DEF BufferOK, TableOK
  <2> QED BY <2>1, <2>2, <2>3, <2>4, <1>2, <1>4, <1>7 DEF TableOK
<1>10. LinksOK(c)
  <2>1. h # NULL_ID => l.tail # NULL_ID
    BY <1>1 DEF BufferOK, LinksOK, Used
  <2> QED BY <2>1, <1>1, <1>2, <1>4, <1>5, <1>6, <1>7 DEF LinksOK, NodesOK
<1> QED BY <1>2, <1>5, <1>7, <1>8, <1>9, <1>10 DEF BufferOK

(* A miss with every slot taken: the tail is in use, the page x it holds   *)
(* loses its slot, and the page asked for gets it, although tail, prev and *)
(* next may say nothing about the order of use any more.                   *)
LEMMA EvictOK ==
  ASSUME NEW b, BufferOK(b), NEW i \in Page, i \notin Cached(b), Exhausted(b.list.pool)
  PROVE  /\ BufferOK(Evict(b, i).buffer)
         /\ Used(b) = Slot
         /\ Evict(b, i).replace_key \in Cached(b)
         /\ Evict(b, i).replace_value = b.table[Evict(b, i).replace_key]
         /\ Evict(b, i).ret = Evict(b, i).replace_value
         /\ Evict(b, i).buffer.table =
              [[b.table EXCEPT ![Evict(b, i).replace_key] = NULL_ID]
                        EXCEPT ![i] = Evict(b, i).ret]
PROOF
<1> DEFINE c == Evict(b, i).buffer
           l == b.list
           s == l.tail
           x == l.node[s].t
           t == l.node[s].prev
           h == IF t = NULL_ID THEN NULL_ID ELSE l.head
           n1 == SetNext(l.node, t, NULL_ID)
           made == Created(n1, s, i, h, NULL_ID)
           node == SetPrev(made, h, s)
<1>n. N \in Nat \ {0} BY NAssumption
<1>1. /\ NodesOK(l.node, Used(b)) /\ l.head \in Used(b) \cup {NULL_ID}
      /\ l.pool \in PoolType /\ b.table \in [Page -> Link]
  BY PartsOK
<1>2. Used(b) = Slot /\ l.pool.max_page = N
  <2>1. FreeSlots(l.pool) = {}
    BY DEF FreeSlots, Exhausted
  <2> QED BY <2>1 DEF BufferOK, PoolOK, Slot
<1>3. s \in Slot /\ s # NULL_ID
  <2>1. 0 \in Used(b)
    BY <1>2, <1>n DEF Slot
  <2>2. Cached(b) # {}
    BY <2>1 DEF Used
  <2> QED BY <2>2, <1>2, PartsOK DEF BufferOK, LinksOK
<1>4. x \in Cached(b) /\ b.table[x] = s /\ x \in Page
  BY <1>2, <1>3, PartsOK
<1>5. t \in Slot \cup {NULL_ID} /\ h \in Slot \cup {s, NULL_ID}
  BY <1>1, <1>2, <1>3 DEF NodesOK
<1>6. NodesOK(n1, Slot) /\ \A r \in Slot : n1[r].t = l.node[r].t
  <2>1. Slot \in SUBSET Slot /\ NodesOK(l.node, Slot) /\ t \in Slot \cup {NULL_ID}
    BY <1>1, <1>2, <1>5
  <2> HIDE DEF l, t
  <2>2. NULL_ID \in Slot \cup {NULL_ID}
    OBVIOUS
  <2>3. /\ NodesOK(SetNext(l.node, t, NULL_ID), Slot)
        /\ \A r \in Slot : SetNext(l.node, t, NULL_ID)[r].t = l.node[r].t
    BY ONLY <2>1, <2>2, SetNextOK
  <2> QED BY <2>3
<1>7. /\ ~Exhausted(Released(l.pool, s)) /\ NextId(Released(l.pool, s)) = s
      /\ Taken(Released(l.pool, s)) = l.pool
  BY <1>1, <1>2, <1>3, TurnedOver
<1>8. PopBack(l) = [head |-> h, tail |-> t, node |-> n1, pool |-> Released(l.pool, s)]
  BY <1>3 DEF PopBack
<1>9. PushFront(PopBack(l), i) = [head |-> s, tail |-> IF h = NULL_ID THEN s ELSE t,
                                  node |-> node, pool |-> l.pool]
  <2> DEFINE d == PopBack(l)
  <2>1. d.head = h /\ d.tail = t /\ d.node = n1 /\ d.pool = Released(l.pool, s)
    <3> HIDE DEF h, t, n1, l, s
    <3> QED BY <1>8
  <2> HIDE DEF d, l, s, h, t, n1
  <2>2. ~Exhausted(d.pool) /\ NextId(d.pool) = s /\ Taken(d.pool) = l.pool
    BY <2>1, <1>7
  <2>3. PushFront(d, i) =
          [head |-> s, tail |-> IF d.head = NULL_ID THEN s ELSE d.tail,
           node |-> SetPrev(Created(d.node, s, i, d.head, NULL_ID), d.head, s),
           pool |-> l.pool]
    BY <2>2 DEF PushFront
  <2> QED BY <2>1, <2>3 DEF d
<1>10. /\ NodesOK(node, Slot) /\ node[s].t = i
       /\ \A r \in Slot \ {s} : node[r].t = n1[r].t
  <2>1. /\ NodesOK(node, Slot \cup {s}) /\ node[s].t = i
        /\ \A r \in Slot \ {s} : node[r].t = n1[r].t
    <3> DEFINE U == Slot
    <3>1. U \in SUBSET Slot /\ NodesOK(n1, U) /\ s \in Slot /\ h \in U \cup {s, NULL_ID}
      BY <1>3, <1>5, <1>6
    <3> HIDE DEF n1, h, s, l, t, U
    <3>3. /\ NodesOK(SetPrev(Created(n1, s, i, h, NULL_ID), h, s), U \cup {s})
          /\ SetPrev(Created(n1, s, i, h, NULL_ID), h, s)[s].t = i
          /\ \A r \in Slot \ {s} :
               SetPrev(Created(n1, s, i, h, NULL_ID), h, s)[r].t = n1[r].t
      BY <3>1, PushedOK
    <3> USE DEF U
    <3> QED BY <3>3
  <2>2. Slot \cup {s} = Slot
    BY <1>3
  <2> QED BY <2>1, <2>2
<1> HIDE DEF n1, made, node
<1>11. /\ c = [list  |-> [head |-> s, tail |-> IF h = NULL_ID THEN s ELSE t,
                          node |-> node, pool |-> l.pool],
               table |-> [[b.table EXCEPT ![x] = NULL_ID] EXCEPT ![i] = s]]
       /\ Evict(b, i).ret = s
       /\ Evict(b, i).replace_key = x /\ Evict(b, i).replace_value = b.table[x]
  BY <1>9 DEF Evict
<1> HIDE DEF h, t, x, s, c
<1>12. \A p \in Page : c.table[p] = IF p = i THEN s ELSE IF p = x THEN NULL_ID ELSE b.table[p]
  BY <1>1, <1>11
<1>13. Cached(c) = (Cached(b) \ {x}) \cup {i}
  BY <1>12, <1>3 DEF Cached
<1>14. Used(c) = Slot
  <2>1. \A r \in Slot : \E p \in Cached(c) : c.table[p] = r
    <3>1. TAKE r \in Slot
    <3>2. PICK p \in Cached(b) : b.table[p] = r
      BY <1>2 DEF Used
    <3>3. CASE p = x
      BY <3>2, <3>3, <1>4, <1>12, <1>13
    <3>4. CASE p # x
      BY <3>2, <3>4, <1>12, <1>13 DEF Cached
    <3> QED BY <3>3, <3>4
  <2>2. \A p \in Cached(c) : c.table[p] \in Slot
    BY <1>3, <1>12, <1>13, PartsOK
  <2> QED BY <2>1, <2>2 DEF Used
<1>15. c \in BufferType
  <2>1. c.table \in [Page -> Link]
    BY <1>1, <1>3, <1>11 DEF Link
  <2>2. c.list \in ListType
    BY <1>1, <1>3, <1>5, <1>10, <1>11 DEF ListType, PoolType, NodesOK, Link
  <2> QED BY <2>1, <2>2, <1>11 DEF BufferType
<1>16. TableOK(c)
  <2>1. \A p \in Cached(b) : p \in Page /\ b.table[p] \in Slot /\ l.node[b.table[p]].t = p
    BY PartsOK DEF BufferOK, TableOK
  <2>2. \A p, q \in Cached(b) : b.table[p] = b.table[q] => p = q
    BY DEF BufferOK, TableOK
  <2>3. \A p \in Cached(b) \ {x} : /\ c.table[p] = b.table[p] /\ c.table[p] # s
                                   /\ node[c.table[p]].t = p
    BY <2>1, <2>2, <1>4, <1>6, <1>10, <1>12
  <2>4. c.table[i] = s /\ c.list.node = node /\ node[s].t = i
    BY <1>3, <1>10, <1>11, <1>12
  <2> QED BY <2>2, <2>3, <2>4, <1>12, <1>13 DEF TableOK
<1>17. LinksOK(c)
  <2>1. h # NULL_ID => t # NULL_ID
    BY DEF h
  <2> QED BY <2>1, <1>3, <1>5, <1>10, <1>11, <1>14 DEF LinksOK, NodesOK
<1>18. PoolOK(c.list.pool, Used(c))
  BY <1>2, <1>11, <1>14 DEF BufferOK
<1>19. BufferOK(c)
  BY <1>15, <1>16, <1>17, <1>18 DEF BufferOK
<1> QED BY <1>2, <1>4, <1>11, <1>19 DEF c

(* LRUBuffer::Get keeps the buffer well formed, and moves no page but the  *)
(* one asked for and the one replaced.                                     *)
LEMMA BufferGetOK ==
  ASSUME NEW b, BufferOK(b), NEW i \in Page
  PROVE  LET g == BufferGet(b, i)
         IN /\ BufferOK(g.buffer)
            /\ g.ret \in Slot /\ g.buffer.table[i] = g.ret
            /\ g.miss \in BOOLEAN /\ (g.miss <=> i \notin Cached(b))
            /\ ~g.miss => g.replace_key = NULL_ID /\ g.buffer.table = b.table
            /\ g.replace_key # NULL_ID => /\ g.replace_key \in Cached(b) \ {i}
                                          /\ g.replace_value = b.table[g.replace_key]
                                          /\ g.ret = g.replace_value
                                          /\ Used(b) = Slot
            /\ g.miss /\ g.replace_key = NULL_ID => g.ret \notin Used(b)
            /\ \A p \in Page \ {i} : g.buffer.table[p] = IF p = g.replace_key THEN NULL_ID
                                                       ELSE b.table[p]
PROOF
<1> DEFINE g == BufferGet(b, i)
<1>1. b.table \in [Page -> Link] /\ \A p \in Page : p # NULL_ID
  BY PartsOK, PageAssumption DEF NULL_ID
<1>2. i \in Cached(b) <=> b.table[i] # NULL_ID
  BY DEF Cached
<1>3. CASE i \in Cached(b)
  <2>1. g = Hit(b, i)
    BY <1>2, <1>3 DEF BufferGet
  <2>2. /\ g.ret = b.table[i] /\ g.miss = FALSE /\ g.replace_key = NULL_ID
    BY <2>1 DEF Hit
  <2>3. BufferOK(g.buffer) /\ g.buffer.table = b.table
    BY <1>3, <2>1, HitOK
  <2>4. b.table[i] \in Slot
    BY <1>1, <1>2, <1>3 DEF Link
  <2> HIDE DEF g
  <2> QED BY <1>1, <1>3, <2>2, <2>3, <2>4 DEF g
<1>4. CASE i \notin Cached(b) /\ ~Exhausted(b.list.pool)
  <2>1. g = Fill(b, i)
    BY <1>2, <1>4 DEF BufferGet
  <2>2. g.miss = TRUE /\ g.replace_key = NULL_ID
    BY <2>1 DEF Fill
  <2>3. BufferOK(g.buffer) /\ g.ret \in Slot \ Used(b) /\ g.buffer.table = [b.table EXCEPT ![i] = g.ret]
    BY <1>4, <2>1, FillOK
  <2> HIDE DEF g
  <2> QED BY <1>1, <1>4, <2>2, <2>3 DEF g
<1>5. CASE i \notin Cached(b) /\ Exhausted(b.list.pool)
  <2>1. g = Evict(b, i)
    BY <1>2, <1>5 DEF BufferGet
  <2>2. g.miss = TRUE
    BY <2>1 DEF Evict
  <2>3. /\ BufferOK(g.buffer) /\ Used(b) = Slot
        /\ g.replace_key \in Cached(b) /\ g.replace_value = b.table[g.replace_key]
        /\ g.ret = g.replace_value
        /\ g.buffer.table = [[b.table EXCEPT ![g.replace_key] = NULL_ID] EXCEPT ![i] = g.ret]
    BY <1>5, <2>1, EvictOK
  <2>4. g.replace_key \in Page \ {i} /\ g.ret \in Slot
    BY <1>1, <1>5, <2>3 DEF Cached, Link
  <2> HIDE DEF g
  <2> QED BY <1>1, <1>5, <2>2, <2>3, <2>4 DEF g
<1> QED BY <1>3, <1>4, <1>5
==============================================================================
