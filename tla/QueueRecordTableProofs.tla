------------------------- MODULE QueueRecordTableProofs -------------------------
(***************************************************************************)
(* The invariants of QueueRecordTable, for any number of pages and of      *)
(* records to a page and any records.                                      *)
(***************************************************************************)
EXTENDS QueueRecordTable, RecordPagesProofs

(* The pages of the chain are those that the head leads to. *)
LEMMA ChainedIs ==
  ASSUME NEW t, NEW R, Loose(t, R)
  PROVE  /\ t.head = NULL_ID => Chained(t) = {}
         /\ t.head # NULL_ID =>
              Chained(t) = {Linked(t, t.head)[n] : n \in 0 .. PAGES - 1} \ {NULL_ID}
PROOF
<1> DEFINE page == Linked(t, t.head)
           D == {i \in 1 .. PAGES : page[i - 1] # NULL_ID}
           c == [n \in D |-> page[n - 1]]
<1>n. PAGES \in Nat \ {0}
  BY TableAssumption
<1>1. Chained(t) = {c[n] : n \in D}
  <2>1. Chained(t) = Seqs!ToSet(c)
    BY DEF Chained, Chain, ChainFrom
  <2>2. DOMAIN c = D
    OBVIOUS
  <2> HIDE DEF c, D
  <2> QED BY <2>1, <2>2 DEF Seqs!ToSet
<1>2. Chained(t) = {page[n - 1] : n \in D}
  BY <1>1
<1>3. \A n \in 1 .. PAGES : n - 1 \in 0 .. PAGES - 1
  BY <1>n
<1>4. \A m \in 0 .. PAGES - 1 : m + 1 \in 1 .. PAGES /\ (m + 1) - 1 = m
  BY <1>n
<1> HIDE DEF page
<1>5. {page[n - 1] : n \in D} = {page[n] : n \in 0 .. PAGES - 1} \ {NULL_ID}
  <2>1. ASSUME NEW n \in D PROVE page[n - 1] \in {page[m] : m \in 0 .. PAGES - 1} \ {NULL_ID}
    BY <1>3
  <2>2. ASSUME NEW m \in 0 .. PAGES - 1, page[m] # NULL_ID
        PROVE  page[m] \in {page[n - 1] : n \in D}
    <3>1. m + 1 \in D /\ page[(m + 1) - 1] = page[m]
      BY <1>4, <2>2
    <3> QED BY <3>1
  <2> QED BY <2>1, <2>2
<1>6. ASSUME t.head = NULL_ID PROVE \A n \in 0 .. PAGES : page[n] = NULL_ID
  <2>1. /\ page[0] = NULL_ID
        /\ \A m \in 1 .. PAGES : page[m - 1] = NULL_ID => page[m] = NULL_ID
    <3>1. t.head \in Links /\ \A q \in PageId : t.list[q].next \in Links
      BY <1>6, LooseParts DEF Links
    <3> QED BY <1>6, <3>1, LinkedSteps DEF page
  <2> DEFINE T == {n \in 0 .. PAGES : page[n] = NULL_ID}
  <2>2. 0 \in T
    BY <1>n, <2>1
  <2>3. ASSUME NEW n \in 0 .. PAGES - 1, n \in T PROVE n + 1 \in T
    <3>1. n + 1 \in 1 .. PAGES /\ (n + 1) - 1 = n /\ n + 1 \in 0 .. PAGES
      BY <1>n
    <3> QED BY <3>1, <2>1, <2>3
  <2> HIDE DEF T
  <2>4. \A n \in 0 .. PAGES : n \in T
    BY <1>n, <2>2, <2>3, UpTo
  <2> QED BY <2>4 DEF T
<1>7. \A n \in 0 .. PAGES - 1 : n \in 0 .. PAGES
  BY <1>n
<1> HIDE DEF D
<1> QED BY <1>2, <1>5, <1>6, <1>7 DEF page

(* The chain starts at the head and follows the links, within the pages in *)
(* use.                                                                    *)
LEMMA ChainSteps ==
  ASSUME NEW t, NEW R, Loose(t, R)
  PROVE  /\ t.head # NULL_ID => t.head \in Chained(t)
         /\ Chained(t) \subseteq InUse(t)
         /\ \A q \in Chained(t) : t.list[q].next # NULL_ID => t.list[q].next \in Chained(t)
PROOF
<1> DEFINE page == Linked(t, t.head)
           U == InUse(t)
<1>n. PAGES \in Nat \ {0} /\ 0 \in 0 .. PAGES - 1
  BY TableAssumption
<1>1. CASE t.head = NULL_ID
  BY <1>1, ChainedIs
<1>2. CASE t.head # NULL_ID
  <2>1. t.head \in U /\ t.head \in Links /\ \A q \in PageId : t.list[q].next \in Links
    BY <1>2, LooseParts DEF Loose, Links
  <2>2. PICK rank : Acyclic(t, U, rank)
    BY LooseParts
  <2>3. /\ \A n \in 0 .. PAGES : page[n] \in U \cup {NULL_ID}
        /\ page[PAGES] = NULL_ID
    BY <2>1, <2>2, ChainRises
  <2>4. /\ page[0] = t.head
        /\ \A m \in 1 .. PAGES : page[m] = IF page[m - 1] = NULL_ID THEN NULL_ID
                                           ELSE t.list[page[m - 1]].next
    BY <2>1, LinkedSteps
  <2>5. Chained(t) = {page[n] : n \in 0 .. PAGES - 1} \ {NULL_ID}
    BY <1>2, ChainedIs
  <2> HIDE DEF page
  <2>6. t.head \in Chained(t)
    BY <1>n, <1>2, <2>4, <2>5
  <2>7. \A n \in 0 .. PAGES - 1 : n \in 0 .. PAGES /\ n + 1 \in 1 .. PAGES /\ (n + 1) - 1 = n
    BY <1>n
  <2>8. Chained(t) \subseteq U
    BY <2>3, <2>5, <2>7
  <2>9. ASSUME NEW q \in Chained(t), t.list[q].next # NULL_ID PROVE t.list[q].next \in Chained(t)
    <3>1. PICK n \in 0 .. PAGES - 1 : q = page[n] /\ q # NULL_ID
      BY <2>5
    <3>2. page[n + 1] = t.list[q].next
      BY <2>4, <2>7, <3>1
    <3>3. n + 1 # PAGES
      BY <2>3, <2>9, <3>2
    <3>4. n + 1 \in 0 .. PAGES - 1
      BY <1>n, <3>3
    <3> QED BY <2>5, <2>9, <3>2, <3>4
  <2> QED BY <2>6, <2>8, <2>9
<1> QED BY <1>1, <1>2

(* It is the least set of which this is true. *)
Carried(t, S) ==
  /\ t.head # NULL_ID => t.head \in S
  /\ \A q \in S \cap Chained(t) : t.list[q].next # NULL_ID => t.list[q].next \in S

LEMMA ChainLeast ==
  ASSUME NEW t, NEW R, Loose(t, R), NEW S, Carried(t, S)
  PROVE  Chained(t) \subseteq S
PROOF
<1> DEFINE page == Linked(t, t.head)
<1>n. PAGES \in Nat \ {0}
  BY TableAssumption
<1>1. CASE t.head = NULL_ID
  BY <1>1, ChainedIs
<1>2. CASE t.head # NULL_ID
  <2>1. t.head \in Links /\ \A q \in PageId : t.list[q].next \in Links
    BY <1>2, LooseParts DEF Loose, Links
  <2>2. /\ page[0] = t.head
        /\ \A m \in 1 .. PAGES : page[m] = IF page[m - 1] = NULL_ID THEN NULL_ID
                                           ELSE t.list[page[m - 1]].next
    BY <2>1, LinkedSteps
  <2>3. Chained(t) = {page[n] : n \in 0 .. PAGES - 1} \ {NULL_ID}
    BY <1>2, ChainedIs
  <2> HIDE DEF page
  <2> DEFINE T == {n \in 0 .. PAGES - 1 : page[n] \in S \cup {NULL_ID}}
  <2>4. 0 \in T
    BY <1>n, <1>2, <2>2 DEF Carried
  <2>5. ASSUME NEW n \in 0 .. (PAGES - 1) - 1, n \in T PROVE n + 1 \in T
    <3>1. n + 1 \in 1 .. PAGES /\ (n + 1) - 1 = n /\ n + 1 \in 0 .. PAGES - 1 /\ n \in 0 .. PAGES - 1
      BY <1>n
    <3>2. page[n + 1] = IF page[n] = NULL_ID THEN NULL_ID ELSE t.list[page[n]].next
      BY <2>2, <3>1
    <3>3. page[n] # NULL_ID => page[n] \in Chained(t) /\ page[n] \in S
      BY <2>3, <2>5, <3>1
    <3> QED BY <3>1, <3>2, <3>3 DEF Carried
  <2> HIDE DEF T
  <2>6. \A n \in 0 .. PAGES - 1 : n \in T
    <3>1. PAGES - 1 \in Nat
      BY <1>n
    <3> QED BY <3>1, <2>4, <2>5, UpTo
  <2> QED BY <2>3, <2>6 DEF T
<1> QED BY <1>1, <1>2


(* Tables with the same links have the same chain. *)
LEMMA SameChain ==
  ASSUME NEW R, NEW t, Loose(t, R), NEW u, Loose(u, R),
         u.head = t.head, \A q \in PageId : u.list[q].next = t.list[q].next
  PROVE  Chained(u) = Chained(t)
PROOF
<1>1. Chained(t) \subseteq PageId /\ Chained(u) \subseteq PageId
  BY ChainSteps, LooseParts
<1>2. /\ u.head # NULL_ID => u.head \in Chained(u)
      /\ \A q \in Chained(u) : u.list[q].next # NULL_ID => u.list[q].next \in Chained(u)
  BY ChainSteps
<1>3. /\ t.head # NULL_ID => t.head \in Chained(t)
      /\ \A q \in Chained(t) : t.list[q].next # NULL_ID => t.list[q].next \in Chained(t)
  BY ChainSteps
<1>4. Chained(t) \subseteq Chained(u)
  <2> DEFINE S == Chained(u)
  <2>1. Carried(t, S)
    BY <1>1, <1>2 DEF Carried
  <2> HIDE DEF S
  <2>2. Chained(t) \subseteq S
    BY <2>1, ChainLeast
  <2> QED BY <2>2 DEF S
<1>5. Chained(u) \subseteq Chained(t)
  <2> DEFINE S == Chained(t)
  <2>1. Carried(u, S)
    BY <1>1, <1>3 DEF Carried
  <2> HIDE DEF S
  <2>2. Chained(u) \subseteq S
    BY <2>1, ChainLeast
  <2> QED BY <2>2 DEF S
<1> QED BY <1>4, <1>5

(* Insert keeps the pages of the chain in it. *)
LEMMA InsertedChain ==
  ASSUME NEW R, NEW t, PagesOK(t, R), NEW r \in R,
         TailFull(t) => CanNew(t), ~TailFull(t) => t.tail \notin Given(t)
  PROVE  Chained(t) \subseteq Chained(Inserted(t, r))
PROOF
<1> DEFINE u == Inserted(t, r)
           S == Chained(u)
<1>1. /\ Loose(u, R)
      /\ u.head = IF t.tail = NULL_ID THEN InsertPage(t) ELSE t.head
      /\ \A q \in InUse(t) \ {t.tail} : u.list[q].next = t.list[q].next
  BY InsertedOK DEF PagesOK
<1>2. Loose(t, R)
  BY DEF PagesOK
<1>3. /\ Chained(t) \subseteq InUse(t)
      /\ t.tail = NULL_ID => t.head = NULL_ID
      /\ t.tail \in InUse(t) => t.list[t.tail].next = NULL_ID
  BY <1>2, ChainSteps DEF Loose
<1> HIDE DEF u
<1>4. /\ u.head # NULL_ID => u.head \in S
      /\ \A q \in S : u.list[q].next # NULL_ID => u.list[q].next \in S
  BY <1>1, ChainSteps
<1> HIDE DEF S
<1>5. Carried(t, S)
  <2>1. t.head # NULL_ID => t.head \in S
    BY <1>1, <1>3, <1>4
  <2>2. ASSUME NEW q \in S \cap Chained(t), t.list[q].next # NULL_ID PROVE t.list[q].next \in S
    <3>1. q \in InUse(t) \ {t.tail}
      BY <1>3, <2>2
    <3> QED BY <3>1, <1>1, <1>4, <2>2
  <2> QED BY <2>1, <2>2 DEF Carried
<1>6. Chained(t) \subseteq S
  BY <1>2, <1>5, ChainLeast
<1> QED BY <1>6 DEF S, u

(* Next() of a page in the chain drops empty pages behind the head, and    *)
(* leaves the others in it.                                                *)
LEMMA SkippedKept ==
  ASSUME NEW R, NEW t, Loose(t, R), NEW p \in Chained(t)
  PROVE  LET u == Skipped(t, p)
         IN /\ Loose(u, R) /\ u.head = t.head
            /\ \A q \in PageId : u.list[q].records = t.list[q].records
            /\ \A q \in PageId \ ({p} \cup Gone(t, p)) : u.list[q].next = t.list[q].next
            /\ u.list[p].next = After(t, p)
            /\ After(t, p) \in InUse(u) \cup {NULL_ID}
            /\ After(t, p) # NULL_ID => Size(u, After(t, p)) # 0
            /\ \A q \in Gone(t, p) : Size(t, q) = 0
            /\ p \in Chained(u) /\ Chained(u) = Chained(t) \ Gone(t, p)
PROOF
<1> DEFINE U == InUse(t)
           u == Skipped(t, p)
           G == Gone(t, p)
           a == After(t, p)
           K == Stop(t, p)
           page == Linked(t, p)
<1>0. Chained(t) \subseteq U /\ p \in U /\ U \subseteq PageId /\ NULL_ID \notin PageId
  <2>1. Chained(t) \subseteq U /\ U \subseteq PageId
    BY ChainSteps, LooseParts
  <2>2. \A q \in PageId : q # NULL_ID
    BY LooseParts
  <2> QED BY <2>1, <2>2
<1>1. PICK rank : Acyclic(t, U, rank)
  BY <1>0, LooseParts
<1>2. /\ rank \in [PageId -> Nat]
      /\ \A q \in U : t.list[q].next # NULL_ID => rank[q] < rank[t.list[q].next]
      /\ \A q \in U : t.list[q].next \in U \cup {NULL_ID}
  BY <1>1 DEF Acyclic, Ranked, Closed
<1>3. \A q \in Gone(t, p) : rank[p] < rank[q] /\ q \in U
  <2>1. /\ Stop(t, p) \in 1 .. PAGES
        /\ \A n \in 0 .. Stop(t, p) - 1 :
             /\ Linked(t, p)[n] \in U
             /\ n # 0 => rank[p] < rank[Linked(t, p)[n]]
    BY <1>0, <1>1, StopReached
  <2>2. \A n \in 1 .. Stop(t, p) - 1 : n \in 0 .. Stop(t, p) - 1 /\ n # 0
    BY <2>1
  <2> QED BY <2>1, <2>2 DEF Gone
<1>4. t.head # NULL_ID => t.head \in U /\ rank[t.head] <= rank[p]
  <2> SUFFICES ASSUME t.head # NULL_ID PROVE t.head \in U /\ rank[t.head] <= rank[p]
    OBVIOUS
  <2> DEFINE S == {q \in U : rank[t.head] <= rank[q]}
  <2>1. t.head \in U
    BY <1>0, ChainSteps
  <2>2. t.head \in S
    BY <1>0, <1>2, <2>1
  <2>3. ASSUME NEW q \in S, t.list[q].next # NULL_ID PROVE t.list[q].next \in S
    <3>1. q \in U /\ t.list[q].next \in U /\ rank[q] < rank[t.list[q].next] /\ rank[t.head] <= rank[q]
      BY <1>0, <1>2, <2>3
    <3>2. rank[q] \in Nat /\ rank[t.list[q].next] \in Nat /\ rank[t.head] \in Nat
      BY <1>0, <1>2, <2>1, <3>1
    <3> QED BY <3>1, <3>2
  <2> HIDE DEF S
  <2>4. Carried(t, S)
    BY <2>2, <2>3 DEF Carried
  <2>5. p \in S
    BY <1>0, <2>4, ChainLeast
  <2> QED BY <2>1, <2>5 DEF S
<1>5. t.head \notin Gone(t, p)
  <2> SUFFICES ASSUME t.head \in Gone(t, p) PROVE FALSE
    OBVIOUS
  <2>1. rank[p] < rank[t.head] /\ t.head \in U
    BY <1>3
  <2>2. rank[t.head] <= rank[p] /\ rank[t.head] \in Nat /\ rank[p] \in Nat
    BY <1>0, <1>2, <1>4, <2>1
  <2> QED BY <2>1, <2>2
<1>6. /\ Loose(u, R) /\ InUse(u) = U \ G
      /\ u.head = t.head
      /\ \A q \in G : Size(t, q) = 0
      /\ \A q \in PageId : u.list[q].records = t.list[q].records
      /\ \A q \in PageId \ ({p} \cup G) : u.list[q].next = t.list[q].next
      /\ u.list[p].next = a
      /\ a \in InUse(u) \cup {NULL_ID}
      /\ a # NULL_ID => Size(u, a) # 0
  BY <1>0, <1>5, SkippedOK
<1> HIDE DEF u
<1>9. /\ u.head # NULL_ID => u.head \in Chained(u)
      /\ \A q \in Chained(u) : u.list[q].next # NULL_ID => u.list[q].next \in Chained(u)
  BY <1>6, ChainSteps
<1>10. p \in Chained(u)
  <2> DEFINE S == {q \in U : rank[q] <= rank[p] => q \in Chained(u)}
  <2>1. t.head # NULL_ID => t.head \in S
    BY <1>4, <1>6, <1>9
  <2>2. ASSUME NEW q \in S, t.list[q].next # NULL_ID PROVE t.list[q].next \in S
    <3> DEFINE n == t.list[q].next
    <3>1. q \in U /\ n \in U /\ rank[q] < rank[n]
      BY <1>0, <1>2, <2>2
    <3>2. rank[q] \in Nat /\ rank[n] \in Nat /\ rank[p] \in Nat
      BY <1>0, <1>2, <3>1
    <3> SUFFICES ASSUME rank[n] <= rank[p] PROVE n \in Chained(u)
      BY <3>1
    <3> HIDE DEF n
    <3>3. rank[q] < rank[p]
      BY <3>1, <3>2
    <3>4. q \in Chained(u)
      BY <2>2, <3>2, <3>3
    <3>5. q # p /\ q \notin Gone(t, p)
      <4>1. q # p
        BY <3>2, <3>3
      <4>2. q \in Gone(t, p) => rank[p] < rank[q]
        BY <1>3
      <4> QED BY <4>1, <4>2, <3>2, <3>3
    <3>6. u.list[q].next = n
      BY <1>0, <1>6, <3>1, <3>5 DEF n
    <3> QED BY <1>9, <2>2, <3>4, <3>6 DEF n
  <2> HIDE DEF S
  <2>3. Carried(t, S)
    BY <2>1, <2>2 DEF Carried
  <2>4. p \in S
    BY <1>0, <2>3, ChainLeast
  <2>5. rank[p] <= rank[p]
    BY <1>0, <1>2
  <2> QED BY <2>4, <2>5 DEF S
<1>11. /\ K \in 1 .. PAGES /\ page[0] = p /\ page[K] = a
       /\ \A n \in 0 .. K - 1 : page[n] \in U /\ t.list[page[n]].next = page[n + 1]
  BY <1>0, <1>1, StopReached DEF After
<1>12. G = {page[n] : n \in 1 .. K - 1}
  BY DEF Gone
<1>13. /\ t.head # NULL_ID => t.head \in Chained(t)
       /\ \A q \in Chained(t) : t.list[q].next # NULL_ID => t.list[q].next \in Chained(t)
  BY ChainSteps
<1> HIDE DEF page, K, G, a
<1>14. \A n \in 0 .. K - 1 : page[n] \in Chained(t)
  <2> DEFINE T == {n \in 0 .. K - 1 : page[n] \in Chained(t)}
  <2>1. K - 1 \in Nat
    BY <1>11
  <2>2. 0 \in T
    BY <2>1, <1>11
  <2>3. ASSUME NEW n \in 0 .. (K - 1) - 1, n \in T PROVE n + 1 \in T
    <3>1. n \in 0 .. K - 1 /\ n + 1 \in 0 .. K - 1
      BY <2>1
    <3>2. page[n] \in Chained(t) /\ t.list[page[n]].next = page[n + 1] /\ page[n + 1] \in U
      BY <3>1, <2>3, <1>11
    <3> QED BY <3>1, <3>2, <1>0, <1>13
  <2> HIDE DEF T
  <2>4. \A n \in 0 .. K - 1 : n \in T
    BY <2>1, <2>2, <2>3, UpTo
  <2> QED BY <2>4 DEF T
<1>15. \A q \in Chained(t) : t.list[q].next \in G => q \in {p} \cup G
  <2> TAKE q \in Chained(t)
  <2> HAVE t.list[q].next \in G
  <2>1. PICK n \in 1 .. K - 1 : t.list[q].next = page[n]
    BY <1>12
  <2>2. n - 1 \in 0 .. K - 1 /\ (n - 1) + 1 = n /\ n \in 0 .. K - 1
    BY <1>11
  <2>3. t.list[page[n - 1]].next = page[n] /\ page[n - 1] \in U /\ page[n] \in U
    BY <2>2, <1>11
  <2>4. q = page[n - 1]
    BY <2>1, <2>3, <1>0 DEF Loose
  <2>5. n - 1 = 0 \/ n - 1 \in 1 .. K - 1
    BY <2>2
  <2> QED BY <2>4, <2>5, <1>11, <1>12
<1>16. Chained(u) \subseteq Chained(t) \ G
  <2> DEFINE S == Chained(t) \ G
  <2>1. u.head # NULL_ID => u.head \in S
    BY <1>5, <1>6, <1>13 DEF G
  <2>2. ASSUME NEW q \in S, u.list[q].next # NULL_ID PROVE u.list[q].next \in S
    <3>1. CASE q = p
      <4>1. K - 1 \in 0 .. K - 1 /\ (K - 1) + 1 = K
        BY <1>11
      <4>2. t.list[page[K - 1]].next = a /\ page[K - 1] \in Chained(t)
        BY <4>1, <1>11, <1>14
      <4>3. a # NULL_ID => a \in Chained(t) /\ a \notin G
        BY <4>2, <1>6, <1>13
      <4> QED BY <3>1, <4>3, <2>2, <1>6
    <3>2. CASE q # p
      <4>1. u.list[q].next = t.list[q].next
        BY <3>2, <1>0, <1>6
      <4> QED BY <3>2, <4>1, <2>2, <1>13, <1>15
    <3> QED BY <3>1, <3>2
  <2> HIDE DEF S
  <2>3. Carried(u, S)
    BY <2>1, <2>2 DEF Carried
  <2>4. Chained(u) \subseteq S
    BY <1>6, <2>3, ChainLeast
  <2> QED BY <2>4 DEF S
<1>17. Chained(t) \subseteq Chained(u) \cup G
  <2> DEFINE S == Chained(u) \cup G
  <2>1. t.head # NULL_ID => t.head \in S
    BY <1>6, <1>9
  <2>2. a # NULL_ID => a \in Chained(u)
    BY <1>6, <1>9, <1>10
  <2>3. \A n \in 0 .. K - 1 : page[n + 1] # NULL_ID => page[n + 1] \in S
    <3> TAKE n \in 0 .. K - 1
    <3>1. n + 1 = K \/ n + 1 \in 1 .. K - 1
      BY <1>11
    <3> QED BY <3>1, <2>2, <1>11, <1>12
  <2>4. ASSUME NEW q \in S \cap Chained(t), t.list[q].next # NULL_ID PROVE t.list[q].next \in S
    <3>1. CASE q \in {p} \cup G
      <4>1. \E n \in 0 .. K - 1 : q = page[n]
        <5>1. 0 \in 0 .. K - 1 /\ \A n \in 1 .. K - 1 : n \in 0 .. K - 1
          BY <1>11
        <5> QED BY <3>1, <5>1, <1>11, <1>12
      <4> QED BY <4>1, <2>3, <2>4, <1>11
    <3>2. CASE q \notin {p} \cup G
      <4>1. u.list[q].next = t.list[q].next /\ q \in Chained(u)
        BY <3>2, <1>0, <1>6
      <4> QED BY <4>1, <2>4, <1>9
    <3> QED BY <3>1, <3>2
  <2> HIDE DEF S
  <2>5. Carried(t, S)
    BY <2>1, <2>4 DEF Carried
  <2>6. Chained(t) \subseteq S
    BY <2>5, ChainLeast
  <2> QED BY <2>6 DEF S
<1> QED BY <1>6, <1>10, <1>16, <1>17 DEF u, G, a

(* In the table of a call in order it comes to a page of the chain.        *)
LEMMA SkippedChain ==
  ASSUME NEW R, NEW t, PagesOK(t, R), NEW p \in Chained(t)
  PROVE  LET u == Skipped(t, p)
             a == u.list[p].next
         IN /\ PagesOK(u, R)
            /\ a # NULL_ID => a \in Chained(u) /\ Size(u, a) # 0 /\ a \in PageId
PROOF
<1> DEFINE u == Skipped(t, p)
           a == u.list[p].next
<1>1. Loose(t, R)
  BY DEF PagesOK
<1>2. /\ Loose(u, R) /\ u.head = t.head /\ p \in Chained(u)
      /\ \A q \in PageId : u.list[q].records = t.list[q].records
      /\ a = After(t, p)
      /\ After(t, p) # NULL_ID => Size(u, After(t, p)) # 0
  BY <1>1, SkippedKept
<1> HIDE DEF u
<1>3. PagesOK(u, R)
  <2>1. t.head # NULL_ID => t.head \in PageId
    BY <1>1, ChainSteps, LooseParts
  <2>2. HeadFull(u)
    BY <1>2, <2>1 DEF PagesOK, HeadFull, Size
  <2> QED BY <1>2, <2>2 DEF PagesOK
<1>4. a # NULL_ID => a \in Chained(u) /\ a \in PageId
  BY <1>2, ChainSteps, LooseParts
<1>5. a # NULL_ID => Size(u, a) # 0
  BY <1>2
<1> QED BY <1>3, <1>4, <1>5 DEF u

-----------------------------------------------------------------------------
(* The inductive invariant: until a record is lost, the pages are in       *)
(* order, and the iterator is at its end or on a record of the chain.      *)
InPlace(t, p, i) ==
  /\ PagesOK(t, Record)
  /\ p \in Links /\ i \in 0 .. MAX_RECORDS - 1
  /\ p # NULL_ID => p \in Chained(t) /\ i < Size(t, p)

Inv == ~lost => InPlace(table, it_page, it_record)

LEMMA SizesOK ==
  ASSUME NEW t, PagesOK(t, Record), NEW p \in Chained(t)
  PROVE  /\ p \in PageId /\ p # NULL_ID /\ p \in InUse(t)
         /\ Size(t, p) \in Nat /\ Size(t, p) <= MAX_RECORDS /\ t.list[p].records \in Seq(Record)
PROOF
<1>1. Loose(t, Record)
  BY DEF PagesOK
<1>2. p \in InUse(t) /\ p \in PageId
  BY <1>1, ChainSteps, LooseParts
<1>3. t.list[p].records \in Seq(Record) /\ p # NULL_ID
  BY <1>1, <1>2, LooseParts
<1>4. Size(t, p) <= MAX_RECORDS
  BY <1>1, <1>2 DEF Loose
<1> QED BY <1>2, <1>3, <1>4 DEF Size

LEMMA InitInv == Init => Inv
PROOF
<1> SUFFICES ASSUME Init PROVE InPlace(table, it_page, it_record)
  BY DEF Inv
<1>1. PagesOK(table, Record) /\ it_page = NULL_ID /\ it_record = 0
  BY NewTableOK DEF Init
<1>2. 0 \in 0 .. MAX_RECORDS - 1
  BY TableAssumption
<1> QED BY <1>1, <1>2 DEF InPlace, Links

LEMMA InsertInv ==
  ASSUME Inv, NEW r \in Record, Insert(r), ~lost'
  PROVE  InPlace(table', it_page', it_record')
PROOF
<1>1. /\ TailFull(table) => CanNew(table)
      /\ table' = Inserted(table, r) /\ it_page' = it_page /\ it_record' = it_record
      /\ ~lost /\ table.tail \in Chained(table) \cup {NULL_ID}
  BY DEF Insert
<1>2. PagesOK(table, Record) /\ InPlace(table, it_page, it_record)
  BY <1>1 DEF Inv, InPlace
<1>3. ~TailFull(table) => table.tail \notin Given(table)
  <2>1. Chained(table) \subseteq InUse(table)
    BY <1>2, ChainSteps DEF PagesOK
  <2> QED BY <1>1, <2>1 DEF TailFull, InUse
<1> DEFINE u == Inserted(table, r)
           l == InsertPage(table)
<1>4. /\ PagesOK(u, Record)
      /\ u.list[l].records = Append(table.list[l].records, r) \/ TailFull(table)
      /\ TailFull(table) => l \notin InUse(table)
      /\ \A q \in PageId \ {l} : u.list[q].records = table.list[q].records
  BY <1>1, <1>2, <1>3, InsertedOK
<1>5. Chained(table) \subseteq Chained(u)
  BY <1>1, <1>2, <1>3, InsertedChain
<1> HIDE DEF u, l
<1>6. ASSUME NEW p \in Chained(table) PROVE Size(table, p) <= Size(u, p)
  <2>1. p \in PageId /\ p \in InUse(table) /\ table.list[p].records \in Seq(Record)
    BY <1>2, SizesOK
  <2>2. CASE p # l
    BY <2>1, <2>2, <1>4 DEF Size
  <2>3. CASE p = l
    <3>1. u.list[p].records = Append(table.list[p].records, r)
      BY <2>1, <2>3, <1>4
    <3> QED BY <2>1, <3>1 DEF Size
  <2> QED BY <2>2, <2>3
<1>7. it_page # NULL_ID => it_page \in Chained(u) /\ it_record < Size(u, it_page)
  <2> SUFFICES ASSUME it_page # NULL_ID
               PROVE  it_page \in Chained(u) /\ it_record < Size(u, it_page)
    OBVIOUS
  <2>1. it_page \in Chained(table) /\ it_record < Size(table, it_page) /\ it_record \in 0 .. MAX_RECORDS - 1
    BY <1>2 DEF InPlace
  <2>2. Size(table, it_page) \in Nat /\ Size(u, it_page) \in Nat
    BY <1>2, <1>4, <1>5, <2>1, SizesOK
  <2>3. Size(table, it_page) <= Size(u, it_page)
    BY <1>6, <2>1
  <2> QED BY <1>5, <2>1, <2>2, <2>3
<1> QED BY <1>1, <1>2, <1>4, <1>7 DEF InPlace, u

LEMMA RemoveInv ==
  ASSUME Inv, NEW p, NEW i, Remove(p, i), ~lost'
  PROVE  InPlace(table', it_page', it_record')
PROOF
<1>1. /\ p \in Chained(table) /\ i \in 1 .. Size(table, p) /\ ~lost
      /\ table' = Removed(table, p, i) /\ it_page' = NULL_ID /\ it_record' = 0
  BY DEF Remove
<1>2. PagesOK(table, Record)
  BY <1>1 DEF Inv, InPlace
<1>3. p \in InUse(table)
  BY <1>1, <1>2, SizesOK
<1>4. PagesOK(Removed(table, p, i), Record)
  BY <1>1, <1>2, <1>3, RemovedOK
<1>5. 0 \in 0 .. MAX_RECORDS - 1
  BY TableAssumption
<1> QED BY <1>1, <1>4, <1>5 DEF InPlace, Links

LEMMA UpdateInv ==
  ASSUME Inv, NEW p, NEW i, NEW r \in Record, Update(p, i, r), ~lost'
  PROVE  InPlace(table', it_page', it_record')
PROOF
<1>1. /\ p \in Chained(table) /\ i \in 1 .. Size(table, p) /\ ~lost
      /\ table' = Updated(table, p, i, r) /\ it_page' = it_page /\ it_record' = it_record
  BY DEF Update
<1>2. PagesOK(table, Record) /\ InPlace(table, it_page, it_record)
  BY <1>1 DEF Inv, InPlace
<1>3. p \in InUse(table) /\ Loose(table, Record)
  BY <1>1, <1>2, SizesOK DEF PagesOK
<1> DEFINE u == Updated(table, p, i, r)
<1>4. /\ PagesOK(u, Record) /\ u.head = table.head
      /\ \A q \in PageId : u.list[q].next = table.list[q].next
      /\ \A q \in PageId :
           u.list[q].records = IF q = p THEN [table.list[p].records EXCEPT ![i] = r]
                               ELSE table.list[q].records
  BY <1>1, <1>2, <1>3, UpdatedOK
<1> HIDE DEF u
<1>5. Chained(table) = Chained(u)
  BY <1>3, <1>4, SameChain DEF PagesOK
<1>6. ASSUME NEW q \in Chained(table) PROVE Size(u, q) = Size(table, q)
  <2>1. q \in PageId /\ table.list[q].records \in Seq(Record)
    BY <1>2, SizesOK
  <2>2. Len([table.list[q].records EXCEPT ![i] = r]) = Len(table.list[q].records)
    BY <2>1
  <2> QED BY <1>4, <2>1, <2>2 DEF Size
<1>7. it_page # NULL_ID => it_page \in Chained(u) /\ it_record < Size(u, it_page)
  BY <1>2, <1>5, <1>6 DEF InPlace
<1> QED BY <1>1, <1>2, <1>4, <1>7 DEF InPlace, u

(* Reading the head changes nothing between two calls: it has records. *)
LEMMA HeadStays == ASSUME NEW t, PagesOK(t, Record) PROVE HeadRead(t) = t
PROOF
BY DEF PagesOK, HeadFull, HeadRead

LEMMA OpenInv ==
  ASSUME Inv, OpenIterator, ~lost'
  PROVE  InPlace(table', it_page', it_record')
PROOF
<1>1. table' = HeadRead(table) /\ it_page' = table'.head /\ it_record' = 0 /\ ~lost
  BY DEF OpenIterator
<1>2. PagesOK(table, Record)
  BY <1>1 DEF Inv, InPlace
<1>3. table' = table
  BY <1>1, <1>2, HeadStays
<1>4. /\ table.head # NULL_ID => table.head \in Chained(table) /\ Size(table, table.head) # 0
      /\ table.head \in Links
  BY <1>2, ChainSteps DEF PagesOK, HeadFull, Loose, TableType
<1>5. table.head # NULL_ID => 0 < Size(table, table.head)
  <2>1. table.head # NULL_ID => Size(table, table.head) \in Nat
    BY <1>2, <1>4, SizesOK
  <2> QED BY <1>4, <2>1
<1>6. 0 \in 0 .. MAX_RECORDS - 1
  BY TableAssumption
<1> QED BY <1>1, <1>2, <1>3, <1>4, <1>5, <1>6 DEF InPlace

LEMMA StepInv ==
  ASSUME Inv, IteratorStep, ~lost'
  PROVE  InPlace(table', it_page', it_record')
PROOF
<1>1. /\ it_page # NULL_ID /\ it_record + 1 # Size(table, it_page) /\ ~lost
      /\ it_record' = it_record + 1 /\ table' = table /\ it_page' = it_page
  BY DEF IteratorStep
<1>2. InPlace(table, it_page, it_record)
  BY <1>1 DEF Inv
<1>3. /\ it_page \in Chained(table) /\ it_record < Size(table, it_page)
      /\ it_record \in 0 .. MAX_RECORDS - 1 /\ PagesOK(table, Record)
  BY <1>1, <1>2 DEF InPlace
<1>4. Size(table, it_page) \in Nat /\ Size(table, it_page) <= MAX_RECORDS /\ MAX_RECORDS \in Nat
  BY <1>3, SizesOK, TableAssumption
<1>5. it_record + 1 \in 0 .. MAX_RECORDS - 1 /\ it_record + 1 < Size(table, it_page)
  BY <1>1, <1>3, <1>4
<1> QED BY <1>1, <1>2, <1>3, <1>5 DEF InPlace

LEMMA TurnInv ==
  ASSUME Inv, IteratorTurn, ~lost'
  PROVE  InPlace(table', it_page', it_record')
PROOF
<1>1. /\ it_page # NULL_ID /\ ~lost
      /\ it_record' = 0 /\ table' = Skipped(table, it_page) /\ it_page' = table'.list[it_page].next
  BY DEF IteratorTurn
<1>2. it_page \in Chained(table) /\ PagesOK(table, Record)
  BY <1>1 DEF Inv, InPlace
<1> DEFINE u == Skipped(table, it_page)
           a == u.list[it_page].next
<1>3. /\ PagesOK(u, Record)
      /\ a # NULL_ID => a \in Chained(u) /\ Size(u, a) # 0 /\ a \in PageId
  BY <1>2, SkippedChain
<1> HIDE DEF u
<1>4. a # NULL_ID => 0 < Size(u, a)
  <2>1. a # NULL_ID => Size(u, a) \in Nat
    BY <1>3, SizesOK
  <2> QED BY <1>3, <2>1
<1>5. 0 \in 0 .. MAX_RECORDS - 1
  BY TableAssumption
<1>6. InPlace(u, a, 0)
  <2> HIDE DEF a
  <2> QED BY <1>3, <1>4, <1>5 DEF InPlace, Links
<1> QED BY <1>1, <1>6 DEF u

LEMMA NextInv == Inv /\ [Next]_vars => Inv'
PROOF
<1> SUFFICES ASSUME Inv, [Next]_vars, ~lost' PROVE InPlace(table', it_page', it_record')
  BY DEF Inv
<1>1. ASSUME NEW r \in Record, Insert(r) PROVE InPlace(table', it_page', it_record')
  BY <1>1, InsertInv
<1>2. ASSUME NEW p \in PageId, NEW i \in 1 .. MAX_RECORDS, NEW r \in Record, Update(p, i, r)
      PROVE  InPlace(table', it_page', it_record')
  BY <1>2, UpdateInv
<1>3. ASSUME NEW p \in PageId, NEW i \in 1 .. MAX_RECORDS, Remove(p, i)
      PROVE  InPlace(table', it_page', it_record')
  BY <1>3, RemoveInv
<1>4. CASE Empty
  <2>1. table' = HeadRead(table) /\ it_page' = it_page /\ it_record' = it_record /\ ~lost
    BY <1>4 DEF Empty
  <2>2. PagesOK(table, Record) /\ InPlace(table, it_page, it_record)
    BY <2>1 DEF Inv, InPlace
  <2>3. table' = table
    BY <2>1, <2>2, HeadStays
  <2> QED BY <2>1, <2>2, <2>3
<1>5. CASE OpenIterator
  BY <1>5, OpenInv
<1>6. CASE IteratorStep
  BY <1>6, StepInv
<1>7. CASE IteratorTurn
  BY <1>7, TurnInv
<1>8. CASE UNCHANGED vars
  BY <1>8 DEF vars, Inv
<1> QED BY <1>1, <1>2, <1>3, <1>4, <1>5, <1>6, <1>7, <1>8 DEF Next

LEMMA Invariance == Spec => []Inv
PROOF
BY InitInv, NextInv, PTL DEF Spec

(* What the table and the iterator hold has its type, until a record is    *)
(* lost.                                                                   *)
THEOREM TypeCorrect == Spec => []TypeOK
PROOF
<1>1. ASSUME Inv PROVE TypeOK
  <2> SUFFICES ASSUME ~lost
               PROVE  /\ table.head \in Cell /\ table.tail \in Cell /\ table.size \in 0 .. PAGES
                      /\ \A p \in PageId :
                           /\ table.list[p].next \in Cell
                           /\ Size(table, p) <= MAX_RECORDS
                           /\ \A i \in 1 .. Size(table, p) : table.list[p].records[i] \in Record
                      /\ Given(table) \subseteq 0 .. table.size - 1
                      /\ it_page \in Cell /\ it_record \in 0 .. MAX_RECORDS - 1
    BY DEF TypeOK
  <2>1. /\ Loose(table, Record) /\ Links = Cell
        /\ it_page \in Links /\ it_record \in 0 .. MAX_RECORDS - 1
    BY <1>1 DEF Inv, InPlace, PagesOK, Links, Cell
  <2>2. table \in TableType(Record) /\ \A p \in PageId : Size(table, p) <= MAX_RECORDS
    BY <2>1 DEF Loose
  <2>3. table.head \in Cell /\ table.tail \in Cell /\ table.size \in 0 .. PAGES
    BY <2>1, <2>2 DEF TableType
  <2>4. \A p \in PageId : table.list[p].next \in Cell /\ table.list[p].records \in Seq(Record)
    BY <2>1, LooseParts
  <2>5. \A p \in PageId : \A i \in 1 .. Size(table, p) : table.list[p].records[i] \in Record
    BY <2>4 DEF Size
  <2>6. Given(table) \subseteq 0 .. table.size - 1
    <3> DEFINE s == table.e_s
               X == 0 .. table.size - 1
    <3>1. s \in Seq(X)
      BY <2>1 DEF Loose
    <3>2. Seqs!ToSet(s) \subseteq X
      <4> HIDE DEF s, X
      <4> QED BY <3>1 DEF Seqs!ToSet
    <3> QED BY <3>2 DEF Given
  <2> QED BY <2>1, <2>2, <2>3, <2>4, <2>5, <2>6
<1> QED BY <1>1, Invariance, PTL

(* No page in the chain has been given back, and none has been given back  *)
(* twice (list_page.h:44-57).                                              *)
THEOREM FreeCorrect == Spec => []FreePagesUnlinked
PROOF
<1>1. ASSUME Inv PROVE FreePagesUnlinked
  <2> SUFFICES ASSUME ~lost
               PROVE  Given(table) \cap Chained(table) = {} /\ Seqs!IsInjective(table.e_s)
    BY DEF FreePagesUnlinked
  <2>1. Loose(table, Record)
    BY <1>1 DEF Inv, InPlace, PagesOK
  <2>2. Chained(table) \subseteq InUse(table)
    BY <2>1, ChainSteps
  <2> QED BY <2>1, <2>2 DEF Loose, InUse
<1> QED BY <1>1, Invariance, PTL

(* An iterator that is not at its end stands on a record of the table      *)
(* (QueueRecordTable.h:172-178).                                           *)
THEOREM IteratorCorrect == Spec => []IteratorInside
PROOF
<1>1. Inv => IteratorInside
  BY DEF Inv, InPlace, IteratorInside
<1> QED BY <1>1, Invariance, PTL
-----------------------------------------------------------------------------
(* The chain as a sequence: each page once, each leading to the next.      *)
InLine(t, c) ==
  /\ c \in Seq(PageId)
  /\ t.head = NULL_ID <=> Len(c) = 0
  /\ Len(c) # 0 => c[1] = t.head /\ t.list[c[Len(c)]].next = NULL_ID
  /\ \A n \in 1 .. Len(c) - 1 : t.list[c[n]].next = c[n + 1]
  /\ \A m, n \in 1 .. Len(c) : c[m] = c[n] => m = n
  /\ Chained(t) = {c[n] : n \in 1 .. Len(c)}

LEMMA ChainInLine ==
  ASSUME NEW t, NEW R, Loose(t, R)
  PROVE  InLine(t, Chain(t))
PROOF
<1> DEFINE page == Linked(t, t.head)
           D == {i \in 1 .. PAGES : page[i - 1] # NULL_ID}
           c == Chain(t)
           U == InUse(t)
<1>n. PAGES \in Nat \ {0} /\ NULL_ID = -1
  BY TableAssumption DEF NULL_ID
<1>1. c = [n \in D |-> page[n - 1]]
  BY DEF Chain, ChainFrom
<1>2. Chained(t) = {c[n] : n \in D}
  <2>1. Chained(t) = Seqs!ToSet(c) /\ DOMAIN c = D
    BY <1>1 DEF Chained
  <2> HIDE DEF c, D
  <2> QED BY <2>1 DEF Seqs!ToSet
<1>3. U \subseteq PageId /\ t.head \in U \cup {NULL_ID} /\ \A q \in PageId : q # NULL_ID
  BY LooseParts DEF Loose
<1>4. CASE t.head = NULL_ID
  <2>1. Chained(t) = {}
    BY <1>4, ChainedIs
  <2>2. D = {}
    BY <1>2, <2>1
  <2>3. c \in Seq(PageId) /\ Len(c) = 0
    <3> HIDE DEF c, D
    <3>1. c = [n \in 1 .. 0 |-> page[n - 1]]
      BY <1>1, <2>2
    <3> QED BY <3>1
  <2> HIDE DEF c
  <2>4. {c[n] : n \in 1 .. Len(c)} = {}
    BY <2>3
  <2>5. InLine(t, c)
    <3> HIDE DEF U, page, D
    <3>1. 1 .. Len(c) = {} /\ 1 .. Len(c) - 1 = {}
      BY <2>3
    <3> QED BY <1>4, <2>1, <2>3, <2>4, <3>1 DEF InLine
  <2> QED BY <2>5 DEF c
<1>5. CASE t.head # NULL_ID
  <2>1. t.head \in U /\ t.head \in Links /\ \A q \in PageId : t.list[q].next \in Links
    BY <1>3, <1>5, LooseParts DEF Links
  <2>2. PICK rank : Acyclic(t, U, rank)
    BY LooseParts
  <2>3. /\ \A n \in 0 .. PAGES : page[n] \in U \cup {NULL_ID}
        /\ \A n \in 0 .. PAGES, m \in 0 .. PAGES :
              m < n /\ page[n] # NULL_ID => page[m] # NULL_ID /\ rank[page[m]] < rank[page[n]]
        /\ page[PAGES] = NULL_ID
    BY <2>1, <2>2, ChainRises
  <2>4. /\ page[0] = t.head
        /\ \A m \in 1 .. PAGES : page[m] = IF page[m - 1] = NULL_ID THEN NULL_ID
                                           ELSE t.list[page[m - 1]].next
    BY <2>1, LinkedSteps
  <2>5. \A q \in U : rank[q] \in Nat
    BY <1>3, <2>2 DEF Acyclic, Ranked
  <2> HIDE DEF page, U
  <2>6. PICK L \in 1 .. PAGES : page[L] = NULL_ID /\ \A m \in 0 .. PAGES : page[m] # NULL_ID <=> m < L
    <3> DEFINE E == {n \in 0 .. PAGES : page[n] = NULL_ID}
    <3>1. E \subseteq Nat /\ E # {}
      BY <1>n, <2>3
    <3> HIDE DEF E
    <3>2. PICK L \in E : \A m \in E : L <= m
      BY <3>1, LeastNat
    <3>3. L \in 0 .. PAGES /\ page[L] = NULL_ID
      BY <3>2 DEF E
    <3>4. L # 0
      BY <1>5, <2>4, <3>3
    <3>5. ASSUME NEW m \in 0 .. PAGES PROVE page[m] # NULL_ID <=> m < L
      <4>1. CASE m < L
        <5>1. m \notin E
          BY <3>2, <3>3, <4>1, <1>n
        <5> QED BY <4>1, <5>1 DEF E
      <4>2. CASE ~(m < L)
        <5>1. m = L \/ L < m
          BY <4>2, <3>3, <1>n
        <5> QED BY <3>3, <4>2, <5>1, <2>3
      <4> QED BY <4>1, <4>2
    <3>6. L \in 1 .. PAGES
      BY <1>n, <3>3, <3>4
    <3> QED BY <3>3, <3>5, <3>6
  <2>7. D = 1 .. L
    <3>1. \A i \in 1 .. PAGES : i - 1 \in 0 .. PAGES /\ (i - 1 < L <=> i \in 1 .. L)
      BY <1>n, <2>6
    <3>2. 1 .. L \subseteq 1 .. PAGES
      BY <1>n, <2>6
    <3> QED BY <3>1, <3>2, <2>6
  <2>8. \A n \in 1 .. L : n - 1 \in 0 .. PAGES /\ n - 1 < L /\ n \in 1 .. PAGES /\ n \in 0 .. PAGES
    BY <1>n, <2>6
  <2>9. \A n \in 1 .. L : page[n - 1] \in U /\ page[n - 1] \in PageId
    <3>1. ASSUME NEW n \in 1 .. L PROVE page[n - 1] \in U
      BY <2>3, <2>6, <2>8
    <3> QED BY <1>3, <3>1 DEF U
  <2>10. c \in Seq(PageId) /\ Len(c) = L /\ \A n \in 1 .. L : c[n] = page[n - 1]
    <3>1. c = [n \in 1 .. L |-> page[n - 1]]
      BY <1>1, <2>7
    <3> HIDE DEF c
    <3>2. \A n \in 1 .. L : c[n] = page[n - 1]
      BY <3>1
    <3>3. c \in [1 .. L -> PageId] /\ L \in Nat
      BY <3>1, <2>6, <2>9
    <3> QED BY <3>2, <3>3
  <2> HIDE DEF c, D
  <2>11. c[1] = t.head /\ t.list[c[L]].next = NULL_ID
    <3>1. 1 \in 1 .. L /\ L \in 1 .. L /\ 1 - 1 = 0
      BY <1>n, <2>6
    <3>2. c[1] = page[0] /\ c[L] = page[L - 1] /\ page[L - 1] # NULL_ID
      BY <3>1, <2>6, <2>8, <2>10
    <3> QED BY <3>1, <3>2, <2>4, <2>6, <2>8
  <2>12. ASSUME NEW n \in 1 .. L - 1 PROVE t.list[c[n]].next = c[n + 1]
    <3>1. n \in 1 .. L /\ n + 1 \in 1 .. L /\ (n + 1) - 1 = n
      BY <2>6
    <3>2. c[n] = page[n - 1] /\ c[n + 1] = page[n] /\ page[n - 1] # NULL_ID
      BY <3>1, <2>6, <2>8, <2>10
    <3> QED BY <3>1, <3>2, <2>4, <2>8
  <2>13. ASSUME NEW m \in 1 .. L, NEW n \in 1 .. L, c[m] = c[n] PROVE m = n
    <3>1. page[m - 1] = page[n - 1] /\ rank[page[m - 1]] \in Nat
      BY <2>5, <2>9, <2>10, <2>13
    <3>2. ~(m - 1 < n - 1) /\ ~(n - 1 < m - 1)
      BY <3>1, <2>3, <2>6, <2>8
    <3> QED BY <3>2
  <2>14. Chained(t) = {c[n] : n \in 1 .. L}
    BY <1>2, <2>7
  <2>15. L \in Nat /\ L # 0
    BY <2>6
  <2>16. InLine(t, c)
    BY <1>5, <2>10, <2>11, <2>12, <2>13, <2>14, <2>15 DEF InLine
  <2> QED BY <2>16 DEF c
<1> QED BY <1>4, <1>5

(* The records of a sequence of pages, added up. *)
LEMMA RecordsAdd ==
  ASSUME NEW t, NEW R, NEW c \in Seq(PageId), \A p \in PageId : t.list[p].records \in Seq(R)
  PROVE  LET s == RecordsUpTo(t, c)
         IN /\ s \in [0 .. Len(c) -> Seq(R)] /\ s[0] = <<>>
            /\ \A n \in 1 .. Len(c) : s[n] = s[n - 1] \o t.list[c[n]].records
PROOF
<1> DEFINE X == Seq(R)
           N == Len(c)
           G == [m \in 1 .. N |-> [x \in X |-> x \o t.list[c[m]].records]]
           Rec(f) == f = [n \in 0 .. N |-> IF n = 0 THEN <<>> ELSE f[n - 1] \o t.list[c[n]].records]
<1>1. N \in Nat /\ <<>> \in X
  OBVIOUS
<1>2. \A m \in 1 .. N : t.list[c[m]].records \in X
  OBVIOUS
<1>3. G \in [1 .. N -> [X -> X]]
  <2>1. \A m \in 1 .. N : [x \in X |-> x \o t.list[c[m]].records] \in [X -> X]
    BY <1>2
  <2> QED BY <2>1
<1> HIDE DEF X, G, N
<1>4. PICK f \in [0 .. N -> X] : f[0] = <<>> /\ \A m \in 1 .. N : f[m] = G[m][f[m - 1]]
  <2>1. Iterations(X, N, G, <<>>) # {}
    BY <1>1, <1>3, Iterated
  <2> QED BY <2>1 DEF Iterations
<1>5. \A m \in 1 .. N : f[m] = f[m - 1] \o t.list[c[m]].records
  <2>1. \A m \in 1 .. N : m - 1 \in 0 .. N
    BY <1>1
  <2> QED BY <2>1, <1>4 DEF G
<1>6. Rec(f)
  <2>1. \A n \in 0 .. N : n # 0 => n \in 1 .. N
    BY <1>1
  <2>2. \A n \in 0 .. N : f[n] = IF n = 0 THEN <<>> ELSE f[n - 1] \o t.list[c[n]].records
    BY <2>1, <1>4, <1>5
  <2> QED BY <2>2, <1>4
<1>7. RecordsUpTo(t, c) = CHOOSE g : Rec(g)
  BY DEF RecordsUpTo, N
<1> DEFINE s == RecordsUpTo(t, c)
<1>8. Rec(s)
  BY <1>6, <1>7
<1> HIDE DEF s
<1>9. s[0] = <<>> /\ \A n \in 1 .. N : s[n] = s[n - 1] \o t.list[c[n]].records
  <2>1. 0 \in 0 .. N /\ \A n \in 1 .. N : n \in 0 .. N /\ n # 0
    BY <1>1
  <2> QED BY <2>1, <1>8
<1>10. \A n \in 0 .. N : s[n] = f[n]
  <2> DEFINE T == {n \in 0 .. N : s[n] = f[n]}
  <2>1. 0 \in T
    BY <1>1, <1>4, <1>9
  <2>2. ASSUME NEW n \in 0 .. N - 1, n \in T PROVE n + 1 \in T
    <3>1. n + 1 \in 1 .. N /\ n + 1 \in 0 .. N /\ (n + 1) - 1 = n
      BY <1>1
    <3> QED BY <3>1, <2>2, <1>5, <1>9
  <2> HIDE DEF T
  <2>3. \A n \in 0 .. N : n \in T
    BY <1>1, <2>1, <2>2, UpTo
  <2> QED BY <2>3 DEF T
<1>11. s \in [0 .. N -> X]
  <2>1. s = [n \in 0 .. N |-> f[n]]
    <3>1. DOMAIN s = 0 .. N
      BY <1>8
    <3>2. s = [n \in 0 .. N |-> s[n]]
      BY <1>8, <3>1
    <3> QED BY <3>2, <1>10
  <2> QED BY <2>1, <1>4
<1> QED BY <1>9, <1>11 DEF s, X, N


(* s[n] is the first n sequences of a, one after the other. *)
Summed(s, a, N, R) ==
  /\ N \in Nat /\ s \in [0 .. N -> Seq(R)] /\ a \in [1 .. N -> Seq(R)] /\ s[0] = <<>>
  /\ \A n \in 1 .. N : s[n] = s[n - 1] \o a[n]

(* Each begins with those before it, and has nothing that is not in one of *)
(* the sequences.                                                          *)
LEMMA SumsRise ==
  ASSUME NEW s, NEW a, NEW N, NEW R, Summed(s, a, N, R)
  PROVE  /\ \A m, n \in 0 .. N : m <= n => /\ Len(s[m]) <= Len(s[n])
                                           /\ \A j \in 1 .. Len(s[m]) : s[n][j] = s[m][j]
         /\ \A j \in 1 .. Len(s[N]) :
              \E n \in 1 .. N : \E i \in 1 .. Len(a[n]) : j = Len(s[n - 1]) + i
PROOF
<1>0. /\ N \in Nat /\ \A n \in 0 .. N : s[n] \in Seq(R) /\ Len(s[n]) \in Nat
      /\ \A n \in 1 .. N : a[n] \in Seq(R) /\ Len(a[n]) \in Nat /\ s[n] = s[n - 1] \o a[n]
      /\ Len(s[0]) = 0
  <2>1. /\ N \in Nat /\ s \in [0 .. N -> Seq(R)] /\ a \in [1 .. N -> Seq(R)] /\ s[0] = <<>>
        /\ \A n \in 1 .. N : s[n] = s[n - 1] \o a[n]
    BY DEF Summed
  <2>2. \A n \in 0 .. N : s[n] \in Seq(R) /\ Len(s[n]) \in Nat
    <3>1. \A n \in 0 .. N : s[n] \in Seq(R)
      BY <2>1
    <3> QED BY <3>1
  <2>3. \A n \in 1 .. N : a[n] \in Seq(R) /\ Len(a[n]) \in Nat
    <3>1. \A n \in 1 .. N : a[n] \in Seq(R)
      BY <2>1
    <3> QED BY <3>1
  <2>4. Len(s[0]) = 0
    BY <2>1
  <2> HIDE DEF Summed
  <2> QED BY <2>1, <2>2, <2>3, <2>4
<1>1. ASSUME NEW n \in 0 .. N - 1
      PROVE  /\ n \in 0 .. N /\ n + 1 \in 0 .. N /\ n + 1 \in 1 .. N
             /\ Len(s[n + 1]) = Len(s[n]) + Len(a[n + 1])
             /\ \A j \in 1 .. Len(s[n]) : s[n + 1][j] = s[n][j]
  <2>1. n \in 0 .. N /\ n + 1 \in 0 .. N /\ n + 1 \in 1 .. N /\ (n + 1) - 1 = n
    BY <1>0
  <2> DEFINE x == s[n]
             y == a[n + 1]
             z == s[n + 1]
  <2>2. z = x \o y /\ x \in Seq(R) /\ y \in Seq(R)
    BY <1>0, <2>1
  <2> HIDE DEF x, y, z
  <2>3. Len(z) = Len(x) + Len(y) /\ \A j \in 1 .. Len(x) : z[j] = x[j]
    BY <2>2
  <2> QED BY <2>1, <2>3 DEF x, y, z
<1>2. \A n \in 0 .. N : \A m \in 0 .. n : /\ Len(s[m]) <= Len(s[n])
                                          /\ \A j \in 1 .. Len(s[m]) : s[n][j] = s[m][j]
  <2> DEFINE T == {n \in 0 .. N : \A m \in 0 .. n : /\ Len(s[m]) <= Len(s[n])
                                                    /\ \A j \in 1 .. Len(s[m]) : s[n][j] = s[m][j]}
  <2>1. 0 \in T
    BY <1>0
  <2>2. ASSUME NEW n \in 0 .. N - 1, n \in T PROVE n + 1 \in T
    <3>1. ASSUME NEW m \in 0 .. n + 1
          PROVE  Len(s[m]) <= Len(s[n + 1]) /\ \A j \in 1 .. Len(s[m]) : s[n + 1][j] = s[m][j]
      <4>1. CASE m = n + 1
        BY <4>1, <1>0, <1>1
      <4>2. CASE m # n + 1
        <5>1. m \in 0 .. n /\ m \in 0 .. N
          BY <4>2, <1>0
        <5>2. Len(s[m]) <= Len(s[n]) /\ \A j \in 1 .. Len(s[m]) : s[n][j] = s[m][j]
          BY <5>1, <2>2
        <5>3. Len(s[m]) \in Nat /\ Len(s[n]) \in Nat /\ Len(a[n + 1]) \in Nat
              /\ Len(s[n + 1]) = Len(s[n]) + Len(a[n + 1])
          BY <5>1, <1>0, <1>1
        <5>4. \A j \in 1 .. Len(s[m]) : j \in 1 .. Len(s[n])
          BY <5>2, <5>3
        <5>5. Len(s[m]) <= Len(s[n + 1])
          <6> DEFINE u == Len(s[m])
                     v == Len(s[n])
                     w == Len(s[n + 1])
          <6> HIDE DEF u, v, w
          <6>1. u <= v /\ u \in Nat /\ v \in Nat /\ w = v + Len(a[n + 1]) /\ Len(a[n + 1]) \in Nat
            BY <5>2, <5>3 DEF u, v, w
          <6>2. u <= w
            BY <6>1
          <6> QED BY <6>2 DEF u, w
        <5> QED BY <5>2, <5>4, <5>5, <1>1
      <4> QED BY <4>1, <4>2
    <3> QED BY <3>1, <1>1
  <2> HIDE DEF T
  <2>3. \A n \in 0 .. N : n \in T
    BY <1>0, <2>1, <2>2, UpTo
  <2> QED BY <2>3 DEF T
<1>3. \A n \in 0 .. N : \A j \in 1 .. Len(s[n]) :
        \E m \in 1 .. N : \E i \in 1 .. Len(a[m]) : j = Len(s[m - 1]) + i
  <2> DEFINE In(j) == \E m \in 1 .. N : \E i \in 1 .. Len(a[m]) : j = Len(s[m - 1]) + i
             T == {n \in 0 .. N : \A j \in 1 .. Len(s[n]) : In(j)}
  <2>1. 0 \in T
    BY <1>0
  <2>2. ASSUME NEW n \in 0 .. N - 1, n \in T PROVE n + 1 \in T
    <3>1. ASSUME NEW j \in 1 .. Len(s[n + 1]) PROVE In(j)
      <4>1. CASE j \in 1 .. Len(s[n])
        BY <4>1, <2>2
      <4>2. CASE j \notin 1 .. Len(s[n])
        <5>1. Len(s[n]) \in Nat /\ Len(a[n + 1]) \in Nat
          BY <1>0, <1>1
        <5>2. j - Len(s[n]) \in 1 .. Len(a[n + 1]) /\ j = Len(s[n]) + (j - Len(s[n]))
          <6> DEFINE u == Len(s[n])
                     v == Len(a[n + 1])
                     w == Len(s[n + 1])
          <6>1. w = u + v
            BY <1>1
          <6>2. u \in Nat /\ v \in Nat /\ j \in 1 .. w /\ j \notin 1 .. u
            BY <5>1, <4>2
          <6> HIDE DEF u, v, w
          <6>3. j - u \in 1 .. v /\ j = u + (j - u)
            BY <6>1, <6>2
          <6> QED BY <6>3 DEF u, v
        <5>3. (n + 1) - 1 = n
          OBVIOUS
        <5> QED BY <5>2, <5>3, <1>1
      <4> QED BY <4>1, <4>2
    <3> HIDE DEF In
    <3> QED BY <3>1, <1>1
  <2> HIDE DEF T
  <2>3. \A n \in 0 .. N : n \in T
    BY <1>0, <2>1, <2>2, UpTo
  <2> QED BY <2>3 DEF T
<1>4. N \in 0 .. N
  BY <1>0
<1>5. \A m, n \in 0 .. N : m <= n => m \in 0 .. n
  BY <1>0
<1> QED BY <1>2, <1>3, <1>4, <1>5

-----------------------------------------------------------------------------
(* The queue q lies in the chain of t, the records of page p behind the    *)
(* first off[p] of it: page after page, without a gap and without overlap. *)
Laid(t, q, off) ==
  /\ q \in Seq(Record) /\ off \in [Chained(t) -> Nat]
  /\ t.head = NULL_ID => q = <<>>
  /\ t.head # NULL_ID => off[t.head] = 0
  /\ \A p \in Chained(t) : t.list[p].next # NULL_ID => off[t.list[p].next] = off[p] + Size(t, p)
  /\ \A p \in Chained(t) : t.list[p].next = NULL_ID => Len(q) = off[p] + Size(t, p)
  /\ \A p \in Chained(t) : off[p] + Size(t, p) <= Len(q)
  /\ \A p \in Chained(t) : \A i \in 1 .. Size(t, p) : q[off[p] + i] = t.list[p].records[i]
  /\ \A p, r \in Chained(t) :
       p # r => off[p] + Size(t, p) <= off[r] \/ off[r] + Size(t, r) <= off[p]
  /\ \A j \in 1 .. Len(q) : \E p \in Chained(t) : \E i \in 1 .. Size(t, p) : j = off[p] + i

(* There is one such queue. *)
LEMMA LaidOnce ==
  ASSUME NEW t, Loose(t, Record), NEW q, NEW off, Laid(t, q, off), NEW x, NEW at, Laid(t, x, at)
  PROVE  x = q /\ at = off
PROOF
<1> DEFINE C == Chained(t)
           S == {p \in C : off[p] = at[p]}
<1>1. /\ t.head # NULL_ID => t.head \in C
      /\ \A p \in C : t.list[p].next # NULL_ID => t.list[p].next \in C
      /\ \A p \in C : Size(t, p) \in Nat
  <2>1. \A p \in C : p \in PageId
    BY ChainSteps, LooseParts
  <2>2. \A p \in C : t.list[p].records \in Seq(Record)
    BY <2>1, LooseParts
  <2> QED BY <2>2, ChainSteps DEF Size
<1>2. Carried(t, S)
  BY <1>1 DEF Carried, Laid
<1> HIDE DEF S
<1>3. C \subseteq S
  BY <1>2, ChainLeast
<1>4. \A p \in C : off[p] = at[p]
  BY <1>3 DEF S
<1>5. off \in [C -> Nat] /\ at \in [C -> Nat] /\ q \in Seq(Record) /\ x \in Seq(Record)
  BY DEF Laid
<1>6. at = off
  <2>1. at = [p \in C |-> at[p]] /\ off = [p \in C |-> off[p]]
    BY <1>5
  <2> QED BY <1>4, <2>1
<1>7. \A j \in 1 .. Len(q) : j \in 1 .. Len(x) /\ x[j] = q[j]
  <2> TAKE j \in 1 .. Len(q)
  <2>0. PICK p \in C : \E i \in 1 .. Size(t, p) : j = off[p] + i
    BY DEF Laid
  <2>1. PICK i \in 1 .. Size(t, p) : j = off[p] + i
    BY <2>0
  <2>2. off[p] + Size(t, p) <= Len(x) /\ x[off[p] + i] = t.list[p].records[i] /\ q[off[p] + i] = t.list[p].records[i]
    BY <1>6 DEF Laid
  <2> QED BY <2>1, <2>2, <1>1, <1>5
<1>8. \A j \in 1 .. Len(x) : j \in 1 .. Len(q)
  <2> TAKE j \in 1 .. Len(x)
  <2>0. PICK p \in C : \E i \in 1 .. Size(t, p) : j = at[p] + i
    BY DEF Laid
  <2>1. PICK i \in 1 .. Size(t, p) : j = at[p] + i
    BY <2>0
  <2>2. off[p] + Size(t, p) <= Len(q)
    BY DEF Laid
  <2> QED BY <2>1, <2>2, <1>1, <1>5, <1>6
<1>9. Len(x) = Len(q)
  <2> DEFINE m == Len(x)
             n == Len(q)
  <2>1. m \in Nat /\ n \in Nat
    BY <1>5
  <2>2. (\A j \in 1 .. n : j \in 1 .. m) /\ (\A j \in 1 .. m : j \in 1 .. n)
    BY <1>7, <1>8
  <2> HIDE DEF m, n
  <2>3. m = n
    <3>1. n # 0 => n \in 1 .. n
      BY <2>1
    <3>2. m # 0 => m \in 1 .. m
      BY <2>1
    <3> QED BY <2>1, <2>2, <3>1, <3>2
  <2> QED BY <2>3 DEF m, n
<1>10. x = q
  BY <1>5, <1>7, <1>9
<1> QED BY <1>6, <1>10

Offsets(t) == [p \in Chained(t) |-> Place(t, p, 0) - 1]

(* The records in the chain are such a queue, and Place tells where.       *)
LEMMA QueueLaid ==
  ASSUME NEW t, Loose(t, Record)
  PROVE  /\ Laid(t, RecordsIn(t, Chain(t)), Offsets(t))
         /\ \A p \in Chained(t) : \A i \in Nat : Place(t, p, i) = Offsets(t)[p] + i + 1
PROOF
<1> DEFINE c == Chain(t)
           L == Len(c)
           s == RecordsUpTo(t, c)
           a == [n \in 1 .. L |-> t.list[c[n]].records]
           C == Chained(t)
           ix == [p \in C |-> CHOOSE n \in DOMAIN c : c[n] = p]
           q == RecordsIn(t, c)
           off == Offsets(t)
<1>1. InLine(t, c)
  BY ChainInLine
<1>2. /\ \A p \in PageId : t.list[p].records \in Seq(Record) /\ p # NULL_ID
  BY LooseParts
<1>3. c \in Seq(PageId) /\ L \in Nat /\ DOMAIN c = 1 .. L /\ \A n \in 1 .. L : c[n] \in PageId
  <2>1. c \in Seq(PageId)
    BY <1>1 DEF InLine
  <2> HIDE DEF c
  <2> QED BY <2>1
<1>4. Summed(s, a, L, Record)
  <2>1. s \in [0 .. L -> Seq(Record)] /\ s[0] = <<>> /\ \A n \in 1 .. L : s[n] = s[n - 1] \o t.list[c[n]].records
    BY <1>2, <1>3, RecordsAdd
  <2>2. a \in [1 .. L -> Seq(Record)]
    BY <1>2, <1>3
  <2>3. \A n \in 1 .. L : a[n] = t.list[c[n]].records
    OBVIOUS
  <2> HIDE DEF s, a, L, c
  <2> QED BY <1>3, <2>1, <2>2, <2>3 DEF Summed
<1>5. q = s[L] /\ \A n \in 1 .. L : a[n] = t.list[c[n]].records
  BY DEF RecordsIn
<1>6. \A p \in C : ix[p] \in 1 .. L /\ c[ix[p]] = p
  <2> TAKE p \in C
  <2>1. C = {c[n] : n \in 1 .. L}
    BY <1>1 DEF InLine
  <2>2. \E n \in DOMAIN c : c[n] = p
    BY <2>1, <1>3
  <2>3. ix[p] = CHOOSE n \in DOMAIN c : c[n] = p
    OBVIOUS
  <2> HIDE DEF c, C, L, ix
  <2> QED BY <2>2, <2>3, <1>3
<1>7. \A p \in C : /\ off[p] = Len(s[ix[p] - 1])
                   /\ \A i \in Nat : Place(t, p, i) = off[p] + i + 1
  <2> TAKE p \in C
  <2>1. \A i : Place(t, p, i) = Len(s[ix[p] - 1]) + i + 1
    BY DEF Place
  <2>2. off[p] = Place(t, p, 0) - 1
    BY DEF Offsets
  <2>3. Len(s[ix[p] - 1]) \in Nat
    <3>1. ix[p] - 1 \in 0 .. L
      BY <1>3, <1>6
    <3> HIDE DEF s, ix, L, c
    <3>2. s[ix[p] - 1] \in Seq(Record)
      BY <3>1, <1>4 DEF Summed
    <3> QED BY <3>2
  <2> HIDE DEF off, s, ix
  <2> QED BY <2>1, <2>2, <2>3
<1>8. \A n \in 1 .. L : c[n] \in C /\ ix[c[n]] = n
  <2> TAKE n \in 1 .. L
  <2>1. c[n] \in C
    BY <1>1 DEF InLine
  <2>2. ix[c[n]] \in 1 .. L /\ c[ix[c[n]]] = c[n]
    BY <2>1, <1>6
  <2> QED BY <1>1, <2>1, <2>2 DEF InLine
<1>9. off \in [C -> Nat]
  <2>1. off = [p \in C |-> off[p]]
    BY DEF Offsets
  <2>2. \A p \in C : off[p] \in Nat
    <3> TAKE p \in C
    <3>1. ix[p] - 1 \in 0 .. L
      BY <1>3, <1>6
    <3>2. off[p] = Len(s[ix[p] - 1])
      BY <1>7
    <3> HIDE DEF s, ix, L, c, off
    <3>3. s[ix[p] - 1] \in Seq(Record)
      BY <3>1, <1>4 DEF Summed
    <3>4. Len(s[ix[p] - 1]) \in Nat
      BY <3>3
    <3> QED BY <3>2, <3>4
  <2> QED BY <2>1, <2>2
<1> HIDE DEF s, a, ix, off, q
<1>10. /\ \A n \in 0 .. L : s[n] \in Seq(Record) /\ Len(s[n]) \in Nat
       /\ Len(s[0]) = 0 /\ s[0] = <<>>
  <2>1. \A n \in 0 .. L : s[n] \in Seq(Record)
    BY <1>4 DEF Summed
  <2>2. s[0] = <<>>
    BY <1>4 DEF Summed
  <2> QED BY <2>1, <2>2
<1> HIDE DEF c, L, C
<1>11. /\ \A m, n \in 0 .. L : m <= n => /\ Len(s[m]) <= Len(s[n])
                                         /\ \A j \in 1 .. Len(s[m]) : s[n][j] = s[m][j]
       /\ \A j \in 1 .. Len(s[L]) :
            \E n \in 1 .. L : \E i \in 1 .. Len(a[n]) : j = Len(s[n - 1]) + i
  BY <1>4, SumsRise
<1>12. ASSUME NEW n \in 1 .. L
       PROVE  /\ n \in 0 .. L /\ n - 1 \in 0 .. L
              /\ off[c[n]] = Len(s[n - 1]) /\ Size(t, c[n]) = Len(a[n]) /\ Len(a[n]) \in Nat
              /\ Len(s[n]) = off[c[n]] + Size(t, c[n])
              /\ \A i \in 1 .. Len(a[n]) : off[c[n]] + i \in 1 .. Len(s[n])
                                           /\ s[n][off[c[n]] + i] = t.list[c[n]].records[i]
  <2>1. n \in 0 .. L /\ n - 1 \in 0 .. L
    BY <1>3
  <2>2. off[c[n]] = Len(s[n - 1]) /\ Size(t, c[n]) = Len(a[n])
    BY <1>5, <1>7, <1>8 DEF Size
  <2> DEFINE x == s[n - 1]
             y == a[n]
             z == s[n]
  <2>3. z = x \o y /\ x \in Seq(Record) /\ y \in Seq(Record) /\ y = t.list[c[n]].records
    BY <2>1, <1>4, <1>5, <1>10 DEF Summed
  <2> HIDE DEF x, y, z
  <2>4. /\ Len(z) = Len(x) + Len(y) /\ Len(y) \in Nat /\ Len(x) \in Nat
        /\ \A i \in 1 .. Len(y) : Len(x) + i \in 1 .. Len(z) /\ z[Len(x) + i] = y[i]
    <3>1. z = x \o y /\ x \in Seq(Record) /\ y \in Seq(Record)
      BY <2>3
    <3>2. Len(z) = Len(x) + Len(y) /\ Len(y) \in Nat /\ Len(x) \in Nat
      BY <3>1
    <3>3. \A i \in 1 .. Len(y) : Len(x) + i \in 1 .. Len(x) + Len(y)
      BY <3>2
    <3>4. \A i \in 1 .. Len(y) : z[Len(x) + i] = y[i]
      BY <3>1
    <3> QED BY <3>2, <3>3, <3>4
  <2> QED BY <2>1, <2>2, <2>3, <2>4 DEF x, y, z
<1>13. L \in 0 .. L /\ Len(q) = Len(s[L]) /\ q \in Seq(Record)
  BY <1>3, <1>5, <1>10
<1>14. t.head = NULL_ID => q = <<>>
  BY <1>1, <1>5, <1>10 DEF InLine, L
<1>15. t.head # NULL_ID => off[t.head] = 0
  <2> SUFFICES ASSUME t.head # NULL_ID PROVE off[t.head] = 0
    OBVIOUS
  <2>1. L # 0 /\ c[1] = t.head
    BY <1>1 DEF InLine, L
  <2>2. 1 \in 1 .. L /\ 1 - 1 = 0
    BY <2>1, <1>3
  <2> QED BY <2>1, <2>2, <1>10, <1>12
<1>16. \A n \in 1 .. L - 1 : n \in 1 .. L /\ n + 1 \in 1 .. L /\ (n + 1) - 1 = n /\ t.list[c[n]].next = c[n + 1]
  <2>1. \A n \in 1 .. L - 1 : n \in 1 .. L /\ n + 1 \in 1 .. L /\ (n + 1) - 1 = n
    BY <1>3
  <2> QED BY <2>1, <1>1 DEF InLine, L
<1>17. ASSUME NEW p \in C
       PROVE  LET n == ix[p] IN
              /\ n \in 1 .. L /\ c[n] = p
              /\ t.list[p].next # NULL_ID => n # L /\ off[t.list[p].next] = off[p] + Size(t, p)
              /\ t.list[p].next = NULL_ID => Len(q) = off[p] + Size(t, p)
              /\ off[p] + Size(t, p) <= Len(q)
              /\ \A i \in 1 .. Size(t, p) : q[off[p] + i] = t.list[p].records[i]
  <2> DEFINE n == ix[p]
  <2>1. n \in 1 .. L /\ c[n] = p
    BY <1>6
  <2> HIDE DEF n
  <2>2. n # L => n \in 1 .. L - 1
    BY <2>1, <1>3
  <2>3. t.list[p].next # NULL_ID => n # L /\ off[t.list[p].next] = off[p] + Size(t, p)
    <3> SUFFICES ASSUME t.list[p].next # NULL_ID PROVE n # L /\ off[t.list[p].next] = off[p] + Size(t, p)
      OBVIOUS
    <3>1. n # L
      <4>1. L # 0
        BY <2>1, <1>3
      <4> QED BY <4>1, <2>1, <1>1 DEF InLine, L
    <3>2. t.list[p].next = c[n + 1] /\ n + 1 \in 1 .. L /\ (n + 1) - 1 = n
      BY <3>1, <2>1, <2>2, <1>16
    <3>3. off[c[n + 1]] = Len(s[n])
      BY <3>2, <1>12
    <3> QED BY <3>1, <3>2, <3>3, <2>1, <1>12
  <2>4. t.list[p].next = NULL_ID => Len(q) = off[p] + Size(t, p)
    <3> SUFFICES ASSUME t.list[p].next = NULL_ID PROVE Len(q) = off[p] + Size(t, p)
      OBVIOUS
    <3>1. n = L
      <4>1. n # L => t.list[p].next = c[n + 1] /\ n + 1 \in 1 .. L
        BY <2>1, <2>2, <1>16
      <4> QED BY <4>1, <1>2, <1>3
    <3> QED BY <3>1, <2>1, <1>12, <1>13
  <2>5. n <= L
    BY <2>1, <1>3
  <2>6. /\ Len(s[n]) <= Len(q) /\ \A j \in 1 .. Len(s[n]) : q[j] = s[n][j]
    BY <2>1, <2>5, <1>5, <1>11, <1>12, <1>13
  <2>7. off[p] + Size(t, p) <= Len(q)
    BY <2>1, <2>6, <1>12
  <2>8. \A i \in 1 .. Size(t, p) : q[off[p] + i] = t.list[p].records[i]
    BY <2>1, <2>6, <1>12
  <2> QED BY <2>1, <2>3, <2>4, <2>7, <2>8 DEF n
<1>18. ASSUME NEW p \in C, NEW r \in C, p # r
       PROVE  off[p] + Size(t, p) <= off[r] \/ off[r] + Size(t, r) <= off[p]
  <2>1. ix[p] \in 1 .. L /\ ix[r] \in 1 .. L /\ c[ix[p]] = p /\ c[ix[r]] = r
    BY <1>6
  <2>2. ix[p] <= ix[r] - 1 \/ ix[r] <= ix[p] - 1
    BY <2>1, <1>3, <1>18
  <2>3. ASSUME NEW m \in 1 .. L, NEW n \in 1 .. L, m <= n - 1
        PROVE  off[c[m]] + Size(t, c[m]) <= off[c[n]]
    <3>1. /\ m \in 0 .. L /\ n - 1 \in 0 .. L
          /\ off[c[n]] = Len(s[n - 1]) /\ Len(s[m]) = off[c[m]] + Size(t, c[m])
      BY <1>12
    <3>2. Len(s[m]) <= Len(s[n - 1])
      BY <3>1, <2>3, <1>11
    <3> QED BY <3>1, <3>2
  <2> QED BY <2>1, <2>2, <2>3
<1>19. ASSUME NEW j \in 1 .. Len(q) PROVE \E p \in C : \E i \in 1 .. Size(t, p) : j = off[p] + i
  <2>1. PICK n \in 1 .. L : \E i \in 1 .. Len(a[n]) : j = Len(s[n - 1]) + i
    BY <1>11, <1>13
  <2>2. c[n] \in C /\ off[c[n]] = Len(s[n - 1]) /\ Size(t, c[n]) = Len(a[n])
    BY <1>8, <1>12
  <2> QED BY <2>1, <2>2
<1>20. Laid(t, q, off)
  BY <1>9, <1>13, <1>14, <1>15, <1>17, <1>18, <1>19 DEF Laid, C
<1> QED BY <1>7, <1>20 DEF q, off, c, C


-----------------------------------------------------------------------------
(* What the calls do to such a queue.                                      *)
LEMMA LaidParts ==
  ASSUME NEW t, Loose(t, Record), NEW q, NEW off, Laid(t, q, off)
  PROVE  /\ q \in Seq(Record) /\ Len(q) \in Nat
         /\ \A p \in Chained(t) :
              /\ p \in InUse(t) /\ p \in PageId /\ p # NULL_ID
              /\ t.list[p].records \in Seq(Record) /\ Size(t, p) = Len(t.list[p].records)
              /\ off[p] \in Nat /\ Size(t, p) \in Nat
              /\ \A i \in 1 .. Size(t, p) : off[p] + i \in 1 .. Len(q)
PROOF
<1>1. q \in Seq(Record) /\ off \in [Chained(t) -> Nat]
      /\ \A p \in Chained(t) : off[p] + Size(t, p) <= Len(q)
  BY DEF Laid
<1>2. \A p \in Chained(t) : p \in InUse(t) /\ p \in PageId
  BY ChainSteps, LooseParts
<1>3. ASSUME NEW p \in Chained(t)
      PROVE  /\ p # NULL_ID /\ t.list[p].records \in Seq(Record)
             /\ Size(t, p) = Len(t.list[p].records) /\ Size(t, p) \in Nat
  BY <1>2, LooseParts DEF Size
<1>4. ASSUME NEW p \in Chained(t), NEW i \in 1 .. Size(t, p) PROVE off[p] + i \in 1 .. Len(q)
  BY <1>1, <1>3
<1> QED BY <1>1, <1>2, <1>3, <1>4

(* Only two last pages could have no next one: there is one last page.     *)
LEMMA OneLast ==
  ASSUME NEW t, NEW R, Loose(t, R), NEW p \in Chained(t), NEW r \in Chained(t),
         t.list[p].next = NULL_ID, t.list[r].next = NULL_ID
  PROVE  p = r
PROOF
<1> DEFINE c == Chain(t)
           L == Len(c)
<1>1. InLine(t, c)
  BY ChainInLine
<1> HIDE DEF c
<1>2. c \in Seq(PageId) /\ \A q \in PageId : q # NULL_ID
  BY <1>1, LooseParts DEF InLine
<1>3. L \in Nat /\ \A n \in 1 .. L : c[n] \in PageId
  BY <1>2
<1>4. ASSUME NEW n \in 1 .. L, t.list[c[n]].next = NULL_ID PROVE n = L
  <2>1. n # L => n \in 1 .. L - 1 /\ n + 1 \in 1 .. L
    BY <1>3
  <2> QED BY <2>1, <1>1, <1>2, <1>3, <1>4 DEF InLine
<1>5. \E n \in 1 .. L : p = c[n]
  BY <1>1 DEF InLine
<1>6. \E n \in 1 .. L : r = c[n]
  BY <1>1 DEF InLine
<1> QED BY <1>4, <1>5, <1>6

LEMMA SkippedLaid ==
  ASSUME NEW t, Loose(t, Record), NEW p \in Chained(t), NEW q, NEW off, Laid(t, q, off)
  PROVE  LET u == Skipped(t, p)
         IN /\ Laid(u, q, [x \in Chained(u) |-> off[x]])
            /\ After(t, p) # NULL_ID => /\ After(t, p) \in Chained(u)
                                        /\ off[After(t, p)] = off[p] + Size(t, p)
            /\ After(t, p) = NULL_ID => Len(q) = off[p] + Size(t, p)
PROOF
<1> DEFINE U == InUse(t)
           C == Chained(t)
           u == Skipped(t, p)
           D == Chained(u)
           G == Gone(t, p)
           K == Stop(t, p)
           page == Linked(t, p)
           a == After(t, p)
           at == [x \in D |-> off[x]]
<1>1. /\ Loose(u, Record) /\ u.head = t.head
      /\ \A x \in PageId : u.list[x].records = t.list[x].records
      /\ \A x \in PageId \ ({p} \cup G) : u.list[x].next = t.list[x].next
      /\ u.list[p].next = a
      /\ \A x \in G : Size(t, x) = 0
      /\ p \in D /\ D = C \ G
  BY SkippedKept
<1>2. PICK rank : Acyclic(t, U, rank)
  BY LooseParts
<1>3. /\ K \in 1 .. PAGES /\ page[0] = p /\ page[K] = a
      /\ \A n \in 0 .. K - 1 :
           /\ page[n] \in U /\ t.list[page[n]].next = page[n + 1]
           /\ n # 0 => Size(t, page[n]) = 0
  <2>1. p \in U
    BY ChainSteps
  <2> QED BY <1>2, <2>1, StopReached DEF After
<1>4. /\ q \in Seq(Record) /\ off \in [C -> Nat]
      /\ t.head = NULL_ID => q = <<>>
      /\ t.head # NULL_ID => off[t.head] = 0
      /\ \A x \in C : t.list[x].next # NULL_ID => off[t.list[x].next] = off[x] + Size(t, x)
      /\ \A x \in C : t.list[x].next = NULL_ID => Len(q) = off[x] + Size(t, x)
      /\ \A x \in C : off[x] + Size(t, x) <= Len(q)
      /\ \A x \in C : \A i \in 1 .. Size(t, x) : q[off[x] + i] = t.list[x].records[i]
      /\ \A x, r \in C : x # r => off[x] + Size(t, x) <= off[r] \/ off[r] + Size(t, r) <= off[x]
      /\ \A j \in 1 .. Len(q) : \E x \in C : \E i \in 1 .. Size(t, x) : j = off[x] + i
  BY DEF Laid
<1>5. /\ \A x \in C : x \in PageId /\ off[x] \in Nat /\ Size(t, x) \in Nat /\ x # NULL_ID
      /\ \A x \in C : t.list[x].next # NULL_ID => t.list[x].next \in C
  BY LaidParts, ChainSteps
<1>6. \A x \in U : x # NULL_ID
  BY LooseParts
<1>7. /\ u.head # NULL_ID => u.head \in D
      /\ \A x \in D : u.list[x].next # NULL_ID => u.list[x].next \in D
  BY <1>1, ChainSteps
<1>8. \A x \in D : Size(u, x) = Size(t, x) /\ x \in C /\ x \notin G /\ at[x] = off[x]
  BY <1>1, <1>5 DEF Size
<1> HIDE DEF u, page, K, G, a, D, U, C, at
<1>9. \A n \in 0 .. K - 1 : page[n] \in C /\ off[page[n]] + Size(t, page[n]) = off[p] + Size(t, p)
  <2> DEFINE e == off[p] + Size(t, p)
             T == {n \in 0 .. K - 1 : page[n] \in C /\ off[page[n]] + Size(t, page[n]) = e}
  <2>1. K - 1 \in Nat
    BY <1>3
  <2>2. 0 \in T
    BY <2>1, <1>3 DEF C
  <2>3. ASSUME NEW n \in 0 .. (K - 1) - 1, n \in T PROVE n + 1 \in T
    <3>1. n \in 0 .. K - 1 /\ n + 1 \in 0 .. K - 1 /\ n + 1 # 0
      BY <2>1
    <3>2. /\ page[n] \in C /\ off[page[n]] + Size(t, page[n]) = e
          /\ t.list[page[n]].next = page[n + 1] /\ page[n + 1] \in U /\ Size(t, page[n + 1]) = 0
      BY <3>1, <2>3, <1>3
    <3>3. page[n + 1] \in C /\ off[page[n + 1]] = e
      BY <3>2, <1>4, <1>5, <1>6
    <3>4. off[page[n + 1]] + Size(t, page[n + 1]) = e
      <4>1. off[page[n + 1]] \in Nat
        BY <3>3, <1>5
      <4> HIDE DEF e
      <4> QED BY <4>1, <3>2, <3>3
    <3> QED BY <3>1, <3>3, <3>4
  <2> HIDE DEF T
  <2>4. \A n \in 0 .. K - 1 : n \in T
    BY <2>1, <2>2, <2>3, UpTo
  <2> QED BY <2>4 DEF T
<1>10. /\ a # NULL_ID => a \in D /\ off[a] = off[p] + Size(t, p)
       /\ a = NULL_ID => Len(q) = off[p] + Size(t, p)
  <2>1. K - 1 \in 0 .. K - 1 /\ (K - 1) + 1 = K
    BY <1>3
  <2>2. t.list[page[K - 1]].next = a /\ page[K - 1] \in C /\ off[page[K - 1]] + Size(t, page[K - 1]) = off[p] + Size(t, p)
    BY <2>1, <1>3, <1>9
  <2>3. a # NULL_ID => a \in D
    BY <1>1, <1>7
  <2> QED BY <2>2, <2>3, <1>4
<1>11. ASSUME NEW x \in D
       PROVE  /\ u.list[x].next # NULL_ID => at[u.list[x].next] = at[x] + Size(u, x)
              /\ u.list[x].next = NULL_ID => Len(q) = at[x] + Size(u, x)
  <2>1. CASE x = p
    BY <2>1, <1>1, <1>8, <1>10
  <2>2. CASE x # p
    <3>1. u.list[x].next = t.list[x].next
      BY <2>2, <1>1, <1>5, <1>8
    <3> QED BY <3>1, <1>4, <1>7, <1>8
  <2> QED BY <2>1, <2>2
<1>12. at \in [D -> Nat]
  BY <1>5, <1>8 DEF at
<1>13. \A x \in D : \A i \in 1 .. Size(u, x) : q[at[x] + i] = u.list[x].records[i]
  <2> TAKE x \in D
  <2>1. u.list[x].records = t.list[x].records /\ Size(u, x) = Size(t, x) /\ x \in C /\ at[x] = off[x]
    BY <1>1, <1>5, <1>8
  <2> QED BY <2>1, <1>4
<1>14. \A j \in 1 .. Len(q) : \E x \in D : \E i \in 1 .. Size(u, x) : j = at[x] + i
  <2> TAKE j \in 1 .. Len(q)
  <2>1. PICK x \in C : \E i \in 1 .. Size(t, x) : j = off[x] + i
    BY <1>4
  <2>2. x \notin G
    BY <2>1, <1>1
  <2>3. x \in D
    BY <2>2, <1>1
  <2> QED BY <2>1, <2>3, <1>8
<1>15. u.head # NULL_ID => at[u.head] = 0
  BY <1>1, <1>4, <1>7, <1>8
<1>16. \A x, r \in D : x # r => at[x] + Size(u, x) <= at[r] \/ at[r] + Size(u, r) <= at[x]
  BY <1>4, <1>8
<1>17. \A x \in D : at[x] + Size(u, x) <= Len(q)
  BY <1>4, <1>8
<1>18. Laid(u, q, at)
  <2>1. u.head = NULL_ID => q = <<>>
    BY <1>1, <1>4
  <2> QED BY <1>4, <1>11, <1>12, <1>13, <1>14, <1>15, <1>16, <1>17, <2>1 DEF Laid, D
<1> QED BY <1>10, <1>18 DEF u, a, D, at


LEMMA HeadLaid ==
  ASSUME NEW t, Loose(t, Record), NEW q, NEW off, Laid(t, q, off)
  PROVE  \E at : Laid(HeadRead(t), q, at)
PROOF
<1> DEFINE p == t.head
           u == Skipped(t, p)
           a == After(t, p)
           h == HeadRead(t)
           D == Chained(u)
           E == Chained(h)
           f == [x \in D |-> off[x]]
           at == [x \in E |-> off[x]]
<1>1. CASE t.head = NULL_ID \/ Size(t, t.head) # 0
  BY <1>1 DEF HeadRead
<1>2. CASE t.head # NULL_ID /\ Size(t, t.head) = 0
  <2>1. p \in Chained(t)
    BY <1>2, ChainSteps
  <2>2. /\ Loose(u, Record) /\ u.head = p /\ u.list[p].next = a
        /\ \A x \in PageId : u.list[x].records = t.list[x].records
    BY <2>1, SkippedKept
  <2>3. /\ Laid(u, q, f)
        /\ a # NULL_ID => a \in D /\ off[a] = off[p] + Size(t, p)
        /\ a = NULL_ID => Len(q) = off[p] + Size(t, p)
    BY <2>1, SkippedLaid
  <2>4. off[p] = 0
    BY <1>2 DEF Laid
  <2>5. Loose(h, Record)
    BY HeadReadOK DEF PagesOK
  <2>6. h.head = a /\ h.list = u.list
    <3>1. h = [u EXCEPT !.head = a]
      BY <1>2, <2>2 DEF HeadRead
    <3>2. u \in TableType(Record)
      BY <2>2 DEF Loose
    <3> HIDE DEF h, u, a
    <3> QED BY <3>1, <3>2 DEF TableType
  <2>7. /\ \A x \in D : /\ x \in PageId /\ x \in InUse(u) /\ f[x] = off[x] /\ off[x] \in Nat
                        /\ Size(u, x) \in Nat
                        /\ u.list[x].next # NULL_ID => u.list[x].next \in D
        /\ \A x \in PageId : x # NULL_ID
        /\ p \in D /\ Len(q) \in Nat /\ q \in Seq(Record)
    <3>1. \A x \in D : /\ x \in PageId /\ x \in InUse(u) /\ f[x] \in Nat /\ Size(u, x) \in Nat
      BY <2>2, <2>3, LaidParts
    <3>2. \A x \in D : f[x] = off[x]
      OBVIOUS
    <3>3. /\ \A x \in D : u.list[x].next # NULL_ID => u.list[x].next \in D
          /\ p \in D
      BY <1>2, <2>2, ChainSteps
    <3>4. \A x \in PageId : x # NULL_ID
      BY LooseParts
    <3>5. Len(q) \in Nat /\ q \in Seq(Record)
      BY <2>2, <2>3, LaidParts
    <3> QED BY <3>1, <3>2, <3>3, <3>4, <3>5
  <2>8. Size(u, p) = 0
    BY <1>2, <2>2, <2>7 DEF Size
  <2>9. PICK rank : Acyclic(u, InUse(u), rank)
    BY <2>2, LooseParts
  <2>10. ASSUME NEW x \in D, u.list[x].next # NULL_ID PROVE u.list[x].next # p
    <3> DEFINE S == {y \in D : rank[p] <= rank[y]}
    <3> HIDE DEF u, h, a, D, E
    <3>1. /\ \A y \in D : rank[y] \in Nat
          /\ \A y \in D : u.list[y].next # NULL_ID => rank[y] < rank[u.list[y].next]
      BY <2>7, <2>9 DEF Acyclic, Ranked
    <3>2. Carried(u, S)
      <4>1. p \in S
        BY <2>7, <3>1
      <4>2. ASSUME NEW y \in S, u.list[y].next # NULL_ID PROVE u.list[y].next \in S
        <5>1. u.list[y].next \in D /\ rank[y] < rank[u.list[y].next] /\ rank[p] <= rank[y]
          BY <4>2, <2>7, <3>1
        <5> QED BY <5>1, <2>7, <3>1
      <4> QED BY <4>1, <4>2, <2>2 DEF Carried
    <3> HIDE DEF S
    <3>3. D \subseteq S
      BY <2>2, <3>2, ChainLeast DEF D
    <3>4. rank[p] <= rank[x] /\ rank[x] < rank[u.list[x].next]
      BY <2>10, <3>1, <3>3 DEF S
    <3> QED BY <3>1, <3>4, <2>7
  <2> HIDE DEF u, h, a, D, E, f, at
  <2>11. E \subseteq D \ {p}
    <3> DEFINE S == D \ {p}
    <3>1. a # NULL_ID => a \in S
      BY <2>2, <2>3, <2>7, <2>10
    <3>2. Carried(h, S)
      BY <2>6, <2>7, <2>10, <3>1 DEF Carried
    <3> HIDE DEF S
    <3>3. E \subseteq S
      BY <2>5, <3>2, ChainLeast DEF E
    <3> QED BY <3>3 DEF S
  <2>12. /\ a # NULL_ID => a \in E
         /\ \A x \in E : u.list[x].next # NULL_ID => u.list[x].next \in E
    <3>1. /\ h.head # NULL_ID => h.head \in E
          /\ \A x \in E : h.list[x].next # NULL_ID => h.list[x].next \in E
      BY <2>5, ChainSteps DEF E
    <3> QED BY <3>1, <2>6
  <2>13. D \subseteq E \cup {p}
    <3> DEFINE S == E \cup {p}
    <3>1. Carried(u, S)
      BY <2>2, <2>12 DEF Carried
    <3> HIDE DEF S
    <3>2. D \subseteq S
      BY <2>2, <3>1, ChainLeast DEF D
    <3> QED BY <3>2 DEF S
  <2>14. \A x : Size(h, x) = Size(u, x)
    BY <2>6 DEF Size
  <2>15. \A x \in E : x \in D /\ at[x] = f[x]
    BY <2>7, <2>11 DEF at
  <2>16. /\ h.head = NULL_ID => q = <<>>
         /\ h.head # NULL_ID => at[h.head] = 0
    <3>1. a = NULL_ID => Len(q) = 0
      BY <1>2, <2>3, <2>4
    <3>2. a # NULL_ID => off[a] = 0
      BY <1>2, <2>3, <2>4
    <3>3. a # NULL_ID => at[a] = 0
      BY <3>2, <2>12 DEF at
    <3>4. Len(q) = 0 => q = <<>>
      BY <2>7
    <3> QED BY <3>1, <3>3, <3>4, <2>6
  <2>17. at \in [E -> Nat]
    BY <2>7, <2>11 DEF at
  <2>18. \A j \in 1 .. Len(q) : \E x \in E : \E i \in 1 .. Size(h, x) : j = at[x] + i
    <3> TAKE j \in 1 .. Len(q)
    <3>1. PICK x \in D : \E i \in 1 .. Size(u, x) : j = f[x] + i
      BY <2>3 DEF Laid, D
    <3>2. x \in E
      BY <3>1, <2>8, <2>13
    <3> QED BY <3>1, <3>2, <2>14, <2>15
  <2>19. ASSUME NEW x \in E
         PROVE  /\ h.list[x].next # NULL_ID => at[h.list[x].next] = at[x] + Size(h, x)
                /\ h.list[x].next = NULL_ID => Len(q) = at[x] + Size(h, x)
                /\ at[x] + Size(h, x) <= Len(q)
                /\ \A i \in 1 .. Size(h, x) : q[at[x] + i] = h.list[x].records[i]
    <3>1. x \in D /\ at[x] = f[x] /\ Size(h, x) = Size(u, x) /\ h.list[x] = u.list[x]
      BY <2>6, <2>14, <2>15
    <3>2. h.list[x].next # NULL_ID => at[h.list[x].next] = f[u.list[x].next]
      BY <3>1, <2>12, <2>15
    <3> QED BY <3>1, <3>2, <2>3 DEF Laid, D
  <2>20. \A x, r \in E : x # r => at[x] + Size(h, x) <= at[r] \/ at[r] + Size(h, r) <= at[x]
    <3> TAKE x, r \in E
    <3>1. x \in D /\ r \in D /\ at[x] = f[x] /\ at[r] = f[r] /\ Size(h, x) = Size(u, x) /\ Size(h, r) = Size(u, r)
      BY <2>14, <2>15
    <3> QED BY <3>1, <2>3 DEF Laid, D
  <2>21. Laid(h, q, at)
    BY <2>7, <2>16, <2>17, <2>18, <2>19, <2>20 DEF Laid, E
  <2> QED BY <2>21 DEF h
<1> QED BY <1>1, <1>2


(* The other pages lie before page p or behind it. *)
LEMMA Sides ==
  ASSUME NEW t, Loose(t, Record), NEW q, NEW off, Laid(t, q, off),
         NEW p \in Chained(t), NEW i \in 1 .. Size(t, p), NEW x \in Chained(t), x # p
  PROVE  off[x] + Size(t, x) < off[p] + i \/ off[p] + i <= off[x]
PROOF
<1>1. off[p] \in Nat /\ off[x] \in Nat /\ Size(t, x) \in Nat /\ Size(t, p) \in Nat
  BY LaidParts
<1>2. off[x] + Size(t, x) <= off[p] \/ off[p] + Size(t, p) <= off[x]
  BY DEF Laid
<1> QED BY <1>1, <1>2

LEMMA UpdateLaid ==
  ASSUME NEW t, PagesOK(t, Record), NEW p \in Chained(t), NEW i \in 1 .. Size(t, p), NEW r \in Record,
         NEW q, NEW off, Laid(t, q, off)
  PROVE  Laid(Updated(t, p, i, r), [q EXCEPT ![off[p] + i] = r], off)
PROOF
<1> DEFINE u == Updated(t, p, i, r)
           C == Chained(t)
           k == off[p] + i
           e == [q EXCEPT ![k] = r]
<1>0. Loose(t, Record)
  BY DEF PagesOK
<1>1. /\ q \in Seq(Record) /\ Len(q) \in Nat
      /\ \A x \in C : /\ x \in InUse(t) /\ x \in PageId /\ t.list[x].records \in Seq(Record)
                      /\ Size(t, x) = Len(t.list[x].records)
                      /\ off[x] \in Nat /\ Size(t, x) \in Nat
                      /\ \A j \in 1 .. Size(t, x) : off[x] + j \in 1 .. Len(q)
  BY <1>0, LaidParts
<1>2. /\ PagesOK(u, Record) /\ u.head = t.head
      /\ \A x \in PageId : u.list[x].next = t.list[x].next
      /\ \A x \in PageId : u.list[x].records = IF x = p THEN [t.list[p].records EXCEPT ![i] = r]
                                               ELSE t.list[x].records
  BY <1>1, UpdatedOK
<1> HIDE DEF u
<1>3. Chained(u) = C
  BY <1>0, <1>2, SameChain DEF PagesOK
<1> DEFINE s == t.list[p].records
           v == [s EXCEPT ![i] = r]
<1>4. s \in Seq(Record) /\ i \in 1 .. Len(s) /\ Len(s) = Size(t, p)
  BY <1>1
<1>5. Len(v) = Len(s) /\ \A j \in 1 .. Len(s) : v[j] = IF j = i THEN r ELSE s[j]
  <2> HIDE DEF s
  <2> QED BY <1>4
<1>6. k \in 1 .. Len(q)
  BY <1>1
<1>7. e \in Seq(Record) /\ Len(e) = Len(q) /\ \A j \in 1 .. Len(q) : e[j] = IF j = k THEN r ELSE q[j]
  <2> HIDE DEF k
  <2> QED BY <1>1, <1>6
<1>8. u.list[p].records = v
  BY <1>1, <1>2
<1> HIDE DEF s, v, k, e
<1>9. \A x \in C : Size(u, x) = Size(t, x) /\ u.list[x].next = t.list[x].next
  <2> TAKE x \in C
  <2>1. x = p => Size(u, x) = Size(t, x)
    BY <1>4, <1>5, <1>8 DEF Size
  <2>2. x # p => Size(u, x) = Size(t, x)
    BY <1>1, <1>2 DEF Size
  <2> QED BY <2>1, <2>2, <1>1, <1>2
<1>10. ASSUME NEW x \in C, NEW j \in 1 .. Size(t, x) PROVE e[off[x] + j] = u.list[x].records[j]
  <2>1. off[x] + j \in 1 .. Len(q) /\ q[off[x] + j] = t.list[x].records[j] /\ off[x] \in Nat
    BY <1>1 DEF Laid
  <2>2. CASE x = p
    <3>1. off[x] + j = k <=> j = i
      BY <1>1, <2>2, <2>1 DEF k
    <3>2. u.list[x].records[j] = IF j = i THEN r ELSE t.list[x].records[j]
      <4>1. v[j] = IF j = i THEN r ELSE s[j]
        BY <2>2, <1>4, <1>5
      <4> QED BY <4>1, <2>2, <1>8 DEF s
    <3> QED BY <2>1, <3>1, <3>2, <1>7
  <2>3. CASE x # p
    <3>1. off[x] + Size(t, x) < k \/ k <= off[x]
      BY <1>0, <2>3, Sides DEF k
    <3>2. off[x] + j # k
      BY <3>1, <2>1, <1>1, <1>6
    <3>3. u.list[x].records = t.list[x].records
      BY <2>3, <1>1, <1>2
    <3> QED BY <3>2, <3>3, <2>1, <1>7
  <2> QED BY <2>2, <2>3
<1>11. t.head # NULL_ID
  BY <1>0, ChainedIs
<1>12. Laid(u, e, off)
  <2>1. \A x, y \in C : x # y => off[x] + Size(u, x) <= off[y] \/ off[y] + Size(u, y) <= off[x]
    BY <1>9 DEF Laid
  <2>2. \A j \in 1 .. Len(e) : \E x \in C : \E m \in 1 .. Size(u, x) : j = off[x] + m
    <3> TAKE j \in 1 .. Len(e)
    <3>1. PICK x \in C : \E m \in 1 .. Size(t, x) : j = off[x] + m
      BY <1>7 DEF Laid
    <3> QED BY <3>1, <1>9
  <2>3. \A x \in C : \A j \in 1 .. Size(u, x) : e[off[x] + j] = u.list[x].records[j]
    BY <1>9, <1>10
  <2>4. /\ off \in [C -> Nat] /\ off[u.head] = 0
        /\ \A x \in C : /\ u.list[x].next # NULL_ID => off[u.list[x].next] = off[x] + Size(u, x)
                        /\ u.list[x].next = NULL_ID => Len(e) = off[x] + Size(u, x)
                        /\ off[x] + Size(u, x) <= Len(e)
    BY <1>2, <1>7, <1>9, <1>11 DEF Laid
  <2> QED BY <1>2, <1>3, <1>7, <1>11, <2>1, <2>2, <2>3, <2>4 DEF Laid
<1> QED BY <1>12 DEF u, e, k


(* Removing a record from the queue moves those behind it up by one.       *)
LEMMA TakenLaid ==
  ASSUME NEW t, Loose(t, Record), NEW p \in Chained(t), NEW i \in 1 .. Size(t, p),
         NEW q, NEW off, Laid(t, q, off)
  PROVE  LET u == WithRecords(t, p, Seqs!RemoveAt(t.list[p].records, i))
         IN /\ Loose(u, Record)
            /\ \E at : Laid(u, Seqs!RemoveAt(q, off[p] + i), at)
PROOF
<1> DEFINE s == t.list[p].records
           rs == Seqs!RemoveAt(s, i)
           u == WithRecords(t, p, rs)
           C == Chained(t)
           k == off[p] + i
           e == Seqs!RemoveAt(q, k)
           at == [x \in C |-> IF k <= off[x] THEN off[x] - 1 ELSE off[x]]
<1>1. /\ q \in Seq(Record) /\ Len(q) \in Nat
      /\ \A x \in C : /\ x \in InUse(t) /\ x \in PageId /\ t.list[x].records \in Seq(Record)
                      /\ Size(t, x) = Len(t.list[x].records)
                      /\ off[x] \in Nat /\ Size(t, x) \in Nat
                      /\ \A j \in 1 .. Size(t, x) : off[x] + j \in 1 .. Len(q)
  BY LaidParts
<1>2. s \in Seq(Record) /\ i \in 1 .. Len(s) /\ Len(s) = Size(t, p) /\ Len(s) \in Nat
  BY <1>1
<1>3. /\ rs \in Seq(Record) /\ Len(rs) = Len(s) - 1
      /\ \A j \in 1 .. Len(s) - 1 : rs[j] = IF j < i THEN s[j] ELSE s[j + 1]
  <2> HIDE DEF s
  <2> QED BY <1>2, RemovedAt
<1>4. k \in 1 .. Len(q)
  BY <1>1
<1>5. /\ e \in Seq(Record) /\ Len(e) = Len(q) - 1
      /\ \A j \in 1 .. Len(q) - 1 : e[j] = IF j < k THEN q[j] ELSE q[j + 1]
  <2> HIDE DEF k
  <2> QED BY <1>1, <1>4, RemovedAt
<1> HIDE DEF s, rs
<1>6. /\ Loose(u, Record) /\ u.head = t.head
      /\ \A x \in PageId : u.list[x].records = IF x = p THEN rs ELSE t.list[x].records
      /\ \A x \in PageId : u.list[x].next = t.list[x].next
  <2>1. Len(rs) <= MAX_RECORDS /\ p \in InUse(t)
    <3>1. Size(t, p) <= MAX_RECORDS /\ MAX_RECORDS \in Nat
      BY <1>1, TableAssumption DEF Loose
    <3> QED BY <3>1, <1>1, <1>2, <1>3
  <2> QED BY <2>1, <1>3, RecordsChanged
<1> HIDE DEF u
<1>7. Chained(u) = C
  BY <1>6, SameChain
<1>8. \A x \in C : /\ u.list[x].next = t.list[x].next
                   /\ Size(u, x) = IF x = p THEN Size(t, p) - 1 ELSE Size(t, x)
  <2> TAKE x \in C
  <2>1. x = p => Size(u, x) = Size(t, p) - 1
    BY <1>1, <1>2, <1>3, <1>6 DEF Size
  <2>2. x # p => Size(u, x) = Size(t, x)
    BY <1>1, <1>6 DEF Size
  <2> QED BY <2>1, <2>2, <1>1, <1>6
<1>9. /\ off[p] < k /\ k <= off[p] + Size(t, p) /\ k \in Nat /\ at[p] = off[p]
      /\ \A x \in C : at[x] \in Nat
      /\ \A x \in C : x # p => \/ off[x] + Size(t, x) < k /\ off[x] + Size(t, x) <= off[p] /\ at[x] = off[x]
                               \/ k <= off[x] /\ at[x] = off[x] - 1
  <2>1. off[p] < k /\ k <= off[p] + Size(t, p) /\ k \in Nat /\ k # 0
    BY <1>1
  <2>2. at[p] = off[p] /\ \A x \in C : at[x] \in Nat
    BY <1>1, <2>1
  <2>3. ASSUME NEW x \in C, x # p
        PROVE  \/ off[x] + Size(t, x) < k /\ off[x] + Size(t, x) <= off[p] /\ at[x] = off[x]
               \/ k <= off[x] /\ at[x] = off[x] - 1
    <3>1. off[x] + Size(t, x) <= off[p] \/ off[p] + Size(t, p) <= off[x]
      BY <2>3 DEF Laid
    <3> HIDE DEF k
    <3> QED BY <1>1, <2>1, <3>1
  <2> QED BY <2>1, <2>2, <2>3
<1>10. /\ \A x \in C : t.list[x].next # NULL_ID => t.list[x].next \in C /\ off[t.list[x].next] = off[x] + Size(t, x)
       /\ \A x \in C : t.list[x].next = NULL_ID => Len(q) = off[x] + Size(t, x)
       /\ \A x \in C : off[x] + Size(t, x) <= Len(q)
       /\ \A x \in C : \A j \in 1 .. Size(t, x) : q[off[x] + j] = t.list[x].records[j]
       /\ \A x, y \in C : x # y => off[x] + Size(t, x) <= off[y] \/ off[y] + Size(t, y) <= off[x]
       /\ \A j \in 1 .. Len(q) : \E x \in C : \E m \in 1 .. Size(t, x) : j = off[x] + m
       /\ t.head # NULL_ID /\ t.head \in C /\ off[t.head] = 0
  BY ChainSteps, ChainedIs DEF Laid
<1>at. \A x \in C : at[x] = IF k <= off[x] THEN off[x] - 1 ELSE off[x]
  OBVIOUS
<1>dom. at \in [C -> Nat]
  <2>1. \A x \in C : (IF k <= off[x] THEN off[x] - 1 ELSE off[x]) \in Nat
    BY <1>9, <1>at
  <2> QED BY <2>1
<1> HIDE DEF at, k, e, C
<1>11. ASSUME NEW x \in C PROVE u.list[x].next # NULL_ID => at[u.list[x].next] = at[x] + Size(u, x)
  <2> DEFINE n == t.list[x].next
  <2> SUFFICES ASSUME n # NULL_ID PROVE at[n] = at[x] + Size(u, x)
    BY <1>8
  <2> HIDE DEF n
  <2>1. n \in C /\ off[n] = off[x] + Size(t, x) /\ off[x] \in Nat /\ Size(t, x) \in Nat
    BY <1>1, <1>10 DEF n, C
  <2>2. at[n] = IF k <= off[n] THEN off[n] - 1 ELSE off[n]
    BY <2>1, <1>at
  <2>3. CASE x = p
    BY <2>1, <2>2, <2>3, <1>8, <1>9
  <2>4. CASE x # p
    BY <2>1, <2>2, <2>4, <1>8, <1>9
  <2> QED BY <2>3, <2>4
<1>12. ASSUME NEW x \in C
       PROVE  /\ u.list[x].next = NULL_ID => Len(e) = at[x] + Size(u, x)
              /\ at[x] + Size(u, x) <= Len(e)
  <2>1. /\ off[x] \in Nat /\ Size(t, x) \in Nat /\ off[p] + Size(t, p) <= Len(q) /\ Len(q) \in Nat
        /\ off[p] \in Nat /\ Size(t, p) \in Nat
        /\ off[x] + Size(t, x) <= Len(q)
        /\ u.list[x].next = NULL_ID => Len(q) = off[x] + Size(t, x)
    BY <1>1, <1>8, <1>10 DEF C
  <2>2. CASE x = p
    BY <2>1, <2>2, <1>5, <1>8, <1>9
  <2>3. CASE x # p
    <3>1. Size(u, x) = Size(t, x) /\ Len(e) = Len(q) - 1 /\ k \in Nat /\ k <= Len(q)
      BY <2>1, <2>3, <1>5, <1>8, <1>9
    <3>2. CASE off[x] + Size(t, x) < k /\ at[x] = off[x]
      BY <2>1, <3>1, <3>2
    <3>3. CASE k <= off[x] /\ at[x] = off[x] - 1
      BY <2>1, <3>1, <3>3
    <3> QED BY <3>2, <3>3, <2>3, <1>9
  <2> QED BY <2>2, <2>3
<1>13. ASSUME NEW x \in C, NEW j \in 1 .. Size(u, x) PROVE e[at[x] + j] = u.list[x].records[j]
  <2>1. /\ off[x] \in Nat /\ Size(t, x) \in Nat /\ Len(q) \in Nat /\ off[x] + Size(t, x) <= Len(q)
    BY <1>1, <1>10 DEF C
  <2>2. CASE x = p
    <3>1. /\ at[x] = off[p] /\ Size(u, x) = Size(t, p) - 1 /\ u.list[x].records = rs
          /\ j \in 1 .. Size(t, p) - 1
      BY <2>2, <1>1, <1>6, <1>8, <1>9 DEF C
    <3>2. rs[j] = IF j < i THEN s[j] ELSE s[j + 1]
      BY <3>1, <1>2, <1>3
    <3>3. /\ off[p] + j \in 1 .. Len(q) - 1 /\ (off[p] + j < k <=> j < i)
          /\ (off[p] + j) + 1 = off[p] + (j + 1)
      BY <2>1, <2>2, <3>1 DEF k
    <3>4. e[off[p] + j] = IF j < i THEN q[off[p] + j] ELSE q[off[p] + (j + 1)]
      BY <3>3, <1>5
    <3>5. q[off[p] + j] = s[j] /\ q[off[p] + (j + 1)] = s[j + 1]
      <4>1. j \in 1 .. Size(t, p) /\ j + 1 \in 1 .. Size(t, p)
        BY <3>1, <2>1, <2>2
      <4> QED BY <4>1, <2>2, <1>10 DEF s
    <3> QED BY <3>1, <3>2, <3>4, <3>5
  <2>3. CASE x # p
    <3>1. Size(u, x) = Size(t, x) /\ u.list[x].records = t.list[x].records /\ j \in 1 .. Size(t, x)
      BY <2>3, <1>1, <1>6, <1>8 DEF C
    <3>2. q[off[x] + j] = t.list[x].records[j]
      BY <3>1, <1>10
    <3>3. CASE off[x] + Size(t, x) < k /\ at[x] = off[x]
      <4>1. off[x] + j < k /\ off[x] + j \in 1 .. Len(q) - 1
        BY <2>1, <3>1, <3>3, <1>4
      <4> QED BY <4>1, <3>1, <3>2, <3>3, <1>5
    <3>4. CASE k <= off[x] /\ at[x] = off[x] - 1
      <4>1. /\ at[x] + j \in 1 .. Len(q) - 1 /\ ~(at[x] + j < k) /\ (at[x] + j) + 1 = off[x] + j
        BY <2>1, <3>1, <3>4, <1>4
      <4> QED BY <4>1, <3>1, <3>2, <1>5
    <3> QED BY <3>3, <3>4, <2>3, <1>9
  <2> QED BY <2>2, <2>3
<1>14. ASSUME NEW x \in C, NEW y \in C, x # y
       PROVE  at[x] + Size(u, x) <= at[y] \/ at[y] + Size(u, y) <= at[x]
  <2>1. /\ off[x] \in Nat /\ Size(t, x) \in Nat /\ off[y] \in Nat /\ Size(t, y) \in Nat
        /\ off[x] + Size(t, x) <= off[y] \/ off[y] + Size(t, y) <= off[x]
    BY <1>1, <1>10, <1>14 DEF C
  <2>2. CASE x = p
    BY <2>1, <2>2, <1>8, <1>9, <1>14
  <2>3. CASE y = p
    BY <2>1, <2>3, <1>8, <1>9, <1>14
  <2>4. CASE x # p /\ y # p
    BY <2>1, <2>4, <1>8, <1>9
  <2> QED BY <2>2, <2>3, <2>4
<1>15. ASSUME NEW j \in 1 .. Len(e) PROVE \E x \in C : \E m \in 1 .. Size(u, x) : j = at[x] + m
  <2> DEFINE o == IF j < k THEN j ELSE j + 1
  <2>1. o \in 1 .. Len(q) /\ o # k
    BY <1>1, <1>4, <1>5
  <2>2. PICK x \in C : \E m \in 1 .. Size(t, x) : o = off[x] + m
    BY <2>1, <1>10
  <2>3. PICK m \in 1 .. Size(t, x) : o = off[x] + m
    BY <2>2
  <2>4. off[x] \in Nat /\ Size(t, x) \in Nat
    BY <1>1 DEF C
  <2>5. CASE x = p
    <3>1. m # i /\ (j < k <=> m < i) /\ at[x] = off[x] /\ Size(u, x) = Size(t, x) - 1
      BY <2>1, <2>3, <2>4, <2>5, <1>8, <1>9 DEF k
    <3>2. CASE m < i
      <4>1. j = at[x] + m /\ m \in 1 .. Size(u, x)
        BY <2>3, <2>4, <2>5, <3>1, <3>2
      <4> QED BY <4>1
    <3>3. CASE ~(m < i)
      <4>1. j = at[x] + (m - 1) /\ m - 1 \in 1 .. Size(u, x)
        BY <2>3, <2>4, <3>1, <3>3
      <4> QED BY <4>1
    <3> QED BY <3>2, <3>3
  <2>6. CASE x # p
    <3>1. Size(u, x) = Size(t, x)
      BY <2>6, <1>8
    <3>2. j = at[x] + m
      BY <2>1, <2>3, <2>4, <2>6, <1>9
    <3> QED BY <3>1, <3>2
  <2> QED BY <2>5, <2>6
<1>16. u.head # NULL_ID /\ at[u.head] = 0
  BY <1>4, <1>6, <1>10, <1>at
<1>17. Laid(u, e, at)
  BY <1>5, <1>7, <1>dom, <1>11, <1>12, <1>13, <1>14, <1>15, <1>16 DEF Laid
<1> QED BY <1>6, <1>17 DEF u, e, k, rs, s

(* Only empty pages could lie behind the last page, and none does.         *)
LEMMA LastBehind ==
  ASSUME NEW t, Loose(t, Record), NEW q, NEW off, Laid(t, q, off),
         NEW l \in Chained(t), t.list[l].next = NULL_ID
  PROVE  \A x \in Chained(t) : x # l => off[x] + Size(t, x) <= off[l]
PROOF
<1> DEFINE C == Chained(t)
           S == {x \in C : x # l => off[x] + Size(t, x) <= off[l]}
<1>1. /\ \A x \in C : off[x] \in Nat /\ Size(t, x) \in Nat
      /\ \A x \in C : t.list[x].next # NULL_ID => t.list[x].next \in C
      /\ t.head # NULL_ID => t.head \in C
  BY LaidParts, ChainSteps
<1>2. /\ t.head # NULL_ID => off[t.head] = 0
      /\ \A x \in C : t.list[x].next # NULL_ID => off[t.list[x].next] = off[x] + Size(t, x)
      /\ Len(q) = off[l] + Size(t, l)
      /\ \A x \in C : off[x] + Size(t, x) <= Len(q)
      /\ \A x, y \in C : x # y => off[x] + Size(t, x) <= off[y] \/ off[y] + Size(t, y) <= off[x]
  BY DEF Laid
<1>3. ASSUME NEW x \in C, off[x] <= off[l] PROVE x \in S
  <2>1. CASE off[x] + Size(t, x) <= off[l]
    BY <2>1
  <2>2. CASE off[l] + Size(t, l) <= off[x]
    BY <1>1, <1>2, <1>3, <2>2
  <2> QED BY <1>2, <2>1, <2>2
<1>4. t.head # NULL_ID => t.head \in S
  BY <1>1, <1>2, <1>3
<1>5. ASSUME NEW x \in S, t.list[x].next # NULL_ID PROVE t.list[x].next \in S
  <2>1. x \in C /\ x # l
    BY <1>5
  <2>2. t.list[x].next \in C /\ off[t.list[x].next] <= off[l]
    BY <1>1, <1>2, <1>5, <2>1
  <2> QED BY <2>2, <1>3
<1> HIDE DEF S
<1>6. C \subseteq S
  BY <1>4, <1>5, ChainLeast DEF Carried
<1> QED BY <1>6 DEF S

(* Insert: the page it uses is the last of the chain. *)
LEMMA InsertedLine ==
  ASSUME NEW R, NEW t, PagesOK(t, R), NEW r \in R,
         TailFull(t) => CanNew(t), t.tail \in Chained(t) \cup {NULL_ID}
  PROVE  LET u == Inserted(t, r)
             l == InsertPage(t)
         IN /\ PagesOK(u, R) /\ Chained(u) = Chained(t) \cup {l}
            /\ u.list[l].next = NULL_ID
            /\ TailFull(t) => l \notin Chained(t) /\ u.list[l].records = <<r>>
            /\ ~TailFull(t) => /\ l = t.tail /\ t.list[l].next = NULL_ID
                               /\ u.list[l].records = Append(t.list[l].records, r)
            /\ \A x \in Chained(t) \ {l} : u.list[x].records = t.list[x].records
            /\ \A x \in Chained(t) \ {t.tail} : u.list[x].next = t.list[x].next
            /\ t.tail # NULL_ID => t.tail \in Chained(t) /\ t.list[t.tail].next = NULL_ID
            /\ TailFull(t) /\ t.tail # NULL_ID => u.list[t.tail].next = l
            /\ u.head = IF t.tail = NULL_ID THEN l ELSE t.head
            /\ t.tail = NULL_ID => t.head = NULL_ID /\ Chained(t) = {}
            /\ t.tail # NULL_ID => t.head # NULL_ID
            /\ l # NULL_ID
PROOF
<1> DEFINE u == Inserted(t, r)
           l == InsertPage(t)
           C == Chained(t)
           D == Chained(u)
<1>1. /\ Loose(t, R) /\ C \subseteq InUse(t) /\ C \subseteq PageId
      /\ \A x \in PageId : x # NULL_ID
      /\ t.head # NULL_ID => t.head \in C
      /\ \A x \in C : t.list[x].next # NULL_ID => t.list[x].next \in C
  <2>1. Loose(t, R)
    BY DEF PagesOK
  <2> QED BY <2>1, ChainSteps, LooseParts
<1>2. ~TailFull(t) => t.tail \notin Given(t)
  BY <1>1 DEF TailFull, InUse
<1>3. /\ PagesOK(u, R) /\ l \in PageId /\ l \in InUse(u)
      /\ u.list[l].records = Append(t.list[l].records, r) \/ TailFull(t)
      /\ TailFull(t) => l \notin InUse(t) /\ u.list[l].records = <<r>>
      /\ \A x \in PageId \ {l} : u.list[x].records = t.list[x].records
      /\ u.tail = l /\ u.head = IF t.tail = NULL_ID THEN l ELSE t.head
      /\ \A x \in InUse(t) \ {t.tail} : u.list[x].next = t.list[x].next
      /\ TailFull(t) /\ t.tail # NULL_ID => u.list[t.tail].next = l
  BY <1>2, InsertedOK
<1>4. C \subseteq D
  BY <1>2, InsertedChain
<1>5. t.head = NULL_ID => C = {}
  BY <1>1, ChainedIs
<1>6. /\ t.tail = NULL_ID => t.head = NULL_ID
      /\ t.tail # NULL_ID => t.tail \in C /\ t.list[t.tail].next = NULL_ID
  BY <1>1 DEF Loose
<1>7. ~TailFull(t) => l = t.tail /\ t.tail # NULL_ID
  BY DEF InsertPage, TailFull
<1> HIDE DEF u, l
<1>8. Loose(u, R) /\ u.list[l].next = NULL_ID
  BY <1>3 DEF PagesOK, Loose
<1>9. /\ u.head # NULL_ID => u.head \in D
      /\ \A x \in D : u.list[x].next # NULL_ID => u.list[x].next \in D
  BY <1>8, ChainSteps
<1>10. l \in D
  <2>1. CASE ~TailFull(t)
    BY <2>1, <1>4, <1>6, <1>7
  <2>2. CASE TailFull(t) /\ t.tail = NULL_ID
    BY <2>2, <1>1, <1>3, <1>9
  <2>3. CASE TailFull(t) /\ t.tail # NULL_ID
    BY <2>3, <1>1, <1>3, <1>4, <1>6, <1>9
  <2> QED BY <2>1, <2>2, <2>3
<1>11. D \subseteq C \cup {l}
  <2> DEFINE S == C \cup {l}
  <2>1. u.head # NULL_ID => u.head \in S
    BY <1>1, <1>3
  <2>2. ASSUME NEW x \in S, u.list[x].next # NULL_ID PROVE u.list[x].next \in S
    <3>1. x \in C /\ x # l
      BY <2>2, <1>8
    <3>2. CASE x = t.tail
      BY <3>1, <3>2, <1>1, <1>3, <1>7
    <3>3. CASE x # t.tail
      BY <3>1, <3>3, <2>2, <1>1, <1>3
    <3> QED BY <3>2, <3>3
  <2>3. Carried(u, S)
    BY <2>1, <2>2 DEF Carried
  <2> HIDE DEF S
  <2>4. D \subseteq S
    BY <2>3, <1>8, ChainLeast
  <2> QED BY <2>4 DEF S
<1>12. D = C \cup {l}
  BY <1>4, <1>10, <1>11
<1>13. \A x \in C \ {l} : u.list[x].records = t.list[x].records
  BY <1>1, <1>3
<1>14. \A x \in C \ {t.tail} : u.list[x].next = t.list[x].next
  BY <1>1, <1>3
<1> HIDE DEF C, D
<1>15. /\ TailFull(t) => l \notin C
       /\ t.tail # NULL_ID => t.head # NULL_ID
       /\ l # NULL_ID
  BY <1>1, <1>3, <1>5, <1>6
<1> QED BY <1>3, <1>5, <1>6, <1>7, <1>8, <1>12, <1>13, <1>14, <1>15 DEF u, l, C, D

(* The new record is the last of the queue, whether the last page has room *)
(* for it ...                                                              *)
LEMMA AddedLaid ==
  ASSUME NEW t, PagesOK(t, Record), NEW r \in Record, ~TailFull(t),
         t.tail \in Chained(t) \cup {NULL_ID}, NEW q, NEW off, Laid(t, q, off)
  PROVE  Laid(Inserted(t, r), Append(q, r), off)
PROOF
<1> DEFINE u == Inserted(t, r)
           l == InsertPage(t)
           C == Chained(t)
           e == Append(q, r)
<1>1. /\ PagesOK(u, Record) /\ Chained(u) = C \cup {l} /\ l = t.tail
      /\ t.list[l].next = NULL_ID /\ u.list[l].next = NULL_ID
      /\ u.list[l].records = Append(t.list[l].records, r)
      /\ \A x \in C \ {l} : u.list[x].records = t.list[x].records
      /\ \A x \in C \ {l} : u.list[x].next = t.list[x].next
      /\ t.tail # NULL_ID => t.tail \in C /\ t.head # NULL_ID
      /\ u.head = IF t.tail = NULL_ID THEN l ELSE t.head
      /\ l # NULL_ID
  <2> HIDE DEF C
  <2> QED BY InsertedLine DEF C
<1>0. Loose(t, Record)
  BY DEF PagesOK
<1>2. /\ q \in Seq(Record) /\ Len(q) \in Nat
      /\ \A x \in C : /\ t.list[x].records \in Seq(Record) /\ Size(t, x) = Len(t.list[x].records)
                      /\ off[x] \in Nat /\ Size(t, x) \in Nat
                      /\ \A j \in 1 .. Size(t, x) : off[x] + j \in 1 .. Len(q)
  BY <1>0, LaidParts
<1> HIDE DEF u, l
<1>3. /\ e \in Seq(Record) /\ Len(e) = Len(q) + 1 /\ e[Len(q) + 1] = r
      /\ \A j \in 1 .. Len(q) : e[j] = q[j]
  BY <1>2
<1> HIDE DEF e
<1>4. Chained(u) = C /\ l \in C
  BY <1>1
<1>5. /\ \A x \in C : x # l => Size(u, x) = Size(t, x)
      /\ Size(u, l) = Size(t, l) + 1
      /\ \A j \in 1 .. Size(t, l) : u.list[l].records[j] = t.list[l].records[j]
      /\ u.list[l].records[Size(t, l) + 1] = r
  <2>1. \A x \in C : x # l => Size(u, x) = Size(t, x)
    BY <1>1 DEF Size
  <2> DEFINE s == t.list[l].records
  <2>2. s \in Seq(Record) /\ u.list[l].records = Append(s, r) /\ Size(t, l) = Len(s)
    BY <1>1, <1>2, <1>4
  <2> HIDE DEF s
  <2>3. /\ Len(Append(s, r)) = Len(s) + 1 /\ Append(s, r)[Len(s) + 1] = r
        /\ \A j \in 1 .. Len(s) : Append(s, r)[j] = s[j]
    BY <2>2
  <2> QED BY <2>1, <2>2, <2>3 DEF Size, s
<1>6. /\ off \in [C -> Nat] /\ off[t.head] = 0 /\ t.head # NULL_ID /\ u.head = t.head
      /\ \A x \in C : t.list[x].next # NULL_ID => off[t.list[x].next] = off[x] + Size(t, x)
      /\ \A x \in C : off[x] + Size(t, x) <= Len(q)
      /\ Len(q) = off[l] + Size(t, l)
      /\ \A x \in C : \A j \in 1 .. Size(t, x) : q[off[x] + j] = t.list[x].records[j]
      /\ \A x, y \in C : x # y => off[x] + Size(t, x) <= off[y] \/ off[y] + Size(t, y) <= off[x]
      /\ \A j \in 1 .. Len(q) : \E x \in C : \E m \in 1 .. Size(t, x) : j = off[x] + m
  BY <1>1, <1>4 DEF Laid
<1>7. \A x \in C : x # l => off[x] + Size(t, x) <= off[l]
  BY <1>0, <1>1, <1>4, LastBehind
<1>8. \A x \in C : t.list[x].next = NULL_ID => x = l
  BY <1>0, <1>1, <1>4, OneLast
<1> HIDE DEF C
<1>9. ASSUME NEW x \in C
      PROVE  /\ u.list[x].next # NULL_ID => off[u.list[x].next] = off[x] + Size(u, x)
             /\ u.list[x].next = NULL_ID => Len(e) = off[x] + Size(u, x)
             /\ off[x] + Size(u, x) <= Len(e)
  <2>1. CASE x = l
    <3> DEFINE m == Len(q)
               n == Size(t, l)
               o == off[l]
    <3>1. /\ m \in Nat /\ n \in Nat /\ o \in Nat /\ m = o + n /\ Len(e) = m + 1
          /\ Size(u, x) = n + 1 /\ off[x] = o
      BY <2>1, <1>2, <1>3, <1>4, <1>5, <1>6 DEF C
    <3>2. u.list[x].next = NULL_ID
      BY <2>1, <1>1
    <3> HIDE DEF m, n, o
    <3> QED BY <3>1, <3>2
  <2>2. CASE x # l
    <3>1. u.list[x].next = t.list[x].next /\ Size(u, x) = Size(t, x) /\ t.list[x].next # NULL_ID
      BY <2>2, <1>1, <1>5, <1>8
    <3>2. off[x] + Size(t, x) <= Len(q) /\ off[x] \in Nat /\ Size(t, x) \in Nat
      BY <1>2, <1>6
    <3>3. off[x] + Size(t, x) <= Len(e)
      BY <3>2, <1>2, <1>3
    <3> QED BY <3>1, <3>3, <1>6
  <2> QED BY <2>1, <2>2
<1>10. ASSUME NEW x \in C, NEW j \in 1 .. Size(u, x) PROVE e[off[x] + j] = u.list[x].records[j]
  <2>1. CASE j \in 1 .. Size(t, x)
    <3>1. off[x] + j \in 1 .. Len(q) /\ q[off[x] + j] = t.list[x].records[j]
      BY <2>1, <1>2, <1>6
    <3>2. u.list[x].records[j] = t.list[x].records[j]
      BY <2>1, <1>1, <1>5
    <3> QED BY <3>1, <3>2, <1>3
  <2>2. CASE j \notin 1 .. Size(t, x)
    <3>1. x = l /\ j = Size(t, l) + 1
      BY <2>2, <1>2, <1>4, <1>5
    <3>2. off[l] + j = Len(q) + 1
      BY <3>1, <1>2, <1>4, <1>6
    <3> QED BY <3>1, <3>2, <1>3, <1>5
  <2> QED BY <2>1, <2>2
<1>11. ASSUME NEW x \in C, NEW y \in C, x # y
       PROVE  off[x] + Size(u, x) <= off[y] \/ off[y] + Size(u, y) <= off[x]
  BY <1>5, <1>6, <1>7, <1>11
<1>12. ASSUME NEW j \in 1 .. Len(e) PROVE \E x \in C : \E m \in 1 .. Size(u, x) : j = off[x] + m
  <2>1. CASE j \in 1 .. Len(q)
    <3>1. PICK x \in C : \E m \in 1 .. Size(t, x) : j = off[x] + m
      BY <2>1, <1>6
    <3>2. Size(t, x) \in Nat /\ (Size(u, x) = Size(t, x) \/ Size(u, x) = Size(t, x) + 1)
      BY <1>2, <1>5
    <3>3. \A m \in 1 .. Size(t, x) : m \in 1 .. Size(u, x)
      BY <3>2
    <3> QED BY <3>1, <3>3
  <2>2. CASE j \notin 1 .. Len(q)
    <3>1. j = Len(q) + 1
      BY <2>2, <1>2, <1>3
    <3>2. /\ Size(t, l) \in Nat /\ off[l] \in Nat /\ Size(u, l) = Size(t, l) + 1
          /\ j = (off[l] + Size(t, l)) + 1
      BY <3>1, <1>2, <1>4, <1>5, <1>6 DEF C
    <3>3. Size(u, l) \in 1 .. Size(u, l) /\ j = off[l] + Size(u, l)
      BY <3>2
    <3> QED BY <3>3, <1>4
  <2> QED BY <2>1, <2>2
<1>13. Laid(u, e, off)
  BY <1>3, <1>4, <1>6, <1>9, <1>10, <1>11, <1>12 DEF Laid
<1> QED BY <1>13 DEF u, e

(* ... or a new page has been put behind it.                               *)
LEMMA BegunLaid ==
  ASSUME NEW t, PagesOK(t, Record), NEW r \in Record, TailFull(t), CanNew(t),
         t.tail \in Chained(t) \cup {NULL_ID}, NEW q, NEW off, Laid(t, q, off)
  PROVE  Laid(Inserted(t, r), Append(q, r),
              [x \in Chained(Inserted(t, r)) |-> IF x = InsertPage(t) THEN Len(q) ELSE off[x]])
PROOF
<1> DEFINE u == Inserted(t, r)
           l == InsertPage(t)
           C == Chained(t)
           D == Chained(u)
           e == Append(q, r)
           at == [x \in D |-> IF x = l THEN Len(q) ELSE off[x]]
<1>1. /\ PagesOK(u, Record) /\ D = C \cup {l} /\ l \notin C /\ u.list[l].records = <<r>>
      /\ u.list[l].next = NULL_ID
      /\ \A x \in C \ {l} : u.list[x].records = t.list[x].records
      /\ \A x \in C \ {t.tail} : u.list[x].next = t.list[x].next
      /\ t.tail # NULL_ID => t.tail \in C /\ t.list[t.tail].next = NULL_ID /\ u.list[t.tail].next = l
      /\ u.head = IF t.tail = NULL_ID THEN l ELSE t.head
      /\ t.tail = NULL_ID => t.head = NULL_ID /\ C = {}
      /\ t.tail # NULL_ID => t.head # NULL_ID
      /\ l # NULL_ID
  <2> HIDE DEF C, D
  <2> QED BY InsertedLine DEF C, D
<1>0. /\ Loose(t, Record)
      /\ \A x \in C : t.list[x].next # NULL_ID => t.list[x].next \in C
      /\ t.head # NULL_ID => t.head \in C
  <2>1. Loose(t, Record)
    BY DEF PagesOK
  <2> QED BY <2>1, ChainSteps
<1>2. /\ q \in Seq(Record) /\ Len(q) \in Nat
      /\ \A x \in C : /\ t.list[x].records \in Seq(Record) /\ Size(t, x) = Len(t.list[x].records)
                      /\ off[x] \in Nat /\ Size(t, x) \in Nat
                      /\ \A j \in 1 .. Size(t, x) : off[x] + j \in 1 .. Len(q)
  BY <1>0, LaidParts
<1>3. /\ \A x \in C : at[x] = off[x]
      /\ at[l] = Len(q) /\ at \in [D -> Nat]
  BY <1>1, <1>2
<1> HIDE DEF u, l, at
<1>4. /\ e \in Seq(Record) /\ Len(e) = Len(q) + 1 /\ e[Len(q) + 1] = r
      /\ \A j \in 1 .. Len(q) : e[j] = q[j]
  BY <1>2
<1> HIDE DEF e
<1>5. /\ \A x \in C : Size(u, x) = Size(t, x) /\ u.list[x].records = t.list[x].records
      /\ Size(u, l) = 1 /\ u.list[l].records[1] = r
  BY <1>1 DEF Size
<1>6. /\ t.head # NULL_ID => off[t.head] = 0
      /\ t.head = NULL_ID => Len(q) = 0
      /\ \A x \in C : t.list[x].next # NULL_ID => off[t.list[x].next] = off[x] + Size(t, x)
      /\ \A x \in C : off[x] + Size(t, x) <= Len(q)
      /\ \A x \in C : t.list[x].next = NULL_ID => Len(q) = off[x] + Size(t, x)
      /\ \A x \in C : \A j \in 1 .. Size(t, x) : q[off[x] + j] = t.list[x].records[j]
      /\ \A x, y \in C : x # y => off[x] + Size(t, x) <= off[y] \/ off[y] + Size(t, y) <= off[x]
      /\ \A j \in 1 .. Len(q) : \E x \in C : \E m \in 1 .. Size(t, x) : j = off[x] + m
  BY DEF Laid
<1>7. \A x \in C : t.list[x].next = NULL_ID => x = t.tail
  BY <1>0, <1>1, OneLast
<1> HIDE DEF C, D
<1>8. u.head # NULL_ID /\ at[u.head] = 0
  BY <1>0, <1>1, <1>3, <1>6
<1>9. ASSUME NEW x \in D
      PROVE  /\ u.list[x].next # NULL_ID => at[u.list[x].next] = at[x] + Size(u, x)
             /\ u.list[x].next = NULL_ID => Len(e) = at[x] + Size(u, x)
             /\ at[x] + Size(u, x) <= Len(e)
  <2>1. CASE x = l
    BY <2>1, <1>1, <1>2, <1>3, <1>4, <1>5
  <2>2. CASE x # l
    <3>1. x \in C /\ Size(u, x) = Size(t, x) /\ at[x] = off[x] /\ off[x] \in Nat /\ Size(t, x) \in Nat
      BY <2>2, <1>1, <1>2, <1>3, <1>5
    <3>2. at[x] + Size(u, x) <= Len(e)
      BY <3>1, <1>2, <1>4, <1>6
    <3>3. CASE x = t.tail
      <4>1. u.list[x].next = l /\ Len(q) = off[x] + Size(t, x)
        <5>1. t.tail # NULL_ID
          BY <3>1, <1>1
        <5> QED BY <5>1, <3>1, <3>3, <1>1, <1>6
      <4> QED BY <4>1, <3>1, <3>2, <1>1, <1>3
    <3>4. CASE x # t.tail
      <4>1. u.list[x].next = t.list[x].next /\ t.list[x].next # NULL_ID /\ t.list[x].next \in C
        BY <3>1, <3>4, <1>0, <1>1, <1>7
      <4> QED BY <4>1, <3>1, <3>2, <1>3, <1>6
    <3> QED BY <3>3, <3>4
  <2> QED BY <2>1, <2>2
<1>10. ASSUME NEW x \in D, NEW j \in 1 .. Size(u, x) PROVE e[at[x] + j] = u.list[x].records[j]
  <2>1. CASE x = l
    BY <2>1, <1>3, <1>4, <1>5
  <2>2. CASE x # l
    <3>1. x \in C /\ j \in 1 .. Size(t, x) /\ at[x] = off[x] /\ u.list[x].records = t.list[x].records
      BY <2>2, <1>1, <1>3, <1>5
    <3>2. off[x] + j \in 1 .. Len(q) /\ q[off[x] + j] = t.list[x].records[j]
      BY <3>1, <1>2, <1>6 DEF C
    <3> QED BY <3>1, <3>2, <1>4
  <2> QED BY <2>1, <2>2
<1>11. ASSUME NEW x \in D, NEW y \in D, x # y
       PROVE  at[x] + Size(u, x) <= at[y] \/ at[y] + Size(u, y) <= at[x]
  <2>1. CASE x = l
    BY <2>1, <1>1, <1>2, <1>3, <1>5, <1>6, <1>11
  <2>2. CASE y = l
    BY <2>2, <1>1, <1>2, <1>3, <1>5, <1>6, <1>11
  <2>3. CASE x # l /\ y # l
    BY <2>3, <1>1, <1>2, <1>3, <1>5, <1>6, <1>11
  <2> QED BY <2>1, <2>2, <2>3
<1>12. ASSUME NEW j \in 1 .. Len(e) PROVE \E x \in D : \E m \in 1 .. Size(u, x) : j = at[x] + m
  <2>1. CASE j \in 1 .. Len(q)
    <3>1. PICK x \in C : \E m \in 1 .. Size(t, x) : j = off[x] + m
      BY <2>1, <1>6
    <3> QED BY <3>1, <1>1, <1>3, <1>5
  <2>2. CASE j \notin 1 .. Len(q)
    <3>1. j = Len(q) + 1
      BY <2>2, <1>2, <1>4
    <3>2. 1 \in 1 .. Size(u, l) /\ j = at[l] + 1 /\ l \in D
      BY <3>1, <1>1, <1>3, <1>5
    <3> QED BY <3>2
  <2> QED BY <2>1, <2>2
<1>13. Laid(u, e, at)
  BY <1>3, <1>4, <1>8, <1>9, <1>10, <1>11, <1>12 DEF Laid, D
<1> QED BY <1>13 DEF u, e, at, D, l

-----------------------------------------------------------------------------
(* The queue that the table stands for, and the places of its records.     *)
QueueOf(t) == RecordsIn(t, Chain(t))

LEMMA QueueIs ==
  ASSUME NEW t, Loose(t, Record), NEW q, NEW off, Laid(t, q, off)
  PROVE  /\ QueueOf(t) = q
         /\ \A p \in Chained(t) : \A i \in Nat : Place(t, p, i) = off[p] + i + 1
PROOF
<1>1. /\ Laid(t, QueueOf(t), Offsets(t))
      /\ \A p \in Chained(t) : \A i \in Nat : Place(t, p, i) = Offsets(t)[p] + i + 1
  BY QueueLaid DEF QueueOf
<1>2. QueueOf(t) = q /\ Offsets(t) = off
  BY <1>1, LaidOnce
<1> QED BY <1>1, <1>2

(* Each record of the chain is the record of the queue at its place, and   *)
(* the queue is empty when there is no head.                               *)
LEMMA PlacesOK ==
  ASSUME NEW t, PagesOK(t, Record)
  PROVE  /\ QueueOf(t) \in Seq(Record)
         /\ t.head = NULL_ID <=> QueueOf(t) = <<>>
         /\ t.head # NULL_ID => t.head \in Chained(t) /\ Place(t, t.head, 0) = 1
         /\ \A p \in Chained(t) : \A i \in Nat : i < Size(t, p) =>
              /\ Place(t, p, i) \in 1 .. Len(QueueOf(t))
              /\ QueueOf(t)[Place(t, p, i)] = t.list[p].records[i + 1]
              /\ i + 1 # Size(t, p) => Place(t, p, i) # Len(QueueOf(t))
              /\ Place(t, p, i + 1) = Place(t, p, i) + 1
PROOF
<1> DEFINE q == QueueOf(t)
           off == Offsets(t)
<1>1. Loose(t, Record) /\ HeadFull(t)
  BY DEF PagesOK
<1>2. /\ Laid(t, q, off)
      /\ \A p \in Chained(t) : \A i \in Nat : Place(t, p, i) = off[p] + i + 1
  BY <1>1, QueueLaid DEF QueueOf
<1> HIDE DEF q, off
<1>3. /\ q \in Seq(Record) /\ Len(q) \in Nat
      /\ \A p \in Chained(t) : /\ off[p] \in Nat /\ Size(t, p) \in Nat
                               /\ \A i \in 1 .. Size(t, p) : off[p] + i \in 1 .. Len(q)
      /\ \A p \in Chained(t) : \A i \in 1 .. Size(t, p) : q[off[p] + i] = t.list[p].records[i]
  <2>1. \A p \in Chained(t) : \A i \in 1 .. Size(t, p) : q[off[p] + i] = t.list[p].records[i]
    BY <1>2 DEF Laid
  <2> QED BY <1>1, <1>2, <2>1, LaidParts
<1>4. t.head # NULL_ID => t.head \in Chained(t) /\ Size(t, t.head) # 0 /\ off[t.head] = 0
  BY <1>1, <1>2, ChainSteps DEF HeadFull, Laid
<1>5. t.head = NULL_ID => q = <<>>
  BY <1>2 DEF Laid
<1>6. ASSUME t.head # NULL_ID PROVE q # <<>> /\ Place(t, t.head, 0) = 1
  <2>1. 0 + 1 \in 1 .. Len(q)
    <3>1. 1 \in 1 .. Size(t, t.head)
      BY <1>3, <1>4, <1>6
    <3> QED BY <3>1, <1>3, <1>4, <1>6
  <2>2. Place(t, t.head, 0) = 0 + 0 + 1
    BY <1>2, <1>4, <1>6
  <2> QED BY <2>1, <2>2
<1>7. ASSUME NEW p \in Chained(t), NEW i \in Nat, i < Size(t, p)
      PROVE  /\ Place(t, p, i) \in 1 .. Len(q)
             /\ q[Place(t, p, i)] = t.list[p].records[i + 1]
             /\ i + 1 # Size(t, p) => Place(t, p, i) # Len(q)
             /\ Place(t, p, i + 1) = Place(t, p, i) + 1
  <2>1. off[p] \in Nat /\ Size(t, p) \in Nat /\ i + 1 \in 1 .. Size(t, p) /\ i + 1 \in Nat
    BY <1>3, <1>7
  <2>2. Place(t, p, i) = off[p] + (i + 1) /\ Place(t, p, i + 1) = off[p] + (i + 1) + 1
    BY <1>2, <2>1
  <2>3. off[p] + (i + 1) \in 1 .. Len(q) /\ q[off[p] + (i + 1)] = t.list[p].records[i + 1]
    BY <1>3, <2>1
  <2>4. i + 1 # Size(t, p) => off[p] + (i + 1) # Len(q)
    <3>1. i + 1 # Size(t, p) => off[p] + ((i + 1) + 1) \in 1 .. Len(q)
      <4>1. i + 1 # Size(t, p) => (i + 1) + 1 \in 1 .. Size(t, p)
        BY <2>1
      <4> QED BY <4>1, <1>3
    <3> QED BY <3>1, <2>1, <1>3
  <2> QED BY <2>1, <2>2, <2>3, <2>4
<1> QED BY <1>3, <1>4, <1>5, <1>6, <1>7 DEF q

(* What Insert, Update, Remove and Next do to the queue.                   *)
LEMMA InsertMapped ==
  ASSUME NEW t, PagesOK(t, Record), NEW r \in Record,
         TailFull(t) => CanNew(t), t.tail \in Chained(t) \cup {NULL_ID}
  PROVE  /\ QueueOf(Inserted(t, r)) = Append(QueueOf(t), r)
         /\ \A p \in Chained(t) : \A i \in Nat : Place(Inserted(t, r), p, i) = Place(t, p, i)
PROOF
<1> DEFINE u == Inserted(t, r)
           q == QueueOf(t)
           off == Offsets(t)
<1>1. Loose(t, Record)
  BY DEF PagesOK
<1>2. /\ Laid(t, q, off)
      /\ \A p \in Chained(t) : \A i \in Nat : Place(t, p, i) = off[p] + i + 1
  BY <1>1, QueueLaid DEF QueueOf
<1>3. /\ PagesOK(u, Record) /\ Chained(u) = Chained(t) \cup {InsertPage(t)}
      /\ TailFull(t) => InsertPage(t) \notin Chained(t)
  BY InsertedLine
<1> HIDE DEF q, off
<1>4. PICK at : Laid(u, Append(q, r), at) /\ \A p \in Chained(t) : at[p] = off[p]
  <2>1. CASE ~TailFull(t)
    BY <2>1, <1>2, AddedLaid
  <2>2. CASE TailFull(t)
    <3> DEFINE f == [x \in Chained(u) |-> IF x = InsertPage(t) THEN Len(q) ELSE off[x]]
    <3>1. Laid(u, Append(q, r), f)
      BY <2>2, <1>2, BegunLaid
    <3> HIDE DEF u
    <3>2. \A p \in Chained(t) : f[p] = off[p]
      BY <2>2, <1>3
    <3> HIDE DEF f
    <3> QED BY <3>1, <3>2
  <2> QED BY <2>1, <2>2
<1> HIDE DEF u
<1>5. Loose(u, Record)
  BY <1>3 DEF PagesOK
<1>6. /\ QueueOf(u) = Append(q, r)
      /\ \A p \in Chained(u) : \A i \in Nat : Place(u, p, i) = at[p] + i + 1
  <2> DEFINE e == Append(q, r)
  <2>1. Laid(u, e, at)
    BY <1>4
  <2> HIDE DEF e
  <2>2. QueueOf(u) = e /\ \A p \in Chained(u) : \A i \in Nat : Place(u, p, i) = at[p] + i + 1
    BY <1>5, <2>1, QueueIs
  <2> QED BY <2>2 DEF e
<1>7. \A p \in Chained(t) : \A i \in Nat : Place(u, p, i) = Place(t, p, i)
  BY <1>2, <1>3, <1>4, <1>6
<1> QED BY <1>6, <1>7 DEF u, q

LEMMA UpdateMapped ==
  ASSUME NEW t, PagesOK(t, Record), NEW p \in Chained(t), NEW i \in 1 .. Size(t, p), NEW r \in Record
  PROVE  /\ QueueOf(Updated(t, p, i, r)) = [QueueOf(t) EXCEPT ![Place(t, p, i - 1)] = r]
         /\ \A x \in Chained(t) : \A j \in Nat : Place(Updated(t, p, i, r), x, j) = Place(t, x, j)
PROOF
<1> DEFINE u == Updated(t, p, i, r)
           q == QueueOf(t)
           off == Offsets(t)
<1>1. Loose(t, Record) /\ p \in InUse(t)
  BY SizesOK DEF PagesOK
<1>2. /\ Laid(t, q, off)
      /\ \A x \in Chained(t) : \A j \in Nat : Place(t, x, j) = off[x] + j + 1
  BY <1>1, QueueLaid DEF QueueOf
<1> HIDE DEF q, off
<1>3. Laid(u, [q EXCEPT ![off[p] + i] = r], off)
  BY <1>2, UpdateLaid
<1>4. /\ PagesOK(u, Record) /\ u.head = t.head
      /\ \A x \in PageId : u.list[x].next = t.list[x].next
      /\ \A x \in PageId : u.list[x].records = IF x = p THEN [t.list[p].records EXCEPT ![i] = r]
                                               ELSE t.list[x].records
  BY <1>1, UpdatedOK
<1> HIDE DEF u
<1>5. Loose(u, Record)
  BY <1>4 DEF PagesOK
<1>6. Chained(u) = Chained(t)
  BY <1>1, <1>4, <1>5, SameChain
<1>7. /\ QueueOf(u) = [q EXCEPT ![off[p] + i] = r]
      /\ \A x \in Chained(u) : \A j \in Nat : Place(u, x, j) = off[x] + j + 1
  BY <1>3, <1>5, QueueIs
<1>8. Place(t, p, i - 1) = off[p] + i
  <2>1. off[p] \in Nat /\ i - 1 \in Nat
    BY <1>1, <1>2, LaidParts
  <2>2. Place(t, p, i - 1) = off[p] + (i - 1) + 1
    BY <1>2, <2>1
  <2> QED BY <2>1, <2>2
<1> QED BY <1>2, <1>6, <1>7, <1>8 DEF u, q

LEMMA RemoveMapped ==
  ASSUME NEW t, PagesOK(t, Record), NEW p \in Chained(t), NEW i \in 1 .. Size(t, p)
  PROVE  QueueOf(Removed(t, p, i)) = Seqs!RemoveAt(QueueOf(t), Place(t, p, i - 1))
PROOF
<1> DEFINE q == QueueOf(t)
           off == Offsets(t)
           c == WithRecords(t, p, Seqs!RemoveAt(t.list[p].records, i))
           e == Seqs!RemoveAt(q, off[p] + i)
<1>1. Loose(t, Record) /\ p \in InUse(t)
  BY SizesOK DEF PagesOK
<1>2. /\ Laid(t, q, off)
      /\ \A x \in Chained(t) : \A j \in Nat : Place(t, x, j) = off[x] + j + 1
  BY <1>1, QueueLaid DEF QueueOf
<1> HIDE DEF q, off
<1>3. Loose(c, Record) /\ \E at : Laid(c, e, at)
  BY <1>1, <1>2, TakenLaid
<1>4. Removed(t, p, i) = HeadRead(c) /\ PagesOK(Removed(t, p, i), Record)
  BY <1>1, RemovedOK
<1>8. Place(t, p, i - 1) = off[p] + i
  <2>1. off[p] \in Nat /\ i - 1 \in Nat
    BY <1>1, <1>2, LaidParts
  <2>2. Place(t, p, i - 1) = off[p] + (i - 1) + 1
    BY <1>2, <2>1
  <2> QED BY <2>1, <2>2
<1> HIDE DEF c, e
<1>5. \E at : Laid(HeadRead(c), e, at)
  BY <1>3, HeadLaid
<1>6. Loose(HeadRead(c), Record)
  BY <1>4 DEF PagesOK
<1>7. QueueOf(HeadRead(c)) = e
  BY <1>5, <1>6, QueueIs
<1> QED BY <1>4, <1>7, <1>8 DEF e, q

LEMMA TurnMapped ==
  ASSUME NEW t, PagesOK(t, Record), NEW p \in Chained(t), NEW i \in Nat, i + 1 = Size(t, p)
  PROVE  LET u == Skipped(t, p)
             a == u.list[p].next
         IN /\ QueueOf(u) = QueueOf(t)
            /\ a = NULL_ID => Place(t, p, i) = Len(QueueOf(t))
            /\ a # NULL_ID => Place(t, p, i) # Len(QueueOf(t)) /\ Place(u, a, 0) = Place(t, p, i) + 1
PROOF
<1> DEFINE u == Skipped(t, p)
           a == After(t, p)
           q == QueueOf(t)
           off == Offsets(t)
           D == Chained(u)
           at == [x \in D |-> off[x]]
<1>1. Loose(t, Record)
  BY DEF PagesOK
<1>2. /\ Laid(t, q, off)
      /\ \A x \in Chained(t) : \A j \in Nat : Place(t, x, j) = off[x] + j + 1
  BY <1>1, QueueLaid DEF QueueOf
<1> HIDE DEF q, off
<1>3. /\ Laid(u, q, at)
      /\ a # NULL_ID => a \in D /\ off[a] = off[p] + Size(t, p)
      /\ a = NULL_ID => Len(q) = off[p] + Size(t, p)
  BY <1>1, <1>2, SkippedLaid
<1>4. PagesOK(u, Record) /\ u.list[p].next = a
  BY <1>1, SkippedKept, SkippedChain
<1>5. Loose(u, Record)
  BY <1>4 DEF PagesOK
<1>6. Place(t, p, i) = off[p] + i + 1 /\ off[p] \in Nat /\ Size(t, p) \in Nat
  BY <1>1, <1>2, LaidParts
<1>s. a # NULL_ID => Size(u, a) # 0
  BY <1>1, SkippedKept
<1> HIDE DEF u, a
<1>7. /\ QueueOf(u) = q
      /\ \A x \in Chained(u) : \A j \in Nat : Place(u, x, j) = at[x] + j + 1
  <2> HIDE DEF at
  <2> QED BY <1>3, <1>5, QueueIs
<1>8. ASSUME a # NULL_ID PROVE Place(t, p, i) # Len(q) /\ Place(u, a, 0) = Place(t, p, i) + 1
  <2>1. a \in D /\ at[a] = off[p] + Size(t, p)
    BY <1>3, <1>8
  <2>2. Place(u, a, 0) = at[a] + 0 + 1
    BY <1>7, <2>1
  <2>3. at[a] + Size(u, a) <= Len(q) /\ Size(u, a) \in Nat /\ Size(u, a) # 0
    <3>1. Size(u, a) \in Nat
      <4> HIDE DEF at
      <4> QED BY <2>1, <1>3, <1>5, LaidParts
    <3> QED BY <3>1, <2>1, <1>3, <1>s, <1>8 DEF Laid
  <2> HIDE DEF at
  <2> QED BY <2>1, <2>2, <2>3, <1>6
<1>9. a = NULL_ID => Place(t, p, i) = Len(q)
  BY <1>3, <1>6
<1> QED BY <1>4, <1>7, <1>8, <1>9 DEF u, q

-----------------------------------------------------------------------------
(* The refinement: each call of the table is the same call of the queue.   *)
QueueInv == Inv /\ lost \in BOOLEAN

LEMMA QueueInvariance == Spec => []QueueInv
PROOF
<1>1. Init => QueueInv
  BY InitInv DEF Init, QueueInv
<1>2. QueueInv /\ [Next]_vars => QueueInv'
  <2> SUFFICES ASSUME QueueInv, [Next]_vars PROVE QueueInv'
    OBVIOUS
  <2>1. Inv'
    BY NextInv DEF QueueInv
  <2>2. lost' \in BOOLEAN
    BY DEF QueueInv, Next, vars, Insert, Remove, Update, Empty, OpenIterator, IteratorStep, IteratorTurn
  <2> QED BY <2>1, <2>2 DEF QueueInv
<1> QED BY <1>1, <1>2, PTL DEF Spec

LEMMA QueueSteps ==
  ASSUME QueueInv, [Next]_vars, ~lost'
  PROVE  lost = FALSE /\ lost' = FALSE /\ InPlace(table, it_page, it_record)
PROOF
<1>1. lost \in BOOLEAN /\ lost' \in BOOLEAN
  BY DEF QueueInv, Next, vars, Insert, Remove, Update, Empty, OpenIterator, IteratorStep, IteratorTurn
<1>2. ~lost
  BY DEF Next, vars, Insert, Remove, Update, Empty, OpenIterator, IteratorStep, IteratorTurn
<1> QED BY <1>1, <1>2 DEF QueueInv, Inv

LEMMA InsertIsInsert ==
  ASSUME InPlace(table, it_page, it_record), lost = FALSE, lost' = FALSE, NEW r \in Record, Insert(r)
  PROVE  Queue!Insert(r)
PROOF
<1>1. /\ PagesOK(table, Record) /\ table.tail \in Chained(table) \cup {NULL_ID}
      /\ TailFull(table) => CanNew(table)
  BY DEF InPlace, Insert
<1>2. /\ QueueOf(Inserted(table, r)) = Append(QueueOf(table), r)
      /\ \A p \in Chained(table) : \A i \in Nat : Place(Inserted(table, r), p, i) = Place(table, p, i)
  BY <1>1, InsertMapped
<1>3. it_page # NULL_ID => Place(table', it_page', it_record') = Place(table, it_page, it_record)
  BY <1>2 DEF InPlace, Insert
<1> QED BY <1>2, <1>3 DEF Queue!Insert, Insert, QueueOf

LEMMA UpdateIsUpdate ==
  ASSUME InPlace(table, it_page, it_record), lost = FALSE, lost' = FALSE,
         NEW p, NEW i, NEW r \in Record, Update(p, i, r)
  PROVE  \E j \in DOMAIN QueueOf(table) : Queue!Update(j, r)
PROOF
<1> DEFINE j == Place(table, p, i - 1)
           u == Updated(table, p, i, r)
<1>1. /\ PagesOK(table, Record) /\ p \in Chained(table) /\ i \in 1 .. Size(table, p)
      /\ table' = u /\ it_page' = it_page /\ it_record' = it_record /\ it_open' = it_open
      /\ reply' = table.list[p].records[i]
  BY DEF InPlace, Update
<1>2. /\ QueueOf(u) = [QueueOf(table) EXCEPT ![j] = r]
      /\ \A x \in Chained(table) : \A m \in Nat : Place(u, x, m) = Place(table, x, m)
  BY <1>1, UpdateMapped
<1>3. j \in 1 .. Len(QueueOf(table)) /\ QueueOf(table)[j] = table.list[p].records[i]
  <2>1. i - 1 \in Nat /\ i - 1 < Size(table, p) /\ (i - 1) + 1 = i
    <3>1. Size(table, p) \in Nat
      BY <1>1, SizesOK
    <3> QED BY <1>1, <3>1
  <2> QED BY <1>1, <2>1, PlacesOK
<1>4. DOMAIN QueueOf(table) = 1 .. Len(QueueOf(table))
  <2>1. QueueOf(table) \in Seq(Record)
    BY <1>1, PlacesOK
  <2> QED BY <2>1
<1> HIDE DEF j, u
<1>5. it_page # NULL_ID => Place(table', it_page', it_record') = Place(table, it_page, it_record)
  BY <1>1, <1>2 DEF InPlace
<1>6. Queue!Update(j, r)
  BY <1>1, <1>2, <1>3, <1>5 DEF Queue!Update, QueueOf
<1> QED BY <1>3, <1>4, <1>6

LEMMA RemoveIsRemove ==
  ASSUME InPlace(table, it_page, it_record), lost = FALSE, lost' = FALSE,
         NEW p, NEW i, Remove(p, i)
  PROVE  \E j \in DOMAIN QueueOf(table) : Queue!Remove(j)
PROOF
<1> DEFINE j == Place(table, p, i - 1)
           u == Removed(table, p, i)
<1>1. /\ PagesOK(table, Record) /\ p \in Chained(table) /\ i \in 1 .. Size(table, p)
      /\ table' = u /\ it_page' = NULL_ID /\ it_open' = FALSE
      /\ reply' = table.list[p].records[i]
  BY DEF InPlace, Remove
<1>2. QueueOf(u) = Seqs!RemoveAt(QueueOf(table), j)
  BY <1>1, RemoveMapped
<1>3. j \in 1 .. Len(QueueOf(table)) /\ QueueOf(table)[j] = table.list[p].records[i]
  <2>1. i - 1 \in Nat /\ i - 1 < Size(table, p) /\ (i - 1) + 1 = i
    <3>1. Size(table, p) \in Nat
      BY <1>1, SizesOK
    <3> QED BY <1>1, <3>1
  <2> QED BY <1>1, <2>1, PlacesOK
<1>4. DOMAIN QueueOf(table) = 1 .. Len(QueueOf(table))
  <2>1. QueueOf(table) \in Seq(Record)
    BY <1>1, PlacesOK
  <2> QED BY <2>1
<1> HIDE DEF j, u
<1>6. Queue!Remove(j)
  BY <1>1, <1>2, <1>3 DEF Queue!Remove, QueueOf, Queue!Seqs!RemoveAt, Seqs!RemoveAt
<1> QED BY <1>3, <1>4, <1>6

LEMMA EmptyIsEmpty ==
  ASSUME InPlace(table, it_page, it_record), lost = FALSE, lost' = FALSE, Empty
  PROVE  Queue!Empty
PROOF
<1>1. PagesOK(table, Record) /\ table' = table
  BY HeadStays DEF InPlace, Empty
<1>2. table.head = NULL_ID <=> QueueOf(table) = <<>>
  BY <1>1, PlacesOK
<1>3. UNCHANGED <<it_page, it_record, it_open, lost>> /\ reply' = (table.head = NULL_ID)
  BY <1>1 DEF Empty
<1>4. reply' = (QueueOf(table) = <<>>)
  BY <1>2, <1>3
<1> QED BY <1>1, <1>3, <1>4 DEF Queue!Empty, QueueOf

LEMMA OpenIsOpen ==
  ASSUME InPlace(table, it_page, it_record), lost = FALSE, lost' = FALSE, OpenIterator
  PROVE  Queue!Open
PROOF
<1>1. PagesOK(table, Record) /\ table' = table
  BY HeadStays DEF InPlace, OpenIterator
<1>2. /\ it_page' = table.head /\ it_record' = 0 /\ it_open' = TRUE /\ reply' = Nothing
      /\ table.head = NULL_ID <=> QueueOf(table) = <<>>
      /\ table.head # NULL_ID => Place(table, table.head, 0) = 1
  BY <1>1, PlacesOK DEF OpenIterator
<1> QED BY <1>1, <1>2 DEF Queue!Open, QueueOf

LEMMA StepIsStep ==
  ASSUME InPlace(table, it_page, it_record), lost = FALSE, lost' = FALSE, IteratorStep \/ IteratorTurn
  PROVE  Queue!Step
PROOF
<1> DEFINE q == QueueOf(table)
           k == Place(table, it_page, it_record)
<1>1. /\ PagesOK(table, Record) /\ it_page \in Chained(table) /\ it_record \in Nat
      /\ it_record < Size(table, it_page) /\ it_page # NULL_ID /\ it_open /\ it_open' = it_open
      /\ reply' = table.list[it_page].records[it_record + 1]
  BY DEF InPlace, IteratorStep, IteratorTurn
<1>2. /\ k \in 1 .. Len(q) /\ q[k] = table.list[it_page].records[it_record + 1]
      /\ it_record + 1 # Size(table, it_page) => k # Len(q)
      /\ Place(table, it_page, it_record + 1) = k + 1
  BY <1>1, PlacesOK
<1> HIDE DEF q, k
<1>3. CASE IteratorStep
  <2>1. table' = table /\ it_page' = it_page /\ it_record' = it_record + 1 /\ k # Len(q)
    BY <1>2, <1>3 DEF IteratorStep
  <2>2. Place(table', it_page', it_record') = k + 1
    BY <1>2, <2>1
  <2>3. q = QueueOf(table') /\ k # 0
    BY <1>2, <2>1 DEF q
  <2> QED BY <1>1, <1>2, <2>1, <2>2, <2>3 DEF Queue!Step, QueueOf, q, k
<1>4. CASE IteratorTurn
  <2> DEFINE u == Skipped(table, it_page)
             a == u.list[it_page].next
  <2>1. it_record + 1 = Size(table, it_page) /\ table' = u /\ it_page' = a /\ it_record' = 0
    BY <1>4 DEF IteratorTurn
  <2>2. /\ QueueOf(u) = q
        /\ a = NULL_ID => k = Len(q)
        /\ a # NULL_ID => k # Len(q) /\ Place(u, a, 0) = k + 1
    BY <1>1, <2>1, TurnMapped DEF q, k
  <2> HIDE DEF u, a
  <2>3. q = QueueOf(table') /\ k # 0
    BY <1>2, <2>1, <2>2
  <2> QED BY <1>1, <1>2, <2>1, <2>2, <2>3 DEF Queue!Step, QueueOf, q, k
<1> QED BY <1>3, <1>4

(* The table is the queue of records, with the iterator, that              *)
(* RecordQueue.tla promises: every call gives the answer the queue gives,  *)
(* as long as no record goes to a page that has left the chain             *)
(* (Table.h, QueueRecordTable.h:103-178).                                  *)
THEOREM QueueImplemented == Spec => RefinesRecordQueue
PROOF
<1>1. Init => Queue!Init
  <2> SUFFICES ASSUME Init PROVE Queue!Init
    OBVIOUS
  <2>1. PagesOK(table, Record) /\ table.head = NULL_ID
    BY NewTableOK DEF Init, NewTable
  <2>2. QueueOf(table) = <<>>
    BY <2>1, PlacesOK
  <2> QED BY <2>2 DEF Init, Queue!Init, QueueOf
<1>2. QueueInv /\ [Next]_vars => [Queue!Next]_Queue!vars
  <2> SUFFICES ASSUME QueueInv, [Next]_vars PROVE [Queue!Next]_Queue!vars
    OBVIOUS
  <2>1. CASE lost'
    BY <2>1 DEF Queue!Next
  <2>2. CASE ~lost' /\ Next
    <3>1. lost = FALSE /\ lost' = FALSE /\ InPlace(table, it_page, it_record)
      BY <2>2, QueueSteps
    <3>2. ASSUME NEW r \in Record, Insert(r) PROVE Queue!Next
      BY <3>1, <3>2, InsertIsInsert DEF Queue!Next
    <3>3. ASSUME NEW p \in PageId, NEW i \in 1 .. MAX_RECORDS, NEW r \in Record, Update(p, i, r)
          PROVE  Queue!Next
      BY <3>1, <3>3, UpdateIsUpdate DEF Queue!Next, QueueOf
    <3>4. ASSUME NEW p \in PageId, NEW i \in 1 .. MAX_RECORDS, Remove(p, i) PROVE Queue!Next
      BY <3>1, <3>4, RemoveIsRemove DEF Queue!Next, QueueOf
    <3>5. CASE Empty
      BY <3>1, <3>5, EmptyIsEmpty DEF Queue!Next
    <3>6. CASE OpenIterator
      BY <3>1, <3>6, OpenIsOpen DEF Queue!Next
    <3>7. CASE IteratorStep \/ IteratorTurn
      BY <3>1, <3>7, StepIsStep DEF Queue!Next
    <3> QED BY <2>2, <3>2, <3>3, <3>4, <3>5, <3>6, <3>7 DEF Next
  <2>3. CASE UNCHANGED vars
    BY <2>3 DEF vars, Queue!vars
  <2> QED BY <2>1, <2>2, <2>3
<1> QED BY <1>1, <1>2, QueueInvariance, PTL DEF Spec, RefinesRecordQueue, Queue!Spec
==============================================================================
