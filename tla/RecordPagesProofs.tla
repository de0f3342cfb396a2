--------------------------- MODULE RecordPagesProofs ---------------------------
(***************************************************************************)
(* What the operations of RecordPages do to the pages of a table, for any  *)
(* number of pages, any number of records to a page and any records.       *)
(***************************************************************************)
EXTENDS RecordPages, Iteration, FiniteSetTheorems

Links == PageId \cup {NULL_ID}

(* A table whose records are members of R. *)
TableType(R) ==
  [head : Links, tail : Links, list : [PageId -> [next : Links, records : Seq(R)]],
   e_s : Seq(PageId), size : 0 .. PAGES]

(* The pages of U link to pages of U that rank higher: no chain of links   *)
(* comes back to a page it has passed.                                     *)
Closed(t, U) == \A p \in U : t.list[p].next \in U \cup {NULL_ID}
Ranked(t, U, rank) ==
  /\ rank \in [PageId -> Nat]
  /\ \A p \in U : t.list[p].next # NULL_ID => rank[p] < rank[t.list[p].next]

-----------------------------------------------------------------------------
(* Linked(t, p) starts at p and follows next. *)
LEMMA LinkedSteps ==
  ASSUME NEW t, \A q \in PageId : t.list[q].next \in Links, NEW p \in Links
  PROVE  /\ Linked(t, p) \in [0 .. PAGES -> Links]
         /\ Linked(t, p)[0] = p
         /\ \A m \in 1 .. PAGES :
              Linked(t, p)[m] = IF Linked(t, p)[m - 1] = NULL_ID THEN NULL_ID
                                ELSE t.list[Linked(t, p)[m - 1]].next
PROOF
<1> DEFINE next == [q \in PageId \cup {NULL_ID} |-> IF q = NULL_ID THEN q ELSE t.list[q].next]
           G == [m \in 1 .. PAGES |-> next]
           page[n \in 0 .. PAGES] == IF n = 0 THEN p ELSE next[page[n - 1]]
<1>n. PAGES \in Nat \ {0} BY TableAssumption
<1>1. next \in [Links -> Links]
  BY DEF Links
<1>2. \A x \in Links : next[x] = IF x = NULL_ID THEN NULL_ID ELSE t.list[x].next
  BY DEF Links
<1> HIDE DEF next
<1>3. G \in [1 .. PAGES -> [Links -> Links]] /\ \A m \in 1 .. PAGES : G[m] = next
  BY <1>1
<1> HIDE DEF G
<1>4. PICK f \in [0 .. PAGES -> Links] : f[0] = p /\ \A m \in 1 .. PAGES : f[m] = G[m][f[m - 1]]
  <2>1. Iterations(Links, PAGES, G, p) # {}
    BY <1>n, <1>3, Iterated
  <2> QED BY <2>1 DEF Iterations
<1>5. \A n \in 0 .. PAGES : n # 0 => n \in 1 .. PAGES
  BY <1>n
<1>6. \A m \in 1 .. PAGES : f[m] = next[f[m - 1]]
  BY <1>3, <1>4
<1>7. f = [n \in 0 .. PAGES |-> IF n = 0 THEN p ELSE next[f[n - 1]]]
  BY <1>4, <1>5, <1>6
<1>8. page = CHOOSE g : g = [n \in 0 .. PAGES |-> IF n = 0 THEN p ELSE next[g[n - 1]]]
  OBVIOUS
<1>9. Linked(t, p) = page
  BY DEF Linked, next
<1> HIDE DEF page
<1>10. page = [n \in 0 .. PAGES |-> IF n = 0 THEN p ELSE next[page[n - 1]]]
  BY <1>7, <1>8
<1>11. page[0] = p /\ \A m \in 1 .. PAGES : page[m] = next[page[m - 1]]
  <2>1. 0 \in 0 .. PAGES /\ \A m \in 1 .. PAGES : m \in 0 .. PAGES /\ m # 0
    BY <1>n
  <2> QED BY <2>1, <1>10
<1>12. \A n \in 0 .. PAGES : page[n] \in Links
  <2> DEFINE T == {n \in 0 .. PAGES : page[n] \in Links}
  <2>1. 0 \in T
    BY <1>n, <1>11
  <2>2. ASSUME NEW n \in 0 .. PAGES - 1, n \in T PROVE n + 1 \in T
    <3>1. n + 1 \in 1 .. PAGES /\ n + 1 \in 0 .. PAGES /\ n + 1 - 1 = n
      BY <1>n
    <3>2. page[n + 1] = next[page[n]]
      BY <3>1, <1>11
    <3> QED BY <3>1, <3>2, <2>2, <1>1
  <2> HIDE DEF T
  <2>3. \A n \in 0 .. PAGES : n \in T
    BY <1>n, <2>1, <2>2, UpTo
  <2> QED BY <2>3 DEF T
<1>13. page \in [0 .. PAGES -> Links]
  <2>1. page = [n \in 0 .. PAGES |-> page[n]]
    BY <1>10
  <2> QED BY <2>1, <1>12
<1>14. \A m \in 1 .. PAGES : page[m - 1] \in Links
  BY <1>5, <1>12, <1>n
<1> QED BY <1>2, <1>9, <1>11, <1>13, <1>14


(* A table whose pages in U link to each other without a ring. *)
Acyclic(t, U, rank) ==
  /\ \A q \in PageId : t.list[q].next \in Links
  /\ U \subseteq PageId /\ Closed(t, U) /\ Ranked(t, U, rank)

(* The chain that starts in U stays in U, rises in rank, and comes to an   *)
(* end before it has taken PAGES steps.                                    *)
LEMMA ChainRises ==
  ASSUME NEW t, NEW U, NEW rank, Acyclic(t, U, rank), NEW p \in U
  PROVE  /\ \A n \in 0 .. PAGES : Linked(t, p)[n] \in U \cup {NULL_ID}
         /\ \A n \in 0 .. PAGES, m \in 0 .. PAGES :
              m < n /\ Linked(t, p)[n] # NULL_ID
                => Linked(t, p)[m] # NULL_ID /\ rank[Linked(t, p)[m]] < rank[Linked(t, p)[n]]
         /\ Linked(t, p)[PAGES] = NULL_ID
PROOF
<1> DEFINE page == Linked(t, p)
<1>n. PAGES \in Nat \ {0} /\ 0 \in 0 .. PAGES
  BY TableAssumption
<1>0. /\ p \in PageId /\ U \subseteq PageId /\ p \in Links
      /\ \A q \in PageId : q # NULL_ID /\ rank[q] \in Nat
      /\ \A q \in U : t.list[q].next \in U \cup {NULL_ID}
      /\ \A q \in U : t.list[q].next # NULL_ID => rank[q] < rank[t.list[q].next]
      /\ \A q \in PageId : t.list[q].next \in Links
  BY <1>n DEF Acyclic, Closed, Ranked, PageId, NULL_ID, Links
<1>1. /\ page[0] = p
      /\ \A m \in 1 .. PAGES : page[m] = IF page[m - 1] = NULL_ID THEN NULL_ID
                                         ELSE t.list[page[m - 1]].next
  BY <1>0, LinkedSteps
<1> HIDE DEF page
<1>2. ASSUME NEW n \in 0 .. PAGES - 1
      PROVE  /\ n \in 0 .. PAGES /\ n + 1 \in 0 .. PAGES
             /\ page[n + 1] = IF page[n] = NULL_ID THEN NULL_ID ELSE t.list[page[n]].next
  <2>1. n + 1 \in 1 .. PAGES /\ n + 1 - 1 = n /\ n \in 0 .. PAGES /\ n + 1 \in 0 .. PAGES
    BY <1>n
  <2> QED BY <2>1, <1>1
<1>3. \A n \in 0 .. PAGES : page[n] \in U \cup {NULL_ID}
  <2> DEFINE T == {n \in 0 .. PAGES : page[n] \in U \cup {NULL_ID}}
  <2>1. 0 \in T
    BY <1>n, <1>1
  <2>2. ASSUME NEW n \in 0 .. PAGES - 1, n \in T PROVE n + 1 \in T
    BY <1>0, <1>2, <2>2
  <2> HIDE DEF T
  <2>3. \A n \in 0 .. PAGES : n \in T
    BY <1>n, <2>1, <2>2, UpTo
  <2> QED BY <2>3 DEF T
<1>4. \A n \in 0 .. PAGES, m \in 0 .. PAGES :
        m < n /\ page[n] # NULL_ID => page[m] # NULL_ID /\ rank[page[m]] < rank[page[n]]
  <2> DEFINE T == {n \in 0 .. PAGES : \A m \in 0 .. PAGES :
                     m < n /\ page[n] # NULL_ID
                       => page[m] # NULL_ID /\ rank[page[m]] < rank[page[n]]}
  <2>1. 0 \in T
    BY <1>n
  <2>2. ASSUME NEW n \in 0 .. PAGES - 1, n \in T PROVE n + 1 \in T
    <3> SUFFICES ASSUME NEW m \in 0 .. PAGES, m < n + 1, page[n + 1] # NULL_ID
                 PROVE  page[m] # NULL_ID /\ rank[page[m]] < rank[page[n + 1]]
      BY <1>2
    <3>1. page[n] # NULL_ID /\ page[n] \in U /\ rank[page[n]] < rank[page[n + 1]]
      BY <1>0, <1>2, <1>3
    <3>2. page[n + 1] \in PageId /\ rank[page[n]] \in Nat /\ rank[page[n + 1]] \in Nat
      BY <1>0, <1>2, <1>3, <3>1
    <3>3. CASE m = n
      BY <3>1, <3>3
    <3>4. CASE m # n
      <4>1. m < n
        BY <3>4, <1>n
      <4>2. page[m] # NULL_ID /\ rank[page[m]] < rank[page[n]]
        BY <2>2, <3>1, <4>1
      <4>3. page[m] \in PageId /\ rank[page[m]] \in Nat
        BY <1>0, <1>3, <4>2
      <4> QED BY <3>1, <3>2, <4>2, <4>3
    <3> QED BY <3>3, <3>4
  <2> HIDE DEF T
  <2>3. \A n \in 0 .. PAGES : n \in T
    BY <1>n, <2>1, <2>2, UpTo
  <2> QED BY <2>3 DEF T
<1>5. page[PAGES] = NULL_ID
  <2> SUFFICES ASSUME page[PAGES] # NULL_ID PROVE FALSE
    OBVIOUS
  <2>1. \A n \in 0 .. PAGES : page[n] \in PageId
    BY <1>0, <1>3, <1>4, <1>n
  <2>2. \A m, n \in 0 .. PAGES : m < n => page[m] # page[n]
    BY <1>0, <1>4, <2>1
  <2>3. \A m, n \in 0 .. PAGES : page[m] = page[n] => m = n
    BY <2>2, <1>n
  <2> DEFINE f == [n \in 0 .. PAGES |-> page[n]]
  <2>4. f \in Injection(0 .. PAGES, PageId)
    BY <2>1, <2>3 DEF Injection, IsInjective
  <2>5. IsFiniteSet(0 .. PAGES) /\ Cardinality(0 .. PAGES) = PAGES + 1
    BY <1>n, FS_Interval
  <2>6. IsFiniteSet(PageId) /\ Cardinality(PageId) = PAGES
    <3>1. PAGES - 1 \in Int /\ ~(0 > PAGES - 1) /\ PAGES - 1 - 0 + 1 = PAGES
      BY <1>n
    <3> QED BY <3>1, FS_Interval DEF PageId
  <2> HIDE DEF f
  <2>7. Cardinality(0 .. PAGES) <= Cardinality(PageId)
    BY <2>4, <2>6, FS_Injection
  <2> QED BY <1>n, <2>5, <2>6, <2>7
<1> QED BY <1>3, <1>4, <1>5 DEF page

(* The pages that Next() of p gives back, and the one it comes to.         *)
Gone(t, p)  == {Linked(t, p)[n] : n \in 1 .. Stop(t, p) - 1}
After(t, p) == Linked(t, p)[Stop(t, p)]

(* Next() of p comes to a page with records or to the end; the pages it    *)
(* passes are different ones without records, each linked to by the one    *)
(* before it.                                                              *)
LEMMA StopReached ==
  ASSUME NEW t, NEW U, NEW rank, Acyclic(t, U, rank), NEW p \in U
  PROVE  LET page == Linked(t, p)
         IN /\ Stop(t, p) \in 1 .. PAGES
            /\ \A n \in 0 .. Stop(t, p) - 1 :
                 /\ page[n] \in U /\ t.list[page[n]].next = page[n + 1]
                 /\ n # 0 => Size(t, page[n]) = 0 /\ rank[p] < rank[page[n]]
                 /\ After(t, p) # NULL_ID => rank[page[n]] < rank[After(t, p)]
            /\ \A m, n \in 0 .. Stop(t, p) - 1 : page[m] = page[n] => m = n
            /\ After(t, p) \in U \cup {NULL_ID}
            /\ After(t, p) # NULL_ID => Size(t, After(t, p)) # 0
            /\ page[0] = p
PROOF
<1> DEFINE page == Linked(t, p)
           Stops(n) == page[n] = NULL_ID \/ Size(t, page[n]) # 0
           e == Stop(t, p)
<1>n. PAGES \in Nat \ {0}
  BY TableAssumption
<1>0. /\ p \in PageId /\ U \subseteq PageId /\ p \in Links
      /\ \A q \in PageId : q # NULL_ID /\ rank[q] \in Nat
      /\ \A q \in PageId : t.list[q].next \in Links
  BY <1>n DEF Acyclic, Ranked, PageId, NULL_ID, Links
<1>1. /\ page[0] = p
      /\ \A m \in 1 .. PAGES : page[m] = IF page[m - 1] = NULL_ID THEN NULL_ID
                                         ELSE t.list[page[m - 1]].next
  BY <1>0, LinkedSteps
<1>2. /\ \A n \in 0 .. PAGES : page[n] \in U \cup {NULL_ID}
      /\ \A n \in 0 .. PAGES, m \in 0 .. PAGES :
           m < n /\ page[n] # NULL_ID => page[m] # NULL_ID /\ rank[page[m]] < rank[page[n]]
      /\ page[PAGES] = NULL_ID
  BY ChainRises
<1>3. e = CHOOSE n \in 1 .. PAGES : Stops(n) /\ \A i \in 1 .. n - 1 : ~Stops(i)
  BY DEF Stop
<1> HIDE DEF page
<1> DEFINE S == {n \in 1 .. PAGES : Stops(n)}
<1>4. S \subseteq Nat /\ PAGES \in S
  BY <1>n, <1>2
<1>5. PICK x \in S : \A y \in S : x <= y
  BY <1>4, LeastNat
<1>6. x \in 1 .. PAGES /\ Stops(x) /\ \A i \in 1 .. x - 1 : ~Stops(i)
  <2>1. x \in 1 .. PAGES
    OBVIOUS
  <2>2. \A i \in 1 .. x - 1 : i \in 1 .. PAGES /\ ~(x <= i)
    BY <1>n, <2>1
  <2> QED BY <2>2, <1>5
<1> HIDE DEF Stops, e, S
<1>7. e \in 1 .. PAGES /\ Stops(e) /\ \A i \in 1 .. e - 1 : ~Stops(i)
  BY <1>3, <1>6
<1>8. \A n \in 0 .. e - 1 : n \in 0 .. PAGES /\ n + 1 \in 1 .. PAGES /\ n + 1 - 1 = n
  BY <1>n, <1>7
<1>9. \A n \in 0 .. e - 1 : page[n] # NULL_ID /\ (n # 0 => Size(t, page[n]) = 0)
  <2>1. \A n \in 0 .. e - 1 : n # 0 => n \in 1 .. e - 1
    BY <1>7
  <2> QED BY <2>1, <1>0, <1>1, <1>7 DEF Stops
<1>10. After(t, p) = page[e] /\ e \in 0 .. PAGES
  BY <1>7 DEF After, page, e
<1>11. ASSUME NEW n \in 0 .. e - 1
       PROVE  /\ page[n] \in U /\ t.list[page[n]].next = page[n + 1]
              /\ n # 0 => Size(t, page[n]) = 0 /\ rank[p] < rank[page[n]]
              /\ After(t, p) # NULL_ID => rank[page[n]] < rank[After(t, p)]
  <2>1. page[n] \in U /\ t.list[page[n]].next = page[n + 1]
    BY <1>1, <1>2, <1>8, <1>9
  <2>2. n # 0 => 0 < n /\ 0 \in 0 .. PAGES
    BY <1>n, <1>8
  <2>3. n # 0 => Size(t, page[n]) = 0 /\ rank[p] < rank[page[n]]
    BY <1>1, <1>2, <1>8, <1>9, <2>2
  <2>4. n < e
    BY <1>7
  <2> QED BY <1>2, <1>8, <1>10, <2>1, <2>3, <2>4
<1>12. \A m, n \in 0 .. e - 1 : page[m] = page[n] => m = n
  <2>1. \A m, n \in 0 .. e - 1 : m < n => page[m] # page[n]
    <3> TAKE m, n \in 0 .. e - 1
    <3>1. m < n => rank[page[m]] < rank[page[n]]
      BY <1>2, <1>8, <1>9
    <3>2. rank[page[m]] \in Nat
      BY <1>0, <1>11
    <3> QED BY <3>1, <3>2
  <2>2. \A m, n \in 0 .. e - 1 : m < n \/ n < m \/ m = n
    BY <1>7
  <2> QED BY <2>1, <2>2
<1>13. After(t, p) \in U \cup {NULL_ID} /\ (After(t, p) # NULL_ID => Size(t, After(t, p)) # 0)
  BY <1>2, <1>7, <1>10 DEF Stops
<1> QED BY <1>1, <1>7, <1>11, <1>12, <1>13 DEF page, e


-----------------------------------------------------------------------------
(* A sequence of different pages followed by others is one too. *)
LEMMA Joined ==
  ASSUME NEW X, NEW s \in Seq(X), NEW r \in Seq(X),
         Seqs!IsInjective(s), Seqs!IsInjective(r),
         Seqs!ToSet(s) \cap Seqs!ToSet(r) = {}
  PROVE  /\ s \o r \in Seq(X) /\ Seqs!IsInjective(s \o r)
         /\ Seqs!ToSet(s \o r) = Seqs!ToSet(s) \cup Seqs!ToSet(r)
PROOF
<1> DEFINE m == Len(s)
           n == Len(r)
           c == s \o r
<1>1. m \in Nat /\ n \in Nat /\ DOMAIN s = 1 .. m /\ DOMAIN r = 1 .. n
  OBVIOUS
<1>2. /\ c \in Seq(X) /\ DOMAIN c = 1 .. m + n
      /\ \A i \in 1 .. m + n : c[i] = IF i <= m THEN s[i] ELSE r[i - m]
  OBVIOUS
<1>3. /\ \A i \in 1 .. m : i \in 1 .. m + n /\ c[i] = s[i]
      /\ \A i \in 1 .. n : m + i \in 1 .. m + n /\ c[m + i] = r[i]
      /\ \A i \in 1 .. m + n : i \in 1 .. m \/ (i - m \in 1 .. n /\ c[i] = r[i - m])
  BY <1>1, <1>2
<1> HIDE DEF c, m, n
<1>4. Seqs!ToSet(c) = Seqs!ToSet(s) \cup Seqs!ToSet(r)
  <2>1. ASSUME NEW x \in Seqs!ToSet(c) PROVE x \in Seqs!ToSet(s) \cup Seqs!ToSet(r)
    <3>1. PICK i \in 1 .. m + n : x = c[i]
      BY <1>2 DEF Seqs!ToSet
    <3> QED BY <3>1, <1>1, <1>3 DEF Seqs!ToSet
  <2>2. ASSUME NEW x \in Seqs!ToSet(s) PROVE x \in Seqs!ToSet(c)
    BY <1>1, <1>2, <1>3 DEF Seqs!ToSet
  <2>3. ASSUME NEW x \in Seqs!ToSet(r) PROVE x \in Seqs!ToSet(c)
    <3>1. PICK i \in 1 .. n : x = r[i]
      BY <1>1 DEF Seqs!ToSet
    <3> QED BY <3>1, <1>2, <1>3 DEF Seqs!ToSet
  <2> QED BY <2>1, <2>2, <2>3
<1>5. Seqs!IsInjective(c)
  <2> SUFFICES ASSUME NEW i \in 1 .. m + n, NEW j \in 1 .. m + n, c[i] = c[j] PROVE i = j
    BY <1>2 DEF Seqs!IsInjective
  <2>1. \A a \in 1 .. m, b \in 1 .. n : s[a] # r[b]
    BY <1>1 DEF Seqs!ToSet
  <2>2. CASE i \in 1 .. m /\ j \in 1 .. m
    BY <2>2, <1>1, <1>3 DEF Seqs!IsInjective
  <2>3. CASE i - m \in 1 .. n /\ c[i] = r[i - m] /\ j - m \in 1 .. n /\ c[j] = r[j - m]
    <3>1. i - m = j - m
      BY <2>3, <1>1 DEF Seqs!IsInjective
    <3> QED BY <3>1, <1>1
  <2> QED BY <2>1, <2>2, <2>3, <1>3
<1> QED BY <1>2, <1>4, <1>5 DEF c

(* A sequence reversed has the same members, each once if they were. *)
LEMMA Turned ==
  ASSUME NEW X, NEW s \in Seq(X), Seqs!IsInjective(s)
  PROVE  /\ Seqs!Reverse(s) \in Seq(X) /\ Seqs!IsInjective(Seqs!Reverse(s))
         /\ Seqs!ToSet(Seqs!Reverse(s)) = Seqs!ToSet(s)
PROOF
<1> DEFINE n == Len(s)
           r == Seqs!Reverse(s)
<1>1. n \in Nat /\ DOMAIN s = 1 .. n
  OBVIOUS
<1>2. r = [i \in 1 .. n |-> s[(n - i) + 1]]
  BY DEF Seqs!Reverse
<1>3. \A i \in 1 .. n : (n - i) + 1 \in 1 .. n /\ (n - ((n - i) + 1)) + 1 = i
  BY <1>1
<1>4. r \in Seq(X) /\ DOMAIN r = 1 .. n /\ \A i \in 1 .. n : r[i] = s[(n - i) + 1]
  <2>1. \A i \in 1 .. n : s[(n - i) + 1] \in X
    BY <1>3
  <2> QED BY <1>1, <1>2, <2>1
<1> HIDE DEF r, n
<1>5. \A i \in 1 .. n : s[i] = r[(n - i) + 1]
  BY <1>3, <1>4
<1>6. Seqs!ToSet(r) = Seqs!ToSet(s)
  BY <1>1, <1>3, <1>4, <1>5 DEF Seqs!ToSet
<1>7. Seqs!IsInjective(r)
  <2> SUFFICES ASSUME NEW i \in 1 .. n, NEW j \in 1 .. n, r[i] = r[j] PROVE i = j
    BY <1>4 DEF Seqs!IsInjective
  <2>1. (n - i) + 1 = (n - j) + 1
    BY <1>1, <1>3, <1>4 DEF Seqs!IsInjective
  <2> QED BY <2>1, <1>1
<1> QED BY <1>4, <1>6, <1>7 DEF r

-----------------------------------------------------------------------------
(* What the pages of a table satisfy but for the moment when the head has  *)
(* been emptied: a page given back, or never asked for, has no records;    *)
(* the pages in use link to pages in use, no two of them to the same one,  *)
(* and in no ring; the head is in use, nothing follows the tail while that *)
(* is in use, and a table with a first page has a last one.                *)
Loose(t, R) ==
  LET U == InUse(t)
  IN /\ t \in TableType(R)
     /\ \A p \in PageId : Size(t, p) <= MAX_RECORDS
     /\ t.e_s \in Seq(0 .. t.size - 1) /\ Seqs!IsInjective(t.e_s)
     /\ \A p \in PageId \ U : t.list[p].records = <<>>
     /\ Closed(t, U)
     /\ \A p, q \in U : t.list[p].next = t.list[q].next /\ t.list[p].next # NULL_ID => p = q
     /\ \E rank : Ranked(t, U, rank)
     /\ t.head \in U \cup {NULL_ID}
     /\ t.tail \in (0 .. t.size - 1) \cup {NULL_ID}
     /\ t.tail \in U => t.list[t.tail].next = NULL_ID
     /\ t.tail = NULL_ID => t.head = NULL_ID

HeadFull(t) == t.head # NULL_ID => Size(t, t.head) # 0

PagesOK(t, R) == Loose(t, R) /\ HeadFull(t)

(* The parts of a table that the proofs take up one by one. *)
LEMMA LooseParts ==
  ASSUME NEW R, NEW t, Loose(t, R)
  PROVE  /\ InUse(t) \subseteq PageId /\ InUse(t) \subseteq 0 .. t.size - 1
         /\ 0 .. t.size - 1 \subseteq PageId /\ t.size \in 0 .. PAGES
         /\ \A q \in PageId : t.list[q].next \in Links /\ t.list[q].records \in Seq(R) /\ q # NULL_ID
         /\ \E rank : Acyclic(t, InUse(t), rank)
PROOF
<1>n. PAGES \in Nat \ {0} BY TableAssumption
<1>1. t \in TableType(R)
  BY DEF Loose
<1>2. t.size \in 0 .. PAGES /\ t.list \in [PageId -> [next : Links, records : Seq(R)]]
  BY <1>1 DEF TableType
<1>3. 0 .. t.size - 1 \subseteq PageId
  BY <1>2, <1>n DEF PageId
<1>4. InUse(t) \subseteq 0 .. t.size - 1
  BY DEF InUse
<1>5. \A q \in PageId : t.list[q].next \in Links /\ t.list[q].records \in Seq(R) /\ q # NULL_ID
  BY <1>2, <1>n DEF PageId, NULL_ID
<1> QED BY <1>2, <1>3, <1>4, <1>5 DEF Loose, Acyclic


(* Next() of a page p in use gives back the empty pages after p, each for  *)
(* the first time, and links p to the page after them; no record is        *)
(* touched (list_page.h:44-57).                                            *)
LEMMA SkippedOK ==
  ASSUME NEW R, NEW t, Loose(t, R), NEW p \in InUse(t), t.head \notin Gone(t, p)
  PROVE  LET u == Skipped(t, p)
         IN /\ Loose(u, R)
            /\ InUse(u) = InUse(t) \ Gone(t, p)
            /\ Gone(t, p) \subseteq InUse(t) \ {p}
            /\ \A q \in Gone(t, p) : Size(t, q) = 0
            /\ u.head = t.head /\ u.tail = t.tail /\ u.size = t.size
            /\ \A q \in PageId : u.list[q].records = t.list[q].records
            /\ \A q \in PageId \ ({p} \cup Gone(t, p)) : u.list[q].next = t.list[q].next
            /\ u.list[p].next = After(t, p)
            /\ After(t, p) \in InUse(u) \cup {NULL_ID}
            /\ After(t, p) # NULL_ID => Size(u, After(t, p)) # 0
PROOF
<1> DEFINE U == InUse(t)
           e == Stop(t, p)
           page == Linked(t, p)
           es == Emptied(t, p)
           G == Gone(t, p)
           a == After(t, p)
           u == Skipped(t, p)
<1>n. PAGES \in Nat \ {0} BY TableAssumption
<1>0. /\ U \subseteq PageId /\ U \subseteq 0 .. t.size - 1 /\ 0 .. t.size - 1 \subseteq PageId
      /\ t.size \in 0 .. PAGES
      /\ \A q \in PageId : /\ t.list[q].next \in Links /\ t.list[q].records \in Seq(R)
                           /\ q # NULL_ID
      /\ p \in U
  BY LooseParts
<1>1. PICK rank : Acyclic(t, U, rank)
  BY LooseParts
<1>2. /\ e \in 1 .. PAGES
      /\ \A n \in 0 .. e - 1 :
           /\ page[n] \in U /\ t.list[page[n]].next = page[n + 1]
           /\ n # 0 => Size(t, page[n]) = 0 /\ rank[p] < rank[page[n]]
           /\ a # NULL_ID => rank[page[n]] < rank[a]
      /\ \A m, n \in 0 .. e - 1 : page[m] = page[n] => m = n
      /\ a \in U \cup {NULL_ID}
      /\ a # NULL_ID => Size(t, a) # 0
      /\ page[0] = p
  BY <1>1, StopReached
<1>3. a = page[e] /\ G = {page[n] : n \in 1 .. e - 1}
  BY DEF After, Gone
<1>4. e \in Nat /\ e >= 1 /\ \A n \in 1 .. e - 1 : n \in 0 .. e - 1 /\ n # 0 /\ n - 1 \in 0 .. e - 1
                                                  /\ (n - 1) + 1 = n
  BY <1>2, <1>n
<1>5. /\ es \in Seq(PageId) /\ es \in Seq(0 .. t.size - 1)
      /\ Seqs!IsInjective(es) /\ Seqs!ToSet(es) = G
  <2>1. es = [n \in 1 .. e - 1 |-> page[n]]
    BY DEF Emptied
  <2>2. \A n \in 1 .. e - 1 : page[n] \in U
    BY <1>2, <1>4
  <2>3. DOMAIN es = 1 .. e - 1 /\ e - 1 \in Nat
    BY <1>4, <2>1
  <2>4. \A n \in 1 .. e - 1 : es[n] = page[n]
    BY <2>1
  <2>5. Seqs!IsInjective(es)
    BY <1>2, <1>4, <2>3, <2>4 DEF Seqs!IsInjective
  <2>6. Seqs!ToSet(es) = G
    BY <1>3, <2>3, <2>4 DEF Seqs!ToSet
  <2>7. es \in Seq(PageId) /\ es \in Seq(0 .. t.size - 1)
    BY <1>0, <2>1, <2>2, <2>3
  <2> QED BY <2>5, <2>6, <2>7
<1>6. /\ G \subseteq U \ {p} /\ \A q \in G : Size(t, q) = 0
      /\ a \notin G
  <2>1. ASSUME NEW q \in G PROVE q \in U /\ q # p /\ Size(t, q) = 0 /\ q # a
    <3>1. PICK n \in 1 .. e - 1 : q = page[n]
      BY <1>3
    <3>2. q \in U /\ Size(t, q) = 0 /\ 0 \in 0 .. e - 1
      BY <1>2, <1>4, <3>1
    <3>3. q # p
      BY <1>2, <1>4, <3>1, <3>2
    <3> QED BY <1>0, <1>2, <3>2, <3>3
  <2> QED BY <2>1
<1>7. ASSUME NEW q \in U, t.list[q].next \in G \cup {a}, t.list[q].next # NULL_ID
      PROVE  q \in {p} \cup G
  <2>1. PICK n \in 1 .. e : t.list[q].next = page[n]
    BY <1>3, <1>4, <1>7
  <2>2. n - 1 \in 0 .. e - 1 /\ (n - 1) + 1 = n
    BY <1>4
  <2>3. page[n - 1] \in U /\ t.list[page[n - 1]].next = page[n]
    BY <1>2, <2>2
  <2>4. q = page[n - 1]
    BY <1>7, <2>1, <2>3 DEF Loose
  <2>5. n - 1 = 0 \/ n - 1 \in 1 .. e - 1
    BY <2>2, <1>4
  <2> QED BY <1>2, <1>3, <2>4, <2>5
<1>8. /\ u.head = t.head /\ u.tail = t.tail /\ u.size = t.size
      /\ u.e_s = t.e_s \o Seqs!Reverse(es)
      /\ u.list = [q \in PageId |-> IF q \in {p} \cup G THEN [t.list[q] EXCEPT !.next = a]
                                    ELSE t.list[q]]
      /\ u \in [head : {t.head}, tail : {t.tail}, list : {u.list}, e_s : {u.e_s}, size : {t.size}]
  <2>1. t \in TableType(R)
    BY DEF Loose
  <2>2. u = [t EXCEPT !.list = [q \in PageId |-> IF q \in {p} \cup G THEN [t.list[q] EXCEPT !.next = a]
                                                 ELSE t.list[q]],
                      !.e_s = t.e_s \o Seqs!Reverse(es)]
    BY <1>5 DEF Skipped, After
  <2> HIDE DEF u, G, a, es
  <2> QED BY <2>1, <2>2 DEF TableType
<1>9. t.list \in [PageId -> [next : Links, records : Seq(R)]] /\ t.e_s \in Seq(PageId)
      /\ t.head \in Links /\ t.tail \in Links /\ t.e_s \in Seq(0 .. t.size - 1)
      /\ Seqs!IsInjective(t.e_s)
  BY DEF Loose, TableType
<1> HIDE DEF U, e, page, es, G, a, u
<1>10. /\ \A q \in PageId : u.list[q].records = t.list[q].records
       /\ \A q \in PageId : u.list[q].next = IF q \in {p} \cup G THEN a ELSE t.list[q].next
       /\ u.list \in [PageId -> [next : Links, records : Seq(R)]]
  <2>1. a \in Links
    BY <1>0, <1>2 DEF Links
  <2>2. ASSUME NEW q \in PageId
        PROVE  /\ u.list[q].records = t.list[q].records
               /\ u.list[q].next = IF q \in {p} \cup G THEN a ELSE t.list[q].next
               /\ u.list[q] \in [next : Links, records : Seq(R)]
    <3>1. t.list[q] \in [next : Links, records : Seq(R)]
      BY <1>9
    <3>2. u.list[q] = IF q \in {p} \cup G THEN [t.list[q] EXCEPT !.next = a] ELSE t.list[q]
      BY <1>8
    <3>3. CASE q \in {p} \cup G
      <4>1. u.list[q] = [t.list[q] EXCEPT !.next = a]
        BY <3>2, <3>3
      <4> QED BY <4>1, <3>1, <3>3, <2>1
    <3>4. CASE q \notin {p} \cup G
      BY <3>1, <3>2, <3>4
    <3> QED BY <3>3, <3>4
  <2>3. u.list = [q \in PageId |-> u.list[q]]
    BY <1>8
  <2>4. u.list \in [PageId -> [next : Links, records : Seq(R)]]
    BY <2>2, <2>3
  <2> QED BY <2>2, <2>4
<1>11. /\ u.e_s \in Seq(PageId) /\ u.e_s \in Seq(0 .. t.size - 1)
       /\ Seqs!IsInjective(u.e_s)
       /\ Given(u) = Given(t) \cup G
  <2>1. /\ Seqs!Reverse(es) \in Seq(0 .. t.size - 1) /\ Seqs!IsInjective(Seqs!Reverse(es))
        /\ Seqs!ToSet(Seqs!Reverse(es)) = G
    BY <1>5, Turned
  <2>2. Seqs!ToSet(t.e_s) \cap G = {}
    BY <1>6 DEF U, InUse, Given
  <2>3. /\ u.e_s \in Seq(0 .. t.size - 1) /\ Seqs!IsInjective(u.e_s)
        /\ Seqs!ToSet(u.e_s) = Seqs!ToSet(t.e_s) \cup G
    BY <1>8, <1>9, <2>1, <2>2, Joined
  <2>4. u.e_s \in Seq(PageId)
    BY <1>0, <2>3
  <2> QED BY <2>3, <2>4 DEF Given
<1>12. InUse(u) = U \ G
  BY <1>8, <1>11 DEF InUse, U
<1>13. /\ t.head \in U \cup {NULL_ID} /\ t.head \notin G
       /\ t.tail \in (0 .. t.size - 1) \cup {NULL_ID}
       /\ t.tail \in U => t.list[t.tail].next = NULL_ID
       /\ t.tail = NULL_ID => t.head = NULL_ID
       /\ \A q \in PageId \ U : t.list[q].records = <<>>
       /\ \A q \in U : t.list[q].next \in U \cup {NULL_ID}
       /\ \A q, r \in U : t.list[q].next = t.list[r].next /\ t.list[q].next # NULL_ID => q = r
       /\ \A q \in PageId : Size(t, q) <= MAX_RECORDS
  BY DEF Loose, Closed, U, G
<1>14. u \in TableType(R)
  BY <1>0, <1>8, <1>9, <1>10, <1>11 DEF TableType
<1>15. \A q \in PageId : Size(u, q) = Size(t, q)
  BY <1>10 DEF Size
<1>16. \A q \in PageId \ InUse(u) : u.list[q].records = <<>>
  <2>1. \A q \in G : t.list[q].records = <<>>
    BY <1>0, <1>6 DEF Size
  <2> QED BY <2>1, <1>10, <1>12, <1>13
<1>17. Closed(u, InUse(u))
  <2> SUFFICES ASSUME NEW q \in U \ G PROVE u.list[q].next \in (U \ G) \cup {NULL_ID}
    BY <1>12 DEF Closed
  <2>1. CASE q = p
    BY <2>1, <1>0, <1>2, <1>6, <1>10
  <2>2. CASE q # p
    BY <2>2, <1>0, <1>7, <1>10, <1>13
  <2> QED BY <2>1, <2>2
<1>18. ASSUME NEW q \in U \ G, NEW r \in U \ G, u.list[q].next = u.list[r].next,
              u.list[q].next # NULL_ID
       PROVE  q = r
  <2>1. \A x \in U \ G : u.list[x].next = a /\ a # NULL_ID => x = p
    BY <1>0, <1>7, <1>10
  <2>2. CASE q = p \/ r = p
    BY <2>1, <2>2, <1>0, <1>10, <1>18
  <2>3. CASE q # p /\ r # p
    BY <2>3, <1>0, <1>10, <1>13, <1>18
  <2> QED BY <2>2, <2>3
<1>19. Ranked(u, InUse(u), rank)
  <2>1. /\ rank \in [PageId -> Nat]
        /\ \A q \in U : t.list[q].next # NULL_ID => rank[q] < rank[t.list[q].next]
    BY <1>1 DEF Acyclic, Ranked
  <2>2. a # NULL_ID => rank[p] < rank[a]
    <3>1. 0 \in 0 .. e - 1
      BY <1>4
    <3> QED BY <3>1, <1>2
  <2> QED BY <2>1, <2>2, <1>0, <1>10, <1>12 DEF Ranked
<1>20. u.tail \in InUse(u) => u.list[u.tail].next = NULL_ID
  <2> SUFFICES ASSUME t.tail \in U \ G PROVE u.list[t.tail].next = NULL_ID
    BY <1>8, <1>12
  <2>1. t.list[t.tail].next = NULL_ID
    BY <1>13
  <2>2. CASE t.tail = p
    <3>1. page[1] = NULL_ID
      <4>1. 0 \in 0 .. e - 1 /\ 0 + 1 = 1
        BY <1>4
      <4> QED BY <4>1, <1>2, <2>1, <2>2
    <3>2. e = 1
      <4>1. e # 1 => 1 \in 0 .. e - 1
        BY <1>4
      <4> QED BY <4>1, <3>1, <1>0, <1>2
    <3> QED BY <3>1, <3>2, <2>2, <1>0, <1>3, <1>10
  <2>3. CASE t.tail # p
    BY <2>1, <2>3, <1>0, <1>10
  <2> QED BY <2>2, <2>3
<1>21. Loose(u, R)
  <2>1. /\ u.head \in InUse(u) \cup {NULL_ID} /\ u.tail \in (0 .. u.size - 1) \cup {NULL_ID}
        /\ u.tail = NULL_ID => u.head = NULL_ID
    BY <1>8, <1>12, <1>13
  <2>2. u.e_s \in Seq(0 .. u.size - 1)
    BY <1>8, <1>11
  <2>3. \A q, r \in InUse(u) : u.list[q].next = u.list[r].next /\ u.list[q].next # NULL_ID => q = r
    BY <1>12, <1>18
  <2>4. \A q \in PageId : Size(u, q) <= MAX_RECORDS
    BY <1>13, <1>15
  <2> QED BY <2>1, <2>2, <2>3, <2>4, <1>11, <1>14, <1>16, <1>17, <1>19, <1>20 DEF Loose
<1>22. a \in InUse(u) \cup {NULL_ID} /\ (a # NULL_ID => Size(u, a) # 0) /\ u.list[p].next = a
  BY <1>0, <1>2, <1>6, <1>10, <1>12, <1>15
<1>23. \A q \in PageId \ ({p} \cup G) : u.list[q].next = t.list[q].next
  BY <1>10
<1> QED BY <1>6, <1>8, <1>10, <1>12, <1>21, <1>22, <1>23 DEF u, G, a, U


(* The HeadPage() getter leaves the head at a page with records, or at     *)
(* none; what it gives back was empty (QueueRecordTable.h, HeadPage).      *)
LEMMA HeadReadOK ==
  ASSUME NEW R, NEW t, Loose(t, R)
  PROVE  LET h == HeadRead(t)
         IN /\ PagesOK(h, R)
            /\ InUse(h) \subseteq InUse(t)
            /\ h.tail = t.tail /\ h.size = t.size
            /\ \A q \in PageId : h.list[q].records = t.list[q].records
PROOF
<1> DEFINE U == InUse(t)
           p == t.head
           u == Skipped(t, p)
           h == HeadRead(t)
<1>0. U \subseteq PageId /\ t.head \in U \cup {NULL_ID}
  BY LooseParts DEF Loose
<1>1. CASE t.head = NULL_ID \/ Size(t, t.head) # 0
  <2>1. h = t
    BY <1>1 DEF HeadRead
  <2> QED BY <1>1, <2>1 DEF PagesOK, HeadFull
<1>2. CASE t.head # NULL_ID /\ Size(t, t.head) = 0
  <2>1. p \in U /\ p \in PageId
    BY <1>0, <1>2
  <2>2. PICK rank : Acyclic(t, U, rank)
    BY LooseParts
  <2>3. p \notin Gone(t, p)
    <3>1. ASSUME NEW n \in 1 .. Stop(t, p) - 1 PROVE Linked(t, p)[n] # p
      <4>1. /\ Stop(t, p) \in 1 .. PAGES
            /\ \A i \in 0 .. Stop(t, p) - 1 : i # 0 => rank[p] < rank[Linked(t, p)[i]]
        BY <2>1, <2>2, StopReached
      <4>2. rank[p] \in Nat
        BY <2>1, <2>2 DEF Acyclic, Ranked
      <4>3. n \in 0 .. Stop(t, p) - 1 /\ n # 0
        BY <4>1
      <4>4. rank[p] < rank[Linked(t, p)[n]]
        BY <4>1, <4>3
      <4> QED BY <4>2, <4>4
    <3> QED BY <3>1 DEF Gone
  <2>4. /\ Loose(u, R)
        /\ InUse(u) = U \ Gone(t, p)
        /\ u.head = t.head /\ u.tail = t.tail /\ u.size = t.size
        /\ \A q \in PageId : u.list[q].records = t.list[q].records
        /\ u.list[p].next = After(t, p)
        /\ After(t, p) \in InUse(u) \cup {NULL_ID}
        /\ After(t, p) # NULL_ID => Size(u, After(t, p)) # 0
    BY <2>1, <2>3, SkippedOK
  <2>5. h = [u EXCEPT !.head = After(t, p)]
    BY <1>2, <2>4 DEF HeadRead
  <2> HIDE DEF u, h, U
  <2>6. /\ u \in TableType(R)
        /\ h.head = After(t, p) /\ h.tail = u.tail /\ h.list = u.list /\ h.e_s = u.e_s
        /\ h.size = u.size /\ h \in TableType(R)
    <3>1. InUse(u) \subseteq PageId
      BY <2>4, LooseParts
    <3>2. After(t, p) \in Links
      BY <3>1, <2>4 DEF Links
    <3>3. u \in TableType(R)
      BY <2>4 DEF Loose
    <3> QED BY <2>5, <3>2, <3>3 DEF TableType
  <2>7. InUse(h) = InUse(u) /\ \A q : Size(h, q) = Size(u, q)
    BY <2>6 DEF InUse, Given, Size
  <2>8. Loose(h, R)
    <3>1. \A r : Ranked(u, InUse(u), r) => Ranked(h, InUse(h), r)
      BY <2>6, <2>7 DEF Ranked
    <3>2. Closed(u, InUse(u)) => Closed(h, InUse(h))
      BY <2>6, <2>7 DEF Closed
    <3>3. h.tail # NULL_ID
      BY <1>2, <2>4, <2>6 DEF Loose
    <3> QED BY <2>4, <2>6, <2>7, <3>1, <3>2, <3>3 DEF Loose
  <2>9. HeadFull(h)
    BY <2>4, <2>6, <2>7 DEF HeadFull
  <2> QED BY <2>4, <2>6, <2>7, <2>8, <2>9 DEF PagesOK, u, h, U
<1> QED BY <1>1, <1>2

WithRecords(t, p, rs) == [t EXCEPT !.list[p].records = rs]

(* Other records on a page in use disturb nothing else. *)
LEMMA RecordsChanged ==
  ASSUME NEW R, NEW t, Loose(t, R), NEW p \in InUse(t), NEW rs \in Seq(R), Len(rs) <= MAX_RECORDS
  PROVE  LET u == WithRecords(t, p, rs)
         IN /\ Loose(u, R) /\ InUse(u) = InUse(t)
            /\ u.head = t.head /\ u.tail = t.tail /\ u.size = t.size
            /\ \A q \in PageId : u.list[q].records = IF q = p THEN rs ELSE t.list[q].records
            /\ \A q \in PageId : u.list[q].next = t.list[q].next
PROOF
<1> DEFINE u == WithRecords(t, p, rs)
<1>0. p \in PageId /\ InUse(t) \subseteq PageId
  BY LooseParts
<1>1. t \in TableType(R)
  BY DEF Loose
<1>2. /\ u.head = t.head /\ u.tail = t.tail /\ u.size = t.size /\ u.e_s = t.e_s
      /\ u.list = [t.list EXCEPT ![p] = [t.list[p] EXCEPT !.records = rs]]
      /\ u \in [head : {t.head}, tail : {t.tail}, list : {u.list}, e_s : {t.e_s}, size : {t.size}]
  BY <1>1 DEF TableType, WithRecords
<1>3. t.list \in [PageId -> [next : Links, records : Seq(R)]]
  BY <1>1 DEF TableType
<1>4. t.list[p] \in [next : Links, records : Seq(R)]
  BY <1>0, <1>3
<1>5. /\ \A q \in PageId : u.list[q].records = IF q = p THEN rs ELSE t.list[q].records
      /\ \A q \in PageId : u.list[q].next = t.list[q].next
      /\ u.list \in [PageId -> [next : Links, records : Seq(R)]]
  BY <1>0, <1>2, <1>3, <1>4
<1>6. u \in TableType(R)
  BY <1>1, <1>2, <1>5 DEF TableType
<1> HIDE DEF u
<1>7. InUse(u) = InUse(t)
  BY <1>2 DEF InUse, Given
<1>8. \A q \in PageId : Size(u, q) <= MAX_RECORDS
  BY <1>5 DEF Loose, Size
<1>9. Closed(u, InUse(u)) /\ \E rank : Ranked(u, InUse(u), rank)
  <2>1. Closed(u, InUse(u))
    BY <1>0, <1>5, <1>7 DEF Loose, Closed
  <2>2. PICK rank : Ranked(t, InUse(t), rank)
    BY DEF Loose
  <2>3. Ranked(u, InUse(u), rank)
    BY <2>2, <1>0, <1>5, <1>7 DEF Ranked
  <2> QED BY <2>1, <2>3
<1>10. Loose(u, R)
  <2>1. \A q \in PageId \ InUse(u) : u.list[q].records = <<>>
    BY <1>5, <1>7 DEF Loose
  <2>2. \A q, r \in InUse(u) : u.list[q].next = u.list[r].next /\ u.list[q].next # NULL_ID => q = r
    BY <1>0, <1>5, <1>7 DEF Loose
  <2>3. u.tail \in InUse(u) => u.list[u.tail].next = NULL_ID
    BY <1>0, <1>2, <1>5, <1>7 DEF Loose
  <2>4. /\ u.e_s \in Seq(0 .. u.size - 1) /\ Seqs!IsInjective(u.e_s)
        /\ u.head \in InUse(u) \cup {NULL_ID} /\ u.tail \in (0 .. u.size - 1) \cup {NULL_ID}
        /\ u.tail = NULL_ID => u.head = NULL_ID
    BY <1>2, <1>7 DEF Loose
  <2> QED BY <1>6, <1>8, <1>9, <2>1, <2>2, <2>3, <2>4 DEF Loose
<1> QED BY <1>2, <1>5, <1>7, <1>10 DEF u


(* A sequence without its i-th element: those before it and those after. *)
LEMMA RemovedAt ==
  ASSUME NEW R, NEW s \in Seq(R), NEW i \in 1 .. Len(s)
  PROVE  LET r == Seqs!RemoveAt(s, i)
         IN /\ r \in Seq(R) /\ Len(r) = Len(s) - 1
            /\ \A j \in 1 .. Len(s) - 1 : r[j] = IF j < i THEN s[j] ELSE s[j + 1]
PROOF
<1> DEFINE a == SubSeq(s, 1, i - 1)
           b == SubSeq(s, i + 1, Len(s))
<1>1. a \in Seq(R) /\ Len(a) = i - 1 /\ \A j \in 1 .. i - 1 : a[j] = s[j]
  OBVIOUS
<1>2. b \in Seq(R) /\ Len(b) = Len(s) - i /\ \A j \in 1 .. Len(s) - i : b[j] = s[j + i]
  OBVIOUS
<1>3. Seqs!RemoveAt(s, i) = a \o b
  BY DEF Seqs!RemoveAt
<1> HIDE DEF a, b
<1>4. a \o b \in Seq(R) /\ Len(a \o b) = Len(s) - 1
  <2>0. a \in Seq(R) /\ b \in Seq(R)
    BY <1>1, <1>2
  <2>1. a \o b \in Seq(R) /\ Len(a \o b) = Len(a) + Len(b)
    BY <2>0
  <2>2. Len(s) \in Nat /\ i \in Int /\ (i - 1) + (Len(s) - i) = Len(s) - 1
    OBVIOUS
  <2> QED BY <1>1, <1>2, <2>1, <2>2
<1>5. ASSUME NEW j \in 1 .. Len(s) - 1
      PROVE  (a \o b)[j] = IF j < i THEN s[j] ELSE s[j + 1]
  <2>1. (a \o b)[j] = IF j <= Len(a) THEN a[j] ELSE b[j - Len(a)]
    BY <1>1, <1>2
  <2>2. CASE j < i
    BY <1>1, <2>1, <2>2
  <2>3. CASE ~(j < i)
    <3>1. j - (i - 1) \in 1 .. Len(s) - i /\ ~(j <= i - 1) /\ (j - (i - 1)) + i = j + 1
      BY <2>3
    <3> QED BY <3>1, <2>1, <2>3, <1>1, <1>2
  <2> QED BY <2>2, <2>3
<1> QED BY <1>3, <1>4, <1>5

(* Remove takes one record off its page; the branch that would reset the   *)
(* tail is never taken (QueueRecordTable.h:79-97).                         *)
LEMMA RemovedOK ==
  ASSUME NEW R, NEW t, PagesOK(t, R), NEW p \in InUse(t), NEW i \in 1 .. Size(t, p)
  PROVE  LET u == Removed(t, p, i)
         IN /\ PagesOK(u, R)
            /\ InUse(u) \subseteq InUse(t) /\ u.tail = t.tail /\ u.size = t.size
            /\ \A q \in PageId :
                 u.list[q].records = IF q = p THEN Seqs!RemoveAt(t.list[p].records, i)
                                     ELSE t.list[q].records
            /\ u = HeadRead(WithRecords(t, p, Seqs!RemoveAt(t.list[p].records, i)))
PROOF
<1> DEFINE rs == Seqs!RemoveAt(t.list[p].records, i)
           c == WithRecords(t, p, rs)
           h == HeadRead(c)
           u == Removed(t, p, i)
<1>0. Loose(t, R) /\ p \in PageId /\ t.list[p].records \in Seq(R) /\ p # NULL_ID
  BY LooseParts DEF PagesOK
<1>1. rs \in Seq(R) /\ Len(rs) = Len(t.list[p].records) - 1
  BY <1>0, RemovedAt DEF Size
<1>2. Len(rs) <= MAX_RECORDS
  <2>1. Len(t.list[p].records) <= MAX_RECORDS
    BY <1>0 DEF Loose, Size
  <2>2. Len(t.list[p].records) \in Nat /\ MAX_RECORDS \in Nat
    BY <1>0, TableAssumption
  <2> QED BY <1>1, <2>1, <2>2
<1>3. c = [t EXCEPT !.list[p].records = Seqs!RemoveAt(@, i)]
  BY <1>0 DEF Loose, TableType, WithRecords
<1>4. u = IF p = h.head /\ Size(h, p) = 0
          THEN [Skipped(h, p) EXCEPT !.head = Skipped(h, p).list[p].next,
                                     !.tail = IF @ = p THEN NULL_ID ELSE @]
          ELSE h
  BY <1>3 DEF Removed
<1> HIDE DEF rs
<1>5. /\ Loose(c, R) /\ InUse(c) = InUse(t)
      /\ c.head = t.head /\ c.tail = t.tail /\ c.size = t.size
      /\ \A q \in PageId : c.list[q].records = IF q = p THEN rs ELSE t.list[q].records
  <2>1. Loose(t, R) /\ rs \in Seq(R) /\ Len(rs) <= MAX_RECORDS
    BY <1>0, <1>1, <1>2
  <2> QED BY <2>1, RecordsChanged
<1> HIDE DEF c, u
<1>6. /\ PagesOK(h, R) /\ InUse(h) \subseteq InUse(c)
      /\ h.tail = c.tail /\ h.size = c.size
      /\ \A q \in PageId : h.list[q].records = c.list[q].records
  BY <1>5, HeadReadOK
<1> HIDE DEF h
<1>7. u = h
  BY <1>0, <1>4, <1>6 DEF PagesOK, HeadFull
<1> QED BY <1>5, <1>6, <1>7 DEF u, rs, h, c

(* Update puts another record in the place of one. *)
LEMMA UpdatedOK ==
  ASSUME NEW R, NEW t, PagesOK(t, R), NEW p \in InUse(t), NEW i \in 1 .. Size(t, p), NEW r \in R
  PROVE  LET u == Updated(t, p, i, r)
         IN /\ PagesOK(u, R) /\ InUse(u) = InUse(t)
            /\ u.head = t.head /\ u.tail = t.tail /\ u.size = t.size
            /\ \A q \in PageId : u.list[q].next = t.list[q].next
            /\ \A q \in PageId :
                 u.list[q].records = IF q = p THEN [t.list[p].records EXCEPT ![i] = r]
                                     ELSE t.list[q].records
PROOF
<1> DEFINE rs == [t.list[p].records EXCEPT ![i] = r]
           c == WithRecords(t, p, rs)
<1>0. Loose(t, R) /\ p \in PageId /\ t.list[p].records \in Seq(R)
  BY LooseParts DEF PagesOK
<1>1. rs \in Seq(R) /\ Len(rs) = Len(t.list[p].records)
  BY <1>0 DEF Size
<1>2. Len(rs) <= MAX_RECORDS
  BY <1>0, <1>1 DEF Loose, Size
<1>3. c = Updated(t, p, i, r)
  BY <1>0 DEF Updated, Loose, TableType, WithRecords
<1> HIDE DEF rs
<1>4. /\ Loose(c, R) /\ InUse(c) = InUse(t)
      /\ c.head = t.head /\ c.tail = t.tail /\ c.size = t.size
      /\ \A q \in PageId : c.list[q].records = IF q = p THEN rs ELSE t.list[q].records
      /\ \A q \in PageId : c.list[q].next = t.list[q].next
  BY <1>0, <1>1, <1>2, RecordsChanged
<1> HIDE DEF c
<1>5. HeadFull(c)
  <2>1. t.head \in InUse(t) \cup {NULL_ID} /\ InUse(t) \subseteq PageId
    BY <1>0, LooseParts DEF Loose
  <2> QED BY <1>1, <1>4, <2>1 DEF PagesOK, HeadFull, Size
<1> QED BY <1>3, <1>4, <1>5 DEF PagesOK, rs


(* The members of a sequence of different elements but the last. *)
LEMMA WithoutLast ==
  ASSUME NEW X, NEW s \in Seq(X), s # <<>>, Seqs!IsInjective(s)
  PROVE  /\ Seqs!Last(s) \in X /\ Seqs!Last(s) \in Seqs!ToSet(s)
         /\ Seqs!Front(s) \in Seq(X) /\ Seqs!IsInjective(Seqs!Front(s))
         /\ Seqs!ToSet(Seqs!Front(s)) = Seqs!ToSet(s) \ {Seqs!Last(s)}
PROOF
<1> DEFINE n == Len(s)
           f == Seqs!Front(s)
<1>1. n \in Nat /\ n >= 1 /\ DOMAIN s = 1 .. n
  OBVIOUS
<1>2. Seqs!Last(s) = s[n]
  BY DEF Seqs!Last
<1>3. f = SubSeq(s, 1, n - 1)
  BY DEF Seqs!Front
<1>4. f \in Seq(X) /\ Len(f) = n - 1 /\ DOMAIN f = 1 .. n - 1 /\ \A i \in 1 .. n - 1 : f[i] = s[i]
  BY <1>1, <1>3
<1> HIDE DEF f, n
<1>5. \A i \in 1 .. n - 1 : i \in 1 .. n /\ i # n
  BY <1>1
<1>6. \A i \in 1 .. n : i = n \/ i \in 1 .. n - 1
  BY <1>1
<1>7. n \in 1 .. n /\ s[n] \in X
  BY <1>1
<1>8. Seqs!IsInjective(f)
  BY <1>1, <1>4, <1>5 DEF Seqs!IsInjective
<1>9. \A i \in 1 .. n - 1 : s[i] # s[n]
  BY <1>1, <1>5, <1>7 DEF Seqs!IsInjective
<1>10. Seqs!ToSet(f) = Seqs!ToSet(s) \ {s[n]}
  <2>1. Seqs!ToSet(f) = {s[i] : i \in 1 .. n - 1}
    BY <1>4 DEF Seqs!ToSet
  <2>2. Seqs!ToSet(s) = {s[i] : i \in 1 .. n}
    BY <1>1 DEF Seqs!ToSet
  <2> QED BY <2>1, <2>2, <1>5, <1>6, <1>9
<1>11. s[n] \in Seqs!ToSet(s)
  BY <1>1, <1>7 DEF Seqs!ToSet
<1> QED BY <1>2, <1>4, <1>7, <1>8, <1>10, <1>11 DEF f

(* The page that the file system hands out is not in use: it is the last   *)
(* one given back, or one never asked for.                                 *)
LEMMA NewPageOK ==
  ASSUME NEW R, NEW t, Loose(t, R), CanNew(t)
  PROVE  LET p == NewPage(t)
             n == WithNew(t)
         IN /\ Loose(n, R)
            /\ p \in PageId \ InUse(t) /\ p \in 0 .. n.size - 1
            /\ InUse(n) = InUse(t) \cup {p}
            /\ n.head = t.head /\ n.tail = t.tail
            /\ n.list[p].next = NULL_ID /\ n.list[p].records = <<>>
            /\ \A q \in PageId \ {p} : n.list[q] = t.list[q]
PROOF
<1> DEFINE p == NewPage(t)
           n == WithNew(t)
           U == InUse(t)
           blank == [next |-> NULL_ID, records |-> <<>>]
<1>n. PAGES \in Nat \ {0} BY TableAssumption
<1>0. /\ U \subseteq PageId /\ U \subseteq 0 .. t.size - 1 /\ 0 .. t.size - 1 \subseteq PageId
      /\ t.size \in 0 .. PAGES
      /\ \A q \in PageId : t.list[q].next \in Links /\ t.list[q].records \in Seq(R) /\ q # NULL_ID
  BY LooseParts
<1>1. /\ t \in TableType(R) /\ t.e_s \in Seq(PageId) /\ t.e_s \in Seq(0 .. t.size - 1)
      /\ Seqs!IsInjective(t.e_s) /\ t.list \in [PageId -> [next : Links, records : Seq(R)]]
      /\ t.head \in U \cup {NULL_ID} /\ t.tail \in (0 .. t.size - 1) \cup {NULL_ID}
      /\ t.tail = NULL_ID => t.head = NULL_ID
  BY DEF Loose, TableType
<1>2. /\ p \in PageId /\ p \notin U /\ n.size \in 0 .. PAGES /\ t.size <= n.size
      /\ p \in 0 .. n.size - 1
      /\ n.e_s \in Seq(PageId) /\ n.e_s \in Seq(0 .. n.size - 1) /\ Seqs!IsInjective(n.e_s)
      /\ (0 .. n.size - 1) \ Given(n) = U \cup {p}
  <2>1. CASE t.e_s # <<>>
    <3>1. p = Seqs!Last(t.e_s) /\ n.e_s = Seqs!Front(t.e_s) /\ n.size = t.size
      BY <1>1, <2>1 DEF NewPage, WithNew, TableType
    <3>2. /\ p \in 0 .. t.size - 1 /\ p \in Seqs!ToSet(t.e_s)
          /\ Seqs!Front(t.e_s) \in Seq(0 .. t.size - 1) /\ Seqs!IsInjective(Seqs!Front(t.e_s))
          /\ Seqs!ToSet(Seqs!Front(t.e_s)) = Seqs!ToSet(t.e_s) \ {p}
      <4> DEFINE s == t.e_s
                 X == 0 .. t.size - 1
      <4>1. s \in Seq(X) /\ s # <<>> /\ Seqs!IsInjective(s)
        BY <1>1, <2>1
      <4> HIDE DEF s, X
      <4>2. /\ Seqs!Last(s) \in X /\ Seqs!Last(s) \in Seqs!ToSet(s)
            /\ Seqs!Front(s) \in Seq(X) /\ Seqs!IsInjective(Seqs!Front(s))
            /\ Seqs!ToSet(Seqs!Front(s)) = Seqs!ToSet(s) \ {Seqs!Last(s)}
        BY <4>1, WithoutLast
      <4> QED BY <3>1, <4>2 DEF s, X
    <3>3. Seqs!Front(t.e_s) \in Seq(PageId)
      BY <1>0, <3>2
    <3>4. p \notin U
      BY <3>2 DEF U, InUse, Given
    <3>5. (0 .. n.size - 1) \ Given(n) = U \cup {p}
      BY <3>1, <3>2 DEF U, InUse, Given
    <3> QED BY <1>0, <3>1, <3>2, <3>3, <3>4, <3>5
  <2>2. CASE t.e_s = <<>>
    <3>1. p = t.size /\ n.e_s = <<>> /\ n.size = t.size + 1 /\ t.size < PAGES
      BY <1>1, <2>2 DEF NewPage, WithNew, TableType, CanNew
    <3>2. Given(t) = {} /\ Given(n) = {} /\ Seqs!IsInjective(n.e_s)
      BY <2>2, <3>1 DEF Given, Seqs!ToSet, Seqs!IsInjective
    <3>3. p \in PageId /\ n.size \in 0 .. PAGES /\ t.size <= n.size /\ p \in 0 .. n.size - 1
      BY <1>0, <1>n, <3>1 DEF PageId
    <3>4. p \notin 0 .. t.size - 1 /\ 0 .. n.size - 1 = (0 .. t.size - 1) \cup {p}
      BY <1>0, <3>1
    <3>5. U = 0 .. t.size - 1
      BY <3>2 DEF U, InUse
    <3>6. <<>> \in Seq(PageId) /\ <<>> \in Seq(0 .. n.size - 1)
      OBVIOUS
    <3> HIDE DEF U, n, p
    <3> QED BY <3>1, <3>2, <3>3, <3>4, <3>5, <3>6
  <2> QED BY <2>1, <2>2
<1>3. /\ n.head = t.head /\ n.tail = t.tail
      /\ n.list = [t.list EXCEPT ![p] = blank]
      /\ n \in [head : {t.head}, tail : {t.tail}, list : {n.list}, e_s : {n.e_s}, size : {n.size}]
  BY <1>1 DEF WithNew, TableType
<1> HIDE DEF U, n, p
<1>4. blank \in [next : Links, records : Seq(R)] /\ blank.next = NULL_ID /\ blank.records = <<>>
  BY DEF Links
<1> HIDE DEF blank
<1>5. /\ n.list \in [PageId -> [next : Links, records : Seq(R)]]
      /\ n.list[p].next = NULL_ID /\ n.list[p].records = <<>>
      /\ \A q \in PageId \ {p} : n.list[q] = t.list[q]
  BY <1>1, <1>2, <1>3, <1>4
<1>6. n \in TableType(R)
  <2>1. t.head \in Links /\ t.tail \in Links
    BY <1>1 DEF TableType
  <2> QED BY <2>1, <1>2, <1>3, <1>5 DEF TableType
<1>7. InUse(n) = U \cup {p}
  BY <1>2 DEF InUse
<1>8. \A q \in PageId : Size(n, q) <= MAX_RECORDS
  <2>1. \A q \in PageId : Size(t, q) <= MAX_RECORDS
    BY DEF Loose
  <2>2. Len(<<>>) = 0 /\ 0 <= MAX_RECORDS
    BY TableAssumption
  <2> QED BY <1>5, <2>1, <2>2 DEF Size
<1>9. Closed(n, InUse(n))
  BY <1>0, <1>2, <1>5, <1>7 DEF Loose, Closed, U
<1>10. \E rank : Ranked(n, InUse(n), rank)
  <2>1. PICK rank : Ranked(t, U, rank)
    BY DEF Loose, U
  <2>2. Ranked(n, InUse(n), rank)
    BY <2>1, <1>0, <1>2, <1>5, <1>7 DEF Ranked
  <2> QED BY <2>2
<1>11. \A q \in PageId \ InUse(n) : n.list[q].records = <<>>
  BY <1>5, <1>7 DEF Loose, U
<1>12. \A q, r \in InUse(n) : n.list[q].next = n.list[r].next /\ n.list[q].next # NULL_ID => q = r
  BY <1>0, <1>2, <1>5, <1>7 DEF Loose, U
<1>13. n.tail \in InUse(n) => n.list[n.tail].next = NULL_ID
  BY <1>0, <1>2, <1>3, <1>5, <1>7 DEF Loose, U
<1>14. /\ n.head \in InUse(n) \cup {NULL_ID} /\ n.tail \in (0 .. n.size - 1) \cup {NULL_ID}
       /\ n.tail = NULL_ID => n.head = NULL_ID
  <2>1. 0 .. t.size - 1 \subseteq 0 .. n.size - 1
    BY <1>0, <1>2
  <2> QED BY <2>1, <1>1, <1>3, <1>7
<1>15. Loose(n, R)
  BY <1>2, <1>6, <1>8, <1>9, <1>10, <1>11, <1>12, <1>13, <1>14 DEF Loose
<1> QED BY <1>2, <1>3, <1>5, <1>7, <1>15 DEF n, p, U


-----------------------------------------------------------------------------
(* Insert appends the record to a page in use, the tail page or, when that *)
(* is full or there is none, an empty page handed out for it, which is     *)
(* linked after the tail and becomes the tail (QueueRecordTable.h:51-77).  *)
(* It is all right as long as the tail page has not been given back.       *)
LEMMA InsertedOK ==
  ASSUME NEW R, NEW t, PagesOK(t, R), NEW r \in R,
         TailFull(t) => CanNew(t), ~TailFull(t) => t.tail \notin Given(t)
  PROVE  LET u == Inserted(t, r)
             l == InsertPage(t)
         IN /\ PagesOK(u, R)
            /\ l \in PageId /\ l \in InUse(u) /\ InUse(u) = InUse(t) \cup {l}
            /\ u.list[l].records = Append(t.list[l].records, r) \/ TailFull(t)
            /\ TailFull(t) => l \notin InUse(t) /\ u.list[l].records = <<r>>
            /\ \A q \in PageId \ {l} : u.list[q].records = t.list[q].records
            /\ u.tail = l
            /\ u.head = IF t.tail = NULL_ID THEN l ELSE t.head
            /\ \A q \in InUse(t) \ {t.tail} : u.list[q].next = t.list[q].next
            /\ TailFull(t) /\ t.tail # NULL_ID => u.list[t.tail].next = l
PROOF
<1> DEFINE u == Inserted(t, r)
           l == InsertPage(t)
           U == InUse(t)
<1>n. PAGES \in Nat \ {0} /\ MAX_RECORDS \in Nat \ {0}
  BY TableAssumption
<1>0. /\ Loose(t, R) /\ U \subseteq PageId /\ 0 .. t.size - 1 \subseteq PageId /\ U \subseteq 0 .. t.size - 1
      /\ \A q \in PageId : t.list[q].next \in Links /\ t.list[q].records \in Seq(R) /\ q # NULL_ID
      /\ t.tail \in (0 .. t.size - 1) \cup {NULL_ID} /\ t.head \in U \cup {NULL_ID}
      /\ t.head # NULL_ID => Size(t, t.head) # 0
      /\ \A q \in PageId \ U : t.list[q].records = <<>>
  BY LooseParts DEF PagesOK, Loose, HeadFull
<1>1. CASE ~TailFull(t)
  <2> DEFINE p == t.tail
             rs == Append(t.list[p].records, r)
             c == WithRecords(t, p, rs)
  <2>1. p \in U /\ p \in PageId /\ Size(t, p) # MAX_RECORDS
    BY <1>0, <1>1 DEF TailFull, InUse
  <2>2. rs \in Seq(R) /\ Len(rs) <= MAX_RECORDS /\ Len(rs) # 0
    <3>1. Len(t.list[p].records) \in Nat /\ Len(t.list[p].records) <= MAX_RECORDS
          /\ Len(t.list[p].records) # MAX_RECORDS /\ t.list[p].records \in Seq(R)
      BY <1>0, <2>1 DEF Loose, Size
    <3>2. rs \in Seq(R) /\ Len(rs) = Len(t.list[p].records) + 1
      BY <3>1
    <3> QED BY <1>n, <3>1, <3>2
  <2>3. u = c /\ l = p
    BY <1>0, <1>1 DEF Inserted, InsertPage, WithRecords, Loose, TableType
  <2> HIDE DEF u, l
  <2>4. /\ Loose(c, R) /\ InUse(c) = U
        /\ c.head = t.head /\ c.tail = t.tail /\ c.size = t.size
        /\ \A q \in PageId : c.list[q].records = IF q = p THEN rs ELSE t.list[q].records
        /\ \A q \in PageId : c.list[q].next = t.list[q].next
    <3> HIDE DEF rs
    <3> QED BY <1>0, <2>1, <2>2, RecordsChanged
  <2> HIDE DEF rs, c
  <2>5. HeadFull(c)
    BY <1>0, <2>2, <2>4 DEF HeadFull, Size
  <2>6. t.tail # NULL_ID
    BY <1>0, <2>1
  <2> QED BY <1>0, <1>1, <2>1, <2>3, <2>4, <2>5, <2>6 DEF PagesOK, rs, u, l
<1>2. CASE TailFull(t)
  <2> DEFINE p == NewPage(t)
             n == WithNew(t)
             v == IF t.tail # NULL_ID THEN [n EXCEPT !.list[t.tail].next = p, !.tail = p]
                  ELSE [n EXCEPT !.head = p, !.tail = p]
             c == WithRecords(v, p, <<r>>)
  <2>1. /\ Loose(n, R)
        /\ p \in PageId \ U /\ p \in 0 .. n.size - 1
        /\ InUse(n) = U \cup {p}
        /\ n.head = t.head /\ n.tail = t.tail
        /\ n.list[p].next = NULL_ID /\ n.list[p].records = <<>>
        /\ \A q \in PageId \ {p} : n.list[q] = t.list[q]
    BY <1>0, <1>2, NewPageOK
  <2>2. l = p
    BY <1>2 DEF InsertPage
  <2> HIDE DEF n, p, U
  <2>3. /\ n \in TableType(R) /\ n.list \in [PageId -> [next : Links, records : Seq(R)]]
        /\ \A q \in PageId : n.list[q] \in [next : Links, records : Seq(R)]
    BY <2>1 DEF Loose, TableType
  <2>4. t.tail # NULL_ID => t.tail \in U /\ t.tail \in PageId /\ t.tail # p /\ t.list[t.tail].next = NULL_ID
    <3> SUFFICES ASSUME t.tail # NULL_ID
                 PROVE  t.tail \in U /\ t.tail \in PageId /\ t.tail # p /\ t.list[t.tail].next = NULL_ID
      OBVIOUS
    <3>1. t.tail \in PageId /\ Size(t, t.tail) = MAX_RECORDS
      BY <1>0, <1>2 DEF TailFull
    <3>2. t.tail \in U
      BY <1>0, <1>n, <3>1 DEF Size
    <3> QED BY <3>1, <3>2, <1>0, <2>1 DEF Loose, U
  <2>5. /\ v.tail = p /\ v.e_s = n.e_s /\ v.size = n.size
        /\ v.head = IF t.tail # NULL_ID THEN t.head ELSE p
        /\ v.list \in [PageId -> [next : Links, records : Seq(R)]]
        /\ \A q \in PageId : v.list[q].records = n.list[q].records
        /\ \A q \in PageId : v.list[q].next = IF q = t.tail THEN p ELSE n.list[q].next
        /\ v \in TableType(R)
    <3>1. CASE t.tail # NULL_ID
      <4>1. v = [n EXCEPT !.list[t.tail].next = p, !.tail = p]
        BY <3>1
      <4> HIDE DEF v
      <4>2. p \in Links
        BY <2>1 DEF Links
      <4>3. v.list = [n.list EXCEPT ![t.tail] = [n.list[t.tail] EXCEPT !.next = p]]
        BY <2>3, <4>1 DEF TableType
      <4>4. [n.list[t.tail] EXCEPT !.next = p] \in [next : Links, records : Seq(R)]
        BY <2>3, <2>4, <3>1, <4>2
      <4>5. v.list \in [PageId -> [next : Links, records : Seq(R)]]
        BY <2>3, <4>3, <4>4
      <4>6. /\ v.tail = p /\ v.e_s = n.e_s /\ v.size = n.size /\ v.head = n.head
        BY <2>3, <4>1 DEF TableType
      <4>7. v \in TableType(R)
        BY <2>3, <4>1, <4>2, <4>5, <4>6 DEF TableType
      <4>8. /\ \A q \in PageId : v.list[q].records = n.list[q].records
            /\ \A q \in PageId : v.list[q].next = IF q = t.tail THEN p ELSE n.list[q].next
        BY <2>3, <2>4, <3>1, <4>3
      <4> QED BY <2>1, <3>1, <4>5, <4>6, <4>7, <4>8
    <3>2. CASE t.tail = NULL_ID
      <4>1. v = [n EXCEPT !.head = p, !.tail = p]
        BY <3>2
      <4> HIDE DEF v
      <4>2. p \in Links
        BY <2>1 DEF Links
      <4>3. /\ v.tail = p /\ v.e_s = n.e_s /\ v.size = n.size /\ v.head = p /\ v.list = n.list
            /\ v \in TableType(R)
        BY <2>3, <4>1, <4>2 DEF TableType
      <4> QED BY <1>0, <2>3, <3>2, <4>3
    <3> QED BY <3>1, <3>2
  <2> HIDE DEF v
  <2>6. Loose(v, R) /\ InUse(v) = U \cup {p}
    <3>1. InUse(v) = U \cup {p} /\ U \subseteq PageId /\ U \cup {p} \subseteq PageId
      <4>1. InUse(v) = InUse(n)
        BY <2>5 DEF InUse, Given
      <4> QED BY <4>1, <2>1, <1>0
    <3>2. \A q \in U \cup {p} : v.list[q].next = IF q = t.tail THEN p ELSE n.list[q].next
      BY <2>5, <3>1
    <3>3. Closed(n, U \cup {p}) /\ \A q \in U : n.list[q].next \in U \cup {NULL_ID}
      <4>1. \A q \in U : n.list[q] = t.list[q]
        BY <2>1, <3>1
      <4> QED BY <4>1, <1>0, <2>1 DEF Loose, Closed, U
    <3>4. Closed(v, U \cup {p})
      BY <3>2, <3>3 DEF Closed
    <3>5. \A q, s \in U \cup {p} : v.list[q].next = v.list[s].next /\ v.list[q].next # NULL_ID => q = s
      <4>1. \A q, s \in U \cup {p} : n.list[q].next = n.list[s].next /\ n.list[q].next # NULL_ID => q = s
        BY <2>1 DEF Loose
      <4>2. \A q \in U \cup {p} : n.list[q].next # p
        BY <1>0, <2>1, <3>3
      <4> QED BY <3>2, <4>1, <4>2
    <3>6. \E rank : Ranked(v, U \cup {p}, rank)
      <4>1. PICK rank : Ranked(n, U \cup {p}, rank)
        BY <2>1 DEF Loose
      <4>2. rank \in [PageId -> Nat] /\ \A q \in U \cup {p} : n.list[q].next # NULL_ID => rank[q] < rank[n.list[q].next]
        BY <4>1 DEF Ranked
      <4>3. CASE t.tail = NULL_ID
        <5>1. Ranked(v, U \cup {p}, rank)
          BY <1>0, <3>1, <3>2, <4>2, <4>3 DEF Ranked
        <5> QED BY <5>1
      <4>4. CASE t.tail # NULL_ID
        <5> DEFINE high == [rank EXCEPT ![p] = rank[t.tail] + 1]
        <5>1. high \in [PageId -> Nat] /\ high[p] = rank[t.tail] + 1 /\ rank[t.tail] \in Nat
              /\ \A q \in PageId \ {p} : high[q] = rank[q]
          <6>1. p \in PageId /\ t.tail \in PageId /\ rank \in [PageId -> Nat]
            BY <2>1, <2>4, <4>2, <4>4
          <6>2. rank[t.tail] \in Nat /\ rank[t.tail] + 1 \in Nat
            BY <6>1
          <6> QED BY <6>1, <6>2
        <5> HIDE DEF high
        <5>2. ASSUME NEW q \in U \cup {p}, v.list[q].next # NULL_ID
              PROVE  high[q] < high[v.list[q].next]
          <6>1. CASE q = t.tail
            <7>1. v.list[q].next = p /\ high[q] = rank[q]
              BY <6>1, <3>2, <2>4, <4>4, <5>1
            <7> QED BY <6>1, <7>1, <5>1
          <6>2. CASE q # t.tail
            <7>1. v.list[q].next = n.list[q].next /\ q # p
              BY <6>2, <3>2, <5>2, <2>1
            <7>2. q \in U /\ n.list[q].next \in U /\ p \notin U
              BY <7>1, <5>2, <3>3, <2>1
            <7> QED BY <7>1, <7>2, <3>1, <4>2, <5>1, <5>2
          <6> QED BY <6>1, <6>2
        <5> QED BY <5>1, <5>2 DEF Ranked
      <4> QED BY <4>3, <4>4
    <3>7. /\ v.head \in InUse(v) \cup {NULL_ID} /\ v.tail \in (0 .. v.size - 1) \cup {NULL_ID}
          /\ v.tail # NULL_ID
      BY <1>0, <2>1, <2>5, <3>1
    <3>8. v.list[v.tail].next = NULL_ID
      BY <2>1, <2>4, <2>5, <1>0
    <3>9. \A q \in PageId \ InUse(v) : v.list[q].records = <<>>
      BY <2>1, <2>5, <3>1 DEF Loose
    <3>10. /\ \A q \in PageId : Size(v, q) <= MAX_RECORDS
           /\ v.e_s \in Seq(0 .. v.size - 1) /\ Seqs!IsInjective(v.e_s)
      BY <2>1, <2>5 DEF Loose, Size
    <3>11. /\ Closed(v, InUse(v)) /\ \E rank : Ranked(v, InUse(v), rank)
           /\ \A q, s \in InUse(v) :
                v.list[q].next = v.list[s].next /\ v.list[q].next # NULL_ID => q = s
      BY <3>1, <3>4, <3>5, <3>6
    <3> QED BY <2>5, <3>1, <3>7, <3>8, <3>9, <3>10, <3>11 DEF Loose
  <2>7. <<r>> \in Seq(R) /\ Len(<<r>>) = 1 /\ 1 <= MAX_RECORDS
    BY <1>n
  <2>8. /\ Loose(c, R) /\ InUse(c) = U \cup {p}
        /\ c.head = v.head /\ c.tail = v.tail /\ c.size = v.size
        /\ \A q \in PageId : c.list[q].records = IF q = p THEN <<r>> ELSE v.list[q].records
        /\ \A q \in PageId : c.list[q].next = v.list[q].next
    <3> DEFINE rs == <<r>>
    <3>1. rs \in Seq(R) /\ Len(rs) <= MAX_RECORDS /\ p \in InUse(v)
      BY <2>6, <2>7
    <3> HIDE DEF rs
    <3>2. /\ Loose(WithRecords(v, p, rs), R) /\ InUse(WithRecords(v, p, rs)) = InUse(v)
          /\ WithRecords(v, p, rs).head = v.head /\ WithRecords(v, p, rs).tail = v.tail
          /\ WithRecords(v, p, rs).size = v.size
          /\ \A q \in PageId : WithRecords(v, p, rs).list[q].records
                                 = IF q = p THEN rs ELSE v.list[q].records
          /\ \A q \in PageId : WithRecords(v, p, rs).list[q].next = v.list[q].next
      BY <2>6, <3>1, RecordsChanged
    <3> QED BY <2>6, <3>2 DEF rs
  <2>9. u = c
    <3>1. Append(n.list[p].records, r) = <<r>>
      BY <2>1
    <3> QED BY <1>2, <2>1, <2>3, <2>4, <3>1 DEF Inserted, n, p, v, WithRecords, TableType
  <2> HIDE DEF c, u
  <2>10. HeadFull(c)
    <3>1. CASE t.tail = NULL_ID
      <4>1. c.head = p /\ p \in PageId /\ c.list[p].records = <<r>>
        BY <2>1, <2>5, <2>8, <3>1
      <4> QED BY <2>7, <4>1 DEF HeadFull, Size
    <3>2. CASE t.tail # NULL_ID
      <4>1. c.head = t.head
        BY <2>5, <2>8, <3>2
      <4>2. ASSUME t.head # NULL_ID
            PROVE  c.list[t.head].records = t.list[t.head].records
        <5>1. t.head \in PageId \ {p}
          BY <1>0, <2>1, <4>2 DEF U
        <5> QED BY <5>1, <2>1, <2>5, <2>8
      <4> QED BY <1>0, <4>1, <4>2 DEF HeadFull, Size
    <3> QED BY <3>1, <3>2
  <2>11. \A q \in PageId \ {p} : c.list[q].records = t.list[q].records
    BY <2>1, <2>5, <2>8
  <2>12. c.head = IF t.tail = NULL_ID THEN p ELSE t.head
    BY <2>5, <2>8
  <2>13. \A q \in U \ {t.tail} : c.list[q].next = t.list[q].next
    <3>1. U \subseteq PageId /\ p \notin U
      BY <1>0, <2>1 DEF U
    <3> QED BY <3>1, <2>1, <2>5, <2>8
  <2>14. t.tail # NULL_ID => c.list[t.tail].next = p
    BY <2>4, <2>5, <2>8
  <2> QED BY <1>2, <2>1, <2>2, <2>5, <2>8, <2>9, <2>10, <2>11, <2>12, <2>13, <2>14 DEF PagesOK, u, U
<1> QED BY <1>1, <1>2

(* A table without pages. *)
LEMMA NewTableOK ==
  ASSUME NEW R
  PROVE  PagesOK(NewTable, R) /\ InUse(NewTable) = {}
PROOF
<1> DEFINE t == NewTable
<1>n. PAGES \in Nat \ {0} /\ MAX_RECORDS \in Nat \ {0}
  BY TableAssumption
<1>1. /\ t.head = NULL_ID /\ t.tail = NULL_ID /\ t.e_s = <<>> /\ t.size = 0
      /\ \A p \in PageId : t.list[p] = [next |-> NULL_ID, records |-> <<>>]
      /\ t.list = [p \in PageId |-> [next |-> NULL_ID, records |-> <<>>]]
  BY DEF NewTable
<1>2. InUse(t) = {}
  <2>1. 0 .. 0 - 1 = {}
    OBVIOUS
  <2> QED BY <1>1, <2>1 DEF InUse
<1>3. \A p \in PageId : t.list[p].records = <<>>
  BY <1>1
<1>4. [next |-> NULL_ID, records |-> <<>>] \in [next : Links, records : Seq(R)]
  BY DEF Links
<1>5. t \in TableType(R)
  BY <1>1, <1>4, <1>n DEF TableType, NewTable, Links
<1> HIDE DEF t
<1>6. \A p \in PageId : Size(t, p) <= MAX_RECORDS
  BY <1>3, <1>n DEF Size
<1>7. t.e_s \in Seq(0 .. t.size - 1) /\ Seqs!IsInjective(t.e_s)
  BY <1>1 DEF Seqs!IsInjective
<1>8. Ranked(t, {}, [p \in PageId |-> 0]) /\ Closed(t, {})
  BY DEF Ranked, Closed
<1> QED BY <1>1, <1>2, <1>3, <1>5, <1>6, <1>7, <1>8 DEF PagesOK, Loose, HeadFull, t
==============================================================================
