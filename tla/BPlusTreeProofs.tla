---------------------------- MODULE BPlusTreeProofs ---------------------------
(***************************************************************************)
(* The B+ tree stays balanced, filled, ordered and free of lost pages, and *)
(* is a dictionary, for any keys, pages, levels and page size.             *)
(*                                                                         *)
(* Links and Tops say what holds within a call, too: h gives the height of *)
(* each page, and lo and hi the keys it is about.  SetParentIndex, Insert, *)
(* Remove, New and Delete of b_plus_page.h come first; from them the cases *)
(* of Adjust, each of which ends the work or leaves it to the parent       *)
(* (Turning); then what a search finds (Path, LookupFinds), Insert and     *)
(* Remove (InsertSettles, RemoveSettles), and the invariant (IInv).        *)
(***************************************************************************)
EXTENDS BPlusTree, Iteration, FiniteSetTheorems

(* The loops of the tree, each as a step that is taken again and again. *)
LevelBelow(t, S) == UNION {Seqs!ToSet(t.page[p].kids) : p \in {q \in S : ~t.page[q].leaf}}

Turn(s) == IF s.page = NULL_ID THEN s ELSE AdjustPage(s.tree, s.page)

Step(op, a, b, s) ==
  CASE op = "raise"  -> Raise(s)
    [] op = "adjust" -> Turn(s)
    [] op = "last"   -> MoveLast(s, a, b)
    [] op = "first"  -> MoveFirst(s, a, b)
    [] op = "level"  -> LevelBelow(a, s)
    [] op = "path"   -> a[s]

Steps(f, op, a, b, s, N) == f = [n \in 0 .. N |-> IF n = 0 THEN s ELSE Step(op, a, b, f[n - 1])]

(* There is a function that goes through the states of such a loop. *)
LEMMA StepsExist ==
  ASSUME NEW op, NEW a, NEW b, NEW s, NEW N \in Nat
  PROVE  \E f : Steps(f, op, a, b, s, N)
PROOF
<1> DEFINE T == {n \in 0 .. N : \E f : f = [m \in 0 .. n |-> IF m = 0 THEN s ELSE Step(op, a, b, f[m - 1])]}
<1>1. 0 \in T
  <2> DEFINE f == [m \in 0 .. 0 |-> s]
  <2>1. f = [m \in 0 .. 0 |-> IF m = 0 THEN s ELSE Step(op, a, b, f[m - 1])]
    OBVIOUS
  <2> HIDE DEF f
  <2>2. 0 \in 0 .. N
    OBVIOUS
  <2> QED BY <2>1, <2>2
<1>2. ASSUME NEW n \in 0 .. N - 1, n \in T PROVE n + 1 \in T
  <2>1. PICK f : f = [m \in 0 .. n |-> IF m = 0 THEN s ELSE Step(op, a, b, f[m - 1])]
    BY <1>2
  <2> DEFINE g == [m \in 0 .. n + 1 |-> IF m = n + 1 THEN Step(op, a, b, f[n]) ELSE f[m]]
  <2>2. n \in Nat /\ n + 1 \in 0 .. N
    OBVIOUS
  <2>3. ASSUME NEW m \in 0 .. n + 1 PROVE g[m] = IF m = 0 THEN s ELSE Step(op, a, b, g[m - 1])
    <3>1. CASE m = n + 1
      <4>1. g[m] = Step(op, a, b, f[n]) /\ m # 0 /\ m - 1 = n /\ n \in 0 .. n + 1 /\ n # n + 1
        BY <3>1, <2>2
      <4>2. g[m - 1] = f[n]
        BY <4>1
      <4> QED BY <4>1, <4>2
    <3>2. CASE m # n + 1
      <4>1. m \in 0 .. n /\ g[m] = f[m]
        BY <3>2, <2>2
      <4>2. f[m] = IF m = 0 THEN s ELSE Step(op, a, b, f[m - 1])
        BY <4>1, <2>1
      <4>3. m # 0 => m - 1 \in 0 .. n + 1 /\ m - 1 # n + 1
        BY <4>1, <2>2
      <4>4. m # 0 => g[m - 1] = f[m - 1]
        BY <4>3
      <4> QED BY <4>1, <4>2, <4>4
    <3> QED BY <3>1, <3>2
  <2>4. g = [m \in 0 .. n + 1 |-> g[m]]
    OBVIOUS
  <2> HIDE DEF g
  <2>5. g = [m \in 0 .. n + 1 |-> IF m = 0 THEN s ELSE Step(op, a, b, g[m - 1])]
    BY <2>3, <2>4
  <2> QED BY <2>2, <2>5
<1> HIDE DEF T
<1>3. N \in T
  <2>1. N \in 0 .. N
    OBVIOUS
  <2> QED BY <2>1, <1>1, <1>2, UpTo
<1> QED BY <1>3 DEF T, Steps

LEMMA RaisingIs ==
  ASSUME NEW t, NEW p
  PROVE  \E at : /\ at[0] = Go(t, p)
                 /\ \A n \in 1 .. LEVELS : at[n] = Raise(at[n - 1])
                 /\ SetParentIndex(t, p) = at[LEVELS].tree
PROOF
<1>1. LEVELS \in Nat
  BY PageAssumption
<1>2. PICK f : Steps(f, "raise", 0, 0, Go(t, p), LEVELS)
  BY <1>1, StepsExist
<1>3. \A x : Step("raise", 0, 0, x) = Raise(x)
  BY DEF Step
<1>4. f = [n \in 0 .. LEVELS |-> IF n = 0 THEN Go(t, p) ELSE Raise(f[n - 1])]
  BY <1>2, <1>3 DEF Steps
<1> DEFINE at == CHOOSE at : at = [n \in 0 .. LEVELS |-> IF n = 0 THEN Go(t, p) ELSE Raise(at[n - 1])]
<1>5. at = [n \in 0 .. LEVELS |-> IF n = 0 THEN Go(t, p) ELSE Raise(at[n - 1])]
  BY <1>4
<1>6. SetParentIndex(t, p) = at[LEVELS].tree
  BY DEF SetParentIndex
<1> HIDE DEF at
<1>7. 0 \in 0 .. LEVELS /\ \A n \in 1 .. LEVELS : n \in 0 .. LEVELS /\ n # 0
  BY <1>1
<1>8. at[0] = Go(t, p) /\ \A n \in 1 .. LEVELS : at[n] = Raise(at[n - 1])
  BY <1>5, <1>7
<1> QED BY <1>6, <1>8

LEMMA AdjustingIs ==
  ASSUME NEW t, NEW p
  PROVE  \E at : /\ at[0] = Go(t, p)
                 /\ \A n \in 1 .. LEVELS : at[n] = Turn(at[n - 1])
                 /\ Adjust(t, p) = at[LEVELS].tree
PROOF
<1>1. LEVELS \in Nat
  BY PageAssumption
<1>2. PICK f : Steps(f, "adjust", 0, 0, Go(t, p), LEVELS)
  BY <1>1, StepsExist
<1>3. \A x : Step("adjust", 0, 0, x) = Turn(x)
  BY DEF Step
<1>4. f = [n \in 0 .. LEVELS |-> IF n = 0 THEN Go(t, p) ELSE Turn(f[n - 1])]
  BY <1>2, <1>3 DEF Steps
<1> DEFINE at == CHOOSE at : at = [n \in 0 .. LEVELS |-> IF n = 0 THEN Go(t, p) ELSE Turn(at[n - 1])]
<1>5. at = [n \in 0 .. LEVELS |-> IF n = 0 THEN Go(t, p) ELSE Turn(at[n - 1])]
  BY <1>4
<1>6. Adjust(t, p) = at[LEVELS].tree
  BY DEF Adjust, Turn
<1> HIDE DEF at
<1>7. 0 \in 0 .. LEVELS /\ \A n \in 1 .. LEVELS : n \in 0 .. LEVELS /\ n # 0
  BY <1>1
<1>8. at[0] = Go(t, p) /\ \A n \in 1 .. LEVELS : at[n] = Turn(at[n - 1])
  BY <1>5, <1>7
<1> QED BY <1>6, <1>8

MoveLasts(t, p, q, n) == Repeat(MoveLast, t, p, q, n)

LEMMA MovingLastIs ==
  ASSUME NEW t, NEW p, NEW q, NEW N \in Nat
  PROVE  \E at : /\ at[0] = t
                 /\ \A n \in 1 .. N : at[n] = MoveLast(at[n - 1], p, q)
                 /\ MoveLasts(t, p, q, N) = at[N]
PROOF
<1>1. N \in Nat
  BY N \in Nat
<1>2. PICK f : Steps(f, "last", p, q, t, N)
  BY <1>1, StepsExist
<1>3. \A x : Step("last", p, q, x) = MoveLast(x, p, q)
  BY DEF Step
<1>4. f = [n \in 0 .. N |-> IF n = 0 THEN t ELSE MoveLast(f[n - 1], p, q)]
  BY <1>2, <1>3 DEF Steps
<1> DEFINE at == CHOOSE at : at = [n \in 0 .. N |-> IF n = 0 THEN t ELSE MoveLast(at[n - 1], p, q)]
<1>5. at = [n \in 0 .. N |-> IF n = 0 THEN t ELSE MoveLast(at[n - 1], p, q)]
  BY <1>4
<1>6. MoveLasts(t, p, q, N) = at[N]
  BY DEF MoveLasts, Repeat
<1> HIDE DEF at
<1>7. 0 \in 0 .. N /\ \A n \in 1 .. N : n \in 0 .. N /\ n # 0
  BY <1>1
<1>8. at[0] = t /\ \A n \in 1 .. N : at[n] = MoveLast(at[n - 1], p, q)
  BY <1>5, <1>7
<1> QED BY <1>6, <1>8

MoveFirsts(t, p, q, n) == Repeat(MoveFirst, t, p, q, n)

LEMMA MovingFirstIs ==
  ASSUME NEW t, NEW p, NEW q, NEW N \in Nat
  PROVE  \E at : /\ at[0] = t
                 /\ \A n \in 1 .. N : at[n] = MoveFirst(at[n - 1], p, q)
                 /\ MoveFirsts(t, p, q, N) = at[N]
PROOF
<1>1. N \in Nat
  BY N \in Nat
<1>2. PICK f : Steps(f, "first", p, q, t, N)
  BY <1>1, StepsExist
<1>3. \A x : Step("first", p, q, x) = MoveFirst(x, p, q)
  BY DEF Step
<1>4. f = [n \in 0 .. N |-> IF n = 0 THEN t ELSE MoveFirst(f[n - 1], p, q)]
  BY <1>2, <1>3 DEF Steps
<1> DEFINE at == CHOOSE at : at = [n \in 0 .. N |-> IF n = 0 THEN t ELSE MoveFirst(at[n - 1], p, q)]
<1>5. at = [n \in 0 .. N |-> IF n = 0 THEN t ELSE MoveFirst(at[n - 1], p, q)]
  BY <1>4
<1>6. MoveFirsts(t, p, q, N) = at[N]
  BY DEF MoveFirsts, Repeat
<1> HIDE DEF at
<1>7. 0 \in 0 .. N /\ \A n \in 1 .. N : n \in 0 .. N /\ n # 0
  BY <1>1
<1>8. at[0] = t /\ \A n \in 1 .. N : at[n] = MoveFirst(at[n - 1], p, q)
  BY <1>5, <1>7
<1> QED BY <1>6, <1>8

LEMMA LevelIs ==
  ASSUME NEW t
  PROVE  \E at : /\ at[0] = {t.root} \ {NULL_ID}
                 /\ \A n \in 1 .. LEVELS : at[n] = LevelBelow(t, at[n - 1])
                 /\ Level(t) = at
PROOF
<1>1. LEVELS \in Nat
  BY PageAssumption
<1>2. PICK f : Steps(f, "level", t, 0, {t.root} \ {NULL_ID}, LEVELS)
  BY <1>1, StepsExist
<1>3. \A x : Step("level", t, 0, x) = LevelBelow(t, x)
  BY DEF Step
<1>4. f = [n \in 0 .. LEVELS |-> IF n = 0 THEN {t.root} \ {NULL_ID} ELSE LevelBelow(t, f[n - 1])]
  BY <1>2, <1>3 DEF Steps
<1> DEFINE at == CHOOSE at : at = [n \in 0 .. LEVELS |-> IF n = 0 THEN {t.root} \ {NULL_ID} ELSE LevelBelow(t, at[n - 1])]
<1>5. at = [n \in 0 .. LEVELS |-> IF n = 0 THEN {t.root} \ {NULL_ID} ELSE LevelBelow(t, at[n - 1])]
  BY <1>4
<1>6. Level(t) = at
  BY DEF Level, LevelBelow
<1> HIDE DEF at
<1>7. 0 \in 0 .. LEVELS /\ \A n \in 1 .. LEVELS : n \in 0 .. LEVELS /\ n # 0
  BY <1>1
<1>8. at[0] = {t.root} \ {NULL_ID} /\ \A n \in 1 .. LEVELS : at[n] = LevelBelow(t, at[n - 1])
  BY <1>5, <1>7
<1> QED BY <1>6, <1>8


-----------------------------------------------------------------------------
(* What holds of a tree within a call, too.  h gives the height of each    *)
(* page.  The pages in R hang below no other; the positions in X name a    *)
(* child that has been told of another parent.                             *)
TreeType == [root : Cell, used : SUBSET PageId, page : [PageId -> NodeType]]
Heights  == [PageId -> 0 .. LEVELS - 1]

Even(t, h, p) ==
  /\ Len(t.page[p].kids) = Len(t.page[p].keys)
  /\ t.page[p].leaf <=> h[p] = 0

Below(t, h, p, i) ==
  /\ t.page[p].kids[i] \in t.used
  /\ h[t.page[p].kids[i]] + 1 = h[p]

Known(t, p, i) ==
  /\ t.page[t.page[p].kids[i]].parent = p
  /\ t.page[t.page[p].kids[i]].place = i

Hung(t, c) ==
  /\ t.page[c].parent \in t.used
  /\ ~t.page[t.page[c].parent].leaf
  /\ t.page[c].place \in 1 .. Len(t.page[t.page[c].parent].keys)
  /\ t.page[t.page[c].parent].kids[t.page[c].place] = c

Links(t, h, R, X) ==
  /\ t \in TreeType
  /\ h \in Heights /\ R \subseteq t.used
  /\ \A p \in t.used : Even(t, h, p)
  /\ \A p \in t.used : \A i \in 1 .. Len(t.page[p].keys) :
       ~t.page[p].leaf => Below(t, h, p, i) /\ (<<p, i>> \in X \/ Known(t, p, i))
  /\ \A c \in t.used \ R : Hung(t, c)

(* An inner key is the last key of its child, which may just be emptied. *)
Top(t, p, i) ==
  t.page[t.page[p].kids[i]].keys # <<>> => t.page[p].keys[i] = LastKey(t, t.page[p].kids[i])

Tops(t, X) ==
  \A p \in t.used : \A i \in 1 .. Len(t.page[p].keys) :
    ~t.page[p].leaf => <<p, i>> \in X \/ Top(t, p, i)

(* From t to u only inner keys of pages in S may change. *)
SameNode(m, n) ==
  /\ m.parent = n.parent /\ m.place = n.place /\ m.next = n.next /\ m.leaf = n.leaf
  /\ m.kids = n.kids /\ Len(m.keys) = Len(n.keys)

Lifted(t, u, S) ==
  /\ u \in TreeType /\ u.root = t.root /\ u.used = t.used
  /\ \A y \in PageId : SameNode(u.page[y], t.page[y]) /\ (y \notin S => u.page[y] = t.page[y])

LEMMA LiftedLinks ==
  ASSUME NEW t, NEW u, NEW S, NEW h, NEW R, NEW X, Lifted(t, u, S), Links(t, h, R, X)
  PROVE  Links(u, h, R, X)
PROOF
<1> USE DEF Lifted, SameNode
<1>1. t.used \subseteq PageId /\ u.used = t.used
  BY DEF Links, TreeType
<1>2. ASSUME NEW p \in u.used PROVE Even(u, h, p)
  BY <1>1 DEF Links, Even
<1>3. ASSUME NEW p \in u.used, NEW i \in 1 .. Len(u.page[p].keys), ~u.page[p].leaf
      PROVE  Below(u, h, p, i) /\ (<<p, i>> \in X \/ Known(u, p, i))
  <2>1. p \in t.used /\ i \in 1 .. Len(t.page[p].keys) /\ ~t.page[p].leaf
    BY <1>1, <1>3
  <2>2. Below(t, h, p, i) /\ (<<p, i>> \in X \/ Known(t, p, i))
    BY <2>1 DEF Links
  <2> QED BY <2>1, <2>2, <1>1 DEF Below, Known
<1>4. ASSUME NEW c \in u.used \ R PROVE Hung(u, c)
  <2>1. Hung(t, c)
    BY <1>1 DEF Links
  <2> QED BY <2>1, <1>1 DEF Hung
<1> QED BY <1>2, <1>3, <1>4 DEF Links

LEMMA LiftedTwice ==
  ASSUME NEW t, NEW u, NEW v, NEW S, Lifted(t, u, S), Lifted(u, v, S)
  PROVE  Lifted(t, v, S)
PROOF
<1> QED BY DEF Lifted, SameNode

LEMMA LiftedSame ==
  ASSUME NEW t \in TreeType, NEW S
  PROVE  Lifted(t, t, S)
PROOF
<1> QED BY DEF Lifted, SameNode

(* Writing one inner key. *)
LEMMA KeyWritten ==
  ASSUME NEW t \in TreeType, NEW q \in PageId, NEW i \in 1 .. Len(t.page[q].keys), NEW x \in Key,
         NEW S, q \in S
  PROVE  LET u == [t EXCEPT !.page[q].keys[i] = x]
         IN /\ Lifted(t, u, S)
            /\ \A y \in PageId \ {q} : u.page[y] = t.page[y]
            /\ u.page[q].keys[i] = x
            /\ \A j \in 1 .. Len(t.page[q].keys) : j # i => u.page[q].keys[j] = t.page[q].keys[j]
PROOF
<1> DEFINE u == [t EXCEPT !.page[q].keys[i] = x]
<1> DEFINE ks == [t.page[q].keys EXCEPT ![i] = x]
<1>1. t.page[q] \in NodeType /\ t.page[q].keys \in Seq(Key)
  BY DEF TreeType, NodeType
<1>2. ks \in Seq(Key) /\ Len(ks) = Len(t.page[q].keys)
  BY <1>1
<1>3. ks[i] = x /\ \A j \in 1 .. Len(t.page[q].keys) : j # i => ks[j] = t.page[q].keys[j]
  BY <1>1
<1> HIDE DEF ks
<1> DEFINE n == [t.page[q] EXCEPT !.keys = ks]
<1>4. /\ n \in NodeType /\ n.keys = ks /\ SameNode(n, t.page[q])
  BY <1>1, <1>2 DEF NodeType, SameNode
<1>5. u = [t EXCEPT !.page = [t.page EXCEPT ![q] = n]]
  BY DEF TreeType, NodeType, ks
<1> HIDE DEF n
<1>6. /\ u \in TreeType /\ u.root = t.root /\ u.used = t.used
      /\ u.page[q] = n /\ \A y \in PageId \ {q} : u.page[y] = t.page[y]
  BY <1>4, <1>5 DEF TreeType
<1> HIDE DEF u
<1>7. Lifted(t, u, S)
  BY <1>4, <1>6 DEF Lifted, SameNode
<1> QED BY <1>3, <1>4, <1>6, <1>7 DEF u


(* SetParentIndex(t, c) may be called: only the key that it writes first   *)
(* may be wrong.                                                           *)
Ready(t, h, c) ==
  /\ c \in t.used /\ t.page[c].keys # <<>>
  /\ \/ t.page[c].parent = NULL_ID /\ Tops(t, {})
     \/ /\ t.page[c].parent \in t.used
        /\ ~t.page[t.page[c].parent].leaf
        /\ h[t.page[c].parent] = h[c] + 1
        /\ t.page[c].place \in 1 .. Len(t.page[t.page[c].parent].keys)
        /\ Tops(t, {<<t.page[c].parent, t.page[c].place>>})
        /\ LastKey(t, t.page[t.page[c].parent].kids[t.page[c].place]) = LastKey(t, c)

Higher(t, h, n) == {y \in t.used : h[y] > n}

Orphans(t, h, R, n) == \A d \in R : h[d] <= n \/ t.page[d].parent = NULL_ID

LowAt(t, h, X, n) == \A y \in t.used : \A j \in 1 .. Len(t.page[y].keys) : <<y, j>> \in X => h[y] <= n

LEMMA LinkFacts ==
  ASSUME NEW t, NEW h, NEW R, NEW X, Links(t, h, R, X)
  PROVE  /\ t \in TreeType /\ t.used \subseteq PageId /\ t.root \in Cell
         /\ t.page \in [PageId -> NodeType] /\ h \in [PageId -> Nat]
         /\ \A p \in t.used : h[p] < LEVELS
         /\ \A p \in PageId : /\ t.page[p].keys \in Seq(Key) /\ t.page[p].leaf \in BOOLEAN
                              /\ t.page[p].kids \in Seq(Value \cup PageId)
                              /\ t.page[p].parent \in Cell
                              /\ Len(t.page[p].keys) \in Nat
         /\ NULL_ID \notin PageId
         /\ \A p \in t.used : Len(t.page[p].kids) = Len(t.page[p].keys)
PROOF
<1>1. t \in TreeType /\ h \in Heights /\ LEVELS \in Nat /\ PAGES \in Nat
  BY PageAssumption DEF Links
<1>2. /\ t.used \subseteq PageId /\ t.root \in Cell /\ t.page \in [PageId -> NodeType]
  BY <1>1 DEF TreeType
<1>3. h \in [PageId -> Nat] /\ \A p \in PageId : h[p] < LEVELS
  BY <1>1 DEF Heights
<1>4. NULL_ID \notin PageId
  BY <1>1 DEF NULL_ID, PageId
<1>5. ASSUME NEW p \in PageId
      PROVE  /\ t.page[p].keys \in Seq(Key) /\ t.page[p].leaf \in BOOLEAN
             /\ t.page[p].kids \in Seq(Value \cup PageId)
             /\ t.page[p].parent \in Cell
             /\ Len(t.page[p].keys) \in Nat
  <2>1. t.page[p] \in NodeType
    BY <1>2
  <2> QED BY <2>1 DEF NodeType
<1>6. \A p \in t.used : Len(t.page[p].kids) = Len(t.page[p].keys)
  BY DEF Links, Even
<1> QED BY <1>1, <1>2, <1>3, <1>4, <1>5, <1>6

LEMMA RaiseOnce ==
  ASSUME NEW t, NEW h, NEW R, NEW X, NEW c, Links(t, h, R, X), Ready(t, h, c),
         Orphans(t, h, R, h[c]), LowAt(t, h, X, h[c]), NEW s, s = Raise(Go(t, c))
  PROVE  /\ Lifted(t, s.tree, Higher(t, h, h[c]))
         /\ \/ s.page = NULL_ID /\ Tops(s.tree, {})
            \/ s.page \in t.used /\ h[s.page] = h[c] + 1 /\ Ready(s.tree, h, s.page)
PROOF
<1> DEFINE q == t.page[c].parent
           i == t.page[c].place
           S == Higher(t, h, h[c])
           u == [t EXCEPT !.page[q].keys[i] = LastKey(t, c)]
<1>0. /\ t \in TreeType /\ c \in t.used /\ c \in PageId /\ c # NULL_ID /\ h[c] \in Nat
      /\ t.used \subseteq PageId
  BY LinkFacts DEF Ready
<1>1. CASE q = NULL_ID
  <2>1. s = Done(t)
    BY <1>1, <1>0 DEF Raise, Go, Done
  <2>2. s.page = NULL_ID /\ s.tree = t
    BY <2>1 DEF Done, Go
  <2>3. Tops(t, {})
    BY <1>1, <1>0, LinkFacts DEF Ready
  <2> QED BY <2>2, <2>3, <1>0, LiftedSame
<1>2. CASE q # NULL_ID
  <2>1. /\ q \in t.used /\ ~t.page[q].leaf /\ h[q] = h[c] + 1
        /\ i \in 1 .. Len(t.page[q].keys) /\ Tops(t, {<<q, i>>})
        /\ LastKey(t, t.page[q].kids[i]) = LastKey(t, c)
    BY <1>2 DEF Ready
  <2>2. /\ q \in PageId /\ q # NULL_ID /\ q \in S /\ q # c /\ h[q] > h[c]
    BY <2>1, <1>0, LinkFacts DEF Higher
  <2>3. LastKey(t, c) \in Key
    <3>1. t.page[c].keys \in Seq(Key) /\ t.page[c].keys # <<>>
      BY <1>0, LinkFacts DEF Ready
    <3>2. t.page[c].keys[Len(t.page[c].keys)] \in Key
      BY <3>1
    <3> QED BY <3>2 DEF LastKey, Size
  <2>4. /\ Lifted(t, u, S)
        /\ \A y \in PageId \ {q} : u.page[y] = t.page[y]
        /\ u.page[q].keys[i] = LastKey(t, c)
        /\ \A j \in 1 .. Len(t.page[q].keys) : j # i => u.page[q].keys[j] = t.page[q].keys[j]
    <3> DEFINE x == LastKey(t, c)
    <3>1. x \in Key /\ t \in TreeType /\ q \in PageId /\ i \in 1 .. Len(t.page[q].keys) /\ q \in S
      BY <1>0, <2>1, <2>2, <2>3
    <3>2. u = [t EXCEPT !.page[q].keys[i] = x]
      OBVIOUS
    <3> HIDE DEF x, S, q, i, u
    <3>3. /\ Lifted(t, u, S)
          /\ \A y \in PageId \ {q} : u.page[y] = t.page[y]
          /\ u.page[q].keys[i] = x
          /\ \A j \in 1 .. Len(t.page[q].keys) : j # i => u.page[q].keys[j] = t.page[q].keys[j]
      BY <3>1, <3>2, KeyWritten
    <3> QED BY <3>3 DEF x
  <2>5. s = IF i = Size(t, q) THEN Go(u, q) ELSE Done(u)
    BY <1>0, <1>2 DEF Raise, Go, Done
  <2>6. s.tree = u /\ s.page = IF i = Size(t, q) THEN q ELSE NULL_ID
    BY <2>5 DEF Done, Go
  <2> HIDE DEF u
  <2>7. /\ u.used = t.used
        /\ \A y \in PageId : /\ u.page[y].leaf = t.page[y].leaf /\ u.page[y].kids = t.page[y].kids
                             /\ Len(u.page[y].keys) = Len(t.page[y].keys)
                             /\ u.page[y].parent = t.page[y].parent
                             /\ u.page[y].place = t.page[y].place
    BY <2>4 DEF Lifted, SameNode
  \* Whose last key is a different one now.
  <2>8. ASSUME NEW d \in PageId, d # q \/ i # Size(t, q)
        PROVE  LastKey(u, d) = LastKey(t, d)
    <3>1. CASE d # q
      BY <3>1, <2>4 DEF LastKey, Size
    <3>2. CASE d = q
      <4>1. /\ Len(t.page[q].keys) \in Nat /\ Len(t.page[q].keys) # 0
        BY <2>1, <2>2, LinkFacts
      <4>2. /\ Len(t.page[q].keys) \in 1 .. Len(t.page[q].keys)
            /\ Len(t.page[q].keys) # i
        BY <3>2, <4>1, <2>8 DEF Size
      <4> QED BY <3>2, <4>2, <2>4, <2>7, <2>2 DEF LastKey, Size
    <3> QED BY <3>1, <3>2
  \* Where the last key of q is repeated.
  <2>9. ASSUME NEW y \in t.used, NEW j \in 1 .. Len(t.page[y].keys), ~t.page[y].leaf,
               t.page[y].kids[j] = q
        PROVE  t.page[q].parent = y /\ t.page[q].place = j
    <3>1. Below(t, h, y, j) /\ (<<y, j>> \in X \/ Known(t, y, j))
      BY <2>9 DEF Links
    <3>2. h[y] = h[q] + 1 /\ h[y] \in Nat /\ h[q] \in Nat
      BY <3>1, <2>9, <2>2, LinkFacts DEF Below
    <3>3. <<y, j>> \notin X
      BY <3>2, <2>2, <1>0 DEF LowAt
    <3> QED BY <3>1, <3>3, <2>9 DEF Known
  <2>10. ASSUME NEW y \in u.used, NEW j \in 1 .. Len(u.page[y].keys), ~u.page[y].leaf,
                t.page[y].kids[j] # q \/ i # Size(t, q)
         PROVE  Top(u, y, j)
    <3>1. /\ y \in t.used /\ y \in PageId /\ j \in 1 .. Len(t.page[y].keys) /\ ~t.page[y].leaf
          /\ u.page[y].kids[j] = t.page[y].kids[j]
      BY <2>7, <2>10, <1>0
    <3>2. t.page[y].kids[j] \in PageId
      BY <3>1, <1>0 DEF Links, Below
    <3>3. LastKey(u, u.page[y].kids[j]) = LastKey(t, t.page[y].kids[j])
      BY <3>1, <3>2, <2>8, <2>10
    <3>4. CASE y = q /\ j = i
      BY <3>4, <3>3, <2>1, <2>4 DEF Top
    <3>5. CASE ~(y = q /\ j = i)
      <4>1. u.page[y].keys[j] = t.page[y].keys[j]
        BY <3>5, <3>1, <2>4
      <4>2. <<y, j>> # <<q, i>>
        BY <3>5
      <4>3. Top(t, y, j)
        BY <4>2, <3>1, <2>1 DEF Tops
      <4>4. Len(u.page[t.page[y].kids[j]].keys) = Len(t.page[t.page[y].kids[j]].keys)
        BY <3>2, <2>7
      <4>5. u.page[t.page[y].kids[j]].keys # <<>> => t.page[t.page[y].kids[j]].keys # <<>>
        <5> DEFINE a == u.page[t.page[y].kids[j]].keys
                   b == t.page[t.page[y].kids[j]].keys
        <5>1. u \in TreeType /\ a \in Seq(Key)
          BY <3>2, <2>4 DEF Lifted, TreeType, NodeType
        <5>2. b \in Seq(Key) /\ Len(a) = Len(b)
          BY <3>2, <4>4, <1>0 DEF TreeType, NodeType
        <5> HIDE DEF a, b
        <5>3. a # <<>> => b # <<>>
          BY <5>1, <5>2
        <5> QED BY <5>3 DEF a, b
      <4>6. u.page[y].kids[j] = t.page[y].kids[j]
        BY <3>1
      <4> QED BY <4>1, <4>3, <4>5, <4>6, <3>3 DEF Top
    <3> QED BY <3>4, <3>5
  <2>11. CASE i # Size(t, q)
    <3>1. Tops(u, {})
      BY <2>10, <2>11 DEF Tops
    <3> QED BY <3>1, <2>4, <2>6, <2>11
  <2>12. CASE i = Size(t, q)
    <3>1. s.page = q /\ u.page[q].keys # <<>>
      <4>1. Len(u.page[q].keys) = Len(t.page[q].keys) /\ Len(t.page[q].keys) \in Nat
            /\ Len(t.page[q].keys) # 0
        BY <2>1, <2>2, <2>7, LinkFacts
      <4> QED BY <4>1, <2>12, <2>6
    <3>2. CASE t.page[q].parent = NULL_ID
      <4>1. ASSUME NEW y \in u.used, NEW j \in 1 .. Len(u.page[y].keys), ~u.page[y].leaf
            PROVE  Top(u, y, j)
        <5>1. t.page[y].kids[j] # q
          <6>1. y \in t.used /\ j \in 1 .. Len(t.page[y].keys) /\ ~t.page[y].leaf /\ y # NULL_ID
            BY <2>7, <4>1, <1>0, LinkFacts
          <6> QED BY <6>1, <2>9, <3>2
        <5> QED BY <5>1, <4>1, <2>10
      <4>2. Tops(u, {})
        BY <4>1 DEF Tops
      <4> QED BY <4>2, <3>1, <3>2, <2>7, <2>1, <2>2, <2>4, <2>6 DEF Ready
    <3>3. CASE t.page[q].parent # NULL_ID
      <4> DEFINE r == t.page[q].parent
                 a == t.page[q].place
      <4>1. q \notin R
        BY <3>3, <2>1, <1>0 DEF Orphans
      <4>2. Hung(t, q)
        BY <4>1, <2>1 DEF Links
      <4>3. /\ r \in t.used /\ ~t.page[r].leaf /\ a \in 1 .. Len(t.page[r].keys)
            /\ t.page[r].kids[a] = q /\ r \in PageId
        BY <4>2, <1>0 DEF Hung
      <4>4. Below(t, h, r, a)
        BY <4>3 DEF Links
      <4>5. h[r] = h[q] + 1
        BY <4>3, <4>4 DEF Below
      <4>6. ASSUME NEW y \in u.used, NEW j \in 1 .. Len(u.page[y].keys), ~u.page[y].leaf,
                   <<y, j>> # <<r, a>>
            PROVE  Top(u, y, j)
        <5>1. t.page[y].kids[j] # q
          <6>1. y \in t.used /\ j \in 1 .. Len(t.page[y].keys) /\ ~t.page[y].leaf
            BY <2>7, <4>6, <1>0
          <6> QED BY <6>1, <2>9, <4>6
        <5> QED BY <5>1, <4>6, <2>10
      <4>7. Tops(u, {<<r, a>>})
        BY <4>6 DEF Tops
      <4>8. u.page[q].parent = r /\ u.page[q].place = a
        BY <2>7, <2>2
      <4>9. /\ u.page[r].kids[a] = q /\ Len(u.page[r].keys) = Len(t.page[r].keys)
            /\ u.page[r].leaf = t.page[r].leaf
        BY <2>7, <4>3
      <4>10. Ready(u, h, q)
        BY <4>3, <4>5, <4>7, <4>8, <4>9, <3>1, <2>1, <2>7 DEF Ready
      <4> QED BY <4>10, <3>1, <2>1, <2>4, <2>6
    <3> QED BY <3>2, <3>3
  <2> QED BY <2>11, <2>12
<1> QED BY <1>1, <1>2


(* SetParentIndex leaves every inner key right. *)
LEMMA Raised ==
  ASSUME NEW t, NEW h, NEW R, NEW X, NEW c, Links(t, h, R, X), Ready(t, h, c),
         Orphans(t, h, R, h[c]), LowAt(t, h, X, h[c])
  PROVE  LET u == SetParentIndex(t, c)
         IN Lifted(t, u, Higher(t, h, h[c])) /\ Tops(u, {})
PROOF
<1> DEFINE S == Higher(t, h, h[c])
<1>1. PICK at : /\ at[0] = Go(t, c)
                /\ \A n \in 1 .. LEVELS : at[n] = Raise(at[n - 1])
                /\ SetParentIndex(t, c) = at[LEVELS].tree
  BY RaisingIs
<1> DEFINE Turns(n, d) ==
             /\ d \in t.used /\ h[d] >= h[c] + n /\ Ready(at[n].tree, h, d)
             /\ at[n] = Go(at[n].tree, d)
           T == {n \in 0 .. LEVELS :
                   /\ Lifted(t, at[n].tree, S)
                   /\ \/ at[n].page = NULL_ID /\ Tops(at[n].tree, {})
                      \/ Turns(n, at[n].page)}
<1>2. /\ LEVELS \in Nat /\ c \in t.used /\ h[c] \in Nat /\ t \in TreeType
      /\ \A d \in t.used : h[d] \in Nat /\ h[d] < LEVELS /\ d # NULL_ID
  BY PageAssumption, LinkFacts DEF Ready
<1>3. 0 \in T
  <2>1. at[0].tree = t /\ at[0].page = c
    BY <1>1 DEF Go
  <2>2. Lifted(t, t, S)
    BY <1>2, LiftedSame
  <2> QED BY <2>1, <2>2, <1>1, <1>2
<1>4. ASSUME NEW n \in 0 .. LEVELS - 1, n \in T PROVE n + 1 \in T
  <2>1. /\ n + 1 \in 1 .. LEVELS /\ n + 1 - 1 = n /\ n \in Nat /\ n + 1 \in 0 .. LEVELS
    BY <1>2
  <2>2. at[n + 1] = Raise(at[n])
    BY <1>1, <2>1
  <2>3. Lifted(t, at[n].tree, S)
    BY <1>4
  <2>4. CASE at[n].page = NULL_ID
    <3>1. at[n + 1] = at[n]
      BY <2>2, <2>4 DEF Raise
    <3>2. ~Turns(n, at[n].page)
      BY <2>4, <1>2
    <3>3. Tops(at[n].tree, {})
      BY <3>2, <1>4
    <3> QED BY <3>1, <3>3, <2>1, <2>3, <2>4
  <2>5. CASE at[n].page # NULL_ID
    <3> DEFINE d == at[n].page
               v == at[n].tree
               s == at[n + 1]
    <3>1. /\ d \in t.used /\ h[d] >= h[c] + n /\ Ready(v, h, d) /\ at[n] = Go(v, d)
      BY <1>4, <2>5
    <3> HIDE DEF d, v, s
    <3>2. s = Raise(Go(v, d))
      BY <2>2, <3>1 DEF s
    <3>3. Lifted(t, v, S)
      BY <2>3 DEF v
    <3>4. Links(v, h, R, X)
      BY <3>3, LiftedLinks
    <3>5. h[d] \in Nat /\ h[d] >= h[c]
      BY <3>1, <1>2, <2>1
    <3>6. Orphans(v, h, R, h[d])
      <4> SUFFICES ASSUME NEW x \in R, ~(h[x] <= h[d]) PROVE v.page[x].parent = NULL_ID
        BY DEF Orphans
      <4>1. CASE x \in PageId
        <5>1. h[x] \in Nat
          BY <4>1, LinkFacts
        <5>2. t.page[x].parent = NULL_ID
          BY <5>1, <3>5, <1>2 DEF Orphans
        <5> QED BY <5>2, <4>1, <3>3 DEF Lifted, SameNode
      <4>2. CASE x \notin PageId
        <5> QED BY <4>2, LinkFacts DEF Links
      <4> QED BY <4>1, <4>2
    <3>7. LowAt(v, h, X, h[d])
      <4> SUFFICES ASSUME NEW y \in v.used, NEW j \in 1 .. Len(v.page[y].keys), <<y, j>> \in X
                   PROVE  h[y] <= h[d]
        BY DEF LowAt
      <4>1. y \in t.used /\ y \in PageId
        BY <3>3, LinkFacts DEF Lifted
      <4>2. j \in 1 .. Len(t.page[y].keys)
        BY <4>1, <3>3 DEF Lifted, SameNode
      <4>3. h[y] <= h[c] /\ h[y] \in Nat
        BY <4>1, <4>2, <1>2 DEF LowAt
      <4> QED BY <4>3, <3>5, <1>2
    <3>8. /\ Lifted(v, s.tree, Higher(v, h, h[d]))
          /\ \/ s.page = NULL_ID /\ Tops(s.tree, {})
             \/ s.page \in v.used /\ h[s.page] = h[d] + 1 /\ Ready(s.tree, h, s.page)
      BY <3>1, <3>2, <3>4, <3>6, <3>7, RaiseOnce
    <3>9. Higher(v, h, h[d]) \subseteq S
      BY <3>3, <3>5, <1>2 DEF Higher, Lifted
    <3>10. Lifted(v, s.tree, S)
      BY <3>8, <3>9 DEF Lifted
    <3>11. Lifted(t, s.tree, S)
      BY <3>3, <3>10, LiftedTwice
    <3>12. CASE s.page = NULL_ID /\ Tops(s.tree, {})
      BY <3>11, <3>12, <2>1 DEF s
    <3>13. CASE s.page \in v.used /\ h[s.page] = h[d] + 1 /\ Ready(s.tree, h, s.page)
      <4>1. s.page \in t.used /\ h[s.page] >= h[c] + (n + 1)
        BY <3>13, <3>1, <3>3, <3>5, <1>2, <2>1 DEF Lifted
      <4>2. s = Go(s.tree, s.page)
        <5>1. \E x, y : s = Go(x, y)
          BY <3>2 DEF Raise, Done, Go
        <5> QED BY <5>1 DEF Go
      <4> QED BY <4>1, <4>2, <3>11, <3>13, <2>1 DEF s
    <3> QED BY <3>8, <3>12, <3>13
  <2> QED BY <2>4, <2>5
<1> HIDE DEF T
<1>5. LEVELS \in T
  <2>1. LEVELS \in 0 .. LEVELS
    BY <1>2
  <2> QED BY <2>1, <1>2, <1>3, <1>4, UpTo
<1>6. ~Turns(LEVELS, at[LEVELS].page)
  BY <1>2
<1>7. Lifted(t, at[LEVELS].tree, S) /\ Tops(at[LEVELS].tree, {})
  BY <1>5, <1>6 DEF T
<1> QED BY <1>1, <1>7


-----------------------------------------------------------------------------
(* Writing the entries of one page.                                        *)
Inserts(r, S, s, i, e) ==
  /\ r \in Seq(S) /\ Len(r) = Len(s) + 1 /\ r[i] = e
  /\ \A j \in 1 .. Len(s) + 1 : /\ j < i => r[j] = s[j]
                                /\ j > i => r[j] = s[j - 1]

TakesOut(r, S, s, i) ==
  /\ r \in Seq(S) /\ Len(r) = Len(s) - 1
  /\ \A j \in 1 .. Len(s) - 1 : /\ j < i => r[j] = s[j]
                                /\ j >= i => r[j] = s[j + 1]

LEMMA Inserted ==
  ASSUME NEW S, NEW s \in Seq(S), NEW i \in 1 .. Len(s) + 1, NEW e \in S
  PROVE  Inserts(Seqs!InsertAt(s, i, e), S, s, i, e)
PROOF
<1> DEFINE a == SubSeq(s, 1, i - 1)
           b == SubSeq(s, i, Len(s))
           r == a \o <<e>> \o b
<1>1. Len(s) \in Nat /\ i \in Nat
  OBVIOUS
<1>2. /\ a \in Seq(S) /\ Len(a) = i - 1 /\ \A j \in 1 .. i - 1 : a[j] = s[j]
  BY <1>1
<1>3. /\ b \in Seq(S) /\ Len(b) = Len(s) - i + 1 /\ \A j \in 1 .. Len(s) - i + 1 : b[j] = s[i + j - 1]
  BY <1>1
<1> HIDE DEF a, b
<1> DEFINE c == a \o <<e>>
<1>4. c \in Seq(S) /\ Len(c) = i
  BY <1>1, <1>2
<1>5. c[i] = e /\ \A j \in 1 .. i - 1 : c[j] = s[j]
  BY <1>1, <1>2
<1> HIDE DEF c
<1>6. c \o b \in Seq(S) /\ Len(c \o b) = Len(s) + 1
  BY <1>1, <1>3, <1>4
<1>7. \A j \in 1 .. Len(s) + 1 : (c \o b)[j] = IF j <= i THEN c[j] ELSE b[j - i]
  <2>1. Len(b) \in Nat /\ Len(c) + Len(b) = Len(s) + 1
    BY <1>1, <1>3, <1>4
  <2> QED BY <2>1, <1>1, <1>3, <1>4
<1>8. (c \o b)[i] = e
  <2>1. i \in 1 .. Len(s) + 1 /\ i <= i
    BY <1>1
  <2>2. (c \o b)[i] = c[i]
    BY <2>1, <1>7
  <2> QED BY <2>2, <1>5
<1>9. ASSUME NEW j \in 1 .. Len(s) + 1, j < i PROVE (c \o b)[j] = s[j]
  <2>1. j \in 1 .. i - 1 /\ j <= i
    BY <1>1, <1>9
  <2> QED BY <2>1, <1>5, <1>7
<1>10. ASSUME NEW j \in 1 .. Len(s) + 1, j > i PROVE (c \o b)[j] = s[j - 1]
  <2> DEFINE k == j - i
  <2>1. k \in 1 .. Len(s) - i + 1 /\ i + k - 1 = j - 1 /\ ~(j <= i)
    BY <1>1, <1>10
  <2>2. (c \o b)[j] = b[k]
    BY <2>1, <1>7
  <2> HIDE DEF k
  <2>3. b[k] = s[i + k - 1]
    BY <2>1, <1>3
  <2> QED BY <2>1, <2>2, <2>3
<1>11. Seqs!InsertAt(s, i, e) = c \o b
  BY DEF a, b, c, Seqs!InsertAt
<1>12. Inserts(c \o b, S, s, i, e)
  BY <1>6, <1>8, <1>9, <1>10 DEF Inserts
<1> QED BY <1>11, <1>12

LEMMA TakenOut ==
  ASSUME NEW S, NEW s \in Seq(S), NEW i \in 1 .. Len(s)
  PROVE  TakesOut(Seqs!RemoveAt(s, i), S, s, i)
PROOF
<1> DEFINE a == SubSeq(s, 1, i - 1)
           b == SubSeq(s, i + 1, Len(s))
           r == a \o b
<1>1. Len(s) \in Nat /\ i \in Nat
  OBVIOUS
<1>2. /\ a \in Seq(S) /\ Len(a) = i - 1 /\ \A j \in 1 .. i - 1 : a[j] = s[j]
  BY <1>1
<1>3. /\ b \in Seq(S) /\ Len(b) = Len(s) - i /\ \A j \in 1 .. Len(s) - i : b[j] = s[i + j]
  BY <1>1
<1> HIDE DEF a, b
<1>5. Len(a) + Len(b) = Len(s) - 1 /\ Len(a) \in Nat /\ Len(b) \in Nat
  BY <1>1, <1>2, <1>3
<1>6. r \in Seq(S) /\ Len(r) = Len(s) - 1
  <2>1. a \in Seq(S) /\ b \in Seq(S)
    BY <1>2, <1>3
  <2>2. a \o b \in Seq(S) /\ Len(a \o b) = Len(a) + Len(b)
    BY <2>1
  <2> QED BY <2>2, <1>5
<1>7. \A j \in 1 .. Len(s) - 1 : r[j] = IF j <= i - 1 THEN a[j] ELSE b[j - (i - 1)]
  BY <1>2, <1>3, <1>5
<1>8. Seqs!RemoveAt(s, i) = r
  BY DEF a, b, Seqs!RemoveAt
<1> HIDE DEF r
<1>9. ASSUME NEW j \in 1 .. Len(s) - 1, j < i PROVE r[j] = s[j]
  BY <1>1, <1>2, <1>7, <1>9
<1>10. ASSUME NEW j \in 1 .. Len(s) - 1, j >= i PROVE r[j] = s[j + 1]
  <2> DEFINE k == j - (i - 1)
  <2>1. k \in 1 .. Len(s) - i /\ i + k = j + 1 /\ ~(j <= i - 1)
    BY <1>1, <1>10
  <2>2. r[j] = b[k]
    BY <2>1, <1>7
  <2> HIDE DEF k
  <2>3. b[k] = s[i + k]
    BY <2>1, <1>3
  <2> QED BY <2>1, <2>2, <2>3
<1>11. TakesOut(r, S, s, i)
  BY <1>6, <1>9, <1>10 DEF TakesOut
<1> QED BY <1>8, <1>11

(* r is s with e at i; r is s without its entry at i.  n is s's length.    *)
With(r, s, i, e, n) ==
  /\ n \in Nat /\ Len(s) = n /\ Len(r) = n + 1 /\ i \in 1 .. n + 1 /\ r[i] = e
  /\ \A j \in 1 .. n : /\ j < i => r[j] = s[j]
                       /\ j >= i => r[j + 1] = s[j]

Without(r, s, i, n) ==
  /\ n \in Nat \ {0} /\ Len(s) = n /\ Len(r) = n - 1 /\ i \in 1 .. n
  /\ \A j \in 1 .. n : /\ j < i => r[j] = s[j]
                       /\ j > i => r[j - 1] = s[j]

LEMMA WithIs ==
  ASSUME NEW S, NEW s \in Seq(S), NEW n, n = Len(s), NEW i \in 1 .. n + 1, NEW e \in S
  PROVE  Seqs!InsertAt(s, i, e) \in Seq(S) /\ With(Seqs!InsertAt(s, i, e), s, i, e, n)
PROOF
<1> DEFINE r == Seqs!InsertAt(s, i, e)
<1>1. n \in Nat /\ i \in 1 .. Len(s) + 1
  OBVIOUS
<1>0. Inserts(r, S, s, i, e)
  BY <1>1, Inserted
<1> HIDE DEF r
<1>2. /\ r \in Seq(S) /\ Len(r) = Len(s) + 1 /\ r[i] = e
      /\ \A j \in 1 .. Len(s) + 1 : /\ j < i => r[j] = s[j]
                                    /\ j > i => r[j] = s[j - 1]
  BY <1>0 DEF Inserts
<1>3. ASSUME NEW j \in 1 .. n PROVE (j < i => r[j] = s[j]) /\ (j >= i => r[j + 1] = s[j])
  <2>1. j \in 1 .. Len(s) + 1 /\ j + 1 \in 1 .. Len(s) + 1 /\ j + 1 - 1 = j
    BY <1>1
  <2>2. j >= i => j + 1 > i
    BY <1>1
  <2> QED BY <1>2, <2>1, <2>2
<1>4. With(r, s, i, e, n)
  BY <1>1, <1>2, <1>3 DEF With
<1> QED BY <1>2, <1>4 DEF r

LEMMA WithoutIs ==
  ASSUME NEW S, NEW s \in Seq(S), NEW n, n = Len(s), NEW i \in 1 .. n
  PROVE  Seqs!RemoveAt(s, i) \in Seq(S) /\ Without(Seqs!RemoveAt(s, i), s, i, n)
PROOF
<1> DEFINE r == Seqs!RemoveAt(s, i)
<1>1. n \in Nat /\ i \in 1 .. Len(s) /\ n # 0
  OBVIOUS
<1>0. TakesOut(r, S, s, i)
  BY <1>1, TakenOut
<1> HIDE DEF r
<1>2. /\ r \in Seq(S) /\ Len(r) = Len(s) - 1
      /\ \A j \in 1 .. Len(s) - 1 : /\ j < i => r[j] = s[j]
                                    /\ j >= i => r[j] = s[j + 1]
  BY <1>0 DEF TakesOut
<1>3. ASSUME NEW j \in 1 .. n PROVE (j < i => r[j] = s[j]) /\ (j > i => r[j - 1] = s[j])
  <2>1. j < i => j \in 1 .. Len(s) - 1
    BY <1>1
  <2>2. j > i => j - 1 \in 1 .. Len(s) - 1 /\ j - 1 >= i /\ j - 1 + 1 = j
    BY <1>1
  <2> QED BY <1>2, <2>1, <2>2
<1>4. Without(r, s, i, n)
  BY <1>1, <1>2, <1>3 DEF Without
<1> QED BY <1>2, <1>4 DEF r

(* Where each entry was, and where it is. *)
WithPlaces(r, s, i, n) ==
  /\ \A j \in 1 .. n + 1 : j # i => \E l \in 1 .. n : l = (IF j < i THEN j ELSE j - 1) /\ r[j] = s[l]
  /\ \A l \in 1 .. n : \E j \in 1 .. n + 1 : j = (IF l < i THEN l ELSE l + 1) /\ j # i /\ r[j] = s[l]

WithoutPlaces(r, s, i, n) ==
  /\ \A j \in 1 .. n - 1 : \E l \in 1 .. n : l = (IF j < i THEN j ELSE j + 1) /\ l # i /\ r[j] = s[l]
  /\ \A l \in 1 .. n : l # i => \E j \in 1 .. n - 1 : j = (IF l < i THEN l ELSE l - 1) /\ r[j] = s[l]

LEMMA WithAt ==
  ASSUME NEW r, NEW s, NEW i, NEW e, NEW n, With(r, s, i, e, n)
  PROVE  WithPlaces(r, s, i, n)
PROOF
<1>1. n \in Nat /\ i \in 1 .. n + 1
  BY DEF With
<1>2. ASSUME NEW j \in 1 .. n + 1, j # i
      PROVE  \E l \in 1 .. n : l = (IF j < i THEN j ELSE j - 1) /\ r[j] = s[l]
  <2>1. CASE j < i
    <3>1. j \in 1 .. n
      BY <2>1, <1>1
    <3> QED BY <2>1, <3>1 DEF With
  <2>2. CASE ~(j < i)
    <3>1. j - 1 \in 1 .. n /\ j - 1 >= i /\ j - 1 + 1 = j
      BY <2>2, <1>1, <1>2
    <3> DEFINE l == j - 1
    <3>2. l \in 1 .. n /\ l >= i /\ l + 1 = j
      BY <3>1
    <3> HIDE DEF l
    <3>3. r[l + 1] = s[l]
      BY <3>2 DEF With
    <3> QED BY <2>2, <3>2, <3>3 DEF l
  <2> QED BY <2>1, <2>2
<1>3. ASSUME NEW l \in 1 .. n
      PROVE  \E j \in 1 .. n + 1 : j = (IF l < i THEN l ELSE l + 1) /\ j # i /\ r[j] = s[l]
  <2>1. CASE l < i
    <3>1. l \in 1 .. n + 1 /\ l # i /\ r[l] = s[l]
      BY <2>1, <1>1 DEF With
    <3> QED BY <2>1, <3>1
  <2>2. CASE ~(l < i)
    <3>1. l + 1 \in 1 .. n + 1 /\ l >= i /\ l + 1 # i
      BY <2>2, <1>1
    <3>2. r[l + 1] = s[l]
      BY <3>1 DEF With
    <3> QED BY <2>2, <3>1, <3>2
  <2> QED BY <2>1, <2>2
<1> QED BY <1>2, <1>3 DEF WithPlaces

LEMMA WithoutAt ==
  ASSUME NEW r, NEW s, NEW i, NEW n, Without(r, s, i, n)
  PROVE  WithoutPlaces(r, s, i, n)
PROOF
<1>1. n \in Nat /\ i \in 1 .. n
  BY DEF Without
<1>2. ASSUME NEW j \in 1 .. n - 1
      PROVE  \E l \in 1 .. n : l = (IF j < i THEN j ELSE j + 1) /\ l # i /\ r[j] = s[l]
  <2>1. CASE j < i
    <3>1. j \in 1 .. n /\ j # i /\ r[j] = s[j]
      BY <2>1, <1>1 DEF Without
    <3> QED BY <2>1, <3>1
  <2>2. CASE ~(j < i)
    <3> DEFINE l == j + 1
    <3>2. l \in 1 .. n /\ l > i /\ l - 1 = j /\ l # i
      BY <2>2, <1>1
    <3> HIDE DEF l
    <3>3. r[l - 1] = s[l]
      BY <3>2 DEF Without
    <3> QED BY <2>2, <3>2, <3>3 DEF l
  <2> QED BY <2>1, <2>2
<1>3. ASSUME NEW l \in 1 .. n, l # i
      PROVE  \E j \in 1 .. n - 1 : j = (IF l < i THEN l ELSE l - 1) /\ r[j] = s[l]
  <2>1. CASE l < i
    <3>1. l \in 1 .. n - 1 /\ r[l] = s[l]
      BY <2>1, <1>1 DEF Without
    <3> QED BY <2>1, <3>1
  <2>2. CASE ~(l < i)
    <3>1. l - 1 \in 1 .. n - 1 /\ l > i
      BY <2>2, <1>1, <1>3
    <3>2. r[l - 1] = s[l]
      BY <3>1 DEF Without
    <3> QED BY <2>2, <3>1, <3>2
  <2> QED BY <2>1, <2>2
<1> QED BY <1>2, <1>3 DEF WithoutPlaces

(* The entries ks, cs are written to p, and the children from i on told. *)
Spliced(t, p, ks, cs, i) ==
  [t EXCEPT !.page = Adopted([t.page EXCEPT ![p].keys = ks, ![p].kids = cs], p, i)]

Apart(cs, i) == \A j, l \in i .. Len(cs) : cs[j] \in PageId /\ (cs[j] = cs[l] => j = l)

SplicedFacts(t, w, p, ks, cs, i) ==
  /\ w \in TreeType /\ w.root = t.root /\ w.used = t.used
  /\ \A y \in PageId : w.page[y].next = t.page[y].next /\ w.page[y].leaf = t.page[y].leaf
  /\ w.page[p].keys = ks /\ w.page[p].kids = cs
  /\ \A y \in PageId \ {p} : w.page[y].keys = t.page[y].keys /\ w.page[y].kids = t.page[y].kids
  /\ \A y \in PageId : (t.page[p].leaf \/ \A j \in i .. Len(cs) : cs[j] # y)
       => w.page[y].parent = t.page[y].parent /\ w.page[y].place = t.page[y].place
  /\ ~t.page[p].leaf => \A j \in i .. Len(cs) : w.page[cs[j]].parent = p /\ w.page[cs[j]].place = j

LEMMA SplicedIs ==
  ASSUME NEW t \in TreeType, NEW p \in PageId, NEW ks \in Seq(Key), NEW cs \in Seq(Value \cup PageId),
         NEW i \in Nat \ {0}, Len(cs) <= MAX_NUM, ~t.page[p].leaf => Apart(cs, i),
         NEW w, w = Spliced(t, p, ks, cs, i)
  PROVE  SplicedFacts(t, w, p, ks, cs, i)
PROOF
<1> DEFINE n  == [t.page[p] EXCEPT !.keys = ks, !.kids = cs]
           wr == [t.page EXCEPT ![p].keys = ks, ![p].kids = cs]
           pg == Adopted(wr, p, i)
<1>1. t.page \in [PageId -> NodeType] /\ t.page[p] \in NodeType
  BY DEF TreeType
<1>2. wr = [t.page EXCEPT ![p] = n]
  BY <1>1
<1>3. /\ n \in NodeType /\ n.keys = ks /\ n.kids = cs /\ n.leaf = t.page[p].leaf
      /\ n.next = t.page[p].next /\ n.parent = t.page[p].parent /\ n.place = t.page[p].place
  BY <1>1 DEF NodeType
<1> HIDE DEF n
<1>4. /\ wr \in [PageId -> NodeType] /\ wr[p] = n /\ \A y \in PageId \ {p} : wr[y] = t.page[y]
  BY <1>1, <1>2, <1>3
<1> HIDE DEF wr
<1>5. /\ w.page = pg /\ w.root = t.root /\ w.used = t.used
      /\ pg \in [PageId -> NodeType] => w \in TreeType
  BY DEF Spliced, TreeType, wr
<1>6. CASE t.page[p].leaf
  <2>1. pg = wr
    BY <1>6, <1>3, <1>4 DEF Adopted
  <2> HIDE DEF pg
  <2>2. w \in TreeType /\ w.page = wr
    BY <2>1, <1>4, <1>5
  <2> QED BY <2>2, <1>3, <1>4, <1>5, <1>6 DEF SplicedFacts
<1>7. CASE ~t.page[p].leaf
  <2> DEFINE Told(q) == \E j \in i .. Len(cs) : cs[j] = q
             At(q)   == CHOOSE j \in i .. Len(cs) : cs[j] = q
             New1(q) == [wr[q] EXCEPT !.parent = p, !.place = At(q)]
  <2>1. pg = [q \in PageId |-> IF Told(q) THEN New1(q) ELSE wr[q]]
    BY <1>7, <1>3, <1>4 DEF Adopted
  <2>2. ASSUME NEW q \in PageId, Told(q)
        PROVE  /\ At(q) \in i .. Len(cs) /\ cs[At(q)] = q /\ New1(q) \in NodeType
               /\ New1(q).parent = p /\ New1(q).place = At(q) /\ New1(q).leaf = wr[q].leaf
               /\ New1(q).next = wr[q].next /\ New1(q).keys = wr[q].keys /\ New1(q).kids = wr[q].kids
    <3>1. At(q) \in i .. Len(cs) /\ cs[At(q)] = q
      BY <2>2
    <3> HIDE DEF At
    <3>2. At(q) \in 1 .. MAX_NUM /\ wr[q] \in NodeType
      BY <3>1, <1>4, TreeAssumption
    <3>3. p \in Cell
      BY DEF Cell
    <3> QED BY <3>1, <3>2, <3>3 DEF NodeType
  <2> HIDE DEF Told, At, New1, pg
  <2>3. pg \in [PageId -> NodeType]
    BY <2>1, <2>2, <1>4
  <2>4. /\ \A y \in PageId : /\ pg[y].next = t.page[y].next /\ pg[y].leaf = t.page[y].leaf
                             /\ pg[y].keys = wr[y].keys /\ pg[y].kids = wr[y].kids
    BY <2>1, <2>2, <1>3, <1>4
  <2>5. ASSUME NEW y \in PageId, \A j \in i .. Len(cs) : cs[j] # y
        PROVE  pg[y].parent = t.page[y].parent /\ pg[y].place = t.page[y].place
    <3>1. ~Told(y)
      BY <2>5 DEF Told
    <3> QED BY <3>1, <2>1, <1>3, <1>4
  <2>6. ASSUME NEW j \in i .. Len(cs)
        PROVE  pg[cs[j]].parent = p /\ pg[cs[j]].place = j
    <3>1. cs[j] \in PageId /\ Told(cs[j])
      BY <1>7 DEF Told, Apart
    <3>2. At(cs[j]) = j
      BY <3>1, <2>2, <1>7 DEF Apart
    <3> QED BY <3>1, <3>2, <2>1, <2>2
  <2>7. w \in TreeType
    BY <2>3, <1>5
  <2> QED BY <2>4, <2>5, <2>6, <2>7, <1>3, <1>4, <1>5, <1>7 DEF SplicedFacts
<1> QED BY <1>6, <1>7

(* An entry may be inserted in q at i. *)
Fits(t, h, q, i, kid, key) ==
  /\ q \in t.used /\ i \in 1 .. Len(t.page[q].keys) + 1 /\ Len(t.page[q].keys) < MAX_NUM
  /\ key \in Key /\ kid \in Value \cup PageId
  /\ ~t.page[q].leaf => /\ kid \in t.used /\ h[kid] + 1 = h[q]
                        /\ \A j \in 1 .. Len(t.page[q].keys) : t.page[q].kids[j] # kid

Entered(t, q, i, kid, key) ==
  Spliced(t, q, Seqs!InsertAt(t.page[q].keys, i, key), Seqs!InsertAt(t.page[q].kids, i, kid), i)

(* The entries of p, and who is below it, are all that differs in w. *)
OnlyHere(t, w, h, p) ==
  /\ w \in TreeType /\ w.root = t.root /\ w.used = t.used
  /\ \A y \in PageId : w.page[y].leaf = t.page[y].leaf
  /\ \A y \in PageId \ {p} : w.page[y].keys = t.page[y].keys /\ w.page[y].kids = t.page[y].kids
  /\ Len(w.page[p].kids) = Len(w.page[p].keys)
  /\ \A y \in PageId : (t.page[p].leaf \/ \A j \in 1 .. Len(w.page[p].keys) : w.page[p].kids[j] # y)
       => w.page[y].parent = t.page[y].parent /\ w.page[y].place = t.page[y].place
  /\ ~t.page[p].leaf => \A j \in 1 .. Len(w.page[p].keys) : Below(w, h, p, j) /\ Known(w, p, j)

LEMMA EnteredIs ==
  ASSUME NEW t, NEW h, NEW R, NEW q, NEW i, NEW kid, NEW key,
         Links(t, h, R, {}), Fits(t, h, q, i, kid, key), NEW w, w = Entered(t, q, i, kid, key),
         NEW n, n = Len(t.page[q].keys)
  PROVE  /\ OnlyHere(t, w, h, q)
         /\ With(w.page[q].keys, t.page[q].keys, i, key, n)
         /\ With(w.page[q].kids, t.page[q].kids, i, kid, n)
PROOF
<1> DEFINE ks == Seqs!InsertAt(t.page[q].keys, i, key)
           cs == Seqs!InsertAt(t.page[q].kids, i, kid)
<1>1. /\ t \in TreeType /\ q \in t.used /\ q \in PageId /\ n \in Nat /\ n < MAX_NUM
      /\ t.page[q].keys \in Seq(Key) /\ t.page[q].kids \in Seq(Value \cup PageId)
      /\ Len(t.page[q].kids) = n /\ i \in 1 .. n + 1 /\ MAX_NUM \in Nat
      /\ key \in Key /\ kid \in Value \cup PageId /\ t.used \subseteq PageId
      /\ h \in [PageId -> Nat]
  BY LinkFacts, TreeAssumption DEF Fits
<1>2. ks \in Seq(Key) /\ With(ks, t.page[q].keys, i, key, n)
  <2> DEFINE s == t.page[q].keys
  <2>1. s \in Seq(Key) /\ n = Len(s)
    BY <1>1
  <2> HIDE DEF s
  <2>2. Seqs!InsertAt(s, i, key) \in Seq(Key) /\ With(Seqs!InsertAt(s, i, key), s, i, key, n)
    BY <1>1, <2>1, WithIs
  <2> QED BY <2>2 DEF s
<1>3. cs \in Seq(Value \cup PageId) /\ With(cs, t.page[q].kids, i, kid, n)
  <2> DEFINE s == t.page[q].kids
             S == Value \cup PageId
  <2>1. s \in Seq(S) /\ n = Len(s) /\ kid \in S
    BY <1>1
  <2> HIDE DEF s, S
  <2>2. Seqs!InsertAt(s, i, kid) \in Seq(S) /\ With(Seqs!InsertAt(s, i, kid), s, i, kid, n)
    BY <1>1, <2>1, WithIs
  <2> QED BY <2>2 DEF s, S
<1>4. w = Spliced(t, q, ks, cs, i)
  BY DEF Entered
<1> HIDE DEF ks, cs
<1>5. ASSUME ~t.page[q].leaf, NEW j \in 1 .. n
      PROVE  /\ t.page[q].kids[j] \in t.used /\ h[t.page[q].kids[j]] + 1 = h[q]
             /\ t.page[q].kids[j] # kid /\ t.page[t.page[q].kids[j]].place = j
             /\ t.page[t.page[q].kids[j]].parent = q
  <2>1. Below(t, h, q, j) /\ Known(t, q, j)
    BY <1>1, <1>5 DEF Links
  <2> QED BY <2>1, <1>5 DEF Below, Known, Fits
<1>6. ASSUME ~t.page[q].leaf, NEW j \in 1 .. n + 1
      PROVE  /\ cs[j] \in t.used /\ h[cs[j]] + 1 = h[q]
             /\ (j = i => cs[j] = kid)
             /\ (j # i => cs[j] # kid /\ t.page[cs[j]].parent = q
                          /\ t.page[cs[j]].place = IF j < i THEN j ELSE j - 1)
  <2>1. CASE j = i
    BY <2>1, <1>3, <1>6 DEF Fits, With
  <2>2. CASE j # i
    <3>0. WithPlaces(cs, t.page[q].kids, i, n)
      BY <1>3, WithAt
    <3>1. PICK l \in 1 .. n : l = (IF j < i THEN j ELSE j - 1) /\ cs[j] = t.page[q].kids[l]
      BY <2>2, <3>0 DEF WithPlaces
    <3> QED BY <3>1, <2>2, <1>5, <1>6
  <2> QED BY <2>1, <2>2
<1>7. ASSUME ~t.page[q].leaf, NEW j \in 1 .. n + 1, NEW l \in 1 .. n + 1, cs[j] = cs[l]
      PROVE  j = l
  <2>1. CASE j = i \/ l = i
    BY <2>1, <1>3, <1>6, <1>7
  <2>2. CASE j # i /\ l # i
    <3>1. (IF j < i THEN j ELSE j - 1) = (IF l < i THEN l ELSE l - 1)
      BY <2>2, <1>6, <1>7
    <3> QED BY <3>1, <2>2, <1>1
  <2> QED BY <2>1, <2>2
<1>8. Len(cs) = n + 1 /\ Len(ks) = n + 1 /\ \A j \in i .. n + 1 : j \in 1 .. n + 1
  BY <1>1, <1>2, <1>3 DEF With
<1>9. Len(cs) <= MAX_NUM /\ i \in Nat \ {0} /\ (~t.page[q].leaf => Apart(cs, i))
  <2>1. ASSUME ~t.page[q].leaf PROVE Apart(cs, i)
    BY <2>1, <1>8, <1>1, <1>6, <1>7 DEF Apart
  <2> QED BY <2>1, <1>1, <1>8
<1>10. SplicedFacts(t, w, q, ks, cs, i)
  BY <1>1, <1>2, <1>3, <1>4, <1>9, SplicedIs
<1>11. w.page[q].keys = ks /\ w.page[q].kids = cs /\ w.used = t.used
  BY <1>10 DEF SplicedFacts
<1>12. ASSUME ~t.page[q].leaf, NEW j \in 1 .. n + 1 PROVE Below(w, h, q, j) /\ Known(w, q, j)
  <2>1. cs[j] \in t.used /\ cs[j] \in PageId /\ h[cs[j]] + 1 = h[q]
    BY <1>1, <1>6, <1>12
  <2>2. Below(w, h, q, j)
    BY <2>1, <1>11 DEF Below
  <2>3. CASE j >= i
    <3>1. j \in i .. Len(cs)
      BY <2>3, <1>1, <1>8
    <3> QED BY <3>1, <2>2, <1>10, <1>11, <1>12 DEF SplicedFacts, Known
  <2>4. CASE j < i
    <3>1. \A l \in i .. Len(cs) : cs[l] # cs[j]
      <4> SUFFICES ASSUME NEW l \in i .. Len(cs), cs[l] = cs[j] PROVE FALSE
        OBVIOUS
      <4>1. l \in 1 .. n + 1 /\ l # j
        BY <2>4, <1>1, <1>8
      <4> QED BY <4>1, <1>7, <1>12
    <3>2. /\ w.page[cs[j]].parent = t.page[cs[j]].parent
          /\ w.page[cs[j]].place = t.page[cs[j]].place
      BY <3>1, <2>1, <1>10 DEF SplicedFacts
    <3>3. t.page[cs[j]].parent = q /\ t.page[cs[j]].place = j
      <4>1. j # i
        BY <2>4, <1>1
      <4> QED BY <4>1, <2>4, <1>6, <1>12
    <3> QED BY <2>2, <3>2, <3>3, <1>11 DEF Known
  <2> QED BY <2>3, <2>4, <1>1
<1>13. ASSUME NEW y \in PageId, t.page[q].leaf \/ \A j \in 1 .. n + 1 : cs[j] # y
       PROVE  w.page[y].parent = t.page[y].parent /\ w.page[y].place = t.page[y].place
  <2>1. t.page[q].leaf \/ \A j \in i .. Len(cs) : cs[j] # y
    BY <1>8, <1>13
  <2> QED BY <2>1, <1>10 DEF SplicedFacts
<1>14. OnlyHere(t, w, h, q)
  <2>1. /\ w \in TreeType /\ w.root = t.root /\ w.used = t.used
        /\ \A y \in PageId : w.page[y].leaf = t.page[y].leaf
        /\ \A y \in PageId \ {q} : w.page[y].keys = t.page[y].keys /\ w.page[y].kids = t.page[y].kids
    BY <1>10 DEF SplicedFacts
  <2> QED BY <2>1, <1>8, <1>11, <1>12, <1>13 DEF OnlyHere
<1> QED BY <1>2, <1>3, <1>11, <1>14

Taken(t, p, i) ==
  Spliced(t, p, Seqs!RemoveAt(t.page[p].keys, i), Seqs!RemoveAt(t.page[p].kids, i), i)

LEMMA TakenIs ==
  ASSUME NEW t, NEW h, NEW R, NEW X, NEW p \in t.used, NEW i, X \subseteq {<<p, i>>},
         Links(t, h, R, X), NEW w, w = Taken(t, p, i),
         NEW n, n = Len(t.page[p].keys), n <= MAX_NUM, i \in 1 .. n
  PROVE  /\ OnlyHere(t, w, h, p)
         /\ Without(w.page[p].keys, t.page[p].keys, i, n)
         /\ Without(w.page[p].kids, t.page[p].kids, i, n)
PROOF
<1> DEFINE ks == Seqs!RemoveAt(t.page[p].keys, i)
           cs == Seqs!RemoveAt(t.page[p].kids, i)
<1>1. /\ t \in TreeType /\ p \in t.used /\ p \in PageId /\ n \in Nat
      /\ t.page[p].keys \in Seq(Key) /\ t.page[p].kids \in Seq(Value \cup PageId)
      /\ Len(t.page[p].kids) = n /\ MAX_NUM \in Nat /\ t.used \subseteq PageId
      /\ h \in [PageId -> Nat]
  BY LinkFacts, TreeAssumption
<1>2. ks \in Seq(Key) /\ Without(ks, t.page[p].keys, i, n)
  <2> DEFINE s == t.page[p].keys
  <2>1. s \in Seq(Key) /\ n = Len(s)
    BY <1>1
  <2> HIDE DEF s
  <2>2. Seqs!RemoveAt(s, i) \in Seq(Key) /\ Without(Seqs!RemoveAt(s, i), s, i, n)
    BY <1>1, <2>1, WithoutIs
  <2> QED BY <2>2 DEF s
<1>3. cs \in Seq(Value \cup PageId) /\ Without(cs, t.page[p].kids, i, n)
  <2> DEFINE s == t.page[p].kids
             S == Value \cup PageId
  <2>1. s \in Seq(S) /\ n = Len(s)
    BY <1>1
  <2> HIDE DEF s, S
  <2>2. Seqs!RemoveAt(s, i) \in Seq(S) /\ Without(Seqs!RemoveAt(s, i), s, i, n)
    BY <1>1, <2>1, WithoutIs
  <2> QED BY <2>2 DEF s, S
<1>4. w = Spliced(t, p, ks, cs, i)
  BY DEF Taken
<1> HIDE DEF ks, cs
<1>5. ASSUME ~t.page[p].leaf, NEW j \in 1 .. n, j # i
      PROVE  /\ t.page[p].kids[j] \in t.used /\ h[t.page[p].kids[j]] + 1 = h[p]
             /\ t.page[t.page[p].kids[j]].place = j
             /\ t.page[t.page[p].kids[j]].parent = p
  <2>1. <<p, j>> \notin X
    BY <1>5
  <2>2. Below(t, h, p, j) /\ Known(t, p, j)
    BY <1>1, <1>5, <2>1 DEF Links
  <2> QED BY <2>2, <1>5 DEF Below, Known
<1>6. ASSUME ~t.page[p].leaf, NEW j \in 1 .. n - 1
      PROVE  /\ cs[j] \in t.used /\ h[cs[j]] + 1 = h[p]
             /\ t.page[cs[j]].parent = p
             /\ t.page[cs[j]].place = IF j < i THEN j ELSE j + 1
  <2>1. WithoutPlaces(cs, t.page[p].kids, i, n)
    BY <1>3, WithoutAt
  <2>2. PICK l \in 1 .. n : l = (IF j < i THEN j ELSE j + 1) /\ l # i /\ cs[j] = t.page[p].kids[l]
    BY <2>1, <1>6 DEF WithoutPlaces
  <2> QED BY <2>2, <1>5, <1>6
<1>7. ASSUME ~t.page[p].leaf, NEW j \in 1 .. n - 1, NEW l \in 1 .. n - 1, cs[j] = cs[l]
      PROVE  j = l
  <2>1. (IF j < i THEN j ELSE j + 1) = (IF l < i THEN l ELSE l + 1)
    BY <1>6, <1>7
  <2> QED BY <2>1, <1>1
<1>8. Len(cs) = n - 1 /\ Len(ks) = n - 1 /\ \A j \in i .. n - 1 : j \in 1 .. n - 1
  BY <1>1, <1>2, <1>3 DEF Without
<1>9. Len(cs) <= MAX_NUM /\ i \in Nat \ {0} /\ (~t.page[p].leaf => Apart(cs, i))
  <2>1. ASSUME ~t.page[p].leaf PROVE Apart(cs, i)
    BY <2>1, <1>8, <1>1, <1>6, <1>7 DEF Apart
  <2> QED BY <2>1, <1>1, <1>8
<1>10. SplicedFacts(t, w, p, ks, cs, i)
  BY <1>1, <1>2, <1>3, <1>4, <1>9, SplicedIs
<1>11. w.page[p].keys = ks /\ w.page[p].kids = cs /\ w.used = t.used
  BY <1>10 DEF SplicedFacts
<1>12. ASSUME ~t.page[p].leaf, NEW j \in 1 .. n - 1 PROVE Below(w, h, p, j) /\ Known(w, p, j)
  <2>1. cs[j] \in t.used /\ cs[j] \in PageId /\ h[cs[j]] + 1 = h[p]
    BY <1>1, <1>6, <1>12
  <2>2. Below(w, h, p, j)
    BY <2>1, <1>11 DEF Below
  <2>3. CASE j >= i
    <3>1. j \in i .. Len(cs)
      BY <2>3, <1>1, <1>8
    <3> QED BY <3>1, <2>2, <1>10, <1>11, <1>12 DEF SplicedFacts, Known
  <2>4. CASE j < i
    <3>1. \A l \in i .. Len(cs) : cs[l] # cs[j]
      <4> SUFFICES ASSUME NEW l \in i .. Len(cs), cs[l] = cs[j] PROVE FALSE
        OBVIOUS
      <4>1. l \in 1 .. n - 1 /\ l # j
        BY <2>4, <1>1, <1>8
      <4> QED BY <4>1, <1>7, <1>12
    <3>2. /\ w.page[cs[j]].parent = t.page[cs[j]].parent
          /\ w.page[cs[j]].place = t.page[cs[j]].place
      BY <3>1, <2>1, <1>10 DEF SplicedFacts
    <3>3. t.page[cs[j]].parent = p /\ t.page[cs[j]].place = j
      BY <2>4, <1>6, <1>12
    <3> QED BY <2>2, <3>2, <3>3, <1>11 DEF Known
  <2> QED BY <2>3, <2>4, <1>1
<1>13. ASSUME NEW y \in PageId, t.page[p].leaf \/ \A j \in 1 .. n - 1 : cs[j] # y
       PROVE  w.page[y].parent = t.page[y].parent /\ w.page[y].place = t.page[y].place
  <2>1. t.page[p].leaf \/ \A j \in i .. Len(cs) : cs[j] # y
    BY <1>8, <1>13
  <2> QED BY <2>1, <1>10 DEF SplicedFacts
<1>14. OnlyHere(t, w, h, p)
  <2>1. /\ w \in TreeType /\ w.root = t.root /\ w.used = t.used
        /\ \A y \in PageId : w.page[y].leaf = t.page[y].leaf
        /\ \A y \in PageId \ {p} : w.page[y].keys = t.page[y].keys /\ w.page[y].kids = t.page[y].kids
    BY <1>10 DEF SplicedFacts
  <2> QED BY <2>1, <1>8, <1>11, <1>12, <1>13 DEF OnlyHere
<1> QED BY <1>2, <1>3, <1>11, <1>14

(* The positions outside q that still name a child which now is in q. *)
Listed(t, kid, q) ==
  {x \in (t.used \ {q}) \X Nat : /\ ~t.page[x[1]].leaf /\ ~t.page[q].leaf
                                 /\ x[2] \in 1 .. Len(t.page[x[1]].keys)
                                 /\ t.page[x[1]].kids[x[2]] = kid}

(* A page with one entry more: its child hangs there. *)
LEMMA EnteredLinks ==
  ASSUME NEW t, NEW w, NEW h, NEW R, NEW q \in t.used, NEW i, NEW kid, NEW n,
         Links(t, h, R, {}), OnlyHere(t, w, h, q),
         n = Len(t.page[q].keys), Len(w.page[q].keys) = n + 1,
         With(w.page[q].kids, t.page[q].kids, i, kid, n)
  PROVE  /\ Links(w, h, R, Listed(t, kid, q))
         /\ ~t.page[q].leaf => Hung(w, kid)
PROOF
<1>1. /\ t.used \subseteq PageId /\ h \in Heights /\ R \subseteq PageId /\ q \in PageId
      /\ n \in Nat /\ i \in 1 .. n + 1 /\ w \in TreeType /\ w.used = t.used
      /\ w.page[q].kids[i] = kid
  BY LinkFacts DEF Links, With, OnlyHere
<1>2. ASSUME NEW j \in 1 .. n + 1, ~t.page[q].leaf PROVE Below(w, h, q, j) /\ Known(w, q, j)
  BY <1>2 DEF OnlyHere
<1>3. ASSUME NEW p \in t.used, NEW j \in 1 .. Len(t.page[p].keys), ~t.page[p].leaf
      PROVE  /\ t.page[p].kids[j] \in t.used /\ t.page[p].kids[j] \in PageId
             /\ h[t.page[p].kids[j]] + 1 = h[p]
             /\ t.page[t.page[p].kids[j]].parent = p /\ t.page[t.page[p].kids[j]].place = j
  BY <1>1, <1>3 DEF Links, Below, Known
\* Who is told.
<1>4. ASSUME NEW y \in PageId, y # kid, t.page[y].parent # q
      PROVE  w.page[y].parent = t.page[y].parent /\ w.page[y].place = t.page[y].place
  <2>1. ASSUME NEW j \in 1 .. n + 1, ~t.page[q].leaf PROVE w.page[q].kids[j] # y
    <3>1. CASE j = i
      BY <3>1, <1>1, <1>4
    <3>2. CASE j # i
      <4>1. WithPlaces(w.page[q].kids, t.page[q].kids, i, n)
        BY WithAt
      <4>2. PICK l \in 1 .. n : w.page[q].kids[j] = t.page[q].kids[l]
        BY <3>2, <4>1 DEF WithPlaces
      <4> QED BY <4>2, <1>3, <1>4, <2>1
    <3> QED BY <3>1, <3>2
  <2> QED BY <2>1, <1>4 DEF OnlyHere
<1>6. ASSUME NEW p \in w.used PROVE Even(w, h, p)
  <2>1. Even(t, h, p) /\ p \in PageId /\ w.page[p].leaf = t.page[p].leaf
    BY <1>1 DEF Links, OnlyHere
  <2>2. Len(w.page[p].kids) = Len(w.page[p].keys)
    BY <2>1 DEF OnlyHere, Even
  <2> QED BY <2>1, <2>2 DEF Even
<1>7. ASSUME NEW p \in w.used, NEW j \in 1 .. Len(w.page[p].keys), ~w.page[p].leaf
      PROVE  Below(w, h, p, j) /\ (<<p, j>> \in Listed(t, kid, q) \/ Known(w, p, j))
  <2>1. p \in t.used /\ p \in PageId /\ ~t.page[p].leaf
    BY <1>1, <1>7 DEF OnlyHere
  <2>2. CASE p = q
    BY <2>1, <2>2, <1>2, <1>7
  <2>3. CASE p # q
    <3>1. /\ j \in 1 .. Len(t.page[p].keys) /\ w.page[p].kids[j] = t.page[p].kids[j]
      BY <2>1, <2>3, <1>7 DEF OnlyHere
    <3>2. /\ t.page[p].kids[j] \in t.used /\ t.page[p].kids[j] \in PageId
          /\ h[t.page[p].kids[j]] + 1 = h[p]
          /\ t.page[t.page[p].kids[j]].parent = p /\ t.page[t.page[p].kids[j]].place = j
      BY <3>1, <2>1, <1>3
    <3>3. Below(w, h, p, j)
      BY <3>1, <3>2, <1>1 DEF Below
    <3>4. CASE t.page[p].kids[j] # kid \/ t.page[q].leaf
      <4>1. /\ w.page[t.page[p].kids[j]].parent = t.page[t.page[p].kids[j]].parent
            /\ w.page[t.page[p].kids[j]].place = t.page[t.page[p].kids[j]].place
        <5>1. CASE t.page[q].leaf
          BY <5>1, <3>2 DEF OnlyHere
        <5>2. CASE t.page[p].kids[j] # kid
          BY <5>2, <3>2, <2>3, <1>4
        <5> QED BY <5>1, <5>2, <3>4
      <4>2. Known(w, p, j)
        BY <3>1, <3>2, <4>1 DEF Known
      <4> QED BY <4>2, <3>3
    <3>5. CASE t.page[p].kids[j] = kid /\ ~t.page[q].leaf
      <4>1. j \in Nat
        OBVIOUS
      <4>2. <<p, j>> \in Listed(t, kid, q)
        BY <4>1, <3>1, <3>5, <2>1, <2>3 DEF Listed
      <4> QED BY <4>2, <3>3
    <3> QED BY <3>4, <3>5
  <2> QED BY <2>2, <2>3
<1>8. ASSUME ~t.page[q].leaf PROVE Hung(w, kid)
  <2>1. Below(w, h, q, i) /\ Known(w, q, i) /\ ~w.page[q].leaf
    BY <1>1, <1>2, <1>8 DEF OnlyHere
  <2> QED BY <2>1, <1>1 DEF Hung, Known
<1>9. ASSUME NEW c \in w.used \ R PROVE Hung(w, c)
  <2> DEFINE r == t.page[c].parent
             a == t.page[c].place
  <2>1. Hung(t, c) /\ c \in PageId
    BY <1>1, <1>9 DEF Links
  <2>2. /\ r \in t.used /\ r \in PageId /\ ~t.page[r].leaf /\ a \in 1 .. Len(t.page[r].keys)
        /\ t.page[r].kids[a] = c
    BY <2>1, <1>1 DEF Hung
  <2>3. CASE ~t.page[q].leaf /\ c = kid
    BY <2>3, <1>8
  <2>4. CASE c # kid /\ r = q
    <3>1. a \in 1 .. n /\ ~t.page[q].leaf
      BY <2>2, <2>4
    <3> HIDE DEF a
    <3>2. WithPlaces(w.page[q].kids, t.page[q].kids, i, n)
      BY WithAt
    <3>3. PICK b \in 1 .. n + 1 : w.page[q].kids[b] = t.page[q].kids[a]
      BY <3>1, <3>2 DEF WithPlaces
    <3>4. w.page[q].kids[b] = c
      BY <3>3, <2>2, <2>4
    <3>5. w.page[c].parent = q /\ w.page[c].place = b
      BY <3>1, <3>4, <1>2 DEF Known
    <3>6. ~w.page[q].leaf
      BY <3>1, <1>1 DEF OnlyHere
    <3> QED BY <3>4, <3>5, <3>6, <1>1 DEF Hung
  <2>5. CASE t.page[q].leaf \/ (c # kid /\ r # q)
    <3>1. w.page[c].parent = r /\ w.page[c].place = a
      <4>1. CASE t.page[q].leaf
        BY <4>1, <2>1 DEF OnlyHere
      <4>2. CASE c # kid /\ r # q
        BY <4>2, <2>1, <1>4
      <4> QED BY <4>1, <4>2, <2>5
    <3>2. r # q
      BY <2>2, <2>5
    <3>3. w.page[r].kids = t.page[r].kids /\ w.page[r].keys = t.page[r].keys /\ ~w.page[r].leaf
      BY <3>2, <2>2 DEF OnlyHere
    <3> QED BY <3>1, <3>3, <2>2, <1>1 DEF Hung
  <2> QED BY <2>3, <2>4, <2>5
<1> QED BY <1>1, <1>6, <1>7, <1>8, <1>9 DEF Links

(* A page with one entry less: its child is no longer there. *)
LEMMA TakenLinks ==
  ASSUME NEW t, NEW w, NEW h, NEW R, NEW Q, NEW X, NEW p \in t.used, NEW i, NEW n,
         X \subseteq {<<p, i>>}, Links(t, h, R, X), OnlyHere(t, w, h, p),
         R \subseteq Q, Q \subseteq t.used, t.page[p].leaf \/ ~Known(t, p, i) \/ t.page[p].kids[i] \in Q,
         n = Len(t.page[p].keys), Len(w.page[p].keys) = n - 1,
         Without(w.page[p].kids, t.page[p].kids, i, n)
  PROVE  Links(w, h, Q, {})
PROOF
<1>1. /\ t.used \subseteq PageId /\ h \in Heights /\ R \subseteq PageId /\ p \in PageId
      /\ n \in Nat /\ i \in 1 .. n /\ w \in TreeType /\ w.used = t.used
  BY LinkFacts DEF Links, Without, OnlyHere
<1>2. ASSUME NEW j \in 1 .. n - 1, ~t.page[p].leaf PROVE Below(w, h, p, j) /\ Known(w, p, j)
  BY <1>2 DEF OnlyHere
<1>3. ASSUME NEW y \in t.used, NEW j \in 1 .. Len(t.page[y].keys), ~t.page[y].leaf,
             y # p \/ j # i
      PROVE  /\ t.page[y].kids[j] \in t.used /\ t.page[y].kids[j] \in PageId
             /\ h[t.page[y].kids[j]] + 1 = h[y]
             /\ t.page[t.page[y].kids[j]].parent = y /\ t.page[t.page[y].kids[j]].place = j
  <2>1. <<y, j>> # <<p, i>>
    BY <1>3
  <2>2. <<y, j>> \notin X
    BY <2>1
  <2> QED BY <2>2, <1>1, <1>3 DEF Links, Below, Known
<1>4. ASSUME NEW y \in PageId, t.page[y].parent # p
      PROVE  w.page[y].parent = t.page[y].parent /\ w.page[y].place = t.page[y].place
  <2>1. ASSUME NEW j \in 1 .. n - 1, ~t.page[p].leaf PROVE w.page[p].kids[j] # y
    <3>1. WithoutPlaces(w.page[p].kids, t.page[p].kids, i, n)
      BY WithoutAt
    <3>2. PICK l \in 1 .. n : l # i /\ w.page[p].kids[j] = t.page[p].kids[l]
      BY <3>1, <2>1 DEF WithoutPlaces
    <3> QED BY <3>2, <1>3, <1>4, <2>1
  <2> QED BY <2>1, <1>4 DEF OnlyHere
<1>6. ASSUME NEW y \in w.used PROVE Even(w, h, y)
  <2>1. Even(t, h, y) /\ y \in PageId /\ w.page[y].leaf = t.page[y].leaf
    BY <1>1 DEF Links, OnlyHere
  <2>2. Len(w.page[y].kids) = Len(w.page[y].keys)
    BY <2>1 DEF OnlyHere, Even
  <2> QED BY <2>1, <2>2 DEF Even
<1>7. ASSUME NEW y \in w.used, NEW j \in 1 .. Len(w.page[y].keys), ~w.page[y].leaf
      PROVE  Below(w, h, y, j) /\ Known(w, y, j)
  <2>1. y \in t.used /\ y \in PageId /\ ~t.page[y].leaf
    BY <1>1, <1>7 DEF OnlyHere
  <2>2. CASE y = p
    BY <2>1, <2>2, <1>2, <1>7
  <2>3. CASE y # p
    <3>1. /\ j \in 1 .. Len(t.page[y].keys) /\ w.page[y].kids[j] = t.page[y].kids[j]
      BY <2>1, <2>3, <1>7 DEF OnlyHere
    <3>2. /\ t.page[y].kids[j] \in t.used /\ t.page[y].kids[j] \in PageId
          /\ h[t.page[y].kids[j]] + 1 = h[y]
          /\ t.page[t.page[y].kids[j]].parent = y /\ t.page[t.page[y].kids[j]].place = j
      BY <3>1, <2>1, <2>3, <1>3
    <3>3. Below(w, h, y, j)
      BY <3>1, <3>2, <1>1 DEF Below
    <3>4. /\ w.page[t.page[y].kids[j]].parent = y
          /\ w.page[t.page[y].kids[j]].place = j
      BY <3>2, <2>3, <1>4
    <3> QED BY <3>1, <3>3, <3>4 DEF Known
  <2> QED BY <2>2, <2>3
<1>9. ASSUME NEW c \in w.used \ Q PROVE Hung(w, c)
  <2> DEFINE r == t.page[c].parent
             a == t.page[c].place
  <2>1. Hung(t, c) /\ c \in PageId
    BY <1>1, <1>9 DEF Links
  <2>2. /\ r \in t.used /\ r \in PageId /\ ~t.page[r].leaf /\ a \in 1 .. Len(t.page[r].keys)
        /\ t.page[r].kids[a] = c
    BY <2>1, <1>1 DEF Hung
  <2>4. CASE r = p
    <3>1. a \in 1 .. n /\ ~t.page[p].leaf
      BY <2>2, <2>4
    <3>2. a # i
      <4> SUFFICES ASSUME a = i PROVE FALSE
        OBVIOUS
      <4>1. t.page[p].kids[i] = c /\ Known(t, p, i)
        BY <2>2, <2>4 DEF Known
      <4> QED BY <4>1, <3>1, <1>9
    <3> HIDE DEF a
    <3>3. WithoutPlaces(w.page[p].kids, t.page[p].kids, i, n)
      BY WithoutAt
    <3>4. PICK b \in 1 .. n - 1 : w.page[p].kids[b] = t.page[p].kids[a]
      BY <3>1, <3>2, <3>3 DEF WithoutPlaces
    <3>5. w.page[p].kids[b] = c
      BY <3>4, <2>2, <2>4
    <3>6. w.page[c].parent = p /\ w.page[c].place = b
      BY <3>1, <3>5, <1>2 DEF Known
    <3>7. ~w.page[p].leaf
      BY <3>1, <1>1 DEF OnlyHere
    <3> QED BY <3>5, <3>6, <3>7, <1>1 DEF Hung
  <2>5. CASE r # p
    <3>1. w.page[c].parent = r /\ w.page[c].place = a
      BY <2>5, <2>1, <1>4
    <3>3. w.page[r].kids = t.page[r].kids /\ w.page[r].keys = t.page[r].keys /\ ~w.page[r].leaf
      BY <2>5, <2>2 DEF OnlyHere
    <3> QED BY <3>1, <3>3, <2>2, <1>1 DEF Hung
  <2> QED BY <2>4, <2>5
<1> QED BY <1>1, <1>6, <1>7, <1>9 DEF Links

(* What a call for p leaves alone, even when keys are raised above it. *)
Changed(t, v, h, p) ==
  /\ v \in TreeType /\ v.root = t.root /\ v.used = t.used
  /\ \A y \in PageId : v.page[y].leaf = t.page[y].leaf
  /\ \A y \in PageId \ {p} : /\ v.page[y].kids = t.page[y].kids
                             /\ Len(v.page[y].keys) = Len(t.page[y].keys)
                             /\ y \notin Higher(t, h, h[p]) => v.page[y].keys = t.page[y].keys
  /\ \A y \in t.used : h[y] >= h[p] \/ t.page[p].leaf =>
       v.page[y].parent = t.page[y].parent /\ v.page[y].place = t.page[y].place

LEMMA ChangedIs ==
  ASSUME NEW t, NEW w, NEW v, NEW h, NEW R, NEW X, NEW p \in t.used, Links(t, h, R, X),
         OnlyHere(t, w, h, p), Lifted(w, v, Higher(t, h, h[p]))
  PROVE  Changed(t, v, h, p)
PROOF
<1>1. t.used \subseteq PageId /\ h \in [PageId -> Nat] /\ p \in PageId
  BY LinkFacts
<1>2. p \notin Higher(t, h, h[p])
  BY <1>1 DEF Higher
<1>3. \A y \in PageId : SameNode(v.page[y], w.page[y])
  BY DEF Lifted
<1>4. \A y \in PageId : y \notin Higher(t, h, h[p]) => v.page[y] = w.page[y]
  BY DEF Lifted
<1>5. v.page[p] = w.page[p]
  BY <1>1, <1>2, <1>4
<1>6. ASSUME NEW y \in t.used, h[y] >= h[p] \/ t.page[p].leaf
      PROVE  v.page[y].parent = t.page[y].parent /\ v.page[y].place = t.page[y].place
  <2>1. t.page[p].leaf \/ \A j \in 1 .. Len(w.page[p].keys) : w.page[p].kids[j] # y
    <3> SUFFICES ASSUME ~t.page[p].leaf, NEW j \in 1 .. Len(w.page[p].keys), w.page[p].kids[j] = y
                 PROVE  FALSE
      OBVIOUS
    <3>1. h[y] + 1 = h[p]
      BY DEF OnlyHere, Below
    <3> QED BY <3>1, <1>1, <1>6
  <2>2. y \in PageId
    BY <1>1
  <2>3. w.page[y].parent = t.page[y].parent /\ w.page[y].place = t.page[y].place
    BY <2>1, <2>2 DEF OnlyHere
  <2> QED BY <2>2, <2>3, <1>3 DEF SameNode
<1>7. /\ v \in TreeType /\ v.root = t.root /\ v.used = t.used
      /\ \A y \in PageId : v.page[y].leaf = t.page[y].leaf
  BY <1>3 DEF Lifted, OnlyHere, SameNode
<1>8. ASSUME NEW y \in PageId \ {p}
      PROVE  /\ v.page[y].kids = t.page[y].kids
             /\ Len(v.page[y].keys) = Len(t.page[y].keys)
             /\ y \notin Higher(t, h, h[p]) => v.page[y].keys = t.page[y].keys
  <2>1. w.page[y].keys = t.page[y].keys /\ w.page[y].kids = t.page[y].kids
    BY DEF OnlyHere
  <2>2. SameNode(v.page[y], w.page[y])
    BY <1>3
  <2> QED BY <2>1, <2>2, <1>4 DEF SameNode
<1> QED BY <1>5, <1>6, <1>7, <1>8 DEF Changed

(* When more or fewer entries in q, only where q hangs a key is wrong. *)
LEMMA OnlyAbove ==
  ASSUME NEW t, NEW w, NEW h, NEW R, NEW S, NEW X, NEW q \in t.used,
         Links(t, h, R, X), OnlyHere(t, w, h, q), Tops(t, S),
         \A p \in t.used : \A j \in 1 .. Len(t.page[p].keys) : <<p, j>> \in S \cup X => p = q,
         \A j \in 1 .. Len(w.page[q].keys) : ~t.page[q].leaf => Top(w, q, j)
  PROVE  Tops(w, {<<t.page[q].parent, t.page[q].place>>})
PROOF
<1>1. t.used \subseteq PageId /\ w.used = t.used /\ q \in PageId /\ h \in [PageId -> Nat]
  BY LinkFacts DEF OnlyHere
<1>2. ASSUME NEW p \in w.used, NEW j \in 1 .. Len(w.page[p].keys), ~w.page[p].leaf,
             <<p, j>> # <<t.page[q].parent, t.page[q].place>>
      PROVE  Top(w, p, j)
  <2>1. p \in t.used /\ p \in PageId /\ ~t.page[p].leaf
    BY <1>1, <1>2 DEF OnlyHere
  <2>2. CASE p = q
    BY <2>1, <2>2, <1>2
  <2>3. CASE p # q
    <3>1. /\ w.page[p].keys = t.page[p].keys /\ w.page[p].kids = t.page[p].kids
          /\ j \in 1 .. Len(t.page[p].keys)
      BY <2>1, <2>3, <1>2 DEF OnlyHere
    <3>2. <<p, j>> \notin S
      BY <2>1, <2>3, <3>1
    <3>3. Top(t, p, j)
      BY <2>1, <3>1, <3>2 DEF Tops
    <3>4. Below(t, h, p, j)
      BY <2>1, <3>1 DEF Links
    <3>5. t.page[p].kids[j] \in PageId
      BY <3>4, <1>1 DEF Below
    <3>6. t.page[p].kids[j] # q
      <4> SUFFICES ASSUME t.page[p].kids[j] = q PROVE FALSE
        OBVIOUS
      <4>1. Known(t, p, j)
        <5>1. <<p, j>> \notin X
          BY <2>1, <2>3, <3>1
        <5> QED BY <5>1, <2>1, <3>1 DEF Links
      <4> QED BY <4>1, <1>2 DEF Known
    <3>7. w.page[t.page[p].kids[j]].keys = t.page[t.page[p].kids[j]].keys
      BY <3>5, <3>6 DEF OnlyHere
    <3> QED BY <3>1, <3>3, <3>7 DEF Top, LastKey, Size
  <2> QED BY <2>2, <2>3
<1> QED BY <1>2 DEF Tops

(* SetParentIndex(t, q) may be called after q has got key as its last.     *)
Raisable(t, h, R, q, key) ==
  LET r == t.page[q].parent
      a == t.page[q].place
  IN \/ q \notin R
     \/ r = NULL_ID
     \/ /\ r \in t.used /\ ~t.page[r].leaf /\ h[r] = h[q] + 1
        /\ a \in 1 .. Len(t.page[r].keys)
        /\ t.page[r].kids[a] # q /\ LastKey(t, t.page[r].kids[a]) = key

LEMMA InsertAtIs ==
  ASSUME NEW t \in TreeType, NEW q \in PageId, NEW i, NEW kid, NEW key
  PROVE  LET w == Entered(t, q, i, kid, key)
         IN InsertAt(t, q, i, kid, key) = IF i = Size(w, q) THEN SetParentIndex(w, q) ELSE w
PROOF
<1>1. t.page[q] \in NodeType /\ t.page \in [PageId -> NodeType]
  BY DEF TreeType
<1> DEFINE ks == Seqs!InsertAt(t.page[q].keys, i, key)
           cs == Seqs!InsertAt(t.page[q].kids, i, kid)
<1>2. [t.page EXCEPT ![q].keys = Seqs!InsertAt(@, i, key), ![q].kids = Seqs!InsertAt(@, i, kid)]
        = [t.page EXCEPT ![q].keys = ks, ![q].kids = cs]
  BY <1>1
<1> HIDE DEF ks, cs
<1>3. [t EXCEPT !.page = Adopted([t.page EXCEPT ![q].keys = Seqs!InsertAt(@, i, key),
                                                ![q].kids = Seqs!InsertAt(@, i, kid)], q, i)]
        = Spliced(t, q, ks, cs, i)
  BY <1>2 DEF Spliced
<1> QED BY <1>3 DEF InsertAt, Entered, ks, cs

LEMMA RemoveAtIs ==
  ASSUME NEW t \in TreeType, NEW p \in PageId, NEW i
  PROVE  LET w == Taken(t, p, i)
         IN RemoveAt(t, p, i) = IF i = Size(w, p) + 1 /\ Size(w, p) # 0 THEN SetParentIndex(w, p) ELSE w
PROOF
<1>1. t.page[p] \in NodeType /\ t.page \in [PageId -> NodeType]
  BY DEF TreeType
<1> DEFINE ks == Seqs!RemoveAt(t.page[p].keys, i)
           cs == Seqs!RemoveAt(t.page[p].kids, i)
<1>2. [t.page EXCEPT ![p].keys = Seqs!RemoveAt(@, i), ![p].kids = Seqs!RemoveAt(@, i)]
        = [t.page EXCEPT ![p].keys = ks, ![p].kids = cs]
  BY <1>1
<1> HIDE DEF ks, cs
<1>3. [t EXCEPT !.page = Adopted([t.page EXCEPT ![p].keys = Seqs!RemoveAt(@, i),
                                                ![p].kids = Seqs!RemoveAt(@, i)], p, i)]
        = Spliced(t, p, ks, cs, i)
  BY <1>2 DEF Spliced
<1> QED BY <1>3 DEF RemoveAt, Taken, ks, cs

LEMMA NothingAbove ==
  ASSUME NEW t, NEW w, NEW h, NEW R, NEW S, NEW X, NEW Y, NEW q \in t.used,
         Links(t, h, R, X), OnlyHere(t, w, h, q), Tops(t, S), Tops(w, Y),
         \A p \in t.used : \A j \in 1 .. Len(t.page[p].keys) : <<p, j>> \in S => p = q,
         \A j \in 1 .. Len(w.page[q].keys) : ~t.page[q].leaf => Top(w, q, j),
         w.page[q].keys = <<>> \/ (t.page[q].keys # <<>> /\ LastKey(w, q) = LastKey(t, q))
  PROVE  Tops(w, {})
PROOF
<1>1. t.used \subseteq PageId /\ w.used = t.used /\ q \in PageId
  BY LinkFacts DEF OnlyHere
<1>2. ASSUME NEW p \in w.used, NEW j \in 1 .. Len(w.page[p].keys), ~w.page[p].leaf
      PROVE  Top(w, p, j)
  <2>1. p \in t.used /\ p \in PageId /\ ~t.page[p].leaf
    BY <1>1, <1>2 DEF OnlyHere
  <2>2. CASE p = q
    BY <2>1, <2>2, <1>2
  <2>3. CASE p # q
    <3>1. /\ w.page[p].keys = t.page[p].keys /\ w.page[p].kids = t.page[p].kids
          /\ j \in 1 .. Len(t.page[p].keys)
      BY <2>1, <2>3, <1>2 DEF OnlyHere
    <3>2. <<p, j>> \notin S
      BY <2>1, <2>3, <3>1
    <3>3. Top(t, p, j)
      BY <2>1, <3>1, <3>2 DEF Tops
    <3>4. t.page[p].kids[j] \in PageId
      BY <2>1, <3>1, <1>1 DEF Links, Below
    <3>5. CASE t.page[p].kids[j] = q
      BY <3>1, <3>3, <3>5 DEF Top
    <3>6. CASE t.page[p].kids[j] # q
      <4>1. w.page[t.page[p].kids[j]].keys = t.page[t.page[p].kids[j]].keys
        BY <3>4, <3>6 DEF OnlyHere
      <4> QED BY <4>1, <3>1, <3>3 DEF Top, LastKey, Size
    <3> QED BY <3>5, <3>6
  <2> QED BY <2>2, <2>3
<1> QED BY <1>2 DEF Tops

LEMMA LiftedHung ==
  ASSUME NEW w, NEW v, NEW S, NEW c, w \in TreeType, Lifted(w, v, S), c \in PageId, Hung(w, c)
  PROVE  Hung(v, c)
PROOF
<1>1. w.page[c].parent \in PageId
  BY DEF Hung, TreeType
<1> QED BY <1>1 DEF Hung, Lifted, SameNode

(* The whole of Insert(i, kid, key): every inner key is right again. *)
CanInsert(t, h, R, q, i, kid, key, n) ==
  /\ n = Len(t.page[q].keys)
  /\ Links(t, h, R, {}) /\ Tops(t, {}) /\ Fits(t, h, q, i, kid, key) /\ Orphans(t, h, R, h[q])
  /\ ~t.page[q].leaf /\ t.page[kid].keys # <<>> => key = LastKey(t, kid)
  /\ i = n + 1 => Raisable(t, h, R, q, key)

HasInserted(t, v, h, R, q, i, kid, key, n) ==
  /\ Links(v, h, R, Listed(t, kid, q)) /\ Tops(v, {}) /\ Changed(t, v, h, q)
  /\ With(v.page[q].keys, t.page[q].keys, i, key, n)
  /\ With(v.page[q].kids, t.page[q].kids, i, kid, n)
  /\ ~t.page[q].leaf => Hung(v, kid)

LEMMA InsertDone ==
  ASSUME NEW t, NEW h, NEW R, NEW q, NEW i, NEW kid, NEW key, NEW v, NEW n,
         v = InsertAt(t, q, i, kid, key), CanInsert(t, h, R, q, i, kid, key, n)
  PROVE  HasInserted(t, v, h, R, q, i, kid, key, n)
PROOF
<1>a. /\ n = Len(t.page[q].keys)
      /\ Links(t, h, R, {}) /\ Tops(t, {}) /\ Fits(t, h, q, i, kid, key) /\ Orphans(t, h, R, h[q])
      /\ ~t.page[q].leaf /\ t.page[kid].keys # <<>> => key = LastKey(t, kid)
      /\ i = n + 1 => Raisable(t, h, R, q, key)
  BY DEF CanInsert
<1> USE <1>a
<1> DEFINE w == Entered(t, q, i, kid, key)
           r == t.page[q].parent
           a == t.page[q].place
<1>0. /\ t \in TreeType /\ t.used \subseteq PageId /\ q \in t.used /\ q \in PageId /\ n \in Nat
      /\ h \in [PageId -> Nat] /\ NULL_ID \notin PageId /\ i \in 1 .. n + 1
  BY LinkFacts DEF Fits
<1>1. /\ OnlyHere(t, w, h, q)
      /\ With(w.page[q].keys, t.page[q].keys, i, key, n)
      /\ With(w.page[q].kids, t.page[q].kids, i, kid, n)
  BY EnteredIs
<1>2. v = IF i = Size(w, q) THEN SetParentIndex(w, q) ELSE w
  BY <1>0, InsertAtIs
<1> HIDE DEF w
<1>3. /\ Len(w.page[q].keys) = n + 1 /\ w.used = t.used /\ w \in TreeType
      /\ w.page[q].keys[i] = key /\ w.page[q].kids[i] = kid /\ Size(w, q) = n + 1
  BY <1>1 DEF With, OnlyHere, Size
<1>4. /\ Links(w, h, R, Listed(t, kid, q))
      /\ ~t.page[q].leaf => Hung(w, kid)
  BY <1>0, <1>1, <1>3, EnteredLinks
<1>5. ASSUME NEW j \in 1 .. Len(w.page[q].keys), ~t.page[q].leaf PROVE Top(w, q, j)
  <2>1. CASE j = i
    <3>1. kid # q /\ kid \in PageId
      BY <1>0, <1>5 DEF Fits
    <3>2. w.page[kid].keys = t.page[kid].keys
      BY <3>1, <1>1 DEF OnlyHere
    <3> QED BY <2>1, <3>2, <1>3, <1>5 DEF Top, LastKey, Size
  <2>2. CASE j # i
    <3>1. /\ WithPlaces(w.page[q].keys, t.page[q].keys, i, n)
          /\ WithPlaces(w.page[q].kids, t.page[q].kids, i, n)
      BY <1>1, WithAt
    <3>2. j \in 1 .. n + 1
      BY <1>3
    <3>3. PICK l \in 1 .. n : /\ l = (IF j < i THEN j ELSE j - 1)
                              /\ w.page[q].keys[j] = t.page[q].keys[l]
      BY <3>1, <3>2, <2>2 DEF WithPlaces
    <3>7. PICK b \in 1 .. n : /\ b = (IF j < i THEN j ELSE j - 1)
                              /\ w.page[q].kids[j] = t.page[q].kids[b]
      BY <3>1, <3>2, <2>2 DEF WithPlaces
    <3>8. w.page[q].kids[j] = t.page[q].kids[l]
      BY <3>3, <3>7
    <3>4. Top(t, q, l) /\ Below(t, h, q, l)
      BY <1>0, <1>5 DEF Tops, Links
    <3>5. t.page[q].kids[l] # q /\ t.page[q].kids[l] \in PageId
      BY <3>4, <1>0 DEF Below
    <3>6. w.page[t.page[q].kids[l]].keys = t.page[t.page[q].kids[l]].keys
      BY <3>5, <1>1 DEF OnlyHere
    <3> QED BY <3>3, <3>4, <3>6, <3>8 DEF Top, LastKey, Size
  <2> QED BY <2>1, <2>2
<1>6. Tops(w, {<<r, a>>})
  BY <1>0, <1>1, <1>5, OnlyAbove
<1>7. ASSUME i # n + 1 PROVE Lifted(w, v, Higher(t, h, h[q])) /\ Tops(v, {})
  <2>1. v = w
    BY <1>2, <1>3, <1>7
  <2>2. n \in 1 .. n /\ n >= i /\ n # 0
    BY <1>0, <1>7
  <2>3. w.page[q].keys[n + 1] = t.page[q].keys[n]
    BY <2>2, <1>1 DEF With
  <2>4. LastKey(w, q) = LastKey(t, q) /\ t.page[q].keys # <<>>
    BY <2>2, <2>3, <1>3 DEF LastKey, Size
  <2>5. Tops(w, {})
    BY <1>0, <1>1, <1>5, <1>6, <2>4, NothingAbove
  <2> QED BY <2>1, <2>5, <1>3, LiftedSame
<1>8. ASSUME i = n + 1 PROVE Lifted(w, v, Higher(t, h, h[q])) /\ Tops(v, {})
  <2>1. v = SetParentIndex(w, q)
    BY <1>2, <1>3, <1>8
  <2>2. Orphans(w, h, R, h[q])
    <3> SUFFICES ASSUME NEW d \in R, ~(h[d] <= h[q]) PROVE w.page[d].parent = NULL_ID
      BY DEF Orphans
    <3>1. d \in PageId /\ t.page[d].parent = NULL_ID
      BY <1>0 DEF Orphans, Links
    <3>2. t.page[q].leaf \/ \A j \in 1 .. Len(w.page[q].keys) : w.page[q].kids[j] # d
      <4> SUFFICES ASSUME ~t.page[q].leaf, NEW j \in 1 .. Len(w.page[q].keys), w.page[q].kids[j] = d
                   PROVE  FALSE
        OBVIOUS
      <4>1. h[d] + 1 = h[q]
        BY <1>1 DEF OnlyHere, Below
      <4> QED BY <4>1, <3>1, <1>0
    <3> QED BY <3>1, <3>2, <1>1 DEF OnlyHere
  <2>3. LowAt(w, h, Listed(t, kid, q), h[q])
    <3> SUFFICES ASSUME NEW y \in w.used, NEW j \in 1 .. Len(w.page[y].keys), <<y, j>> \in Listed(t, kid, q)
                 PROVE  h[y] <= h[q]
      BY DEF LowAt
    <3>1. /\ y \in t.used /\ ~t.page[y].leaf /\ ~t.page[q].leaf /\ j \in 1 .. Len(t.page[y].keys)
          /\ t.page[y].kids[j] = kid
      BY DEF Listed
    <3>2. Below(t, h, y, j)
      BY <3>1 DEF Links
    <3>3. h[kid] + 1 = h[y] /\ h[kid] + 1 = h[q]
      BY <3>1, <3>2 DEF Below, Fits
    <3> QED BY <3>1, <3>3, <1>0
  <2>4. w.page[q].parent = r /\ w.page[q].place = a
    <3>1. t.page[q].leaf \/ \A j \in 1 .. Len(w.page[q].keys) : w.page[q].kids[j] # q
      <4> SUFFICES ASSUME ~t.page[q].leaf, NEW j \in 1 .. Len(w.page[q].keys), w.page[q].kids[j] = q
                   PROVE  FALSE
        OBVIOUS
      <4>1. h[q] + 1 = h[q]
        BY <1>1 DEF OnlyHere, Below
      <4> QED BY <4>1, <1>0
    <3> QED BY <3>1, <1>0, <1>1 DEF OnlyHere
  <2>5. LastKey(w, q) = key /\ w.page[q].keys # <<>> /\ q \in w.used
    BY <1>0, <1>3, <1>8 DEF LastKey, Size
  <2>6. CASE r = NULL_ID
    <3>1. Tops(w, {})
      BY <2>6, <1>0, <1>3, <1>6 DEF Tops
    <3>2. Ready(w, h, q)
      BY <3>1, <2>4, <2>5, <2>6 DEF Ready
    <3> QED BY <3>2, <2>1, <2>2, <2>3, <1>3, <1>4, Raised DEF Higher
  <2>7. CASE r # NULL_ID
    <3>1. /\ r \in t.used /\ ~t.page[r].leaf /\ h[r] = h[q] + 1 /\ a \in 1 .. Len(t.page[r].keys)
          /\ t.page[r].kids[a] = q \/ (t.page[r].kids[a] # q /\ LastKey(t, t.page[r].kids[a]) = key)
      <4>1. CASE q \notin R
        <5>1. Hung(t, q)
          BY <4>1, <1>0 DEF Links
        <5>2. Below(t, h, r, a)
          BY <5>1 DEF Hung, Links
        <5> QED BY <5>1, <5>2, <1>0 DEF Hung, Below
      <4>2. CASE q \in R
        BY <4>2, <2>7, <1>8 DEF Raisable
      <4> QED BY <4>1, <4>2
    <3>2. r \in PageId /\ r # q
      BY <3>1, <1>0
    <3>3. w.page[r].keys = t.page[r].keys /\ w.page[r].kids = t.page[r].kids /\ ~w.page[r].leaf
      BY <3>1, <3>2, <1>1 DEF OnlyHere
    <3>4. LastKey(w, w.page[r].kids[a]) = LastKey(w, q)
      <4>1. CASE t.page[r].kids[a] = q
        BY <4>1, <3>3
      <4>2. CASE t.page[r].kids[a] # q
        <5>1. t.page[r].kids[a] \in PageId
          BY <3>1, <1>0 DEF Links, Below
        <5>2. w.page[t.page[r].kids[a]].keys = t.page[t.page[r].kids[a]].keys
          BY <5>1, <4>2, <1>1 DEF OnlyHere
        <5>3. LastKey(w, t.page[r].kids[a]) = LastKey(t, t.page[r].kids[a])
          BY <5>2 DEF LastKey, Size
        <5> QED BY <5>3, <4>2, <3>1, <3>3, <2>5
      <4> QED BY <4>1, <4>2
    <3>5. Ready(w, h, q)
      BY <3>1, <3>3, <3>4, <2>4, <2>5, <1>3, <1>6 DEF Ready
    <3> QED BY <3>5, <2>1, <2>2, <2>3, <1>3, <1>4, Raised DEF Higher
  <2> QED BY <2>6, <2>7
<1>9. Lifted(w, v, Higher(t, h, h[q])) /\ Tops(v, {})
  BY <1>7, <1>8
<1>10. /\ Changed(t, v, h, q)
       /\ v.page[q].keys = w.page[q].keys /\ v.page[q].kids = w.page[q].kids
  <2> DEFINE X == {}
  <2>1. Links(t, h, R, X) /\ OnlyHere(t, w, h, q) /\ Lifted(w, v, Higher(t, h, h[q])) /\ q \in t.used
    BY <1>0, <1>1, <1>9
  <2> HIDE DEF X
  <2>2. Changed(t, v, h, q)
    BY <2>1, ChangedIs
  <2>3. v.page[q].keys = w.page[q].keys /\ v.page[q].kids = w.page[q].kids
    <3>1. q \notin Higher(t, h, h[q])
      BY <1>0 DEF Higher
    <3> QED BY <3>1, <1>0, <1>9 DEF Lifted
  <2> QED BY <2>2, <2>3
<1>11. Links(v, h, R, Listed(t, kid, q))
  BY <1>4, <1>9, LiftedLinks
<1>12. ~t.page[q].leaf => Hung(v, kid)
  <2>1. ~t.page[q].leaf => kid \in PageId
    BY <1>0 DEF Fits
  <2> QED BY <2>1, <1>3, <1>4, <1>9, LiftedHung
<1> QED BY <1>1, <1>9, <1>10, <1>11, <1>12 DEF HasInserted

(* The whole of Remove(i). *)
CanRemove(t, h, R, Q, X, p, i, n) ==
  /\ p \in t.used /\ n = Len(t.page[p].keys) /\ n <= MAX_NUM /\ i \in 1 .. n
  /\ X \subseteq {<<p, i>>} /\ Links(t, h, R, X) /\ Tops(t, {<<p, i>>})
  /\ R \subseteq Q /\ Q \subseteq t.used /\ Orphans(t, h, Q, h[p])
  /\ t.page[p].leaf \/ ~Known(t, p, i) \/ t.page[p].kids[i] \in Q
  /\ p \notin R \/ t.page[p].parent = NULL_ID

HasRemoved(t, v, h, Q, p, i, n) ==
  /\ Links(v, h, Q, {}) /\ Tops(v, {}) /\ Changed(t, v, h, p)
  /\ Without(v.page[p].keys, t.page[p].keys, i, n)
  /\ Without(v.page[p].kids, t.page[p].kids, i, n)

LEMMA RemoveDone ==
  ASSUME NEW t, NEW h, NEW R, NEW Q, NEW X, NEW p, NEW i, NEW v, NEW n,
         v = RemoveAt(t, p, i), CanRemove(t, h, R, Q, X, p, i, n)
  PROVE  HasRemoved(t, v, h, Q, p, i, n)
PROOF
<1>a. /\ p \in t.used /\ n = Len(t.page[p].keys) /\ n <= MAX_NUM /\ i \in 1 .. n
      /\ X \subseteq {<<p, i>>} /\ Links(t, h, R, X) /\ Tops(t, {<<p, i>>})
      /\ R \subseteq Q /\ Q \subseteq t.used /\ Orphans(t, h, Q, h[p])
      /\ t.page[p].leaf \/ ~Known(t, p, i) \/ t.page[p].kids[i] \in Q
      /\ p \notin R \/ t.page[p].parent = NULL_ID
  BY DEF CanRemove
<1> USE <1>a
<1> DEFINE w == Taken(t, p, i)
           r == t.page[p].parent
           a == t.page[p].place
<1>0. /\ t \in TreeType /\ t.used \subseteq PageId /\ p \in PageId /\ n \in Nat
      /\ h \in [PageId -> Nat] /\ NULL_ID \notin PageId
  BY LinkFacts
<1>1. /\ OnlyHere(t, w, h, p)
      /\ Without(w.page[p].keys, t.page[p].keys, i, n)
      /\ Without(w.page[p].kids, t.page[p].kids, i, n)
  BY TakenIs
<1>2. v = IF i = Size(w, p) + 1 /\ Size(w, p) # 0 THEN SetParentIndex(w, p) ELSE w
  BY <1>0, RemoveAtIs
<1> HIDE DEF w
<1>3. /\ Len(w.page[p].keys) = n - 1 /\ w.used = t.used /\ w \in TreeType
      /\ Size(w, p) = n - 1 /\ w.page[p].keys \in Seq(Key)
  BY <1>0, <1>1 DEF Without, OnlyHere, Size, TreeType, NodeType
<1>4. Links(w, h, Q, {})
  BY <1>0, <1>1, <1>3, TakenLinks
<1>5. ASSUME NEW j \in 1 .. Len(w.page[p].keys), ~t.page[p].leaf PROVE Top(w, p, j)
  <2>1. /\ WithoutPlaces(w.page[p].keys, t.page[p].keys, i, n)
        /\ WithoutPlaces(w.page[p].kids, t.page[p].kids, i, n)
    BY <1>1, WithoutAt
  <2>2. j \in 1 .. n - 1
    BY <1>3
  <2>3. PICK l \in 1 .. n : /\ l = (IF j < i THEN j ELSE j + 1) /\ l # i
                            /\ w.page[p].keys[j] = t.page[p].keys[l]
    BY <2>1, <2>2 DEF WithoutPlaces
  <2>8. PICK b \in 1 .. n : /\ b = (IF j < i THEN j ELSE j + 1) /\ b # i
                            /\ w.page[p].kids[j] = t.page[p].kids[b]
    BY <2>1, <2>2 DEF WithoutPlaces
  <2>9. w.page[p].kids[j] = t.page[p].kids[l]
    BY <2>3, <2>8
  <2>4. <<p, l>> # <<p, i>>
    BY <2>3
  <2>5. Top(t, p, l) /\ Below(t, h, p, l)
    BY <2>4, <1>0, <1>5 DEF Tops, Links
  <2>6. t.page[p].kids[l] # p /\ t.page[p].kids[l] \in PageId
    BY <2>5, <1>0 DEF Below
  <2>7. w.page[t.page[p].kids[l]].keys = t.page[t.page[p].kids[l]].keys
    BY <2>6, <1>1 DEF OnlyHere
  <2> QED BY <2>3, <2>5, <2>7, <2>9 DEF Top, LastKey, Size
<1>6. Tops(w, {<<r, a>>})
  <2> DEFINE S == {<<p, i>>}
  <2>1. /\ \A y \in t.used : \A j \in 1 .. Len(t.page[y].keys) : <<y, j>> \in S \cup X => y = p
        /\ Tops(t, S)
    OBVIOUS
  <2> HIDE DEF S
  <2> QED BY <2>1, <1>0, <1>1, <1>5, OnlyAbove
<1>7. ASSUME ~(i = n /\ n # 1) PROVE Lifted(w, v, Higher(t, h, h[p])) /\ Tops(v, {})
  <2>1. v = w
    BY <1>0, <1>2, <1>3, <1>7
  <2>2. w.page[p].keys = <<>> \/ (t.page[p].keys # <<>> /\ LastKey(w, p) = LastKey(t, p))
    <3>1. CASE n = 1
      BY <3>1, <1>3
    <3>2. CASE n # 1
      <4>1. n \in 1 .. n /\ n > i
        BY <3>2, <1>0, <1>7
      <4>2. w.page[p].keys[n - 1] = t.page[p].keys[n]
        BY <4>1, <1>1 DEF Without
      <4> QED BY <4>1, <4>2, <1>3 DEF LastKey, Size
    <3> QED BY <3>1, <3>2
  <2>3. Tops(w, {})
    <3> DEFINE S == {<<p, i>>}
               Y == {<<r, a>>}
    <3>1. /\ \A y \in t.used : \A j \in 1 .. Len(t.page[y].keys) : <<y, j>> \in S => y = p
          /\ Tops(t, S) /\ Tops(w, Y)
      BY <1>6
    <3> HIDE DEF S, Y
    <3> QED BY <3>1, <1>0, <1>1, <1>5, <2>2, NothingAbove
  <2> QED BY <2>1, <2>3, <1>3, LiftedSame
<1>8. ASSUME i = n, n # 1 PROVE Lifted(w, v, Higher(t, h, h[p])) /\ Tops(v, {})
  <2>1. v = SetParentIndex(w, p)
    BY <1>0, <1>2, <1>3, <1>8
  <2>2. Orphans(w, h, Q, h[p])
    <3> SUFFICES ASSUME NEW d \in Q, ~(h[d] <= h[p]) PROVE w.page[d].parent = NULL_ID
      BY DEF Orphans
    <3>1. d \in PageId /\ t.page[d].parent = NULL_ID
      BY <1>0 DEF Orphans
    <3>2. t.page[p].leaf \/ \A j \in 1 .. Len(w.page[p].keys) : w.page[p].kids[j] # d
      <4> SUFFICES ASSUME ~t.page[p].leaf, NEW j \in 1 .. Len(w.page[p].keys), w.page[p].kids[j] = d
                   PROVE  FALSE
        OBVIOUS
      <4>1. h[d] + 1 = h[p]
        BY <1>1 DEF OnlyHere, Below
      <4> QED BY <4>1, <3>1, <1>0
    <3> QED BY <3>1, <3>2, <1>1 DEF OnlyHere
  <2>3. LowAt(w, h, {}, h[p])
    BY DEF LowAt
  <2>4. w.page[p].parent = r /\ w.page[p].place = a
    <3>1. t.page[p].leaf \/ \A j \in 1 .. Len(w.page[p].keys) : w.page[p].kids[j] # p
      <4> SUFFICES ASSUME ~t.page[p].leaf, NEW j \in 1 .. Len(w.page[p].keys), w.page[p].kids[j] = p
                   PROVE  FALSE
        OBVIOUS
      <4>1. h[p] + 1 = h[p]
        BY <1>1 DEF OnlyHere, Below
      <4> QED BY <4>1, <1>0
    <3> QED BY <3>1, <1>0, <1>1 DEF OnlyHere
  <2>5. w.page[p].keys # <<>> /\ p \in w.used
    <3>1. Len(w.page[p].keys) # 0
      BY <1>0, <1>3, <1>8
    <3> QED BY <3>1, <1>3
  <2>6. CASE r = NULL_ID
    <3>1. Tops(w, {})
      BY <2>6, <1>0, <1>3, <1>6 DEF Tops
    <3>2. Ready(w, h, p)
      BY <3>1, <2>4, <2>5, <2>6 DEF Ready
    <3> QED BY <3>2, <2>1, <2>2, <2>3, <1>3, <1>4, Raised DEF Higher
  <2>7. CASE r # NULL_ID
    <3>1. /\ r \in t.used /\ ~t.page[r].leaf /\ h[r] = h[p] + 1 /\ a \in 1 .. Len(t.page[r].keys)
          /\ t.page[r].kids[a] = p
      <4>1. Hung(t, p)
        BY <2>7, <1>0 DEF Links
      <4>2. Below(t, h, r, a)
        BY <4>1 DEF Hung, Links
      <4> QED BY <4>1, <4>2, <1>0 DEF Hung, Below
    <3>2. r \in PageId /\ r # p
      BY <3>1, <1>0
    <3>3. w.page[r].keys = t.page[r].keys /\ w.page[r].kids = t.page[r].kids /\ ~w.page[r].leaf
      BY <3>1, <3>2, <1>1 DEF OnlyHere
    <3>4. LastKey(w, w.page[r].kids[a]) = LastKey(w, p)
      BY <3>1, <3>3
    <3>5. Ready(w, h, p)
      BY <3>1, <3>3, <3>4, <2>4, <2>5, <1>3, <1>6 DEF Ready
    <3> QED BY <3>5, <2>1, <2>2, <2>3, <1>3, <1>4, Raised DEF Higher
  <2> QED BY <2>6, <2>7
<1>9. Lifted(w, v, Higher(t, h, h[p])) /\ Tops(v, {})
  BY <1>7, <1>8
<1>10. /\ Changed(t, v, h, p)
       /\ v.page[p].keys = w.page[p].keys /\ v.page[p].kids = w.page[p].kids
  <2>1. Changed(t, v, h, p)
    BY <1>0, <1>1, <1>9, ChangedIs
  <2>2. p \notin Higher(t, h, h[p])
    BY <1>0 DEF Higher
  <2> QED BY <2>1, <2>2, <1>0, <1>9 DEF Lifted
<1>11. Links(v, h, Q, {})
  BY <1>4, <1>9, LiftedLinks
<1> QED BY <1>1, <1>9, <1>10, <1>11 DEF HasRemoved

-----------------------------------------------------------------------------
(* One entry goes from a, where it is at j, to b, where it comes to be at  *)
(* i: from the end of a to the front of b, or the other way round.         *)
Moved(t, a, j, b, i) == RemoveAt(InsertAt(t, b, i, t.page[a].kids[j], t.page[a].keys[j]), a, j)

(* Nothing but the entries of a and b, keys above them and the parents of  *)
(* pages below them has changed.                                           *)
Exchanged(t, v, h, a, b) ==
  /\ v \in TreeType /\ v.root = t.root /\ v.used = t.used
  /\ \A y \in PageId : v.page[y].leaf = t.page[y].leaf
  /\ \A y \in PageId \ {a, b} : /\ v.page[y].kids = t.page[y].kids
                                /\ Len(v.page[y].keys) = Len(t.page[y].keys)
                                /\ y \notin Higher(t, h, h[a]) => v.page[y].keys = t.page[y].keys
  /\ \A y \in t.used : h[y] >= h[a] =>
       v.page[y].parent = t.page[y].parent /\ v.page[y].place = t.page[y].place

CanMove(t, h, R, a, j, b, i) ==
  /\ Links(t, h, R, {}) /\ Tops(t, {})
  /\ a \in t.used /\ b \in t.used /\ a # b /\ h[a] = h[b]
  /\ j \in 1 .. Len(t.page[a].keys) /\ Len(t.page[a].keys) <= MAX_NUM
  /\ i \in 1 .. Len(t.page[b].keys) + 1 /\ Len(t.page[b].keys) < MAX_NUM
  /\ Orphans(t, h, R, h[a]) /\ (a \notin R \/ t.page[a].parent = NULL_ID)
  /\ \A c \in t.used : h[c] + 1 = h[a] => t.page[c].keys # <<>>
  /\ i = Len(t.page[b].keys) + 1 => Raisable(t, h, R, b, t.page[a].keys[j])

HasMoved(t, v, h, R, a, j, b, i) ==
  /\ Links(v, h, R, {}) /\ Tops(v, {}) /\ Exchanged(t, v, h, a, b)
  /\ With(v.page[b].keys, t.page[b].keys, i, t.page[a].keys[j], Len(t.page[b].keys))
  /\ With(v.page[b].kids, t.page[b].kids, i, t.page[a].kids[j], Len(t.page[b].keys))
  /\ Without(v.page[a].keys, t.page[a].keys, j, Len(t.page[a].keys))
  /\ Without(v.page[a].kids, t.page[a].kids, j, Len(t.page[a].keys))

LEMMA MoveDone ==
  ASSUME NEW t, NEW h, NEW R, NEW a, NEW j, NEW b, NEW i, NEW v,
         v = Moved(t, a, j, b, i), CanMove(t, h, R, a, j, b, i)
  PROVE  HasMoved(t, v, h, R, a, j, b, i)
PROOF
<1>a. /\ Links(t, h, R, {}) /\ Tops(t, {})
      /\ a \in t.used /\ b \in t.used /\ a # b /\ h[a] = h[b]
      /\ j \in 1 .. Len(t.page[a].keys) /\ Len(t.page[a].keys) <= MAX_NUM
      /\ i \in 1 .. Len(t.page[b].keys) + 1 /\ Len(t.page[b].keys) < MAX_NUM
      /\ Orphans(t, h, R, h[a]) /\ (a \notin R \/ t.page[a].parent = NULL_ID)
      /\ \A c \in t.used : h[c] + 1 = h[a] => t.page[c].keys # <<>>
      /\ i = Len(t.page[b].keys) + 1 => Raisable(t, h, R, b, t.page[a].keys[j])
  BY DEF CanMove
<1> USE <1>a
<1> DEFINE kid == t.page[a].kids[j]
           key == t.page[a].keys[j]
           u == InsertAt(t, b, i, kid, key)
           n == Len(t.page[b].keys)
           m == Len(t.page[a].keys)
<1>0. /\ t \in TreeType /\ t.used \subseteq PageId /\ a \in PageId /\ b \in PageId
      /\ h \in [PageId -> Nat] /\ n \in Nat /\ m \in Nat /\ Len(t.page[a].kids) = m
      /\ t.page[a].keys \in Seq(Key) /\ t.page[a].kids \in Seq(Value \cup PageId)
      /\ R \subseteq PageId /\ j \in 1 .. m
  BY LinkFacts DEF Links
<1>1. t.page[a].leaf = t.page[b].leaf
  <2>1. Even(t, h, a) /\ Even(t, h, b)
    BY DEF Links
  <2>2. t.page[a].leaf \in BOOLEAN /\ t.page[b].leaf \in BOOLEAN
    BY <1>0, LinkFacts
  <2> QED BY <2>1, <2>2 DEF Even
<1>2. key \in Key /\ kid \in Value \cup PageId
  BY <1>0
<1>3. ASSUME ~t.page[a].leaf
      PROVE  kid \in t.used /\ h[kid] + 1 = h[a] /\ t.page[kid].parent = a /\ t.page[kid].place = j
  BY <1>0, <1>3 DEF Links, Below, Known
<1>4. Fits(t, h, b, i, kid, key)
  <2>1. ASSUME ~t.page[b].leaf, NEW l \in 1 .. n, t.page[b].kids[l] = kid PROVE FALSE
    <3>1. Known(t, b, l)
      BY <2>1 DEF Links
    <3> QED BY <3>1, <2>1, <1>1, <1>3 DEF Known
  <2> QED BY <2>1, <1>1, <1>2, <1>3 DEF Fits
<1>5. ~t.page[b].leaf => key = LastKey(t, kid)
  <2>1. ASSUME ~t.page[a].leaf PROVE key = LastKey(t, kid)
    <3>1. Top(t, a, j)
      BY <2>1, <1>0 DEF Tops
    <3> QED BY <2>1, <3>1, <1>3 DEF Top
  <2> QED BY <2>1, <1>1
<1> DEFINE X == IF t.page[a].leaf THEN {} ELSE {<<a, j>>}
<1>6. Listed(t, kid, b) = X
  <2>1. CASE t.page[a].leaf
    BY <2>1, <1>1 DEF Listed
  <2>2. CASE ~t.page[a].leaf
    <3>1. ASSUME NEW x \in Listed(t, kid, b) PROVE x = <<a, j>>
      <4>1. /\ x[1] \in t.used /\ x[2] \in Nat /\ x = <<x[1], x[2]>> /\ ~t.page[x[1]].leaf
            /\ x[2] \in 1 .. Len(t.page[x[1]].keys) /\ t.page[x[1]].kids[x[2]] = kid
        BY DEF Listed
      <4>2. Known(t, x[1], x[2])
        BY <4>1 DEF Links
      <4>3. x[1] = a /\ x[2] = j
        BY <4>1, <4>2, <2>2, <1>3 DEF Known
      <4> QED BY <4>1, <4>3
    <3>2. <<a, j>> \in Listed(t, kid, b)
      BY <2>2, <1>0, <1>1 DEF Listed
    <3> QED BY <2>2, <3>1, <3>2
  <2> QED BY <2>1, <2>2
<1> HIDE DEF X
<1>7. /\ Links(u, h, R, X) /\ Tops(u, {}) /\ Changed(t, u, h, b)
      /\ With(u.page[b].keys, t.page[b].keys, i, key, n)
      /\ With(u.page[b].kids, t.page[b].kids, i, kid, n)
      /\ ~t.page[b].leaf => Hung(u, kid)
  <2>1. Orphans(t, h, R, h[b])
    OBVIOUS
  <2>2. CanInsert(t, h, R, b, i, kid, key, n)
    BY <2>1, <1>4, <1>5 DEF CanInsert
  <2> HIDE DEF kid, key, n
  <2>3. HasInserted(t, u, h, R, b, i, kid, key, n)
    BY <2>2, InsertDone
  <2> QED BY <2>3, <1>6 DEF HasInserted
<1>8. v = RemoveAt(u, a, j)
  BY DEF Moved
<1> HIDE DEF u
<1>9. /\ u.used = t.used /\ u.page[a].keys = t.page[a].keys /\ u.page[a].kids = t.page[a].kids
      /\ u.page[a].leaf = t.page[a].leaf /\ u.page[a].parent = t.page[a].parent
      /\ a \notin Higher(t, h, h[b]) /\ b \notin Higher(t, h, h[a])
  <2>1. a \notin Higher(t, h, h[b]) /\ b \notin Higher(t, h, h[a])
    BY <1>0 DEF Higher
  <2> QED BY <2>1, <1>0, <1>7 DEF Changed
<1>10. t.page[a].leaf \/ ~Known(u, a, j)
  <2> SUFFICES ASSUME ~t.page[a].leaf, Known(u, a, j) PROVE FALSE
    OBVIOUS
  <2>1. u.page[kid].parent = a
    BY <1>9 DEF Known
  <2>2. Known(u, b, i)
    <3>1. /\ b \in u.used /\ i \in 1 .. Len(u.page[b].keys) /\ ~u.page[b].leaf /\ u.page[b].kids[i] = kid
      BY <1>0, <1>1, <1>7, <1>9 DEF With, Changed
    <3>2. <<b, i>> \notin X
      BY DEF X
    <3> QED BY <3>1, <3>2, <1>7 DEF Links
  <2>3. u.page[kid].parent = b
    BY <2>2, <1>7 DEF Known, With
  <2> QED BY <2>1, <2>3
<1>11. Orphans(u, h, R, h[a])
  <2> SUFFICES ASSUME NEW d \in R, ~(h[d] <= h[a]) PROVE u.page[d].parent = NULL_ID
    BY DEF Orphans
  <2>1. t.page[d].parent = NULL_ID /\ d \in PageId /\ d \in t.used
    BY <1>0 DEF Orphans, Links
  <2>2. h[d] >= h[b]
    BY <1>0, <2>1
  <2> QED BY <2>1, <2>2, <1>7 DEF Changed
<1>12. /\ Links(v, h, R, {}) /\ Tops(v, {}) /\ Changed(u, v, h, a)
       /\ Without(v.page[a].keys, u.page[a].keys, j, m)
       /\ Without(v.page[a].kids, u.page[a].kids, j, m)
  <2>1. Tops(u, {<<a, j>>})
    BY <1>7 DEF Tops
  <2>2. X \subseteq {<<a, j>>} /\ m = Len(u.page[a].keys) /\ m <= MAX_NUM /\ j \in 1 .. m
    BY <1>9, <1>0 DEF X
  <2>3. u.page[a].leaf \/ ~Known(u, a, j) \/ u.page[a].kids[j] \in R
    BY <1>9, <1>10
  <2>4. a \in u.used /\ (a \notin R \/ u.page[a].parent = NULL_ID) /\ R \subseteq R
    BY <1>9
  <2> HIDE DEF m
  <2>5. R \subseteq u.used
    BY <1>7 DEF Links
  <2>6. CanRemove(u, h, R, R, X, a, j, m)
    BY <2>1, <2>2, <2>3, <2>4, <2>5, <1>7, <1>11 DEF CanRemove
  <2>7. HasRemoved(u, v, h, R, a, j, m)
    BY <2>6, <1>8, RemoveDone
  <2> QED BY <2>7 DEF HasRemoved
<1>13. Higher(u, h, h[a]) = Higher(t, h, h[a])
  BY <1>9 DEF Higher
<1>14. v.page[b].keys = u.page[b].keys /\ v.page[b].kids = u.page[b].kids
  BY <1>0, <1>9, <1>12, <1>13 DEF Changed
<1>15. Exchanged(t, v, h, a, b)
  <2>1. ASSUME NEW y \in PageId \ {a, b}
        PROVE  /\ v.page[y].kids = t.page[y].kids
               /\ Len(v.page[y].keys) = Len(t.page[y].keys)
               /\ y \notin Higher(t, h, h[a]) => v.page[y].keys = t.page[y].keys
    BY <1>7, <1>12, <1>13 DEF Changed
  <2>2. ASSUME NEW y \in t.used, h[y] >= h[a]
        PROVE  v.page[y].parent = t.page[y].parent /\ v.page[y].place = t.page[y].place
    BY <2>2, <1>7, <1>9, <1>12 DEF Changed
  <2>3. /\ v \in TreeType /\ v.root = t.root /\ v.used = t.used
        /\ \A y \in PageId : v.page[y].leaf = t.page[y].leaf
    BY <1>7, <1>12 DEF Changed
  <2> QED BY <2>1, <2>2, <2>3 DEF Exchanged
<1> QED BY <1>7, <1>9, <1>12, <1>14, <1>15 DEF HasMoved

-----------------------------------------------------------------------------
(* The order of the keys.  Page p is about the keys k with lo[p] < k <=    *)
(* hi[p], and so is each of its entries about some, from left to right.    *)
Low(t, lo, p, i)  == IF t.page[p].leaf THEN t.page[p].keys[i] - 1 ELSE lo[t.page[p].kids[i]]
High(t, hi, p, i) == IF t.page[p].leaf THEN t.page[p].keys[i] ELSE hi[t.page[p].kids[i]]

Sorted(t, lo, hi, p) ==
  /\ lo[p] <= hi[p]
  /\ \A i \in 1 .. Len(t.page[p].keys) : lo[p] <= Low(t, lo, p, i) /\ High(t, hi, p, i) <= hi[p]
  /\ \A i, j \in 1 .. Len(t.page[p].keys) : i < j => High(t, hi, p, i) <= Low(t, lo, p, j)

Ordered(t, lo, hi) ==
  /\ lo \in [PageId -> Int] /\ hi \in [PageId -> Int]
  /\ \A p \in t.used : Sorted(t, lo, hi, p)

(* What the tree holds. *)
Has(t, k, x) == \E p \in t.used : /\ t.page[p].leaf
                                  /\ \E i \in 1 .. Len(t.page[p].keys) :
                                       t.page[p].keys[i] = k /\ t.page[p].kids[i] = x

SameHas(t, v) == \A k, x : Has(t, k, x) <=> Has(v, k, x)

LEMMA EntryBounds ==
  ASSUME NEW t, NEW h, NEW R, NEW X, NEW lo, NEW hi, NEW p \in t.used,
         NEW i \in 1 .. Len(t.page[p].keys), Links(t, h, R, X), Ordered(t, lo, hi)
  PROVE  /\ Low(t, lo, p, i) \in Int /\ High(t, hi, p, i) \in Int
         /\ Low(t, lo, p, i) <= High(t, hi, p, i)
         /\ lo[p] <= Low(t, lo, p, i) /\ High(t, hi, p, i) <= hi[p]
         /\ lo[p] \in Int /\ hi[p] \in Int /\ lo[p] <= hi[p]
PROOF
<1>1. /\ t.used \subseteq PageId /\ p \in PageId /\ t.page[p].keys \in Seq(Key) /\ Key \subseteq Int
      /\ lo \in [PageId -> Int] /\ hi \in [PageId -> Int]
  BY LinkFacts, TreeAssumption DEF Ordered
<1>2. Sorted(t, lo, hi, p)
  BY DEF Ordered
<1>3. CASE t.page[p].leaf
  <2>1. t.page[p].keys[i] \in Key
    BY <1>1
  <2>2. t.page[p].keys[i] \in Int
    BY <2>1, <1>1
  <2>3. Low(t, lo, p, i) = t.page[p].keys[i] - 1 /\ High(t, hi, p, i) = t.page[p].keys[i]
    BY <1>3 DEF Low, High
  <2>4. lo[p] <= Low(t, lo, p, i) /\ High(t, hi, p, i) <= hi[p] /\ lo[p] <= hi[p]
    BY <1>2 DEF Sorted
  <2>5. lo[p] \in Int /\ hi[p] \in Int
    BY <1>1
  <2> QED BY <2>2, <2>3, <2>4, <2>5
<1>4. CASE ~t.page[p].leaf
  <2>1. t.page[p].kids[i] \in t.used
    BY <1>4 DEF Links, Below
  <2>2. Sorted(t, lo, hi, t.page[p].kids[i]) /\ t.page[p].kids[i] \in PageId
    BY <2>1, <1>1 DEF Ordered
  <2>3. lo[t.page[p].kids[i]] <= hi[t.page[p].kids[i]]
    BY <2>2 DEF Sorted
  <2> QED BY <2>2, <2>3, <1>1, <1>2, <1>4 DEF Low, High, Sorted
<1> QED BY <1>3, <1>4

(* The leaves hold what they held. *)
LEMMA MovedHas ==
  ASSUME NEW t, NEW v, NEW h, NEW R, NEW a, NEW j, NEW b, NEW i,
         CanMove(t, h, R, a, j, b, i), HasMoved(t, v, h, R, a, j, b, i)
  PROVE  SameHas(t, v)
PROOF
<1> DEFINE m == Len(t.page[a].keys)
           n == Len(t.page[b].keys)
<1>1. /\ t.used \subseteq PageId /\ h \in [PageId -> Nat] /\ a \in t.used /\ b \in t.used /\ a # b
      /\ h[a] = h[b] /\ v.used = t.used
      /\ \A y \in PageId : v.page[y].leaf = t.page[y].leaf
      /\ j \in 1 .. m /\ i \in 1 .. n + 1 /\ n \in Nat /\ m \in Nat
  BY LinkFacts DEF CanMove, HasMoved, Exchanged
<1>2. t.page[a].leaf = t.page[b].leaf
  <2>1. Even(t, h, a) /\ Even(t, h, b)
    BY <1>1 DEF CanMove, Links
  <2>2. t.page[a].leaf \in BOOLEAN /\ t.page[b].leaf \in BOOLEAN
    BY <1>1, LinkFacts DEF CanMove
  <2> QED BY <2>1, <2>2, <1>1 DEF Even
<1>3. ASSUME NEW y \in t.used, y # a, y # b, t.page[y].leaf
      PROVE  v.page[y].keys = t.page[y].keys /\ v.page[y].kids = t.page[y].kids
  <2>1. h[y] = 0 /\ h[a] \in Nat
    BY <1>1, <1>3 DEF CanMove, Links, Even
  <2>2. y \notin Higher(t, h, h[a])
    BY <2>1 DEF Higher
  <2> QED BY <2>2, <1>1, <1>3 DEF HasMoved, Exchanged
<1>4. /\ Len(v.page[a].keys) = m - 1 /\ Len(v.page[b].keys) = n + 1
      /\ v.page[b].keys[i] = t.page[a].keys[j] /\ v.page[b].kids[i] = t.page[a].kids[j]
  BY DEF HasMoved, With, Without
<1>5. /\ WithPlaces(v.page[b].keys, t.page[b].keys, i, n)
      /\ WithPlaces(v.page[b].kids, t.page[b].kids, i, n)
  BY WithAt DEF HasMoved
<1>6. /\ WithoutPlaces(v.page[a].keys, t.page[a].keys, j, m)
      /\ WithoutPlaces(v.page[a].kids, t.page[a].kids, j, m)
  BY WithoutAt DEF HasMoved
<1> HIDE DEF m, n
<1>7. ASSUME NEW k, NEW x, Has(t, k, x) PROVE Has(v, k, x)
  <2>1. PICK p \in t.used : /\ t.page[p].leaf
                            /\ \E l \in 1 .. Len(t.page[p].keys) :
                                 t.page[p].keys[l] = k /\ t.page[p].kids[l] = x
    BY <1>7 DEF Has
  <2>2. PICK l \in 1 .. Len(t.page[p].keys) : t.page[p].keys[l] = k /\ t.page[p].kids[l] = x
    BY <2>1
  <2>3. CASE p # a /\ p # b
    BY <2>1, <2>2, <2>3, <1>1, <1>3 DEF Has
  <2>4. CASE p = b
    <3>1. l \in 1 .. n
      BY <2>4 DEF n
    <3>2. PICK c \in 1 .. n + 1 : c = (IF l < i THEN l ELSE l + 1) /\ v.page[b].keys[c] = t.page[b].keys[l]
      BY <3>1, <1>5 DEF WithPlaces
    <3>3. PICK d \in 1 .. n + 1 : d = (IF l < i THEN l ELSE l + 1) /\ v.page[b].kids[d] = t.page[b].kids[l]
      BY <3>1, <1>5 DEF WithPlaces
    <3>4. v.page[b].keys[c] = k /\ v.page[b].kids[c] = x /\ c \in 1 .. Len(v.page[b].keys)
      BY <3>2, <3>3, <2>2, <2>4, <1>4
    <3> QED BY <3>4, <2>1, <2>4, <1>1 DEF Has
  <2>5. CASE p = a /\ l = j
    <3>1. v.page[b].keys[i] = k /\ v.page[b].kids[i] = x /\ i \in 1 .. Len(v.page[b].keys)
      BY <2>2, <2>5, <1>1, <1>4
    <3>2. v.page[b].leaf
      BY <2>1, <2>5, <1>1, <1>2
    <3> QED BY <3>1, <3>2, <1>1 DEF Has
  <2>6. CASE p = a /\ l # j
    <3>1. l \in 1 .. m
      BY <2>6 DEF m
    <3>2. PICK c \in 1 .. m - 1 : c = (IF l < j THEN l ELSE l - 1) /\ v.page[a].keys[c] = t.page[a].keys[l]
      BY <3>1, <2>6, <1>6 DEF WithoutPlaces
    <3>3. PICK d \in 1 .. m - 1 : d = (IF l < j THEN l ELSE l - 1) /\ v.page[a].kids[d] = t.page[a].kids[l]
      BY <3>1, <2>6, <1>6 DEF WithoutPlaces
    <3>4. v.page[a].keys[c] = k /\ v.page[a].kids[c] = x /\ c \in 1 .. Len(v.page[a].keys)
      BY <3>2, <3>3, <2>2, <2>6, <1>4
    <3> QED BY <3>4, <2>1, <2>6, <1>1 DEF Has
  <2> QED BY <2>3, <2>4, <2>5, <2>6
<1>8. ASSUME NEW k, NEW x, Has(v, k, x) PROVE Has(t, k, x)
  <2>1. PICK p \in t.used : /\ t.page[p].leaf
                            /\ \E l \in 1 .. Len(v.page[p].keys) :
                                 v.page[p].keys[l] = k /\ v.page[p].kids[l] = x
    BY <1>1, <1>8 DEF Has
  <2>2. PICK l \in 1 .. Len(v.page[p].keys) : v.page[p].keys[l] = k /\ v.page[p].kids[l] = x
    BY <2>1
  <2>3. CASE p # a /\ p # b
    BY <2>1, <2>2, <2>3, <1>1, <1>3 DEF Has
  <2>4. CASE p = b /\ l = i
    <3>1. t.page[a].keys[j] = k /\ t.page[a].kids[j] = x /\ j \in 1 .. Len(t.page[a].keys)
      BY <2>2, <2>4, <1>1, <1>4 DEF m
    <3> QED BY <3>1, <2>1, <2>4, <1>1, <1>2 DEF Has
  <2>5. CASE p = b /\ l # i
    <3>1. l \in 1 .. n + 1
      BY <2>5, <1>4
    <3>2. PICK c \in 1 .. n : c = (IF l < i THEN l ELSE l - 1) /\ v.page[b].keys[l] = t.page[b].keys[c]
      BY <3>1, <2>5, <1>5 DEF WithPlaces
    <3>3. PICK d \in 1 .. n : d = (IF l < i THEN l ELSE l - 1) /\ v.page[b].kids[l] = t.page[b].kids[d]
      BY <3>1, <2>5, <1>5 DEF WithPlaces
    <3>4. t.page[b].keys[c] = k /\ t.page[b].kids[c] = x /\ c \in 1 .. Len(t.page[b].keys)
      BY <3>2, <3>3, <2>2, <2>5 DEF n
    <3> QED BY <3>4, <2>1, <2>5, <1>1 DEF Has
  <2>6. CASE p = a
    <3>1. l \in 1 .. m - 1
      BY <2>6, <1>4
    <3>2. PICK c \in 1 .. m : c = (IF l < j THEN l ELSE l + 1) /\ v.page[a].keys[l] = t.page[a].keys[c]
      BY <3>1, <1>6 DEF WithoutPlaces
    <3>3. PICK d \in 1 .. m : d = (IF l < j THEN l ELSE l + 1) /\ v.page[a].kids[l] = t.page[a].kids[d]
      BY <3>1, <1>6 DEF WithoutPlaces
    <3>4. t.page[a].keys[c] = k /\ t.page[a].kids[c] = x /\ c \in 1 .. Len(t.page[a].keys)
      BY <3>2, <3>3, <2>2, <2>6 DEF m
    <3> QED BY <3>4, <2>1, <2>6, <1>1 DEF Has
  <2> QED BY <2>3, <2>4, <2>5, <2>6
<1> QED BY <1>7, <1>8 DEF SameHas

(* a and b are neighbours, a to the left; or b has just been split off a   *)
(* and hangs nowhere yet.                                                  *)
Adjacent(t, R, a, b) ==
  \/ /\ a \notin R /\ b \notin R
     /\ t.page[b].parent = t.page[a].parent /\ t.page[b].place = t.page[a].place + 1
  \/ /\ b \in R /\ (a \in R => t.page[a].parent = NULL_ID)
     /\ t.page[b].parent = t.page[a].parent /\ t.page[b].place = t.page[a].place

NextTo(t, R, a, b) ==
  \A r \in t.used : ~t.page[r].leaf => \A j \in 1 .. Len(t.page[r].keys) :
    /\ t.page[r].kids[j] = b => /\ b \notin R /\ j - 1 \in 1 .. Len(t.page[r].keys)
                                /\ t.page[r].kids[j - 1] = a
    /\ t.page[r].kids[j] = a /\ b \notin R => /\ j + 1 \in 1 .. Len(t.page[r].keys)
                                              /\ t.page[r].kids[j + 1] = b

LEMMA AdjacentIs ==
  ASSUME NEW t, NEW h, NEW R, NEW a \in t.used, NEW b \in t.used, a # b,
         Links(t, h, R, {}), Adjacent(t, R, a, b)
  PROVE  NextTo(t, R, a, b)
PROOF
<1>1. /\ t.used \subseteq PageId /\ NULL_ID \notin PageId
      /\ \A p \in PageId : Len(t.page[p].keys) \in Nat
  BY LinkFacts
<1>2. ASSUME NEW r \in t.used, ~t.page[r].leaf, NEW j \in 1 .. Len(t.page[r].keys)
      PROVE  /\ t.page[r].kids[j] = b => /\ b \notin R /\ j - 1 \in 1 .. Len(t.page[r].keys)
                                         /\ t.page[r].kids[j - 1] = a
             /\ t.page[r].kids[j] = a /\ b \notin R => /\ j + 1 \in 1 .. Len(t.page[r].keys)
                                                       /\ t.page[r].kids[j + 1] = b
  <2>1. Known(t, r, j) /\ r \in PageId /\ r # NULL_ID
    BY <1>1, <1>2 DEF Links
  <2>2. ASSUME t.page[r].kids[j] = b
        PROVE  b \notin R /\ j - 1 \in 1 .. Len(t.page[r].keys) /\ t.page[r].kids[j - 1] = a
    <3>1. t.page[b].parent = r /\ t.page[b].place = j
      BY <2>1, <2>2 DEF Known
    <3>2. a \notin R
      BY <3>1, <2>1 DEF Adjacent
    <3>3. Hung(t, a)
      BY <3>2 DEF Links
    <3>4. t.page[a].parent = r /\ t.page[a].place \in 1 .. Len(t.page[r].keys)
          /\ t.page[r].kids[t.page[a].place] = a
      BY <3>1, <3>3 DEF Hung, Adjacent
    <3>5. b \notin R /\ j = t.page[a].place + 1
      <4>1. CASE b \notin R
        BY <4>1, <3>1 DEF Adjacent
      <4>2. CASE b \in R
        BY <4>2, <3>1, <3>4, <2>2 DEF Adjacent
      <4> QED BY <4>1, <4>2
    <3>6. t.page[a].place = j - 1
      BY <3>4, <3>5
    <3> QED BY <3>4, <3>5, <3>6
  <2>3. ASSUME t.page[r].kids[j] = a, b \notin R
        PROVE  j + 1 \in 1 .. Len(t.page[r].keys) /\ t.page[r].kids[j + 1] = b
    <3>1. t.page[a].parent = r /\ t.page[a].place = j
      BY <2>1, <2>3 DEF Known
    <3>2. Hung(t, b)
      BY <2>3 DEF Links
    <3>3. t.page[b].parent = r /\ t.page[b].place = j + 1
      BY <3>1, <2>3 DEF Adjacent
    <3> QED BY <3>2, <3>3 DEF Hung
  <2> QED BY <2>2, <2>3
<1> QED BY <1>2 DEF NextTo

(* The bound between a and b moves. *)
Rebound(lo, hi, lo2, hi2, a, b) ==
  \A y \in PageId : (y # b => lo2[y] = lo[y]) /\ (y # a => hi2[y] = hi[y])

Shifted(t, R, lo, hi, lo2, hi2, a, b) ==
  /\ lo2 \in [PageId -> Int] /\ hi2 \in [PageId -> Int] /\ Rebound(lo, hi, lo2, hi2, a, b)
  /\ lo[a] <= lo2[b] /\ hi2[a] <= hi[b] /\ hi2[a] <= lo2[b]
  /\ b \in R => hi2[a] <= hi[a]

LEMMA ShiftOrder ==
  ASSUME NEW t, NEW v, NEW h, NEW R, NEW lo, NEW hi, NEW lo2, NEW hi2,
         NEW a \in t.used, NEW b \in t.used, a # b, h[a] = h[b],
         Links(t, h, R, {}), Ordered(t, lo, hi), Exchanged(t, v, h, a, b), Adjacent(t, R, a, b),
         Shifted(t, R, lo, hi, lo2, hi2, a, b), Sorted(v, lo2, hi2, a), Sorted(v, lo2, hi2, b)
  PROVE  Ordered(v, lo2, hi2)
PROOF
<1>0. /\ t.used \subseteq PageId /\ a \in PageId /\ b \in PageId /\ h \in [PageId -> Nat]
      /\ lo \in [PageId -> Int] /\ hi \in [PageId -> Int]
      /\ lo2 \in [PageId -> Int] /\ hi2 \in [PageId -> Int]
      /\ \A y \in PageId : (y # b => lo2[y] = lo[y]) /\ (y # a => hi2[y] = hi[y])
      /\ lo[a] <= lo2[b] /\ hi2[a] <= hi[b] /\ hi2[a] <= lo2[b]
      /\ b \in R => hi2[a] <= hi[a]
      /\ v.used = t.used
  BY LinkFacts DEF Ordered, Shifted, Exchanged, Rebound
<1>1. NextTo(t, R, a, b)
  BY AdjacentIs
<1>2. ASSUME NEW y \in t.used, y # a, y # b PROVE Sorted(v, lo2, hi2, y)
  <2>1. /\ Sorted(t, lo, hi, y) /\ y \in PageId /\ lo2[y] = lo[y] /\ hi2[y] = hi[y]
        /\ v.page[y].leaf = t.page[y].leaf /\ Len(v.page[y].keys) = Len(t.page[y].keys)
        /\ v.page[y].kids = t.page[y].kids
    BY <1>0, <1>2 DEF Ordered, Exchanged
  <2>2. CASE t.page[y].leaf
    <3>1. h[y] = 0 /\ h[a] \in Nat
      BY <1>0, <2>2 DEF Links, Even
    <3>2. v.page[y].keys = t.page[y].keys
      BY <3>1, <2>1, <1>2 DEF Exchanged, Higher
    <3> QED BY <3>2, <2>1, <2>2 DEF Sorted, Low, High
  <2>3. CASE ~t.page[y].leaf
    <3> DEFINE n == Len(t.page[y].keys)
               K(i) == t.page[y].kids[i]
    <3>1. \A i \in 1 .. n : /\ Low(v, lo2, y, i) = lo2[K(i)] /\ High(v, hi2, y, i) = hi2[K(i)]
                            /\ Low(t, lo, y, i) = lo[K(i)] /\ High(t, hi, y, i) = hi[K(i)]
      BY <2>1, <2>3 DEF Low, High
    <3>2. /\ \A i \in 1 .. n : lo[y] <= lo[K(i)] /\ hi[K(i)] <= hi[y]
          /\ \A i, j \in 1 .. n : i < j => hi[K(i)] <= lo[K(j)]
          /\ lo[y] <= hi[y]
      BY <2>1, <3>1 DEF Sorted
    <3>3. \A i \in 1 .. n : /\ K(i) \in PageId
                            /\ K(i) = b => b \notin R /\ i - 1 \in 1 .. n /\ K(i - 1) = a
                            /\ K(i) = a /\ b \notin R => i + 1 \in 1 .. n /\ K(i + 1) = b
      <4>1. \A i \in 1 .. n : K(i) \in PageId
        BY <1>0, <2>3 DEF Links, Below
      <4> QED BY <4>1, <1>1, <2>3 DEF NextTo
    <3>4. lo[y] \in Int /\ hi[y] \in Int /\ n \in Nat /\ lo[a] \in Int /\ hi[a] \in Int
          /\ lo2[b] \in Int /\ hi2[a] \in Int /\ hi[b] \in Int
          /\ \A i \in 1 .. n : lo[K(i)] \in Int /\ hi[K(i)] \in Int
      BY <1>0, <2>1, <3>3, LinkFacts
    <3> HIDE DEF n, K
    <3>5. ASSUME NEW i \in 1 .. n PROVE lo[y] <= lo2[K(i)] /\ hi2[K(i)] <= hi[y]
      <4>1. lo[y] <= lo2[K(i)]
        <5>1. CASE K(i) = b
          <6>1. i - 1 \in 1 .. n /\ K(i - 1) = a
            BY <5>1, <3>3
          <6>2. lo[y] <= lo[a]
            BY <6>1, <3>2
          <6> QED BY <5>1, <6>2, <1>0, <3>4
        <5>2. CASE K(i) # b
          BY <5>2, <1>0, <3>2, <3>3
        <5> QED BY <5>1, <5>2
      <4>2. hi2[K(i)] <= hi[y]
        <5>1. CASE K(i) = a /\ b \in R
          <6>1. hi[a] <= hi[y]
            BY <5>1, <3>2
          <6> QED BY <5>1, <6>1, <1>0, <3>4
        <5>2. CASE K(i) = a /\ b \notin R
          <6>1. i + 1 \in 1 .. n /\ K(i + 1) = b
            BY <5>2, <3>3
          <6>2. hi[b] <= hi[y]
            BY <6>1, <3>2
          <6> QED BY <5>2, <6>2, <1>0, <3>4
        <5>3. CASE K(i) # a
          BY <5>3, <1>0, <3>2, <3>3
        <5> QED BY <5>1, <5>2, <5>3
      <4> QED BY <4>1, <4>2
    <3>6. ASSUME NEW i \in 1 .. n, NEW j \in 1 .. n, i < j PROVE hi2[K(i)] <= lo2[K(j)]
      <4>1. CASE K(i) = a /\ K(j) = b
        BY <4>1, <1>0
      <4>2. CASE K(i) = a /\ K(j) # b
        <5>1. lo2[K(j)] = lo[K(j)]
          BY <4>2, <1>0, <3>3
        <5>2. CASE b \in R
          <6>1. hi[a] <= lo[K(j)]
            BY <3>2, <3>6, <4>2
          <6> QED BY <4>2, <5>1, <5>2, <6>1, <1>0, <3>4
        <5>3. CASE b \notin R
          <6>1. i + 1 \in 1 .. n /\ K(i + 1) = b
            BY <4>2, <5>3, <3>3
          <6>2. i + 1 < j
            <7>1. i + 1 # j
              BY <6>1, <4>2
            <7> QED BY <7>1, <3>6
          <6>3. hi[b] <= lo[K(j)]
            BY <6>1, <6>2, <3>2
          <6> QED BY <4>2, <5>1, <6>3, <1>0, <3>4
        <5> QED BY <5>2, <5>3
      <4>3. CASE K(i) # a /\ K(j) = b
        <5>1. hi2[K(i)] = hi[K(i)]
          BY <4>3, <1>0, <3>3
        <5>2. j - 1 \in 1 .. n /\ K(j - 1) = a
          BY <4>3, <3>3
        <5>3. i < j - 1
          <6>1. i # j - 1
            BY <5>2, <4>3
          <6> QED BY <6>1, <3>6
        <5>4. hi[K(i)] <= lo[a]
          BY <5>2, <5>3, <3>2
        <5> QED BY <4>3, <5>1, <5>4, <1>0, <3>4
      <4>4. CASE K(i) # a /\ K(j) # b
        <5>1. hi2[K(i)] = hi[K(i)] /\ lo2[K(j)] = lo[K(j)]
          BY <4>4, <1>0, <3>3
        <5> QED BY <5>1, <3>2, <3>6
      <4> QED BY <4>1, <4>2, <4>3, <4>4
    <3> QED BY <2>1, <3>1, <3>2, <3>5, <3>6 DEF Sorted, n
  <2> QED BY <2>2, <2>3
<1> QED BY <1>0, <1>2 DEF Ordered

Least(x, y)    == IF x <= y THEN x ELSE y
Greatest(x, y) == IF x <= y THEN y ELSE x

(* Two pages in the midst of an exchange. *)
Pair(t, h, R, lo, hi, a, b) ==
  /\ Links(t, h, R, {}) /\ Tops(t, {}) /\ Ordered(t, lo, hi)
  /\ a \in t.used /\ b \in t.used /\ a # b /\ h[a] = h[b] /\ hi[a] <= lo[b]
  /\ Adjacent(t, R, a, b)
  /\ Orphans(t, h, R, h[a])
  /\ a \notin R \/ t.page[a].parent = NULL_ID
  /\ \A c \in t.used : h[c] + 1 = h[a] => t.page[c].keys # <<>>

Traded(t, v, h, lo, hi, lo2, hi2, a, b) ==
  /\ Exchanged(t, v, h, a, b) /\ SameHas(t, v) /\ Rebound(lo, hi, lo2, hi2, a, b)

LEMMA PairAgain ==
  ASSUME NEW t, NEW v, NEW h, NEW R, NEW lo, NEW hi, NEW lo2, NEW hi2, NEW a, NEW b,
         Pair(t, h, R, lo, hi, a, b), Exchanged(t, v, h, a, b),
         Links(v, h, R, {}), Tops(v, {}), Shifted(t, R, lo, hi, lo2, hi2, a, b),
         Sorted(v, lo2, hi2, a), Sorted(v, lo2, hi2, b)
  PROVE  Pair(v, h, R, lo2, hi2, a, b)
PROOF
<1>1. /\ t.used \subseteq PageId /\ h \in [PageId -> Nat] /\ a \in t.used /\ b \in t.used
      /\ h[a] = h[b] /\ a # b /\ v.used = t.used /\ R \subseteq t.used
      /\ Links(t, h, R, {}) /\ Ordered(t, lo, hi) /\ Adjacent(t, R, a, b)
  BY LinkFacts DEF Pair, Exchanged, Links
<1>2. Ordered(v, lo2, hi2)
  BY <1>1, ShiftOrder
<1>3. \A y \in t.used : h[y] >= h[a] =>
        v.page[y].parent = t.page[y].parent /\ v.page[y].place = t.page[y].place
  BY DEF Exchanged
<1>4. Adjacent(v, R, a, b) /\ (a \notin R \/ v.page[a].parent = NULL_ID)
  <2>1. h[a] >= h[a] /\ h[b] >= h[a]
    BY <1>1
  <2> QED BY <2>1, <1>1, <1>3 DEF Adjacent, Pair
<1>5. Orphans(v, h, R, h[a])
  <2> SUFFICES ASSUME NEW d \in R, ~(h[d] <= h[a]) PROVE v.page[d].parent = NULL_ID
    BY DEF Orphans
  <2>1. t.page[d].parent = NULL_ID /\ d \in t.used
    BY <1>1 DEF Orphans, Pair
  <2>2. h[d] >= h[a]
    BY <2>1, <1>1
  <2> QED BY <2>1, <2>2, <1>3
<1>6. ASSUME NEW c \in v.used, h[c] + 1 = h[a] PROVE v.page[c].keys # <<>>
  <2>1. c \in t.used /\ c \in PageId /\ c # a /\ c # b /\ t.page[c].keys # <<>>
    BY <1>1, <1>6 DEF Pair
  <2>2. Len(v.page[c].keys) = Len(t.page[c].keys)
    BY <2>1 DEF Exchanged
  <2> DEFINE x == v.page[c].keys
             y == t.page[c].keys
  <2>3. x \in Seq(Key) /\ y \in Seq(Key) /\ Len(x) = Len(y) /\ y # <<>>
    BY <2>1, <2>2, <1>1, LinkFacts
  <2> HIDE DEF x, y
  <2>4. x # <<>>
    BY <2>3
  <2> QED BY <2>4 DEF x
<1>7. hi2[a] <= lo2[b]
  BY DEF Shifted
<1> QED BY <1>1, <1>2, <1>4, <1>5, <1>6, <1>7 DEF Pair

(* The moved entry keeps what it is about, and so do the others. *)
EntryAt(t, v, a, b, p, i, q, j) ==
  /\ p \in {a, b} /\ q \in {a, b} /\ i \in 1 .. Len(t.page[p].keys)
  /\ v.page[q].keys[j] = t.page[p].keys[i] /\ v.page[q].kids[j] = t.page[p].kids[i]

EntryKept(t, v, lo, hi, lo2, hi2, p, i, q, j) ==
  Low(v, lo2, q, j) = Low(t, lo, p, i) /\ High(v, hi2, q, j) = High(t, hi, p, i)

LEMMA SameEntry ==
  ASSUME NEW t, NEW v, NEW h, NEW R, NEW lo, NEW hi, NEW lo2, NEW hi2, NEW a, NEW b,
         Pair(t, h, R, lo, hi, a, b), Exchanged(t, v, h, a, b), Rebound(lo, hi, lo2, hi2, a, b),
         NEW p, NEW q, NEW i, NEW j, EntryAt(t, v, a, b, p, i, q, j)
  PROVE  EntryKept(t, v, lo, hi, lo2, hi2, p, i, q, j)
PROOF
<1> USE DEF EntryAt, EntryKept
<1>1. /\ t.used \subseteq PageId /\ h \in [PageId -> Nat] /\ p \in t.used /\ q \in t.used
      /\ h[a] = h[b] /\ h[p] = h[a] /\ Links(t, h, R, {})
  BY LinkFacts DEF Pair
<1>2. t.page[p].leaf = t.page[q].leaf /\ v.page[q].leaf = t.page[q].leaf
  <2>1. Even(t, h, p) /\ Even(t, h, q) /\ h[p] = h[q] /\ p \in PageId /\ q \in PageId
    BY <1>1 DEF Links
  <2>2. t.page[p].leaf \in BOOLEAN /\ t.page[q].leaf \in BOOLEAN
    BY <2>1, <1>1, LinkFacts
  <2> QED BY <2>1, <2>2 DEF Even, Exchanged
<1>3. CASE t.page[p].leaf
  BY <1>2, <1>3 DEF Low, High
<1>4. CASE ~t.page[p].leaf
  <2>1. t.page[p].kids[i] \in PageId /\ h[t.page[p].kids[i]] + 1 = h[a]
    BY <1>1, <1>4 DEF Links, Below
  <2>2. t.page[p].kids[i] # a /\ t.page[p].kids[i] # b
    BY <2>1, <1>1
  <2> QED BY <2>1, <2>2, <1>2, <1>4 DEF Low, High, Rebound
<1> QED BY <1>3, <1>4

(* k entries have gone from a to b; from b to a, if k is negative. *)
Traders(t, v, h, R, lo, hi, a, b, k) ==
  \E lo2, hi2 : /\ Pair(v, h, R, lo2, hi2, a, b)
                /\ Traded(t, v, h, lo, hi, lo2, hi2, a, b)
                /\ Len(v.page[a].keys) = Len(t.page[a].keys) - k
                /\ Len(v.page[b].keys) = Len(t.page[b].keys) + k

LEMMA LastStep ==
  ASSUME NEW t, NEW v, NEW h, NEW R, NEW lo, NEW hi, NEW a, NEW b, NEW m, NEW n,
         Pair(t, h, R, lo, hi, a, b), v = MoveLast(t, a, b),
         m = Len(t.page[a].keys), m # 0, m <= MAX_NUM, n = Len(t.page[b].keys), n < MAX_NUM
  PROVE  Traders(t, v, h, R, lo, hi, a, b, 1)
PROOF
<1>0. /\ t.used \subseteq PageId /\ h \in [PageId -> Nat] /\ a \in t.used /\ b \in t.used
      /\ h[a] = h[b] /\ a # b /\ m \in Nat /\ n \in Nat /\ m \in 1 .. m
      /\ Links(t, h, R, {}) /\ Tops(t, {}) /\ Ordered(t, lo, hi) /\ hi[a] <= lo[b]
      /\ lo \in [PageId -> Int] /\ hi \in [PageId -> Int] /\ a \in PageId /\ b \in PageId
      /\ Sorted(t, lo, hi, a) /\ Sorted(t, lo, hi, b)
  BY LinkFacts DEF Pair, Ordered
<1>1. Raisable(t, h, R, b, t.page[a].keys[m])
  <2> SUFFICES ASSUME b \in R, t.page[b].parent # NULL_ID PROVE Raisable(t, h, R, b, t.page[a].keys[m])
    BY DEF Raisable
  <2>1. t.page[b].parent = t.page[a].parent /\ t.page[b].place = t.page[a].place /\ a \notin R
    BY DEF Pair, Adjacent
  <2>2. Hung(t, a)
    BY <2>1, <1>0 DEF Links
  <2> DEFINE r == t.page[b].parent
             c == t.page[b].place
  <2>3. /\ r \in t.used /\ ~t.page[r].leaf /\ c \in 1 .. Len(t.page[r].keys) /\ t.page[r].kids[c] = a
    BY <2>1, <2>2 DEF Hung
  <2>4. h[r] = h[b] + 1
    <3>1. Below(t, h, r, c)
      BY <2>3, <1>0 DEF Links
    <3> QED BY <3>1, <2>3, <1>0 DEF Below
  <2>5. LastKey(t, a) = t.page[a].keys[m]
    BY DEF LastKey, Size
  <2> QED BY <2>3, <2>4, <2>5, <1>0 DEF Raisable
<1>2. CanMove(t, h, R, a, m, b, 1)
  BY <1>0, <1>1 DEF CanMove, Pair
<1>3. v = Moved(t, a, m, b, 1)
  BY DEF MoveLast, Moved, Size
<1>4. HasMoved(t, v, h, R, a, m, b, 1)
  BY <1>2, <1>3, MoveDone
<1>5. SameHas(t, v)
  BY <1>2, <1>4, MovedHas
<1> DEFINE c == Low(t, lo, a, m)
           lo2 == [lo EXCEPT ![b] = Least(@, c)]
           hi2 == [hi EXCEPT ![a] = Least(@, c)]
<1>6. /\ c \in Int /\ lo[a] <= c /\ lo[a] <= hi[a] /\ lo[b] <= hi[b]
      /\ c <= High(t, hi, a, m) /\ High(t, hi, a, m) <= hi[a] /\ High(t, hi, a, m) \in Int
      /\ \A i \in 1 .. m : Low(t, lo, a, i) \in Int /\ High(t, hi, a, i) \in Int
      /\ \A i \in 1 .. n : Low(t, lo, b, i) \in Int /\ High(t, hi, b, i) \in Int
  <2>1. ASSUME NEW p \in t.used, NEW i \in 1 .. Len(t.page[p].keys)
        PROVE  /\ Low(t, lo, p, i) \in Int /\ High(t, hi, p, i) \in Int
               /\ Low(t, lo, p, i) <= High(t, hi, p, i)
               /\ lo[p] <= Low(t, lo, p, i) /\ High(t, hi, p, i) <= hi[p]
    BY <1>0, EntryBounds
  <2>2. lo[a] <= hi[a] /\ lo[b] <= hi[b]
    BY <1>0 DEF Sorted
  <2> QED BY <2>1, <2>2, <1>0
<1> HIDE DEF c
<1>7. /\ lo2 \in [PageId -> Int] /\ hi2 \in [PageId -> Int]
      /\ lo2[b] = Least(lo[b], c) /\ hi2[a] = Least(hi[a], c)
      /\ Rebound(lo, hi, lo2, hi2, a, b) /\ lo2[a] = lo[a] /\ hi2[b] = hi[b]
  BY <1>0, <1>6 DEF Least, Rebound
<1> HIDE DEF lo2, hi2
<1>8. Shifted(t, R, lo, hi, lo2, hi2, a, b)
  <2>1. lo[a] <= lo2[b] /\ hi2[a] <= hi[b] /\ hi2[a] <= lo2[b] /\ hi2[a] <= hi[a]
    BY <1>0, <1>6, <1>7 DEF Least
  <2> QED BY <2>1, <1>7 DEF Shifted
<1>9. /\ Len(v.page[a].keys) = m - 1 /\ Len(v.page[b].keys) = n + 1
      /\ \A i \in 1 .. m - 1 : /\ v.page[a].keys[i] = t.page[a].keys[i]
                               /\ v.page[a].kids[i] = t.page[a].kids[i]
      /\ v.page[b].keys[1] = t.page[a].keys[m] /\ v.page[b].kids[1] = t.page[a].kids[m]
      /\ \A i \in 1 .. n : /\ v.page[b].keys[i + 1] = t.page[b].keys[i]
                           /\ v.page[b].kids[i + 1] = t.page[b].kids[i]
  <2>1. /\ With(v.page[b].keys, t.page[b].keys, 1, t.page[a].keys[m], n)
        /\ With(v.page[b].kids, t.page[b].kids, 1, t.page[a].kids[m], n)
        /\ Without(v.page[a].keys, t.page[a].keys, m, m)
        /\ Without(v.page[a].kids, t.page[a].kids, m, m)
    BY <1>4 DEF HasMoved
  <2>2. /\ Len(v.page[a].keys) = m - 1
        /\ \A i \in 1 .. m - 1 : /\ v.page[a].keys[i] = t.page[a].keys[i]
                                 /\ v.page[a].kids[i] = t.page[a].kids[i]
    <3>1. \A i \in 1 .. m - 1 : i \in 1 .. m /\ i < m
      BY <1>0
    <3>2. Len(v.page[a].keys) = m - 1 /\ \A i \in 1 .. m : i < m => v.page[a].keys[i] = t.page[a].keys[i]
      BY <2>1 DEF Without
    <3>3. \A i \in 1 .. m : i < m => v.page[a].kids[i] = t.page[a].kids[i]
      BY <2>1 DEF Without
    <3> QED BY <3>1, <3>2, <3>3
  <2>3. \A i \in 1 .. n : i >= 1
    OBVIOUS
  <2>4. /\ Len(v.page[b].keys) = n + 1
        /\ v.page[b].keys[1] = t.page[a].keys[m] /\ v.page[b].kids[1] = t.page[a].kids[m]
        /\ \A i \in 1 .. n : v.page[b].keys[i + 1] = t.page[b].keys[i]
    BY <2>1, <2>3 DEF With
  <2>5. \A i \in 1 .. n : v.page[b].kids[i + 1] = t.page[b].kids[i]
    BY <2>1, <2>3 DEF With
  <2> QED BY <2>2, <2>4, <2>5
<1>10. /\ \A i \in 1 .. m - 1 : /\ Low(v, lo2, a, i) = Low(t, lo, a, i)
                                /\ High(v, hi2, a, i) = High(t, hi, a, i)
       /\ Low(v, lo2, b, 1) = c /\ High(v, hi2, b, 1) = High(t, hi, a, m)
       /\ \A i \in 1 .. n : /\ Low(v, lo2, b, i + 1) = Low(t, lo, b, i)
                            /\ High(v, hi2, b, i + 1) = High(t, hi, b, i)
  <2>1. Exchanged(t, v, h, a, b) /\ Rebound(lo, hi, lo2, hi2, a, b) /\ Len(t.page[a].keys) = m
        /\ Len(t.page[b].keys) = n
    BY <1>4, <1>7 DEF HasMoved
  <2>5. ASSUME NEW p, NEW q, NEW i, NEW j, EntryAt(t, v, a, b, p, i, q, j)
        PROVE  EntryKept(t, v, lo, hi, lo2, hi2, p, i, q, j)
    BY <2>1, <2>5, SameEntry
  <2>2. ASSUME NEW i \in 1 .. m - 1
        PROVE  /\ Low(v, lo2, a, i) = Low(t, lo, a, i)
               /\ High(v, hi2, a, i) = High(t, hi, a, i)
    <3>1. i \in 1 .. m
      BY <1>0
    <3>2. EntryAt(t, v, a, b, a, i, a, i)
      BY <3>1, <2>1, <1>9 DEF EntryAt
    <3> QED BY <3>2, <2>5 DEF EntryKept
  <2>3. Low(v, lo2, b, 1) = c /\ High(v, hi2, b, 1) = High(t, hi, a, m)
    <3>2. EntryAt(t, v, a, b, a, m, b, 1)
      BY <1>0, <2>1, <1>9 DEF EntryAt
    <3> QED BY <3>2, <2>5 DEF EntryKept, c
  <2>4. ASSUME NEW i \in 1 .. n
        PROVE  /\ Low(v, lo2, b, i + 1) = Low(t, lo, b, i)
               /\ High(v, hi2, b, i + 1) = High(t, hi, b, i)
    <3>2. EntryAt(t, v, a, b, b, i, b, i + 1)
      BY <2>1, <1>9 DEF EntryAt
    <3> QED BY <3>2, <2>5 DEF EntryKept
  <2> QED BY <2>2, <2>3, <2>4
<1>11. Sorted(v, lo2, hi2, a)
  <2>1. \A i \in 1 .. m - 1 : i \in 1 .. m /\ i < m
    BY <1>0
  <2>2. \A i \in 1 .. m : lo[a] <= Low(t, lo, a, i) /\ High(t, hi, a, i) <= hi[a]
    BY <1>0 DEF Sorted
  <2>3. \A i, j \in 1 .. m : i < j => High(t, hi, a, i) <= Low(t, lo, a, j)
    BY <1>0 DEF Sorted
  <2>4. \A i \in 1 .. m - 1 : High(t, hi, a, i) <= c
    BY <2>1, <2>3, <1>0 DEF c
  <2>5. lo2[a] = lo[a] /\ lo[a] \in Int /\ hi[a] \in Int
    BY <1>0, <1>7
  <2>6. lo2[a] <= hi2[a]
    BY <2>5, <1>6, <1>7 DEF Least
  <2>7. ASSUME NEW i \in 1 .. m - 1
        PROVE  lo2[a] <= Low(v, lo2, a, i) /\ High(v, hi2, a, i) <= hi2[a]
    <3>1. i \in 1 .. m
      BY <2>1
    <3>2. High(t, hi, a, i) <= hi2[a]
      BY <3>1, <2>2, <2>4, <1>6, <1>7 DEF Least
    <3> QED BY <3>1, <3>2, <2>2, <2>5, <1>10
  <2>8. ASSUME NEW i \in 1 .. m - 1, NEW j \in 1 .. m - 1, i < j
        PROVE  High(v, hi2, a, i) <= Low(v, lo2, a, j)
    BY <2>1, <2>3, <2>8, <1>10
  <2> QED BY <2>6, <2>7, <2>8, <1>9 DEF Sorted
<1>12. Sorted(v, lo2, hi2, b)
  <2>2. \A i \in 1 .. n : lo[b] <= Low(t, lo, b, i) /\ High(t, hi, b, i) <= hi[b]
    BY <1>0 DEF Sorted
  <2>3. \A i, j \in 1 .. n : i < j => High(t, hi, b, i) <= Low(t, lo, b, j)
    BY <1>0 DEF Sorted
  <2>5. hi2[b] = hi[b] /\ lo[b] \in Int /\ hi[b] \in Int /\ hi[a] \in Int /\ lo2[b] \in Int
    BY <1>0, <1>7
  <2>6. lo2[b] <= hi2[b] /\ lo2[b] <= lo[b] /\ lo2[b] <= c
    BY <2>5, <1>6, <1>7 DEF Least
  <2>7. ASSUME NEW i \in 1 .. n + 1
        PROVE  lo2[b] <= Low(v, lo2, b, i) /\ High(v, hi2, b, i) <= hi2[b]
    <3>1. CASE i = 1
      BY <3>1, <2>5, <2>6, <1>0, <1>6, <1>10
    <3>2. CASE i # 1
      <4> DEFINE l == i - 1
      <4>1. l \in 1 .. n /\ l + 1 = i
        BY <3>2, <1>0
      <4> HIDE DEF l
      <4>2. Low(v, lo2, b, i) = Low(t, lo, b, l) /\ High(v, hi2, b, i) = High(t, hi, b, l)
        BY <4>1, <1>10
      <4> QED BY <4>1, <4>2, <2>2, <2>5, <2>6, <1>6
    <3> QED BY <3>1, <3>2
  <2>8. ASSUME NEW i \in 1 .. n + 1, NEW j \in 1 .. n + 1, i < j
        PROVE  High(v, hi2, b, i) <= Low(v, lo2, b, j)
    <3> DEFINE l == j - 1
               o == i - 1
    <3>1. l \in 1 .. n /\ l + 1 = j
      BY <2>8, <1>0
    <3>2. i # 1 => o \in 1 .. n /\ o + 1 = i /\ o < l
      BY <2>8, <1>0
    <3> HIDE DEF l, o
    <3>3. Low(v, lo2, b, j) = Low(t, lo, b, l)
      BY <3>1, <1>10
    <3>4. CASE i = 1
      <4>1. lo[b] <= Low(t, lo, b, l)
        BY <3>1, <2>2
      <4> QED BY <4>1, <3>1, <3>3, <3>4, <2>5, <1>0, <1>6, <1>10
    <3>5. CASE i # 1
      <4>1. High(v, hi2, b, i) = High(t, hi, b, o)
        BY <3>2, <3>5, <1>10
      <4> QED BY <4>1, <3>1, <3>2, <3>3, <3>5, <2>3
    <3> QED BY <3>4, <3>5
  <2> QED BY <2>6, <2>7, <2>8, <1>9 DEF Sorted
<1>13. Pair(v, h, R, lo2, hi2, a, b)
  <2>1. Exchanged(t, v, h, a, b) /\ Links(v, h, R, {}) /\ Tops(v, {})
    BY <1>4 DEF HasMoved
  <2> QED BY <2>1, <1>8, <1>11, <1>12, PairAgain
<1>14. Traded(t, v, h, lo, hi, lo2, hi2, a, b)
  BY <1>4, <1>5, <1>7 DEF Traded, HasMoved
<1> QED BY <1>9, <1>13, <1>14 DEF Traders

LEMMA FirstStep ==
  ASSUME NEW t, NEW v, NEW h, NEW R, NEW lo, NEW hi, NEW a, NEW b, NEW m, NEW n,
         Pair(t, h, R, lo, hi, a, b), b \notin R, v = MoveFirst(t, b, a),
         m = Len(t.page[b].keys), m # 0, m <= MAX_NUM, n = Len(t.page[a].keys), n < MAX_NUM
  PROVE  Traders(t, v, h, R, lo, hi, a, b, -1)
PROOF
<1>0. /\ t.used \subseteq PageId /\ h \in [PageId -> Nat] /\ a \in t.used /\ b \in t.used
      /\ h[a] = h[b] /\ a # b /\ m \in Nat /\ n \in Nat /\ 1 \in 1 .. m
      /\ Links(t, h, R, {}) /\ Tops(t, {}) /\ Ordered(t, lo, hi) /\ hi[a] <= lo[b]
      /\ lo \in [PageId -> Int] /\ hi \in [PageId -> Int] /\ a \in PageId /\ b \in PageId
      /\ Sorted(t, lo, hi, a) /\ Sorted(t, lo, hi, b)
  BY LinkFacts DEF Pair, Ordered
<1>1. a \notin R
  BY DEF Pair, Adjacent
<1>2. CanMove(t, h, R, b, 1, a, n + 1)
  <2>1. Raisable(t, h, R, a, t.page[b].keys[1])
    BY <1>1 DEF Raisable
  <2> QED BY <1>0, <2>1 DEF CanMove, Pair
<1>3. v = Moved(t, b, 1, a, n + 1)
  BY DEF MoveFirst, Moved, Size
<1>4. HasMoved(t, v, h, R, b, 1, a, n + 1)
  BY <1>2, <1>3, MoveDone
<1>5. SameHas(t, v)
  BY <1>2, <1>4, MovedHas
<1>x. Exchanged(t, v, h, a, b) /\ Links(v, h, R, {}) /\ Tops(v, {})
  BY <1>0, <1>4 DEF HasMoved, Exchanged, Higher
<1> DEFINE c == High(t, hi, b, 1)
           lo2 == [lo EXCEPT ![b] = c]
           hi2 == [hi EXCEPT ![a] = c]
<1>6. /\ c \in Int /\ lo[a] <= hi[a] /\ lo[b] <= hi[b] /\ lo[b] <= Low(t, lo, b, 1)
      /\ Low(t, lo, b, 1) <= c /\ c <= hi[b]
      /\ \A i \in 1 .. m : Low(t, lo, b, i) \in Int /\ High(t, hi, b, i) \in Int
      /\ \A i \in 1 .. n : Low(t, lo, a, i) \in Int /\ High(t, hi, a, i) \in Int
  <2>1. ASSUME NEW p \in t.used, NEW i \in 1 .. Len(t.page[p].keys)
        PROVE  /\ Low(t, lo, p, i) \in Int /\ High(t, hi, p, i) \in Int
               /\ Low(t, lo, p, i) <= High(t, hi, p, i)
               /\ lo[p] <= Low(t, lo, p, i) /\ High(t, hi, p, i) <= hi[p]
    BY <1>0, EntryBounds
  <2>2. lo[a] <= hi[a] /\ lo[b] <= hi[b]
    BY <1>0 DEF Sorted
  <2> QED BY <2>1, <2>2, <1>0
<1> HIDE DEF c
<1>7. /\ lo2 \in [PageId -> Int] /\ hi2 \in [PageId -> Int]
      /\ lo2[b] = c /\ hi2[a] = c
      /\ Rebound(lo, hi, lo2, hi2, a, b) /\ lo2[a] = lo[a] /\ hi2[b] = hi[b]
  BY <1>0, <1>6 DEF Rebound
<1> HIDE DEF lo2, hi2
<1>8. Shifted(t, R, lo, hi, lo2, hi2, a, b)
  <2>1. lo[a] <= lo2[b] /\ hi2[a] <= hi[b] /\ hi2[a] <= lo2[b]
    BY <1>0, <1>6, <1>7
  <2> QED BY <2>1, <1>7 DEF Shifted
<1>9. /\ Len(v.page[b].keys) = m - 1 /\ Len(v.page[a].keys) = n + 1
      /\ \A i \in 1 .. n : /\ v.page[a].keys[i] = t.page[a].keys[i]
                           /\ v.page[a].kids[i] = t.page[a].kids[i]
      /\ v.page[a].keys[n + 1] = t.page[b].keys[1] /\ v.page[a].kids[n + 1] = t.page[b].kids[1]
      /\ \A i \in 1 .. m - 1 : /\ v.page[b].keys[i] = t.page[b].keys[i + 1]
                               /\ v.page[b].kids[i] = t.page[b].kids[i + 1]
  <2>1. /\ With(v.page[a].keys, t.page[a].keys, n + 1, t.page[b].keys[1], n)
        /\ With(v.page[a].kids, t.page[a].kids, n + 1, t.page[b].kids[1], n)
        /\ Without(v.page[b].keys, t.page[b].keys, 1, m)
        /\ Without(v.page[b].kids, t.page[b].kids, 1, m)
    BY <1>4 DEF HasMoved
  <2>2. ASSUME NEW i \in 1 .. m - 1
        PROVE  /\ v.page[b].keys[i] = t.page[b].keys[i + 1]
               /\ v.page[b].kids[i] = t.page[b].kids[i + 1]
    <3> DEFINE l == i + 1
    <3>1. l \in 1 .. m /\ l > 1 /\ l - 1 = i
      BY <1>0
    <3> HIDE DEF l
    <3>2. v.page[b].keys[l - 1] = t.page[b].keys[l]
      BY <2>1, <3>1 DEF Without
    <3>3. v.page[b].kids[l - 1] = t.page[b].kids[l]
      BY <2>1, <3>1 DEF Without
    <3> QED BY <3>1, <3>2, <3>3 DEF l
  <2>3. \A i \in 1 .. n : i < n + 1
    BY <1>0
  <2>4. /\ Len(v.page[a].keys) = n + 1
        /\ v.page[a].keys[n + 1] = t.page[b].keys[1] /\ v.page[a].kids[n + 1] = t.page[b].kids[1]
        /\ \A i \in 1 .. n : v.page[a].keys[i] = t.page[a].keys[i]
    BY <2>1, <2>3 DEF With
  <2>5. \A i \in 1 .. n : v.page[a].kids[i] = t.page[a].kids[i]
    BY <2>1, <2>3 DEF With
  <2>6. Len(v.page[b].keys) = m - 1
    BY <2>1 DEF Without
  <2> QED BY <2>2, <2>4, <2>5, <2>6
<1>10. /\ \A i \in 1 .. n : /\ Low(v, lo2, a, i) = Low(t, lo, a, i)
                            /\ High(v, hi2, a, i) = High(t, hi, a, i)
       /\ Low(v, lo2, a, n + 1) = Low(t, lo, b, 1) /\ High(v, hi2, a, n + 1) = c
       /\ \A i \in 1 .. m - 1 : /\ Low(v, lo2, b, i) = Low(t, lo, b, i + 1)
                                /\ High(v, hi2, b, i) = High(t, hi, b, i + 1)
  <2>1. /\ Rebound(lo, hi, lo2, hi2, a, b) /\ Len(t.page[a].keys) = n
        /\ Len(t.page[b].keys) = m
    BY <1>7
  <2>5. ASSUME NEW p, NEW q, NEW i, NEW j, EntryAt(t, v, a, b, p, i, q, j)
        PROVE  EntryKept(t, v, lo, hi, lo2, hi2, p, i, q, j)
    BY <1>x, <2>1, <2>5, SameEntry
  <2>2. ASSUME NEW i \in 1 .. n
        PROVE  /\ Low(v, lo2, a, i) = Low(t, lo, a, i)
               /\ High(v, hi2, a, i) = High(t, hi, a, i)
    <3>2. EntryAt(t, v, a, b, a, i, a, i)
      BY <2>1, <1>9 DEF EntryAt
    <3> QED BY <3>2, <2>5 DEF EntryKept
  <2>3. Low(v, lo2, a, n + 1) = Low(t, lo, b, 1) /\ High(v, hi2, a, n + 1) = c
    <3>2. EntryAt(t, v, a, b, b, 1, a, n + 1)
      BY <1>0, <2>1, <1>9 DEF EntryAt
    <3> QED BY <3>2, <2>5 DEF EntryKept, c
  <2>4. ASSUME NEW i \in 1 .. m - 1
        PROVE  /\ Low(v, lo2, b, i) = Low(t, lo, b, i + 1)
               /\ High(v, hi2, b, i) = High(t, hi, b, i + 1)
    <3>1. i + 1 \in 1 .. m
      BY <1>0
    <3>2. EntryAt(t, v, a, b, b, i + 1, b, i)
      BY <3>1, <2>1, <1>9 DEF EntryAt
    <3> QED BY <3>2, <2>5 DEF EntryKept
  <2> QED BY <2>2, <2>3, <2>4
<1>11. Sorted(v, lo2, hi2, b)
  <2>2. \A i \in 1 .. m : lo[b] <= Low(t, lo, b, i) /\ High(t, hi, b, i) <= hi[b]
    BY <1>0 DEF Sorted
  <2>3. \A i, j \in 1 .. m : i < j => High(t, hi, b, i) <= Low(t, lo, b, j)
    BY <1>0 DEF Sorted
  <2>4. \A i \in 1 .. m - 1 : i + 1 \in 1 .. m /\ 1 < i + 1
    BY <1>0
  <2>7. ASSUME NEW i \in 1 .. m - 1
        PROVE  lo2[b] <= Low(v, lo2, b, i) /\ High(v, hi2, b, i) <= hi2[b]
    <3> DEFINE l == i + 1
    <3>1. l \in 1 .. m /\ 1 < l /\ Low(v, lo2, b, i) = Low(t, lo, b, l) /\ High(v, hi2, b, i) = High(t, hi, b, l)
      BY <2>4, <1>10
    <3> HIDE DEF l
    <3>2. c <= Low(t, lo, b, l)
      BY <3>1, <2>3, <1>0 DEF c
    <3> QED BY <3>1, <3>2, <2>2, <1>7
  <2>8. ASSUME NEW i \in 1 .. m - 1, NEW j \in 1 .. m - 1, i < j
        PROVE  High(v, hi2, b, i) <= Low(v, lo2, b, j)
    <3> DEFINE l == i + 1
               o == j + 1
    <3>1. l \in 1 .. m /\ o \in 1 .. m /\ l < o
      BY <2>4, <2>8
    <3>2. High(v, hi2, b, i) = High(t, hi, b, l) /\ Low(v, lo2, b, j) = Low(t, lo, b, o)
      BY <1>10
    <3> HIDE DEF l, o
    <3> QED BY <3>1, <3>2, <2>3
  <2>6. lo2[b] <= hi2[b]
    BY <1>6, <1>7
  <2> QED BY <2>6, <2>7, <2>8, <1>9 DEF Sorted
<1>12. Sorted(v, lo2, hi2, a)
  <2>2. \A i \in 1 .. n : lo[a] <= Low(t, lo, a, i) /\ High(t, hi, a, i) <= hi[a]
    BY <1>0 DEF Sorted
  <2>3. \A i, j \in 1 .. n : i < j => High(t, hi, a, i) <= Low(t, lo, a, j)
    BY <1>0 DEF Sorted
  <2>5. lo2[a] = lo[a] /\ lo[a] \in Int /\ hi[a] \in Int /\ lo[b] \in Int
    BY <1>0, <1>7
  <2>6. lo2[a] <= hi2[a] /\ hi[a] <= hi2[a] /\ hi[a] <= Low(t, lo, b, 1) /\ Low(t, lo, b, 1) \in Int
    BY <2>5, <1>0, <1>6, <1>7
  <2>4. n \in Nat
    BY <1>0
  <2>1. \A i \in 1 .. n + 1 : i # n + 1 => i \in 1 .. n
    BY <2>4
  <2>7. ASSUME NEW i \in 1 .. n + 1
        PROVE  lo2[a] <= Low(v, lo2, a, i) /\ High(v, hi2, a, i) <= hi2[a]
    <3>1. CASE i = n + 1
      BY <3>1, <2>5, <2>6, <1>0, <1>6, <1>7, <1>10
    <3>2. CASE i # n + 1
      <4>1. i \in 1 .. n
        BY <3>2, <2>1
      <4> QED BY <4>1, <1>10, <2>2, <2>5, <2>6, <1>6, <1>7
    <3> QED BY <3>1, <3>2
  <2>8. ASSUME NEW i \in 1 .. n + 1, NEW j \in 1 .. n + 1, i < j
        PROVE  High(v, hi2, a, i) <= Low(v, lo2, a, j)
    <3>1. i \in 1 .. n
      BY <2>8, <1>0
    <3>4. CASE j = n + 1
      BY <3>1, <3>4, <2>2, <2>5, <2>6, <1>6, <1>10
    <3>5. CASE j # n + 1
      <4>1. j \in 1 .. n
        BY <3>5, <2>1
      <4> QED BY <3>1, <4>1, <2>8, <2>3, <1>10
    <3> QED BY <3>4, <3>5
  <2> QED BY <2>6, <2>7, <2>8, <1>9 DEF Sorted
<1>13. Pair(v, h, R, lo2, hi2, a, b)
  BY <1>x, <1>8, <1>11, <1>12, PairAgain
<1>14. Traded(t, v, h, lo, hi, lo2, hi2, a, b)
  BY <1>x, <1>5, <1>7 DEF Traded
<1>15. /\ Len(v.page[a].keys) = Len(t.page[a].keys) - -1
       /\ Len(v.page[b].keys) = Len(t.page[b].keys) + -1
  BY <1>0, <1>9
<1> QED BY <1>13, <1>14, <1>15 DEF Traders

(* A trade after a trade is a trade. *)
LEMMA TradedTwice ==
  ASSUME NEW t, NEW u, NEW v, NEW h, NEW R, NEW lo, NEW hi, NEW lo1, NEW hi1, NEW lo2, NEW hi2,
         NEW a, NEW b, Pair(t, h, R, lo, hi, a, b),
         Traded(t, u, h, lo, hi, lo1, hi1, a, b), Traded(u, v, h, lo1, hi1, lo2, hi2, a, b)
  PROVE  Traded(t, v, h, lo, hi, lo2, hi2, a, b)
PROOF
<1>1. Exchanged(t, v, h, a, b)
  <2>1. Exchanged(t, u, h, a, b) /\ Exchanged(u, v, h, a, b)
    BY DEF Traded
  <2>2. u.used = t.used
    BY <2>1 DEF Exchanged
  <2>3. Higher(u, h, h[a]) = Higher(t, h, h[a])
    BY <2>2 DEF Higher
  <2> QED BY <2>1, <2>2, <2>3 DEF Exchanged
<1>2. SameHas(t, v)
  BY DEF Traded, SameHas
<1>3. Rebound(lo, hi, lo2, hi2, a, b)
  BY DEF Traded, Rebound
<1> QED BY <1>1, <1>2, <1>3 DEF Traded

LEMMA TradersAgain ==
  ASSUME NEW t, NEW u, NEW v, NEW h, NEW R, NEW lo, NEW hi, NEW a, NEW b, NEW k, NEW n, NEW m, NEW l,
         Pair(t, h, R, lo, hi, a, b), k \in Int, n \in Int, m = k + n,
         Traders(t, u, h, R, lo, hi, a, b, k),
         \A lo1, hi1 : Pair(u, h, R, lo1, hi1, a, b) => Traders(u, v, h, R, lo1, hi1, a, b, n)
  PROVE  Traders(t, v, h, R, lo, hi, a, b, m)
PROOF
<1>1. PICK lo1, hi1 : /\ Pair(u, h, R, lo1, hi1, a, b)
                      /\ Traded(t, u, h, lo, hi, lo1, hi1, a, b)
                      /\ Len(u.page[a].keys) = Len(t.page[a].keys) - k
                      /\ Len(u.page[b].keys) = Len(t.page[b].keys) + k
  BY DEF Traders
<1>2. Traders(u, v, h, R, lo1, hi1, a, b, n)
  BY <1>1
<1>3. PICK lo2, hi2 : /\ Pair(v, h, R, lo2, hi2, a, b)
                      /\ Traded(u, v, h, lo1, hi1, lo2, hi2, a, b)
                      /\ Len(v.page[a].keys) = Len(u.page[a].keys) - n
                      /\ Len(v.page[b].keys) = Len(u.page[b].keys) + n
  BY <1>2 DEF Traders
<1>4. Traded(t, v, h, lo, hi, lo2, hi2, a, b)
  BY <1>1, <1>3, TradedTwice
<1>5. Len(t.page[a].keys) \in Nat /\ Len(t.page[b].keys) \in Nat
  <2>1. Links(t, h, R, {}) /\ a \in t.used /\ b \in t.used
    BY DEF Pair
  <2> QED BY <2>1, LinkFacts
<1>6. /\ Len(v.page[a].keys) = Len(t.page[a].keys) - m
      /\ Len(v.page[b].keys) = Len(t.page[b].keys) + m
  <2> DEFINE x == Len(t.page[a].keys)
             y == Len(t.page[b].keys)
             x1 == Len(u.page[a].keys)
             y1 == Len(u.page[b].keys)
             x2 == Len(v.page[a].keys)
             y2 == Len(v.page[b].keys)
  <2>1. x \in Int /\ y \in Int /\ x1 = x - k /\ y1 = y + k /\ x2 = x1 - n /\ y2 = y1 + n
    BY <1>1, <1>3, <1>5
  <2> HIDE DEF x, y, x1, y1, x2, y2
  <2>2. x2 = x - m /\ y2 = y + m
    BY <2>1
  <2> QED BY <2>2 DEF x, y, x1, y1, x2, y2
<1> QED BY <1>3, <1>4, <1>6 DEF Traders

LEMMA TradersFirst ==
  ASSUME NEW t, NEW h, NEW R, NEW lo, NEW hi, NEW a, NEW b, Pair(t, h, R, lo, hi, a, b)
  PROVE  Traders(t, t, h, R, lo, hi, a, b, 0)
PROOF
<1>1. Links(t, h, R, {}) /\ a \in t.used /\ b \in t.used
  BY DEF Pair
<1>2. t \in TreeType /\ Len(t.page[a].keys) \in Nat /\ Len(t.page[b].keys) \in Nat
  BY <1>1, LinkFacts
<1>3. Traded(t, t, h, lo, hi, lo, hi, a, b)
  BY <1>2 DEF Traded, Exchanged, SameHas, Rebound
<1>4. Len(t.page[a].keys) = Len(t.page[a].keys) - 0 /\ Len(t.page[b].keys) = Len(t.page[b].keys) + 0
  BY <1>2
<1> QED BY <1>3, <1>4 DEF Traders

LEMMA LastLoop ==
  ASSUME NEW t, NEW v, NEW h, NEW R, NEW lo, NEW hi, NEW a, NEW b, NEW N \in Nat,
         Pair(t, h, R, lo, hi, a, b), v = MoveLasts(t, a, b, N),
         N <= Len(t.page[a].keys), Len(t.page[a].keys) <= MAX_NUM, Len(t.page[b].keys) + N <= MAX_NUM
  PROVE  Traders(t, v, h, R, lo, hi, a, b, N)
PROOF
<1>0. MAX_NUM \in Nat
  BY TreeAssumption
<1>1. PICK at : /\ at[0] = t
                /\ \A n \in 1 .. N : at[n] = MoveLast(at[n - 1], a, b)
                /\ v = at[N]
  BY MovingLastIs
<1>2. Len(t.page[a].keys) \in Nat /\ Len(t.page[b].keys) \in Nat
  <2>1. Links(t, h, R, {}) /\ a \in t.used /\ b \in t.used
    BY DEF Pair
  <2> QED BY <2>1, LinkFacts
<1> DEFINE T == {n \in 0 .. N : Traders(t, at[n], h, R, lo, hi, a, b, n)}
<1>3. 0 \in T
  BY <1>1, TradersFirst
<1>4. ASSUME NEW n \in 0 .. N - 1, n \in T PROVE n + 1 \in T
  <2> DEFINE u == at[n]
             w == at[n + 1]
             l == n + 1
             g == 1
  <2>1. /\ n \in Nat /\ l = n + 1 /\ l \in 0 .. N /\ l \in 1 .. N /\ l - 1 = n
        /\ n \in Int /\ g \in Int /\ l = n + g
    OBVIOUS
  <2>2. Traders(t, u, h, R, lo, hi, a, b, n)
    BY <1>4
  <2>3. w = MoveLast(u, a, b)
    BY <2>1, <1>1
  <2> DEFINE x == Len(t.page[a].keys)
             y == Len(t.page[b].keys)
             x1 == Len(u.page[a].keys)
             y1 == Len(u.page[b].keys)
  <2>4. x1 = x - n /\ y1 = y + n
    BY <2>2 DEF Traders
  <2>5. x \in Nat /\ y \in Nat /\ N <= x /\ x <= MAX_NUM /\ y + N <= MAX_NUM
    BY <1>2
  <2> HIDE DEF T, u, w
  <2>6. x1 # 0 /\ x1 <= MAX_NUM /\ y1 < MAX_NUM
    <3> HIDE DEF x, y, x1, y1
    <3> QED BY <2>1, <2>4, <2>5, <1>0
  <2>7. ASSUME NEW lo1, NEW hi1, Pair(u, h, R, lo1, hi1, a, b)
        PROVE  Traders(u, w, h, R, lo1, hi1, a, b, g)
    <3>1. x1 = Len(u.page[a].keys) /\ y1 = Len(u.page[b].keys)
      OBVIOUS
    <3> HIDE DEF x1, y1
    <3> QED BY <3>1, <2>3, <2>6, <2>7, LastStep
  <2>8. Traders(t, w, h, R, lo, hi, a, b, l)
    <3> HIDE DEF l, g
    <3> QED BY <2>1, <2>2, <2>7, TradersAgain
  <2> QED BY <2>1, <2>8 DEF T, w
<1> HIDE DEF T
<1>5. \A n \in 0 .. N : n \in T
  BY <1>3, <1>4, UpTo
<1>6. N \in 0 .. N
  OBVIOUS
<1> QED BY <1>1, <1>5, <1>6 DEF T

LEMMA FirstLoop ==
  ASSUME NEW t, NEW v, NEW h, NEW R, NEW lo, NEW hi, NEW a, NEW b, NEW N \in Nat,
         Pair(t, h, R, lo, hi, a, b), b \notin R, v = MoveFirsts(t, b, a, N),
         N <= Len(t.page[b].keys), Len(t.page[b].keys) <= MAX_NUM, Len(t.page[a].keys) + N <= MAX_NUM
  PROVE  Traders(t, v, h, R, lo, hi, a, b, -N)
PROOF
<1>0. MAX_NUM \in Nat
  BY TreeAssumption
<1>1. PICK at : /\ at[0] = t
                /\ \A n \in 1 .. N : at[n] = MoveFirst(at[n - 1], b, a)
                /\ v = at[N]
  BY MovingFirstIs
<1>2. Len(t.page[a].keys) \in Nat /\ Len(t.page[b].keys) \in Nat
  <2>1. Links(t, h, R, {}) /\ a \in t.used /\ b \in t.used
    BY DEF Pair
  <2> QED BY <2>1, LinkFacts
<1> DEFINE T == {n \in 0 .. N : Traders(t, at[n], h, R, lo, hi, a, b, 0 - n)}
<1>3. 0 \in T
  <2>1. 0 = 0 - 0 /\ 0 \in 0 .. N
    OBVIOUS
  <2> QED BY <2>1, <1>1, TradersFirst
<1>4. ASSUME NEW n \in 0 .. N - 1, n \in T PROVE n + 1 \in T
  <2> DEFINE u == at[n]
             w == at[n + 1]
             l == n + 1
             e == 0 - n
             f == 0 - l
             g == -1
  <2>1. /\ n \in Nat /\ l = n + 1 /\ l \in 0 .. N /\ l \in 1 .. N /\ l - 1 = n
        /\ e \in Int /\ g \in Int /\ f = e + g
    OBVIOUS
  <2>2. Traders(t, u, h, R, lo, hi, a, b, e)
    BY <1>4
  <2>3. w = MoveFirst(u, b, a)
    BY <2>1, <1>1
  <2> DEFINE x == Len(t.page[a].keys)
             y == Len(t.page[b].keys)
             x1 == Len(u.page[a].keys)
             y1 == Len(u.page[b].keys)
  <2>4. x1 = x - e /\ y1 = y + e
    BY <2>2 DEF Traders
  <2>5. x \in Nat /\ y \in Nat /\ N <= y /\ y <= MAX_NUM /\ x + N <= MAX_NUM
    BY <1>2
  <2> HIDE DEF T, u, w
  <2>6. y1 # 0 /\ y1 <= MAX_NUM /\ x1 < MAX_NUM
    <3> HIDE DEF x, y, x1, y1
    <3> QED BY <2>1, <2>4, <2>5, <1>0
  <2>7. ASSUME NEW lo1, NEW hi1, Pair(u, h, R, lo1, hi1, a, b)
        PROVE  Traders(u, w, h, R, lo1, hi1, a, b, g)
    <3>1. x1 = Len(u.page[a].keys) /\ y1 = Len(u.page[b].keys)
      OBVIOUS
    <3> HIDE DEF x1, y1
    <3> QED BY <3>1, <2>3, <2>6, <2>7, FirstStep
  <2>8. Traders(t, w, h, R, lo, hi, a, b, f)
    <3> HIDE DEF l, e, f, g
    <3> QED BY <2>1, <2>2, <2>7, TradersAgain
  <2> QED BY <2>1, <2>8 DEF T, w
<1> HIDE DEF T
<1>5. \A n \in 0 .. N : n \in T
  BY <1>3, <1>4, UpTo
<1>6. N \in 0 .. N /\ 0 - N = -N
  OBVIOUS
<1> QED BY <1>1, <1>5, <1>6 DEF T

-----------------------------------------------------------------------------
(* Pages come and go.                                                      *)
Fresh(t, v, c, q, i, leaf) ==
  /\ v \in TreeType /\ v.root = t.root /\ v.used = t.used \cup {c}
  /\ c \in PageId \ t.used
  /\ v.page[c].parent = q /\ v.page[c].place = i /\ v.page[c].leaf = leaf
  /\ v.page[c].keys = <<>> /\ v.page[c].kids = <<>>
  /\ \A y \in PageId \ {c} : /\ v.page[y].parent = t.page[y].parent /\ v.page[y].place = t.page[y].place
                             /\ v.page[y].leaf = t.page[y].leaf
                             /\ v.page[y].keys = t.page[y].keys /\ v.page[y].kids = t.page[y].kids

LEMMA FreshIs ==
  ASSUME NEW t \in TreeType, t.used # PageId
  PROVE  FreshId(t) \in PageId \ t.used
PROOF
<1>1. \E p \in PageId : p \notin t.used
  BY DEF TreeType
<1> QED BY <1>1 DEF FreshId

LEMMA NewIs ==
  ASSUME NEW t \in TreeType, t.used # PageId, NEW q \in Cell, NEW i \in 1 .. MAX_NUM \cup {NULL_ID},
         NEW next \in Cell, NEW prev \in t.used \cup {NULL_ID}, NEW leaf \in BOOLEAN,
         NEW v, v = New(t, q, i, next, prev, leaf)
  PROVE  Fresh(t, v, FreshId(t), q, i, leaf)
PROOF
<1> DEFINE c == FreshId(t)
           n == [parent |-> q, place |-> i, next |-> next, leaf |-> leaf, keys |-> <<>>, kids |-> <<>>]
           made == [t.page EXCEPT ![c] = n]
           pages == IF prev # NULL_ID THEN [made EXCEPT ![prev].next = c] ELSE made
<1>1. c \in PageId \ t.used
  BY FreshIs
<1>2. /\ t.used \subseteq PageId /\ t.page \in [PageId -> NodeType] /\ t.root \in Cell
      /\ t = [root |-> t.root, used |-> t.used, page |-> t.page]
  BY DEF TreeType
<1>3. v = [t EXCEPT !.used = @ \cup {c}, !.page = pages]
  BY DEF New
<1> HIDE DEF c
<1>4. n \in NodeType
  <2>1. <<>> \in Seq(Key) /\ <<>> \in Seq(Value \cup PageId)
    OBVIOUS
  <2> QED BY <2>1 DEF NodeType
<1>5. /\ n.parent = q /\ n.place = i /\ n.leaf = leaf /\ n.keys = <<>> /\ n.kids = <<>>
  OBVIOUS
<1> HIDE DEF n
<1>6. /\ made \in [PageId -> NodeType] /\ made[c] = n
      /\ \A y \in PageId \ {c} : made[y] = t.page[y]
  BY <1>1, <1>2, <1>4
<1> HIDE DEF made
<1>7. /\ pages \in [PageId -> NodeType] /\ pages[c] = n
      /\ \A y \in PageId \ {c} : /\ pages[y].parent = t.page[y].parent /\ pages[y].place = t.page[y].place
                                 /\ pages[y].leaf = t.page[y].leaf
                                 /\ pages[y].keys = t.page[y].keys /\ pages[y].kids = t.page[y].kids
  <2>1. CASE prev = NULL_ID
    BY <2>1, <1>6
  <2>2. CASE prev # NULL_ID
    <3>1. prev \in PageId /\ prev # c
      BY <2>2, <1>1, <1>2
    <3> DEFINE m == [made[prev] EXCEPT !.next = c]
    <3>2. m \in NodeType /\ m.parent = made[prev].parent /\ m.place = made[prev].place
          /\ m.leaf = made[prev].leaf /\ m.keys = made[prev].keys /\ m.kids = made[prev].kids
      BY <3>1, <1>1, <1>6 DEF NodeType, Cell
    <3>3. pages = [made EXCEPT ![prev] = m]
      BY <2>2, <3>1, <1>6
    <3> HIDE DEF m, pages
    <3> QED BY <3>1, <3>2, <3>3, <1>1, <1>6
  <2> QED BY <2>1, <2>2
<1> HIDE DEF pages
<1>8. v \in TreeType /\ v.root = t.root /\ v.used = t.used \cup {c} /\ v.page = pages
  BY <1>1, <1>2, <1>3, <1>7 DEF TreeType
<1>9. Fresh(t, v, c, q, i, leaf)
  BY <1>1, <1>5, <1>7, <1>8 DEF Fresh
<1> QED BY <1>9 DEF c

(* A fresh page hangs nowhere. *)
CanMake(t, h, R, lo, hi, v, c, q, i, leaf, n, b, e) ==
  /\ Links(t, h, R, {}) /\ Tops(t, {}) /\ Ordered(t, lo, hi)
  /\ Fresh(t, v, c, q, i, leaf) /\ leaf \in BOOLEAN
  /\ n \in 0 .. LEVELS - 1 /\ (leaf <=> n = 0) /\ b \in Int /\ e \in Int /\ b <= e

HasMade(t, h, R, lo, hi, v, c, h2, lo2, hi2) ==
  /\ Links(v, h2, R \cup {c}, {}) /\ Tops(v, {}) /\ Ordered(v, lo2, hi2) /\ SameHas(t, v)

LEMMA Making ==
  ASSUME NEW t, NEW h, NEW R, NEW lo, NEW hi, NEW v, NEW c, NEW q, NEW i, NEW leaf, NEW n, NEW b, NEW e,
         CanMake(t, h, R, lo, hi, v, c, q, i, leaf, n, b, e),
         NEW h2, h2 = [h EXCEPT ![c] = n], NEW lo2, lo2 = [lo EXCEPT ![c] = b],
         NEW hi2, hi2 = [hi EXCEPT ![c] = e]
  PROVE  HasMade(t, h, R, lo, hi, v, c, h2, lo2, hi2)
PROOF
<1>1. /\ Links(t, h, R, {}) /\ Tops(t, {}) /\ Ordered(t, lo, hi) /\ leaf \in BOOLEAN
      /\ n \in 0 .. LEVELS - 1 /\ (leaf <=> n = 0) /\ b \in Int /\ e \in Int /\ b <= e
  BY DEF CanMake
<1>2. /\ v \in TreeType /\ v.root = t.root /\ v.used = t.used \cup {c}
      /\ c \in PageId \ t.used
      /\ v.page[c].parent = q /\ v.page[c].place = i /\ v.page[c].leaf = leaf
      /\ v.page[c].keys = <<>> /\ v.page[c].kids = <<>>
      /\ \A y \in PageId \ {c} : /\ v.page[y].parent = t.page[y].parent /\ v.page[y].place = t.page[y].place
                                 /\ v.page[y].leaf = t.page[y].leaf
                                 /\ v.page[y].keys = t.page[y].keys /\ v.page[y].kids = t.page[y].kids
  BY DEF CanMake, Fresh
<1>3. /\ t.used \subseteq PageId /\ h \in Heights /\ lo \in [PageId -> Int] /\ hi \in [PageId -> Int]
      /\ R \subseteq t.used
  BY <1>1, LinkFacts DEF Links, Ordered
<1>4. /\ h2 \in Heights /\ h2[c] = n /\ lo2 \in [PageId -> Int] /\ hi2 \in [PageId -> Int]
      /\ lo2[c] = b /\ hi2[c] = e
      /\ \A y \in PageId \ {c} : h2[y] = h[y] /\ lo2[y] = lo[y] /\ hi2[y] = hi[y]
  BY <1>1, <1>2, <1>3 DEF Heights
<1>5. \A y \in t.used : y \in PageId \ {c}
  BY <1>2, <1>3
<1>6. Len(v.page[c].keys) = 0 /\ Len(v.page[c].kids) = 0
  BY <1>2
<1>7. ASSUME NEW p \in t.used, ~t.page[p].leaf, NEW j \in 1 .. Len(t.page[p].keys)
      PROVE  /\ t.page[p].kids[j] \in t.used /\ h[t.page[p].kids[j]] + 1 = h[p]
             /\ Below(t, h, p, j) /\ Known(t, p, j)
  BY <1>7, <1>1 DEF Links, Below
<1>8. Links(v, h2, R \cup {c}, {})
  <2>1. ASSUME NEW p \in v.used PROVE Even(v, h2, p)
    <3>1. CASE p = c
      BY <3>1, <1>1, <1>2, <1>4, <1>6 DEF Even
    <3>2. CASE p # c
      <4>1. p \in t.used /\ Even(t, h, p)
        BY <3>2, <1>1, <1>2 DEF Links
      <4> QED BY <4>1, <1>2, <1>4, <1>5 DEF Even
    <3> QED BY <3>1, <3>2
  <2>2. ASSUME NEW p \in v.used, NEW j \in 1 .. Len(v.page[p].keys), ~v.page[p].leaf
        PROVE  Below(v, h2, p, j) /\ Known(v, p, j)
    <3>1. p # c
      BY <1>6
    <3>2. p \in t.used /\ p \in PageId \ {c} /\ v.page[p].kids = t.page[p].kids
          /\ j \in 1 .. Len(t.page[p].keys) /\ ~t.page[p].leaf
      BY <3>1, <2>2, <1>2, <1>5
    <3> QED BY <3>2, <1>2, <1>4, <1>5, <1>7 DEF Below, Known
  <2>3. ASSUME NEW d \in v.used \ (R \cup {c}) PROVE Hung(v, d)
    <3>1. d \in t.used \ R /\ Hung(t, d)
      BY <1>1, <1>2 DEF Links
    <3> QED BY <3>1, <1>2, <1>5 DEF Hung
  <2> QED BY <2>1, <2>2, <2>3, <1>2, <1>3, <1>4 DEF Links
<1>9. Tops(v, {})
  <2>1. ASSUME NEW p \in v.used, NEW j \in 1 .. Len(v.page[p].keys), ~v.page[p].leaf
        PROVE  Top(v, p, j)
    <3>1. p # c
      BY <1>6
    <3>2. p \in t.used /\ p \in PageId \ {c} /\ v.page[p].kids = t.page[p].kids
          /\ j \in 1 .. Len(t.page[p].keys) /\ ~t.page[p].leaf
      BY <3>1, <2>1, <1>2, <1>5
    <3>3. Top(t, p, j)
      BY <3>2, <1>1 DEF Tops
    <3>4. t.page[p].kids[j] \in PageId \ {c}
      BY <3>2, <1>5, <1>7
    <3> QED BY <3>2, <3>3, <3>4, <1>2 DEF Top, LastKey, Size
  <2> QED BY <2>1 DEF Tops
<1>10. Ordered(v, lo2, hi2)
  <2>1. ASSUME NEW p \in v.used PROVE Sorted(v, lo2, hi2, p)
    <3>1. CASE p = c
      BY <3>1, <1>1, <1>4, <1>6 DEF Sorted
    <3>2. CASE p # c
      <4>1. p \in t.used /\ p \in PageId \ {c} /\ Sorted(t, lo, hi, p)
        BY <3>2, <1>1, <1>2, <1>5 DEF Ordered
      <4>2. \A j \in 1 .. Len(t.page[p].keys) : Low(v, lo2, p, j) = Low(t, lo, p, j) /\ High(v, hi2, p, j) = High(t, hi, p, j)
        BY <4>1, <1>2, <1>4, <1>5, <1>7 DEF Low, High
      <4> QED BY <4>1, <4>2, <1>2, <1>4 DEF Sorted
    <3> QED BY <3>1, <3>2
  <2> QED BY <2>1, <1>4 DEF Ordered
<1>11. SameHas(t, v)
  <2>1. ASSUME NEW k, NEW x, Has(t, k, x) PROVE Has(v, k, x)
    <3>1. PICK p \in t.used : t.page[p].leaf /\ \E j \in 1 .. Len(t.page[p].keys) :
                                                  t.page[p].keys[j] = k /\ t.page[p].kids[j] = x
      BY <2>1 DEF Has
    <3> QED BY <3>1, <1>2, <1>5 DEF Has
  <2>2. ASSUME NEW k, NEW x, Has(v, k, x) PROVE Has(t, k, x)
    <3>1. PICK p \in v.used : v.page[p].leaf /\ \E j \in 1 .. Len(v.page[p].keys) :
                                                  v.page[p].keys[j] = k /\ v.page[p].kids[j] = x
      BY <2>2 DEF Has
    <3>2. p \in t.used
      BY <3>1, <1>2, <1>6
    <3> QED BY <3>1, <3>2, <1>2, <1>5 DEF Has
  <2> QED BY <2>1, <2>2 DEF SameHas
<1> QED BY <1>8, <1>9, <1>10, <1>11 DEF HasMade

(* A new entry is about the keys k with low < k <= high, between those of  *)
(* its neighbours.                                                         *)
Between(t, lo, hi, q, i, n, low, high) ==
  /\ low \in Int /\ high \in Int /\ lo[q] <= low /\ high <= hi[q]
  /\ \A j \in 1 .. n : /\ j < i => High(t, hi, q, j) <= low
                       /\ j >= i => high <= Low(t, lo, q, j)

LEMMA OthersSorted ==
  ASSUME NEW t, NEW v, NEW h, NEW R, NEW X, NEW q, NEW lo, NEW hi, NEW y \in t.used, y # q,
         Links(t, h, R, X), Ordered(t, lo, hi), Changed(t, v, h, q), q \in t.used
  PROVE  Sorted(v, lo, hi, y)
PROOF
<1>1. /\ t.used \subseteq PageId /\ y \in PageId /\ h \in [PageId -> Nat] /\ q \in PageId
  BY LinkFacts
<1>2. /\ v.page[y].leaf = t.page[y].leaf /\ v.page[y].kids = t.page[y].kids
      /\ Len(v.page[y].keys) = Len(t.page[y].keys)
      /\ y \notin Higher(t, h, h[q]) => v.page[y].keys = t.page[y].keys
  BY <1>1 DEF Changed
<1>3. t.page[y].leaf => v.page[y].keys = t.page[y].keys
  <2>1. t.page[y].leaf => h[y] = 0
    BY DEF Links, Even
  <2>2. h[y] = 0 => y \notin Higher(t, h, h[q])
    BY <1>1 DEF Higher
  <2> QED BY <2>1, <2>2, <1>2
<1>4. \A j : Low(v, lo, y, j) = Low(t, lo, y, j) /\ High(v, hi, y, j) = High(t, hi, y, j)
  BY <1>2, <1>3 DEF Low, High
<1>5. Sorted(t, lo, hi, y)
  BY DEF Ordered
<1> QED BY <1>2, <1>4, <1>5 DEF Sorted

LEMMA InsertOrder ==
  ASSUME NEW t, NEW v, NEW h, NEW R, NEW q, NEW i, NEW kid, NEW key, NEW n, NEW lo, NEW hi,
         CanInsert(t, h, R, q, i, kid, key, n), HasInserted(t, v, h, R, q, i, kid, key, n),
         Ordered(t, lo, hi), NEW low, NEW high, Between(t, lo, hi, q, i, n, low, high),
         low = (IF t.page[q].leaf THEN key - 1 ELSE lo[kid]),
         high = (IF t.page[q].leaf THEN key ELSE hi[kid])
  PROVE  Ordered(v, lo, hi)
PROOF
<1>1. /\ Links(t, h, R, {}) /\ q \in t.used /\ i \in 1 .. n + 1 /\ n = Len(t.page[q].keys)
      /\ Changed(t, v, h, q)
      /\ With(v.page[q].keys, t.page[q].keys, i, key, n)
      /\ With(v.page[q].kids, t.page[q].kids, i, kid, n)
  BY DEF CanInsert, HasInserted, Fits
<1>2. n \in Nat /\ i \in Nat /\ q \in PageId /\ v.used = t.used /\ v.page[q].leaf = t.page[q].leaf
  BY <1>1, LinkFacts DEF With, Changed
<1>3. /\ Len(v.page[q].keys) = n + 1 /\ v.page[q].keys[i] = key /\ v.page[q].kids[i] = kid
  BY <1>1 DEF With
<1>4. ASSUME NEW j \in 1 .. n + 1, NEW l, l = (IF j < i THEN j ELSE j - 1), j # i
      PROVE  /\ l \in 1 .. n
             /\ Low(v, lo, q, j) = Low(t, lo, q, l) /\ High(v, hi, q, j) = High(t, hi, q, l)
  <2>1. l \in 1 .. n /\ v.page[q].keys[j] = t.page[q].keys[l]
    <3>1. WithPlaces(v.page[q].keys, t.page[q].keys, i, n)
      BY <1>1, WithAt
    <3> QED BY <3>1, <1>4 DEF WithPlaces
  <2>2. v.page[q].kids[j] = t.page[q].kids[l]
    <3>1. WithPlaces(v.page[q].kids, t.page[q].kids, i, n)
      BY <1>1, WithAt
    <3> QED BY <3>1, <1>4 DEF WithPlaces
  <2> QED BY <2>1, <2>2, <1>2 DEF Low, High
<1>5. Low(v, lo, q, i) = low /\ High(v, hi, q, i) = high
  BY <1>2, <1>3 DEF Low, High
<1>6. ASSUME NEW j \in 1 .. n PROVE Low(t, lo, q, j) \in Int /\ High(t, hi, q, j) \in Int
  BY <1>1, EntryBounds
<1>7. Sorted(t, lo, hi, q) /\ lo[q] \in Int /\ hi[q] \in Int
  BY <1>1, <1>2 DEF Ordered
<1>8. Sorted(v, lo, hi, q)
  <2>1. /\ \A j \in 1 .. n : lo[q] <= Low(t, lo, q, j) /\ High(t, hi, q, j) <= hi[q]
        /\ \A j, l \in 1 .. n : j < l => High(t, hi, q, j) <= Low(t, lo, q, l)
        /\ lo[q] <= hi[q]
    BY <1>7, <1>1 DEF Sorted
  <2>2. /\ low \in Int /\ high \in Int /\ lo[q] <= low /\ high <= hi[q]
        /\ \A j \in 1 .. n : /\ j < i => High(t, hi, q, j) <= low
                             /\ j >= i => high <= Low(t, lo, q, j)
    BY DEF Between
  <2>3. ASSUME NEW j \in 1 .. n + 1
        PROVE  lo[q] <= Low(v, lo, q, j) /\ High(v, hi, q, j) <= hi[q]
    <3>1. CASE j = i
      BY <3>1, <2>2, <1>5
    <3>2. CASE j # i
      <4> DEFINE l == IF j < i THEN j ELSE j - 1
      <4>1. l \in 1 .. n /\ Low(v, lo, q, j) = Low(t, lo, q, l) /\ High(v, hi, q, j) = High(t, hi, q, l)
        BY <3>2, <1>4
      <4> HIDE DEF l
      <4> QED BY <4>1, <2>1
    <3> QED BY <3>1, <3>2
  <2>4. ASSUME NEW j \in 1 .. n + 1, NEW o \in 1 .. n + 1, j < o
        PROVE  High(v, hi, q, j) <= Low(v, lo, q, o)
    <3> DEFINE l == IF j < i THEN j ELSE j - 1
               m == IF o < i THEN o ELSE o - 1
    <3>1. j # i => l \in 1 .. n /\ High(v, hi, q, j) = High(t, hi, q, l)
      BY <1>4
    <3>2. o # i => m \in 1 .. n /\ Low(v, lo, q, o) = Low(t, lo, q, m)
      BY <1>4
    <3>3. j # i /\ o # i => l < m
      BY <2>4, <1>2
    <3>4. j = i => o # i /\ m >= i
      BY <2>4, <1>2
    <3>5. o = i => j # i /\ l < i
      BY <2>4, <1>2
    <3> HIDE DEF l, m
    <3>6. CASE j = i
      BY <3>2, <3>4, <3>6, <2>2, <1>5
    <3>7. CASE o = i
      BY <3>1, <3>5, <3>7, <2>2, <1>5
    <3>8. CASE j # i /\ o # i
      BY <3>1, <3>2, <3>3, <3>8, <2>1
    <3> QED BY <3>6, <3>7, <3>8
  <2> QED BY <2>1, <2>3, <2>4, <1>3 DEF Sorted
<1>9. \A y \in t.used : Sorted(v, lo, hi, y)
  BY <1>1, <1>8, OthersSorted
<1> QED BY <1>2, <1>9 DEF Ordered

LEMMA RemoveOrder ==
  ASSUME NEW t, NEW v, NEW h, NEW R, NEW Q, NEW X, NEW p, NEW i, NEW n, NEW lo, NEW hi,
         CanRemove(t, h, R, Q, X, p, i, n), HasRemoved(t, v, h, Q, p, i, n), Ordered(t, lo, hi)
  PROVE  Ordered(v, lo, hi)
PROOF
<1>1. /\ Links(t, h, R, X) /\ p \in t.used /\ n = Len(t.page[p].keys)
      /\ Changed(t, v, h, p)
      /\ Without(v.page[p].keys, t.page[p].keys, i, n)
      /\ Without(v.page[p].kids, t.page[p].kids, i, n)
  BY DEF CanRemove, HasRemoved
<1>2. n \in Nat /\ i \in 1 .. n /\ p \in PageId /\ v.used = t.used /\ v.page[p].leaf = t.page[p].leaf
  BY <1>1, LinkFacts DEF Without, Changed
<1>3. Len(v.page[p].keys) = n - 1
  BY <1>1 DEF Without
<1>4. ASSUME NEW j \in 1 .. n - 1, NEW l, l = (IF j < i THEN j ELSE j + 1)
      PROVE  /\ l \in 1 .. n
             /\ Low(v, lo, p, j) = Low(t, lo, p, l) /\ High(v, hi, p, j) = High(t, hi, p, l)
  <2>1. l \in 1 .. n /\ v.page[p].keys[j] = t.page[p].keys[l]
    <3>1. WithoutPlaces(v.page[p].keys, t.page[p].keys, i, n)
      BY <1>1, WithoutAt
    <3> QED BY <3>1, <1>4 DEF WithoutPlaces
  <2>2. v.page[p].kids[j] = t.page[p].kids[l]
    <3>1. WithoutPlaces(v.page[p].kids, t.page[p].kids, i, n)
      BY <1>1, WithoutAt
    <3> QED BY <3>1, <1>4 DEF WithoutPlaces
  <2> QED BY <2>1, <2>2, <1>2 DEF Low, High
<1>7. Sorted(t, lo, hi, p)
  BY <1>1 DEF Ordered
<1>8. Sorted(v, lo, hi, p)
  <2>1. /\ \A j \in 1 .. n : lo[p] <= Low(t, lo, p, j) /\ High(t, hi, p, j) <= hi[p]
        /\ \A j, l \in 1 .. n : j < l => High(t, hi, p, j) <= Low(t, lo, p, l)
        /\ lo[p] <= hi[p]
    BY <1>7, <1>1 DEF Sorted
  <2>3. ASSUME NEW j \in 1 .. n - 1
        PROVE  lo[p] <= Low(v, lo, p, j) /\ High(v, hi, p, j) <= hi[p]
    <3> DEFINE l == IF j < i THEN j ELSE j + 1
    <3>1. l \in 1 .. n /\ Low(v, lo, p, j) = Low(t, lo, p, l) /\ High(v, hi, p, j) = High(t, hi, p, l)
      BY <1>4
    <3> HIDE DEF l
    <3> QED BY <3>1, <2>1
  <2>4. ASSUME NEW j \in 1 .. n - 1, NEW o \in 1 .. n - 1, j < o
        PROVE  High(v, hi, p, j) <= Low(v, lo, p, o)
    <3> DEFINE l == IF j < i THEN j ELSE j + 1
               m == IF o < i THEN o ELSE o + 1
    <3>1. l \in 1 .. n /\ High(v, hi, p, j) = High(t, hi, p, l)
      BY <1>4
    <3>2. m \in 1 .. n /\ Low(v, lo, p, o) = Low(t, lo, p, m)
      BY <1>4
    <3>3. l < m
      BY <2>4, <1>2
    <3> HIDE DEF l, m
    <3> QED BY <3>1, <3>2, <3>3, <2>1
  <2> QED BY <2>1, <2>3, <2>4, <1>3 DEF Sorted
<1>9. \A y \in t.used : Sorted(v, lo, hi, y)
  BY <1>1, <1>8, OthersSorted
<1> QED BY <1>2, <1>9 DEF Ordered

(* Nothing but the inner pages may differ: the tree holds the same. *)
LEMMA InnerHas ==
  ASSUME NEW t, NEW v, NEW h, NEW R, NEW X, NEW q \in t.used, Links(t, h, R, X),
         Changed(t, v, h, q), ~t.page[q].leaf
  PROVE  SameHas(t, v)
PROOF
<1>1. t.used \subseteq PageId /\ h \in [PageId -> Nat] /\ v.used = t.used
  BY LinkFacts DEF Changed
<1>2. ASSUME NEW p \in t.used
      PROVE  /\ v.page[p].leaf = t.page[p].leaf
             /\ t.page[p].leaf => v.page[p].keys = t.page[p].keys /\ v.page[p].kids = t.page[p].kids
  <2>1. v.page[p].leaf = t.page[p].leaf /\ p \in PageId
    BY <1>1 DEF Changed
  <2>2. ASSUME t.page[p].leaf PROVE v.page[p].keys = t.page[p].keys /\ v.page[p].kids = t.page[p].kids
    <3>1. p # q /\ h[p] = 0
      BY <2>2 DEF Links, Even
    <3>2. p \notin Higher(t, h, h[q])
      BY <3>1, <1>1 DEF Higher
    <3> QED BY <3>1, <3>2, <2>1 DEF Changed
  <2> QED BY <2>1, <2>2
<1>3. \A k, x : Has(t, k, x) <=> Has(v, k, x)
  BY <1>1, <1>2 DEF Has
<1> QED BY <1>3 DEF SameHas

(* Page c, which hangs nowhere, comes to hang in q at i. *)
CanAttach(t, h, R, lo, hi, q, i, c, n) ==
  /\ Links(t, h, R, {}) /\ Tops(t, {}) /\ Ordered(t, lo, hi)
  /\ q \in t.used /\ n = Len(t.page[q].keys) /\ n < MAX_NUM /\ i \in 1 .. n + 1
  /\ c \in R /\ h[c] + 1 = h[q] /\ t.page[c].keys # <<>>
  /\ \A x \in t.used : ~t.page[x].leaf => \A j \in 1 .. Len(t.page[x].keys) : t.page[x].kids[j] # c
  /\ Orphans(t, h, R, h[q])
  /\ q \notin R \/ t.page[q].parent = NULL_ID
  /\ Between(t, lo, hi, q, i, n, lo[c], hi[c])

HasAttached(t, v, h, R, lo, hi, q, i, c, n) ==
  /\ Links(v, h, R \ {c}, {}) /\ Tops(v, {}) /\ Ordered(v, lo, hi)
  /\ Changed(t, v, h, q) /\ SameHas(t, v)
  /\ Len(v.page[q].keys) = n + 1
  /\ With(v.page[q].kids, t.page[q].kids, i, c, n)

LEMMA Attaching ==
  ASSUME NEW t, NEW v, NEW h, NEW R, NEW lo, NEW hi, NEW q, NEW i, NEW c, NEW n,
         CanAttach(t, h, R, lo, hi, q, i, c, n), v = InsertPage(t, q, i, c)
  PROVE  HasAttached(t, v, h, R, lo, hi, q, i, c, n)
PROOF
<1>1. /\ Links(t, h, R, {}) /\ Tops(t, {}) /\ Ordered(t, lo, hi)
      /\ q \in t.used /\ n = Len(t.page[q].keys) /\ n < MAX_NUM /\ i \in 1 .. n + 1
      /\ c \in R /\ h[c] + 1 = h[q] /\ t.page[c].keys # <<>>
      /\ \A x \in t.used : ~t.page[x].leaf => \A j \in 1 .. Len(t.page[x].keys) : t.page[x].kids[j] # c
      /\ Orphans(t, h, R, h[q])
      /\ q \notin R \/ t.page[q].parent = NULL_ID
      /\ Between(t, lo, hi, q, i, n, lo[c], hi[c])
  BY DEF CanAttach
<1>2. /\ t.used \subseteq PageId /\ h \in [PageId -> Nat] /\ R \subseteq t.used /\ c \in t.used
      /\ t.page[c].keys \in Seq(Key) /\ t.page[q].leaf \in BOOLEAN /\ q \in PageId /\ c \in PageId
  BY <1>1, LinkFacts DEF Links
<1> DEFINE key == LastKey(t, c)
<1>3. key \in Key
  <2> DEFINE s == t.page[c].keys
  <2>1. s \in Seq(Key) /\ s # <<>>
    BY <1>1, <1>2
  <2>2. key = s[Len(s)]
    BY DEF LastKey, Size
  <2> HIDE DEF s, key
  <2> QED BY <2>1, <2>2
<1>4. ~t.page[q].leaf
  <2>1. h[c] \in Nat /\ h[q] # 0
    BY <1>1, <1>2
  <2> QED BY <2>1, <1>1 DEF Links, Even
<1>5. v = InsertAt(t, q, i, c, key)
  BY DEF InsertPage
<1>6. key = LastKey(t, c)
  OBVIOUS
<1> HIDE DEF key
<1>7. CanInsert(t, h, R, q, i, c, key, n)
  <2>1. Fits(t, h, q, i, c, key)
    BY <1>1, <1>2, <1>3 DEF Fits
  <2>2. Raisable(t, h, R, q, key)
    BY <1>1 DEF Raisable
  <2> QED BY <2>1, <2>2, <1>1, <1>6 DEF CanInsert
<1>8. HasInserted(t, v, h, R, q, i, c, key, n)
  BY <1>5, <1>7, InsertDone
<1>9. Links(v, h, R, Listed(t, c, q)) /\ Tops(v, {}) /\ Changed(t, v, h, q) /\ Hung(v, c)
      /\ With(v.page[q].keys, t.page[q].keys, i, key, n) /\ With(v.page[q].kids, t.page[q].kids, i, c, n)
  BY <1>4, <1>8 DEF HasInserted
<1>10. Listed(t, c, q) = {}
  BY <1>1 DEF Listed
<1>11. Links(v, h, R \ {c}, {})
  BY <1>9, <1>10 DEF Links
<1>12. SameHas(t, v)
  BY <1>1, <1>4, <1>9, InnerHas
<1>13. Ordered(v, lo, hi)
  <2> DEFINE low == lo[c]
             high == hi[c]
  <2>1. /\ low = (IF t.page[q].leaf THEN key - 1 ELSE lo[c])
        /\ high = (IF t.page[q].leaf THEN key ELSE hi[c])
        /\ Between(t, lo, hi, q, i, n, low, high)
    BY <1>1, <1>4
  <2> HIDE DEF low, high
  <2> QED BY <2>1, <1>1, <1>7, <1>8, InsertOrder
<1>14. Len(v.page[q].keys) = n + 1
  BY <1>9 DEF With
<1> QED BY <1>9, <1>11, <1>12, <1>13, <1>14 DEF HasAttached

(* Between two calls the root is the one page that hangs nowhere. *)
Shape(t, h, lo, hi) ==
  /\ Links(t, h, {t.root}, {}) /\ Tops(t, {}) /\ Ordered(t, lo, hi)
  /\ t.page[t.root].parent = NULL_ID

LEMMA RootHighest ==
  ASSUME NEW t, NEW h, NEW X, Links(t, h, {t.root}, X), NEW y \in t.used, y # t.root
  PROVE  h[y] < h[t.root]
PROOF
<1>1. /\ t.used \subseteq PageId /\ h \in [PageId -> Nat] /\ t.root \in t.used
      /\ \A p \in t.used : h[p] < LEVELS
  BY LinkFacts DEF Links
<1>2. LEVELS \in Nat
  BY PageAssumption
<1> DEFINE Bad == {p \in t.used : p # t.root /\ h[p] >= h[t.root]}
           T == {h[p] : p \in Bad}
<1> SUFFICES ASSUME Bad # {} PROVE FALSE
  BY <1>1
<1>3. T \subseteq 0 .. LEVELS /\ T # {}
  BY <1>1, <1>2
<1>4. PICK x \in T : \A z \in T : z <= x
  BY <1>2, <1>3, GreatestNat
<1>5. PICK p \in Bad : h[p] = x
  OBVIOUS
<1>6. p \in t.used /\ p # t.root /\ h[p] >= h[t.root] /\ h[p] \in Nat /\ h[t.root] \in Nat
  BY <1>1
<1> DEFINE q == t.page[p].parent
           i == t.page[p].place
<1>7. q \in t.used /\ ~t.page[q].leaf /\ i \in 1 .. Len(t.page[q].keys) /\ t.page[q].kids[i] = p
  <2>1. Hung(t, p)
    BY <1>6 DEF Links
  <2> QED BY <2>1 DEF Hung
<1>8. h[p] + 1 = h[q]
  <2>1. Below(t, h, q, i)
    BY <1>7 DEF Links
  <2> QED BY <2>1, <1>7 DEF Below
<1> HIDE DEF q
<1>9. q \in Bad
  BY <1>6, <1>7, <1>8
<1>10. h[q] \in T
  BY <1>9
<1>11. h[q] <= h[p]
  BY <1>4, <1>5, <1>10
<1> QED BY <1>6, <1>8, <1>11

(* An emptied page is deleted. *)
CanDelete(t, h, lo, hi, q, c, n) ==
  /\ Shape(t, h, lo, hi) /\ c \in t.used /\ c # t.root /\ t.page[c].keys = <<>>
  /\ q = t.page[c].parent /\ n = Len(t.page[q].keys) /\ n <= MAX_NUM

HasDeleted(t, v, h, lo, hi, q, c, n) ==
  /\ Shape(v, h, lo, hi) /\ v.used = t.used \ {c} /\ v.root = t.root
  /\ q \in t.used /\ h[q] = h[c] + 1 /\ Len(v.page[q].keys) = n - 1 /\ n > 0
  /\ \A y \in t.used : v.page[y].leaf = t.page[y].leaf
  /\ \A y \in t.used \ {q} : Len(v.page[y].keys) = Len(t.page[y].keys)
  /\ SameHas(t, v)

LEMMA Deleting ==
  ASSUME NEW t, NEW v, NEW h, NEW lo, NEW hi, NEW q, NEW c, NEW n,
         CanDelete(t, h, lo, hi, q, c, n), v = Delete(t, c)
  PROVE  HasDeleted(t, v, h, lo, hi, q, c, n)
PROOF
<1> DEFINE R == {t.root}
           Q == {t.root, c}
           i == t.page[c].place
           skip == IF i > 1 THEN [t EXCEPT !.page[t.page[q].kids[i - 1]].next = t.page[c].next] ELSE t
           w == RemoveAt(skip, q, i)
<1>1. /\ Links(t, h, R, {}) /\ Tops(t, {}) /\ Ordered(t, lo, hi) /\ t.page[t.root].parent = NULL_ID
      /\ c \in t.used /\ c # t.root /\ t.page[c].keys = <<>> /\ c \in PageId
      /\ q = t.page[c].parent /\ n = Len(t.page[q].keys) /\ n <= MAX_NUM
  BY LinkFacts DEF CanDelete, Shape
<1>2. /\ t \in TreeType /\ t.used \subseteq PageId /\ h \in [PageId -> Nat] /\ t.root \in t.used
      /\ NULL_ID \notin PageId /\ t.root \in PageId
  BY <1>1, LinkFacts DEF Links
<1>3. /\ q \in t.used /\ ~t.page[q].leaf /\ i \in 1 .. n /\ t.page[q].kids[i] = c /\ q # NULL_ID
      /\ Below(t, h, q, i) /\ h[q] = h[c] + 1 /\ q # c /\ q \in PageId
      /\ n \in Nat
  <2>1. Hung(t, c)
    BY <1>1 DEF Links
  <2>2. q \in t.used /\ ~t.page[q].leaf /\ i \in 1 .. n /\ t.page[q].kids[i] = c
    BY <2>1, <1>1 DEF Hung
  <2>3. Below(t, h, q, i)
    BY <2>2, <1>1 DEF Links
  <2>4. h[q] = h[c] + 1 /\ h[c] \in Nat
    BY <2>2, <2>3, <1>1, <1>2 DEF Below
  <2>5. q # c
    BY <2>4
  <2>6. n \in Nat
    BY <2>2, <1>1, <1>2, LinkFacts
  <2> QED BY <2>2, <2>3, <2>4, <2>5, <2>6, <1>2
<1>4. v = [w EXCEPT !.used = @ \ {c}]
  BY <1>1, <1>3 DEF Delete, Detached
<1>5. /\ skip \in TreeType /\ skip.root = t.root /\ skip.used = t.used
      /\ \A y \in PageId : /\ skip.page[y].parent = t.page[y].parent /\ skip.page[y].place = t.page[y].place
                           /\ skip.page[y].leaf = t.page[y].leaf
                           /\ skip.page[y].keys = t.page[y].keys /\ skip.page[y].kids = t.page[y].kids
  <2>1. CASE i > 1
    <3> DEFINE d == t.page[q].kids[i - 1]
               m == [t.page[d] EXCEPT !.next = t.page[c].next]
    <3>1. i - 1 \in 1 .. n
      <4>1. i \in 1 .. n /\ n \in Nat
        BY <1>3
      <4> HIDE DEF i
      <4> QED BY <4>1, <2>1
    <3>2. d \in PageId
      <4> DEFINE j == i - 1
      <4>1. j \in 1 .. n
        BY <3>1
      <4> HIDE DEF j
      <4>2. Below(t, h, q, j)
        BY <4>1, <1>1, <1>3 DEF Links
      <4> QED BY <4>2, <1>2 DEF Below, j
    <3> HIDE DEF d
    <3>3. t.page[d] \in NodeType /\ t.page[c] \in NodeType
      BY <3>2, <1>1, <1>2 DEF TreeType
    <3>4. /\ m \in NodeType /\ m.parent = t.page[d].parent /\ m.place = t.page[d].place
          /\ m.leaf = t.page[d].leaf /\ m.keys = t.page[d].keys /\ m.kids = t.page[d].kids
      BY <3>3 DEF NodeType
    <3>5. skip = [t EXCEPT !.page = [t.page EXCEPT ![d] = m]]
      BY <2>1, <1>2, <3>2 DEF TreeType, d
    <3> HIDE DEF m, skip
    <3> QED BY <3>2, <3>4, <3>5, <1>2 DEF TreeType
  <2>2. CASE ~(i > 1)
    BY <2>2, <1>2
  <2> QED BY <2>1, <2>2
<1>6. w = RemoveAt(skip, q, i)
  OBVIOUS
<1>7. i = t.page[c].place
  OBVIOUS
<1> HIDE DEF skip, i, w
<1>9. Links(skip, h, R, {}) /\ Tops(skip, {}) /\ Ordered(skip, lo, hi)
  <2>1. \A y \in t.used : y \in PageId
    BY <1>2
  <2>2. ASSUME NEW p \in t.used PROVE Even(skip, h, p)
    <3>1. Even(t, h, p)
      BY <1>1 DEF Links
    <3> QED BY <3>1, <2>1, <1>5 DEF Even
  <2>3. ASSUME NEW p \in t.used, NEW j \in 1 .. Len(t.page[p].keys), ~t.page[p].leaf
        PROVE  /\ Below(skip, h, p, j) /\ Known(skip, p, j) /\ Top(skip, p, j)
    <3>1. Below(t, h, p, j) /\ Known(t, p, j) /\ Top(t, p, j)
      BY <2>3, <1>1 DEF Links, Tops
    <3>2. t.page[p].kids[j] \in PageId
      BY <3>1, <2>1 DEF Below
    <3> QED BY <3>1, <3>2, <2>1, <1>5 DEF Below, Known, Top, LastKey, Size
  <2>4. ASSUME NEW d \in t.used \ R PROVE Hung(skip, d)
    <3>1. Hung(t, d)
      BY <1>1 DEF Links
    <3> QED BY <3>1, <2>1, <1>5 DEF Hung
  <2>5. ASSUME NEW p \in t.used PROVE Sorted(skip, lo, hi, p)
    <3>1. Sorted(t, lo, hi, p)
      BY <1>1 DEF Ordered
    <3>2. \A j : Low(skip, lo, p, j) = Low(t, lo, p, j) /\ High(skip, hi, p, j) = High(t, hi, p, j)
      BY <2>1, <1>5 DEF Low, High
    <3> QED BY <3>1, <3>2, <2>1, <1>5 DEF Sorted
  <2>6. Links(skip, h, R, {})
    BY <2>1, <2>2, <2>3, <2>4, <1>1, <1>5 DEF Links
  <2>7. Tops(skip, {})
    BY <2>1, <2>3, <1>5 DEF Tops
  <2>8. Ordered(skip, lo, hi)
    BY <2>5, <1>1, <1>5 DEF Ordered
  <2> QED BY <2>6, <2>7, <2>8
<1> DEFINE X == {}
<1>10. CanRemove(skip, h, R, Q, X, q, i, n)
  <2>1. Orphans(skip, h, Q, h[q])
    <3>1. h[c] <= h[q]
      BY <1>2, <1>3, <1>1
    <3>2. skip.page[t.root].parent = NULL_ID
      BY <1>1, <1>2, <1>5
    <3> QED BY <3>1, <3>2 DEF Orphans
  <2>2. Tops(skip, {<<q, i>>})
    BY <1>9 DEF Tops
  <2>3. q \notin R \/ skip.page[q].parent = NULL_ID
    BY <1>1, <1>3, <1>5
  <2>4. R \subseteq Q /\ Q \subseteq t.used /\ skip.page[q].kids[i] \in Q
    BY <1>1, <1>2, <1>3, <1>5
  <2> QED BY <2>1, <2>2, <2>3, <2>4, <1>1, <1>3, <1>5, <1>9 DEF CanRemove
<1>11. HasRemoved(skip, w, h, Q, q, i, n)
  BY <1>6, <1>10, RemoveDone
<1>12. Ordered(w, lo, hi)
  BY <1>9, <1>10, <1>11, RemoveOrder
<1>13. /\ Links(w, h, Q, {}) /\ Tops(w, {}) /\ Changed(skip, w, h, q)
       /\ Without(w.page[q].kids, t.page[q].kids, i, n)
       /\ Len(w.page[q].keys) = n - 1
  <2>1. q \in PageId
    BY <1>3
  <2> QED BY <2>1, <1>5, <1>11 DEF HasRemoved, Without
<1>14. /\ w.root = t.root /\ w.used = t.used
       /\ \A y \in PageId : w.page[y].leaf = t.page[y].leaf
       /\ \A y \in PageId \ {q} : /\ w.page[y].kids = t.page[y].kids
                                  /\ Len(w.page[y].keys) = Len(t.page[y].keys)
                                  /\ h[y] <= h[q] \/ y \notin t.used => w.page[y].keys = t.page[y].keys
       /\ \A y \in t.used : h[y] >= h[q] => w.page[y].parent = t.page[y].parent
  <2>1. \A y \in t.used : h[y] \in Nat /\ y \in PageId
    BY <1>2
  <2>2. \A y \in PageId : h[y] <= h[q] \/ y \notin t.used => y \notin Higher(skip, h, h[q])
    BY <2>1, <1>3, <1>5 DEF Higher
  <2> QED BY <2>1, <2>2, <1>5, <1>13 DEF Changed
<1>15. /\ v.used = t.used \ {c} /\ v.root = t.root /\ v.page = w.page /\ v \in TreeType
  BY <1>4, <1>13, <1>14 DEF Links, TreeType
<1> HIDE DEF R, Q
<1>16. w.page[c].keys = <<>> /\ Len(w.page[c].keys) = 0
  <2>1. h[c] <= h[q] /\ c # q
    BY <1>2, <1>3, <1>1
  <2> QED BY <2>1, <1>1, <1>14
<1>17. ASSUME NEW x \in t.used, ~t.page[x].leaf, NEW j \in 1 .. Len(w.page[x].keys)
       PROVE  w.page[x].kids[j] # c
  <2>1. CASE x = q
    <3>1. WithoutPlaces(w.page[q].kids, t.page[q].kids, i, n)
      BY <1>13, WithoutAt
    <3>2. PICK l \in 1 .. n : l = (IF j < i THEN j ELSE j + 1) /\ l # i /\ w.page[q].kids[j] = t.page[q].kids[l]
      BY <2>1, <3>1, <1>13, <1>17 DEF WithoutPlaces
    <3>3. Known(t, q, l)
      BY <3>2, <1>1, <1>3 DEF Links
    <3> QED BY <2>1, <3>2, <3>3, <1>7 DEF Known
  <2>2. CASE x # q
    <3>1. x \in PageId /\ j \in 1 .. Len(t.page[x].keys) /\ w.page[x].kids[j] = t.page[x].kids[j]
      BY <2>2, <1>2, <1>14, <1>17
    <3>2. Known(t, x, j)
      BY <3>1, <1>1, <1>17 DEF Links
    <3> QED BY <2>2, <3>1, <3>2, <1>1 DEF Known
  <2> QED BY <2>1, <2>2
<1>18. Links(v, h, {v.root}, {})
  <2>1. ASSUME NEW p \in v.used PROVE Even(v, h, p)
    <3>1. Even(w, h, p)
      BY <1>13, <1>14, <1>15 DEF Links
    <3> QED BY <3>1, <1>15 DEF Even
  <2>2. ASSUME NEW p \in v.used, NEW j \in 1 .. Len(v.page[p].keys), ~v.page[p].leaf
        PROVE  Below(v, h, p, j) /\ Known(v, p, j)
    <3>1. p \in w.used /\ p \in t.used /\ j \in 1 .. Len(w.page[p].keys) /\ ~w.page[p].leaf /\ ~t.page[p].leaf
      BY <2>2, <1>2, <1>14, <1>15
    <3>2. Below(w, h, p, j) /\ Known(w, p, j)
      BY <3>1, <1>13 DEF Links
    <3>3. w.page[p].kids[j] # c
      BY <3>1, <1>17
    <3> QED BY <3>2, <3>3, <1>14, <1>15 DEF Below, Known
  <2>3. ASSUME NEW d \in v.used \ {v.root} PROVE Hung(v, d)
    <3>1. d \in w.used \ Q
      BY <1>14, <1>15 DEF Q
    <3>2. Hung(w, d)
      BY <3>1, <1>13 DEF Links
    <3>3. w.page[d].parent # c
      BY <3>2, <1>16 DEF Hung
    <3> QED BY <3>2, <3>3, <1>14, <1>15 DEF Hung
  <2>4. h \in Heights /\ v.root \in v.used
    BY <1>1, <1>2, <1>15 DEF Links
  <2> QED BY <2>1, <2>2, <2>3, <2>4, <1>15 DEF Links
<1>19. Tops(v, {})
  <2>1. v.used \subseteq w.used /\ v.page = w.page
    BY <1>14, <1>15
  <2> QED BY <2>1, <1>13 DEF Tops, Top, LastKey, Size
<1>20. Ordered(v, lo, hi)
  <2>1. v.used \subseteq w.used /\ v.page = w.page
    BY <1>14, <1>15
  <2>2. \A p : Sorted(w, lo, hi, p) => Sorted(v, lo, hi, p)
    BY <2>1 DEF Sorted, Low, High
  <2> QED BY <2>1, <2>2, <1>12 DEF Ordered
<1>21. v.page[v.root].parent = NULL_ID
  <2>1. h[t.root] >= h[q] => w.page[t.root].parent = NULL_ID
    BY <1>1, <1>2, <1>14
  <2>2. q = t.root \/ h[q] < h[t.root]
    BY <1>1, <1>3, RootHighest DEF R
  <2> QED BY <2>1, <2>2, <1>2, <1>3, <1>15
<1>22. SameHas(t, v)
  <2>1. SameHas(skip, w)
    <3>1. ~skip.page[q].leaf /\ q \in skip.used
      BY <1>3, <1>5
    <3> QED BY <3>1, <1>9, <1>13, InnerHas
  <2>2. ASSUME NEW k, NEW x PROVE Has(t, k, x) <=> Has(skip, k, x)
    <3>1. \A p \in t.used : p \in PageId
      BY <1>2
    <3> QED BY <3>1, <1>5 DEF Has
  <2>3. ASSUME NEW k, NEW x PROVE Has(w, k, x) <=> Has(v, k, x)
    BY <1>14, <1>15, <1>16 DEF Has
  <2> QED BY <2>1, <2>2, <2>3 DEF SameHas
<1>23. \A y \in t.used \ {q} : Len(v.page[y].keys) = Len(t.page[y].keys)
  BY <1>2, <1>14, <1>15
<1>24. /\ \A y \in t.used : v.page[y].leaf = t.page[y].leaf
       /\ Len(v.page[q].keys) = n - 1 /\ n > 0
  <2>1. n > 0
    BY <1>3
  <2>2. Len(v.page[q].keys) = n - 1
    BY <1>13, <1>15
  <2> QED BY <2>1, <2>2, <1>2, <1>14, <1>15
<1> QED BY <1>3, <1>15, <1>18, <1>19, <1>20, <1>21, <1>22, <1>23, <1>24 DEF HasDeleted, Shape

-----------------------------------------------------------------------------
(* Adjust.                                                                 *)
Fine(t, p) ==
  /\ Size(t, p) < MAX_NUM
  /\ Size(t, p) >= IF p # t.root THEN MAX_NUM \div 2 ELSE IF t.page[p].leaf THEN 1 ELSE 2

Near(t, p) ==
  /\ Size(t, p) <= MAX_NUM
  /\ Size(t, p) >= IF p # t.root THEN MAX_NUM \div 2 - 1 ELSE IF t.page[p].leaf THEN 0 ELSE 1

Free(t) == Cardinality(PageId \ t.used)

Space(t, h, p) ==
  Size(t, p) = MAX_NUM => Free(t) >= h[t.root] - h[p] + 2 /\ h[t.root] + 1 < LEVELS

(* Page p has got an entry, or lost one. *)
Off(t, h, lo, hi, p) ==
  /\ Shape(t, h, lo, hi) /\ p \in t.used /\ Near(t, p) /\ Space(t, h, p)
  /\ \A y \in t.used \ {p} : Fine(t, y)

LEMMA Half ==
  /\ MAX_NUM \in Nat /\ MAX_NUM \div 2 \in Nat /\ MAX_NUM >= 4 /\ MAX_NUM \div 2 >= 2
  /\ MAX_NUM - MAX_NUM \div 2 \in Nat /\ MAX_NUM - MAX_NUM \div 2 >= MAX_NUM \div 2
  /\ MAX_NUM - MAX_NUM \div 2 < MAX_NUM /\ MAX_NUM \div 2 < MAX_NUM
  /\ MAX_NUM \div 2 + MAX_NUM \div 2 - 1 < MAX_NUM
PROOF
<1>1. MAX_NUM \in Nat /\ MAX_NUM >= 4
  BY TreeAssumption
<1> QED BY <1>1

LEMMA FreeFacts ==
  ASSUME NEW t, t.used \subseteq PageId
  PROVE  /\ Free(t) \in Nat
         /\ Free(t) > 0 => t.used # PageId
         /\ \A u, c : c \in PageId \ t.used /\ u.used = t.used \cup {c} => Free(u) = Free(t) - 1
PROOF
<1>1. PAGES \in Nat
  BY PageAssumption
<1>2. IsFiniteSet(PageId)
  BY <1>1, FS_Interval DEF PageId
<1> DEFINE S == PageId \ t.used
<1>3. IsFiniteSet(S)
  BY <1>2, FS_Subset
<1>4. Cardinality(S) \in Nat
  BY <1>3, FS_CardinalityType
<1>5. t.used = PageId => Cardinality(S) = 0
  BY FS_EmptySet
<1>6. ASSUME NEW u, NEW c, c \in PageId \ t.used, u.used = t.used \cup {c}
      PROVE  Cardinality(PageId \ u.used) = Cardinality(S) - 1
  <2>1. PageId \ u.used = S \ {c} /\ c \in S
    BY <1>6
  <2> HIDE DEF S
  <2>2. Cardinality(S \ {c}) = IF c \in S THEN Cardinality(S) - 1 ELSE Cardinality(S)
    BY <1>3, FS_RemoveElement
  <2> QED BY <2>1, <2>2
<1>7. Free(t) = Cardinality(S) /\ \A u : Free(u) = Cardinality(PageId \ u.used)
  BY DEF Free
<1>8. Cardinality(S) > 0 => t.used # PageId
  BY <1>4, <1>5
<1> HIDE DEF S
<1> QED BY <1>4, <1>6, <1>7, <1>8

(* A page with some entries has a last one. *)
LEMMA FineSize ==
  ASSUME NEW t, NEW h, NEW R, NEW X, Links(t, h, R, X), NEW p \in t.used, Fine(t, p)
  PROVE  t.page[p].keys # <<>>
PROOF
<1> DEFINE s == t.page[p].keys
<1>1. Len(s) >= 1
  <2>1. Len(s) \in Nat
    BY LinkFacts
  <2>2. Len(s) >= IF p # t.root THEN MAX_NUM \div 2 ELSE IF t.page[p].leaf THEN 1 ELSE 2
    BY DEF Fine, Size
  <2> HIDE DEF s
  <2> QED BY <2>1, <2>2, Half
<1>2. Len(<<>>) = 0
  OBVIOUS
<1> HIDE DEF s
<1>3. s # <<>>
  BY <1>1, <1>2
<1> QED BY <1>3 DEF s

(* The two halves of a full page. *)
Halved(t, v, h, lo, hi, h2, lo2, hi2, p, c) ==
  /\ c \in PageId \ t.used /\ v.used = t.used \cup {c} /\ v.root = t.root
  /\ h2 \in [PageId -> Nat] /\ h2[c] = h[p] /\ \A y \in t.used : h2[y] = h[y]
  /\ Pair(v, h2, {t.root, c}, lo2, hi2, p, c)
  /\ Len(v.page[p].keys) = MAX_NUM \div 2 /\ Len(v.page[c].keys) = MAX_NUM - MAX_NUM \div 2
  /\ v.page[c].parent = t.page[p].parent /\ v.page[c].place = t.page[p].place
  /\ \A y \in t.used : /\ v.page[y].leaf = t.page[y].leaf
                       /\ h[y] >= h[p] => v.page[y].parent = t.page[y].parent /\ v.page[y].place = t.page[y].place
  /\ \A y \in t.used \ {p} : v.page[y].kids = t.page[y].kids /\ Len(v.page[y].keys) = Len(t.page[y].keys)
  /\ hi2[c] = hi[p] /\ lo2[p] = lo[p] /\ \A y \in t.used \ {p} : lo2[y] = lo[y] /\ hi2[y] = hi[y]
  /\ SameHas(t, v)

LEMMA Halving ==
  ASSUME NEW t, NEW v, NEW h, NEW lo, NEW hi, NEW p, NEW c,
         Off(t, h, lo, hi, p), Size(t, p) = MAX_NUM, t.used # PageId,
         c = FreshId(t), v = Split(t, p)
  PROVE  \E h2, lo2, hi2 : Halved(t, v, h, lo, hi, h2, lo2, hi2, p, c)
PROOF
<1> DEFINE R == {t.root}
           S == {t.root, c}
           q == t.page[p].parent
           i == t.page[p].place
           leaf == t.page[p].leaf
           N == MAX_NUM - MAX_NUM \div 2
           made == New(t, q, i, t.page[p].next, p, leaf)
           n == h[p]
           b == hi[p]
           h2 == [h EXCEPT ![c] = n]
           lo1 == [lo EXCEPT ![c] = b]
           hi1 == [hi EXCEPT ![c] = b]
<1>1. /\ Links(t, h, R, {}) /\ Tops(t, {}) /\ Ordered(t, lo, hi) /\ t.page[t.root].parent = NULL_ID
      /\ p \in t.used /\ Len(t.page[p].keys) = MAX_NUM /\ \A y \in t.used \ {p} : Fine(t, y)
  BY DEF Off, Shape, Size
<1>2. /\ t \in TreeType /\ t.used \subseteq PageId /\ h \in [PageId -> Nat] /\ h \in Heights
      /\ lo \in [PageId -> Int] /\ hi \in [PageId -> Int] /\ t.root \in t.used /\ p \in PageId
      /\ t.page[p] \in NodeType
  BY <1>1, LinkFacts DEF Links, Ordered, TreeType
<1>3. /\ c \in PageId \ t.used /\ c # p
  BY <1>1, <1>2, FreshIs
<1>4. Fresh(t, made, c, q, i, leaf)
  <2>1. q \in Cell /\ i \in 1 .. MAX_NUM \cup {NULL_ID} /\ t.page[p].next \in Cell /\ leaf \in BOOLEAN
    BY <1>2 DEF NodeType
  <2>2. p \in t.used \cup {NULL_ID}
    BY <1>1
  <2> HIDE DEF q, i, leaf
  <2> QED BY <2>1, <2>2, <1>2, NewIs
<1>5. v = MoveLasts(made, p, c, N)
  BY <1>1 DEF Split, MoveLasts, Size
<1>6. N \in Nat /\ N <= MAX_NUM /\ MAX_NUM \in Nat /\ MAX_NUM - N = MAX_NUM \div 2
  BY Half
<1> HIDE DEF made, N
<1>7. /\ h2 \in [PageId -> Nat] /\ h2[c] = n /\ lo1[c] = b /\ hi1[c] = b
      /\ \A y \in t.used : h2[y] = h[y] /\ lo1[y] = lo[y] /\ hi1[y] = hi[y]
      /\ lo1 \in [PageId -> Int] /\ hi1 \in [PageId -> Int] /\ b \in Int
  BY <1>2, <1>3
<1>8. HasMade(t, h, R, lo, hi, made, c, h2, lo1, hi1)
  <2>1. CanMake(t, h, R, lo, hi, made, c, q, i, leaf, n, b, b)
    <3>1. n \in 0 .. LEVELS - 1 /\ (leaf <=> n = 0) /\ leaf \in BOOLEAN
      BY <1>1, <1>2 DEF Links, Even, Heights, NodeType
    <3> QED BY <3>1, <1>1, <1>4, <1>7 DEF CanMake
  <2>2. h2 = [h EXCEPT ![c] = n] /\ lo1 = [lo EXCEPT ![c] = b] /\ hi1 = [hi EXCEPT ![c] = b]
    OBVIOUS
  <2> HIDE DEF R, q, i, leaf, n, b, h2, lo1, hi1
  <2> QED BY <2>1, <2>2, Making
<1> HIDE DEF h2, lo1, hi1
<1>9. /\ made.root = t.root /\ made.used = t.used \cup {c}
      /\ made.page[c].parent = q /\ made.page[c].place = i /\ made.page[c].leaf = leaf
      /\ Len(made.page[c].keys) = 0
      /\ \A y \in t.used : /\ made.page[y].parent = t.page[y].parent /\ made.page[y].place = t.page[y].place
                           /\ made.page[y].leaf = t.page[y].leaf
                           /\ made.page[y].keys = t.page[y].keys /\ made.page[y].kids = t.page[y].kids
  <2>1. \A y \in t.used : y \in PageId \ {c}
    BY <1>2, <1>3
  <2> QED BY <2>1, <1>4 DEF Fresh
<1>10. /\ Links(made, h2, S, {}) /\ Tops(made, {}) /\ Ordered(made, lo1, hi1) /\ SameHas(t, made)
  <2>1. R \cup {c} = S
    OBVIOUS
  <2> QED BY <2>1, <1>8 DEF HasMade
<1>11. Pair(made, h2, S, lo1, hi1, p, c)
  <2>1. Adjacent(made, S, p, c)
    <3>1. p \in S => made.page[p].parent = NULL_ID
      BY <1>1, <1>2, <1>3, <1>9
    <3> QED BY <3>1, <1>1, <1>9 DEF Adjacent
  <2>2. Orphans(made, h2, S, h2[p])
    <3>1. h2[c] <= h2[p] /\ made.page[t.root].parent = NULL_ID
      BY <1>1, <1>2, <1>7, <1>9
    <3> QED BY <3>1 DEF Orphans
  <2>3. p \notin S \/ made.page[p].parent = NULL_ID
    BY <1>1, <1>2, <1>3, <1>9
  <2>4. ASSUME NEW x \in made.used, h2[x] + 1 = h2[p] PROVE made.page[x].keys # <<>>
    <3>1. x # p /\ x # c
      BY <2>4, <1>1, <1>2, <1>7
    <3>2. x \in t.used /\ Fine(t, x)
      BY <3>1, <1>1, <1>9
    <3>3. t.page[x].keys # <<>>
      BY <3>2, <1>1, FineSize
    <3> QED BY <3>2, <3>3, <1>9
  <2>5. h2[p] = h2[c] /\ hi1[p] <= lo1[c] /\ p \in made.used /\ c \in made.used
    BY <1>1, <1>7, <1>9
  <2> QED BY <2>1, <2>2, <2>3, <2>4, <2>5, <1>3, <1>10 DEF Pair
<1>12. Traders(made, v, h2, S, lo1, hi1, p, c, N)
  <2>1. /\ N <= Len(made.page[p].keys) /\ Len(made.page[p].keys) <= MAX_NUM
        /\ Len(made.page[c].keys) + N <= MAX_NUM
    BY <1>1, <1>6, <1>9
  <2> HIDE DEF S
  <2> QED BY <2>1, <1>5, <1>6, <1>11, LastLoop
<1>13. PICK lo2, hi2 : /\ Pair(v, h2, S, lo2, hi2, p, c)
                       /\ Traded(made, v, h2, lo1, hi1, lo2, hi2, p, c)
                       /\ Len(v.page[p].keys) = Len(made.page[p].keys) - N
                       /\ Len(v.page[c].keys) = Len(made.page[c].keys) + N
  BY <1>12 DEF Traders
<1>14. /\ Exchanged(made, v, h2, p, c) /\ SameHas(made, v) /\ Rebound(lo1, hi1, lo2, hi2, p, c)
  BY <1>13 DEF Traded
<1>15. SameHas(t, v)
  BY <1>10, <1>14 DEF SameHas
<1>16. Len(v.page[p].keys) = MAX_NUM \div 2 /\ Len(v.page[c].keys) = MAX_NUM - MAX_NUM \div 2
  <2>1. Len(made.page[p].keys) = MAX_NUM /\ Len(made.page[c].keys) = 0
    BY <1>1, <1>9
  <2>2. Len(v.page[p].keys) = MAX_NUM - N
    BY <2>1, <1>13
  <2>3. Len(v.page[c].keys) = N
    BY <2>1, <1>6, <1>13
  <2> QED BY <2>2, <2>3, <1>6 DEF N
<1>17. /\ v.used = t.used \cup {c} /\ v.root = t.root
       /\ v.page[c].parent = t.page[p].parent /\ v.page[c].place = t.page[p].place
       /\ \A y \in t.used : /\ v.page[y].leaf = t.page[y].leaf
                            /\ h[y] >= h[p] => v.page[y].parent = t.page[y].parent /\ v.page[y].place = t.page[y].place
       /\ \A y \in t.used \ {p} : v.page[y].kids = t.page[y].kids /\ Len(v.page[y].keys) = Len(t.page[y].keys)
  <2>1. \A y \in t.used : y \in PageId /\ y # c /\ y \in made.used
    BY <1>2, <1>3, <1>9
  <2>2. h2[p] = h[p] /\ \A y \in t.used : h2[y] = h[y]
    BY <1>1, <1>7
  <2>3. h2[c] >= h2[p]
    BY <1>1, <1>2, <1>7
  <2>4. v.page[c].parent = t.page[p].parent /\ v.page[c].place = t.page[p].place
    BY <2>3, <1>9, <1>14 DEF Exchanged
  <2>5. v.used = t.used \cup {c} /\ v.root = t.root
    BY <1>9, <1>14 DEF Exchanged
  <2>6. ASSUME NEW y \in t.used
        PROVE  /\ v.page[y].leaf = t.page[y].leaf
               /\ h[y] >= h[p] => v.page[y].parent = t.page[y].parent /\ v.page[y].place = t.page[y].place
    BY <2>1, <2>2, <1>9, <1>14 DEF Exchanged
  <2>7. ASSUME NEW y \in t.used \ {p}
        PROVE  v.page[y].kids = t.page[y].kids /\ Len(v.page[y].keys) = Len(t.page[y].keys)
    BY <2>1, <1>9, <1>14 DEF Exchanged
  <2> QED BY <2>4, <2>5, <2>6, <2>7
<1>18. hi2[c] = hi[p] /\ lo2[p] = lo[p] /\ \A y \in t.used \ {p} : lo2[y] = lo[y] /\ hi2[y] = hi[y]
  <2>1. \A y \in t.used : y \in PageId /\ y # c
    BY <1>2, <1>3
  <2> QED BY <2>1, <1>1, <1>3, <1>7, <1>14 DEF Rebound
<1>19. /\ h2 \in [PageId -> Nat] /\ h2[c] = h[p] /\ \A y \in t.used : h2[y] = h[y]
  BY <1>7
<1>20. Pair(v, h2, {t.root, c}, lo2, hi2, p, c)
  BY <1>13
<1> QED BY <1>3, <1>15, <1>16, <1>17, <1>18, <1>19, <1>20 DEF Halved

Good(t, h, lo, hi) == Shape(t, h, lo, hi) /\ \A y \in t.used : Fine(t, y)

Sound(t) == \/ t \in TreeType /\ t.root = NULL_ID /\ t.used = {}
            \/ \E h, lo, hi : Good(t, h, lo, hi)

Ended(t, v) == Sound(v) /\ SameHas(t, v)

WentUp(t, v, h, p, q) ==
  /\ SameHas(t, v) /\ q # NULL_ID
  /\ \E h2, lo2, hi2 : Off(v, h2, lo2, hi2, q) /\ h2[q] = h[p] + 1

LEMMA ShapeFacts ==
  ASSUME NEW t, NEW h, NEW lo, NEW hi, Shape(t, h, lo, hi)
  PROVE  /\ t \in TreeType /\ t.used \subseteq PageId /\ t.root \in t.used /\ NULL_ID \notin t.used
         /\ h \in [PageId -> Nat] /\ lo \in [PageId -> Int] /\ hi \in [PageId -> Int]
         /\ \A y \in t.used : /\ h[y] <= h[t.root] /\ h[y] \in Nat /\ lo[y] \in Int /\ hi[y] \in Int
                              /\ lo[y] <= hi[y]
                              /\ Len(t.page[y].keys) \in Nat /\ Sorted(t, lo, hi, y)
                              /\ t.page[y].leaf \in BOOLEAN
PROOF
<1>1. Links(t, h, {t.root}, {}) /\ Ordered(t, lo, hi)
  BY DEF Shape
<1>2. /\ t \in TreeType /\ t.used \subseteq PageId /\ t.root \in t.used /\ NULL_ID \notin t.used
      /\ h \in [PageId -> Nat] /\ lo \in [PageId -> Int] /\ hi \in [PageId -> Int]
  BY <1>1, LinkFacts DEF Links, Ordered
<1>3. ASSUME NEW y \in t.used
      PROVE  /\ h[y] <= h[t.root] /\ h[y] \in Nat /\ lo[y] \in Int /\ hi[y] \in Int
             /\ lo[y] <= hi[y]
             /\ Len(t.page[y].keys) \in Nat /\ Sorted(t, lo, hi, y)
             /\ t.page[y].leaf \in BOOLEAN
  <2>1. h[y] \in Nat /\ lo[y] \in Int /\ hi[y] \in Int /\ h[t.root] \in Nat
    BY <1>2
  <2>2. Len(t.page[y].keys) \in Nat /\ t.page[y].leaf \in BOOLEAN
    BY <1>1, <1>2, LinkFacts
  <2>3. Sorted(t, lo, hi, y)
    BY <1>1 DEF Ordered
  <2>4. y = t.root \/ h[y] < h[t.root]
    BY <1>1, RootHighest
  <2> QED BY <2>1, <2>2, <2>3, <2>4 DEF Sorted
<1> QED BY <1>2, <1>3

(* Where a page hangs. *)
Hangs(t, h, lo, hi, p, q, i, n) ==
  /\ q = t.page[p].parent /\ i = t.page[p].place /\ n = Len(t.page[q].keys) /\ n \in Nat
  /\ q \in t.used /\ q # p /\ ~t.page[q].leaf /\ q # NULL_ID
  /\ i \in 1 .. n /\ t.page[q].kids[i] = p /\ h[q] = h[p] + 1
  /\ lo[q] <= lo[p] /\ hi[p] <= hi[q]

Kid(t, h, lo, hi, p, q, i, j, d) ==
  /\ d = t.page[q].kids[j]
  /\ d \in t.used /\ h[d] = h[p] /\ t.page[d].parent = q /\ t.page[d].place = j /\ d # t.root
  /\ Low(t, lo, q, j) = lo[d] /\ High(t, hi, q, j) = hi[d]
  /\ i < j => hi[p] <= lo[d]
  /\ j < i => hi[d] <= lo[p]

LEMMA Hanging ==
  ASSUME NEW t, NEW h, NEW lo, NEW hi, Shape(t, h, lo, hi), NEW p \in t.used, p # t.root,
         NEW q, q = t.page[p].parent, NEW i, i = t.page[p].place, NEW n, n = Len(t.page[q].keys)
  PROVE  /\ Hangs(t, h, lo, hi, p, q, i, n)
         /\ \A j \in 1 .. n : Kid(t, h, lo, hi, p, q, i, j, t.page[q].kids[j])
PROOF
<1>1. /\ Links(t, h, {t.root}, {}) /\ t.page[t.root].parent = NULL_ID
  BY DEF Shape
<1>2. /\ q \in t.used /\ ~t.page[q].leaf /\ i \in 1 .. Len(t.page[q].keys) /\ t.page[q].kids[i] = p
  <2>1. Hung(t, p)
    BY <1>1 DEF Links
  <2> QED BY <2>1 DEF Hung
<1>3. /\ q # NULL_ID /\ h[q] \in Nat /\ h[p] \in Nat /\ Sorted(t, lo, hi, q)
      /\ Len(t.page[q].keys) \in Nat
  BY <1>2, ShapeFacts
<1>4. ASSUME NEW j \in 1 .. Len(t.page[q].keys), NEW c, c = t.page[q].kids[j]
      PROVE  /\ c \in t.used /\ h[c] + 1 = h[q] /\ t.page[c].parent = q /\ t.page[c].place = j
             /\ h[c] \in Nat /\ c # t.root
             /\ Low(t, lo, q, j) = lo[c] /\ High(t, hi, q, j) = hi[c]
  <2>1. Below(t, h, q, j) /\ Known(t, q, j)
    BY <1>1, <1>2 DEF Links
  <2>2. c \in t.used /\ h[c] + 1 = h[q] /\ t.page[c].parent = q /\ t.page[c].place = j
    BY <2>1, <1>4 DEF Below, Known
  <2>3. h[c] \in Nat
    BY <2>2, ShapeFacts
  <2>4. Low(t, lo, q, j) = lo[c] /\ High(t, hi, q, j) = hi[c]
    BY <1>2, <1>4 DEF Low, High
  <2> QED BY <2>2, <2>3, <2>4, <1>1, <1>3
<1>5. h[q] = h[p] + 1 /\ q # p /\ Low(t, lo, q, i) = lo[p] /\ High(t, hi, q, i) = hi[p]
  BY <1>2, <1>3, <1>4
<1>6. lo[q] <= lo[p] /\ hi[p] <= hi[q]
  BY <1>2, <1>3, <1>5 DEF Sorted
<1>7. ASSUME NEW j \in 1 .. Len(t.page[q].keys), NEW c, c = t.page[q].kids[j]
      PROVE  /\ h[c] = h[p]
             /\ i < j => hi[p] <= lo[c]
             /\ j < i => hi[c] <= lo[p]
  <2>1. Low(t, lo, q, j) = lo[c] /\ High(t, hi, q, j) = hi[c] /\ h[c] + 1 = h[q] /\ h[c] \in Nat
    BY <1>4, <1>7
  <2>2. h[c] = h[p]
    BY <2>1, <1>3, <1>5
  <2>3. (i < j => High(t, hi, q, i) <= Low(t, lo, q, j)) /\ (j < i => High(t, hi, q, j) <= Low(t, lo, q, i))
    BY <1>2, <1>3 DEF Sorted
  <2> QED BY <2>1, <2>2, <2>3, <1>5
<1>8. ASSUME NEW j \in 1 .. n PROVE Kid(t, h, lo, hi, p, q, i, j, t.page[q].kids[j])
  BY <1>4, <1>7 DEF Kid
<1>9. Hangs(t, h, lo, hi, p, q, i, n)
  BY <1>2, <1>3, <1>5, <1>6 DEF Hangs
<1> QED BY <1>8, <1>9

(* A full page that is not the root is split in two. *)
LEMMA SplitInner ==
  ASSUME NEW t, NEW v, NEW h, NEW lo, NEW hi, NEW p, NEW q, NEW c,
         Off(t, h, lo, hi, p), Size(t, p) = MAX_NUM, q = t.page[p].parent, q # NULL_ID,
         c = FreshId(t), v = InsertPage(Split(t, p), q, Split(t, p).page[p].place + 1, c)
  PROVE  WentUp(t, v, h, p, q)
PROOF
<1> DEFINE u == Split(t, p)
           i == t.page[p].place
           n == Len(t.page[q].keys)
           S == {t.root, c}
<1>1. /\ Shape(t, h, lo, hi) /\ p \in t.used /\ Near(t, p) /\ Space(t, h, p)
      /\ \A y \in t.used \ {p} : Fine(t, y)
      /\ t.page[t.root].parent = NULL_ID
  BY DEF Off, Shape
<1>2. p # t.root /\ t.used \subseteq PageId /\ t.root \in t.used /\ p \in PageId
  BY <1>1, ShapeFacts
<1>0. /\ Hangs(t, h, lo, hi, p, q, i, n)
      /\ \A j \in 1 .. n : Kid(t, h, lo, hi, p, q, i, j, t.page[q].kids[j])
  BY <1>1, <1>2, Hanging
<1>3. /\ q \in t.used /\ q # p /\ ~t.page[q].leaf /\ n \in Nat
      /\ i \in 1 .. n /\ t.page[q].kids[i] = p /\ h[q] = h[p] + 1
      /\ lo[q] <= lo[p] /\ hi[p] <= hi[q]
  BY <1>0 DEF Hangs
<1>4. /\ Free(t) >= h[t.root] - h[p] + 2 /\ h[t.root] + 1 < LEVELS
      /\ h[p] <= h[t.root] /\ h[p] \in Nat /\ h[t.root] \in Nat /\ h[q] <= h[t.root] /\ h[q] \in Nat
      /\ n \in Nat
  BY <1>1, <1>2, <1>3, ShapeFacts DEF Space
<1>5. Free(t) \in Nat /\ t.used # PageId /\ \A w, d : d \in PageId \ t.used /\ w.used = t.used \cup {d} => Free(w) = Free(t) - 1
  BY <1>2, <1>4, FreeFacts
<1>6. u = Split(t, p)
  OBVIOUS
<1> HIDE DEF u
<1>7. PICK h2, lo2, hi2 : Halved(t, u, h, lo, hi, h2, lo2, hi2, p, c)
  BY <1>5, <1>6, Halving
<1>8. /\ c \in PageId \ t.used /\ u.used = t.used \cup {c} /\ u.root = t.root
      /\ h2 \in [PageId -> Nat] /\ h2[c] = h[p] /\ \A y \in t.used : h2[y] = h[y]
      /\ Pair(u, h2, S, lo2, hi2, p, c)
      /\ Len(u.page[p].keys) = MAX_NUM \div 2 /\ Len(u.page[c].keys) = MAX_NUM - MAX_NUM \div 2
      /\ \A y \in t.used : /\ u.page[y].leaf = t.page[y].leaf
                           /\ h[y] >= h[p] => u.page[y].parent = t.page[y].parent /\ u.page[y].place = t.page[y].place
      /\ \A y \in t.used \ {p} : u.page[y].kids = t.page[y].kids /\ Len(u.page[y].keys) = Len(t.page[y].keys)
      /\ hi2[c] = hi[p] /\ lo2[p] = lo[p] /\ \A y \in t.used \ {p} : lo2[y] = lo[y] /\ hi2[y] = hi[y]
      /\ SameHas(t, u)
  BY <1>7 DEF Halved
<1>9. /\ Links(u, h2, S, {}) /\ Tops(u, {}) /\ Ordered(u, lo2, hi2) /\ p \in u.used /\ c \in u.used /\ p # c
      /\ hi2[p] <= lo2[c] /\ Adjacent(u, S, p, c)
      /\ lo2 \in [PageId -> Int] /\ hi2 \in [PageId -> Int]
  BY <1>8 DEF Pair, Ordered
<1>10. /\ c # q /\ q \in u.used /\ u.page[p].place = i /\ Len(u.page[q].keys) = n
       /\ u.page[q].kids = t.page[q].kids /\ ~u.page[q].leaf /\ n < MAX_NUM
       /\ h2[c] + 1 = h2[q] /\ h2[q] = h[p] + 1
       /\ u.page[t.root].parent = NULL_ID
  <2>1. Fine(t, q)
    BY <1>1, <1>3
  <2>2. n < MAX_NUM
    BY <2>1 DEF Fine, Size
  <2>3. c # q /\ q \in u.used /\ Len(u.page[q].keys) = n /\ u.page[q].kids = t.page[q].kids /\ ~u.page[q].leaf
    BY <1>3, <1>8
  <2>4. h2[c] + 1 = h2[q] /\ h2[q] = h[p] + 1
    BY <1>3, <1>8
  <2>5. h[p] >= h[p] /\ h[t.root] >= h[p]
    BY <1>4
  <2>6. u.page[p].place = i
    BY <2>5, <1>1, <1>8
  <2>7. u.page[t.root].parent = NULL_ID
    BY <2>5, <1>1, <1>2, <1>8
  <2> QED BY <2>2, <2>3, <2>4, <2>6, <2>7
<1> DEFINE k == i + 1
           low == lo2[c]
           high == hi2[c]
<1>11. Between(u, lo2, hi2, q, k, n, low, high)
  <2>1. /\ low \in Int /\ high \in Int /\ lo2[q] \in Int /\ hi2[q] \in Int /\ lo2[p] \in Int /\ hi2[p] \in Int
        /\ lo2[p] <= hi2[p]
    BY <1>2, <1>3, <1>8, <1>9 DEF Ordered, Sorted
  <2>2. lo2[q] <= low /\ high <= hi2[q]
    <3>1. lo2[q] = lo[q] /\ hi2[q] = hi[q] /\ lo2[p] = lo[p] /\ high = hi[p]
      BY <1>3, <1>8
    <3>2. lo[q] <= lo[p] /\ hi[p] <= hi[q] /\ hi2[p] <= low
      BY <1>3, <1>9
    <3> HIDE DEF low, high
    <3> QED BY <3>1, <3>2, <2>1
  <2>3. ASSUME NEW j \in 1 .. n
        PROVE  /\ j < k => High(u, hi2, q, j) <= low
               /\ j >= k => high <= Low(u, lo2, q, j)
    <3> DEFINE d == t.page[q].kids[j]
    <3>1. /\ d \in t.used /\ t.page[d].place = j
          /\ i < j => hi[p] <= lo[d]
          /\ j < i => hi[d] <= lo[p]
      BY <1>0 DEF Kid
    <3>2. High(u, hi2, q, j) = hi2[d] /\ Low(u, lo2, q, j) = lo2[d]
      BY <1>10 DEF High, Low
    <3>3. j # i => d # p
      BY <3>1
    <3>4. j = i => d = p
      BY <1>3
    <3> HIDE DEF d
    <3>5. hi2[d] \in Int /\ lo2[d] \in Int
      BY <3>1, <1>2, <1>9
    <3>6. j < i => hi2[d] <= low
      BY <3>1, <3>3, <3>5, <2>1, <1>8, <1>9
    <3>7. j > i => high <= lo2[d]
      BY <3>1, <3>3, <1>8
    <3>8. i \in Nat /\ j \in Nat
      <4>1. n \in Nat /\ i \in 1 .. n /\ j \in 1 .. n
        BY <1>3
      <4> HIDE DEF n, i
      <4> QED BY <4>1
    <3> HIDE DEF i
    <3> QED BY <3>2, <3>4, <3>6, <3>7, <3>8, <1>9
  <2> QED BY <2>1, <2>2, <2>3 DEF Between
<1>12. CanAttach(u, h2, S, lo2, hi2, q, k, c, n)
  <2>1. \A x \in u.used : ~u.page[x].leaf => \A j \in 1 .. Len(u.page[x].keys) : u.page[x].kids[j] # c
    <3>1. NextTo(u, S, p, c)
      <4> HIDE DEF S
      <4> QED BY <1>8, <1>9, AdjacentIs
    <3> QED BY <3>1 DEF NextTo
  <2>2. Orphans(u, h2, S, h2[q])
    <3>1. h2[c] <= h2[q]
      BY <1>4, <1>8, <1>10
    <3> QED BY <3>1, <1>10 DEF Orphans
  <2>3. q \notin S \/ u.page[q].parent = NULL_ID
    BY <1>10
  <2>4. u.page[c].keys # <<>>
    <3> DEFINE s == u.page[c].keys
    <3>1. Len(s) > 0 /\ Len(<<>>) = 0
      BY <1>8, Half
    <3> HIDE DEF s
    <3>2. s # <<>>
      BY <3>1
    <3> QED BY <3>2 DEF s
  <2>5. k \in 1 .. n + 1
    <3>1. n \in Nat /\ i \in 1 .. n
      BY <1>3
    <3> HIDE DEF n, i
    <3> QED BY <3>1
  <2> QED BY <2>1, <2>2, <2>3, <2>4, <2>5, <1>9, <1>10, <1>11 DEF CanAttach
<1>13. v = InsertPage(u, q, k, c)
  BY <1>6, <1>10
<1> HIDE DEF k, low, high
<1>14. HasAttached(u, v, h2, S, lo2, hi2, q, k, c, n)
  <2> HIDE DEF S, n
  <2> QED BY <1>12, <1>13, Attaching
<1>15. /\ Links(v, h2, S \ {c}, {}) /\ Tops(v, {}) /\ Ordered(v, lo2, hi2)
       /\ Changed(u, v, h2, q) /\ SameHas(u, v)
       /\ Len(v.page[q].keys) = n + 1
  BY <1>14 DEF HasAttached
<1>16. /\ v.root = t.root /\ v.used = t.used \cup {c}
       /\ \A y \in PageId : v.page[y].leaf = u.page[y].leaf
       /\ \A y \in PageId \ {q} : Len(v.page[y].keys) = Len(u.page[y].keys)
       /\ v.page[t.root].parent = NULL_ID
  <2>1. h2[t.root] >= h2[q] /\ t.root \in u.used
    BY <1>2, <1>3, <1>4, <1>8
  <2> QED BY <2>1, <1>8, <1>10, <1>15 DEF Changed
<1>17. Shape(v, h2, lo2, hi2)
  <2>1. S \ {c} = {v.root}
    BY <1>2, <1>8, <1>16
  <2> QED BY <2>1, <1>15, <1>16 DEF Shape
<1>18. ASSUME NEW y \in v.used \ {q} PROVE Fine(v, y)
  <2>1. y \in PageId /\ Size(v, y) = Len(u.page[y].keys)
    BY <1>2, <1>8, <1>16 DEF Size
  <2>2. CASE y = c
    BY <2>1, <2>2, <1>2, <1>8, <1>16, Half DEF Fine
  <2>3. CASE y = p
    BY <2>1, <2>3, <1>2, <1>8, <1>16, Half DEF Fine
  <2>4. CASE y # c /\ y # p
    <3>1. y \in t.used \ {p}
      BY <2>4, <1>16
    <3>2. Fine(t, y) /\ Size(v, y) = Size(t, y) /\ v.page[y].leaf = t.page[y].leaf
      BY <3>1, <2>1, <1>1, <1>8, <1>16 DEF Size
    <3> QED BY <3>2, <1>16 DEF Fine
  <2> QED BY <2>2, <2>3, <2>4
<1>19. Near(v, q)
  <2>1. Fine(t, q) /\ v.page[q].leaf = t.page[q].leaf
    <3>1. q \in PageId /\ q \in t.used \ {p}
      BY <1>2, <1>3
    <3>2. v.page[q].leaf = u.page[q].leaf /\ u.page[q].leaf = t.page[q].leaf
      BY <3>1, <1>8, <1>16
    <3> QED BY <3>1, <3>2, <1>1
  <2>2. n < MAX_NUM /\ n >= IF q # t.root THEN MAX_NUM \div 2 ELSE IF t.page[q].leaf THEN 1 ELSE 2
    BY <2>1 DEF Fine, Size
  <2>3. Size(v, q) = n + 1
    BY <1>15 DEF Size
  <2>4. n \in Nat
    BY <1>3
  <2> HIDE DEF n
  <2>5. n + 1 <= MAX_NUM /\ n + 1 >= IF q # v.root THEN MAX_NUM \div 2 - 1 ELSE IF v.page[q].leaf THEN 0 ELSE 1
    <3>1. v.root = t.root /\ v.page[q].leaf = t.page[q].leaf
      BY <2>1, <1>16
    <3> DEFINE m == MAX_NUM \div 2
    <3>2. m \in Nat /\ MAX_NUM \in Nat
      BY Half
    <3>3. n >= IF q # v.root THEN m ELSE IF v.page[q].leaf THEN 1 ELSE 2
      BY <2>2, <3>1
    <3> HIDE DEF m
    <3>4. n + 1 >= IF q # v.root THEN m - 1 ELSE IF v.page[q].leaf THEN 0 ELSE 1
      BY <2>4, <3>2, <3>3
    <3> QED BY <2>2, <2>4, <3>2, <3>4 DEF m
  <2> QED BY <2>3, <2>5 DEF Near
<1>20. Space(v, h2, q)
  <2>1. Free(v) = Free(t) - 1
    BY <1>5, <1>8, <1>16
  <2>2. h2[v.root] = h[t.root] /\ h2[q] = h[p] + 1
    BY <1>2, <1>8, <1>10, <1>16
  <2> QED BY <2>1, <2>2, <1>4, <1>5 DEF Space
<1>21. SameHas(t, v)
  BY <1>8, <1>15 DEF SameHas
<1>22. Off(v, h2, lo2, hi2, q) /\ h2[q] = h[p] + 1
  BY <1>10, <1>3, <1>16, <1>17, <1>18, <1>19, <1>20 DEF Off
<1> QED BY <1>21, <1>22 DEF WentUp

(* The root is split in two below a new root. *)
LEMMA SplitRoot ==
  ASSUME NEW t, NEW v, NEW h, NEW lo, NEW hi, NEW p, NEW c,
         Off(t, h, lo, hi, p), Size(t, p) = MAX_NUM, t.page[p].parent = NULL_ID,
         c = FreshId(t), v = NewRoot(Split(t, p), p, c)
  PROVE  Ended(t, v)
PROOF
<1> DEFINE u == Split(t, p)
           r == FreshId(u)
           made == New(u, NULL_ID, NULL_ID, NULL_ID, NULL_ID, FALSE)
           w1 == InsertPage(made, r, 1, p)
           w2 == InsertPage(w1, r, 2, c)
           S == {t.root, c}
           S1 == {t.root, c, r}
           S2 == {c, r}
<1>1. /\ Shape(t, h, lo, hi) /\ p \in t.used /\ Near(t, p) /\ Space(t, h, p)
      /\ \A y \in t.used \ {p} : Fine(t, y)
      /\ t.page[t.root].parent = NULL_ID
  BY DEF Off, Shape
<1>2. p = t.root /\ t.used \subseteq PageId /\ p \in PageId /\ NULL_ID \notin t.used
  <2>1. p # t.root => Hangs(t, h, lo, hi, p, t.page[p].parent, t.page[p].place, Len(t.page[t.page[p].parent].keys))
    BY <1>1, Hanging
  <2> QED BY <2>1, <1>1, ShapeFacts DEF Hangs
<1>4. /\ Free(t) >= 2 /\ h[p] + 1 < LEVELS /\ h[p] \in Nat /\ LEVELS \in Nat
  BY <1>1, <1>2, ShapeFacts, PageAssumption DEF Space
<1>5. Free(t) \in Nat /\ t.used # PageId /\ \A w, d : d \in PageId \ t.used /\ w.used = t.used \cup {d} => Free(w) = Free(t) - 1
  BY <1>2, <1>4, FreeFacts
<1>6. u = Split(t, p)
  OBVIOUS
<1> HIDE DEF u
<1>7. PICK h2, lo2, hi2 : Halved(t, u, h, lo, hi, h2, lo2, hi2, p, c)
  BY <1>5, <1>6, Halving
<1>8. /\ c \in PageId \ t.used /\ u.used = t.used \cup {c} /\ u.root = t.root
      /\ h2 \in [PageId -> Nat] /\ h2[c] = h[p] /\ \A y \in t.used : h2[y] = h[y]
      /\ Pair(u, h2, S, lo2, hi2, p, c)
      /\ Len(u.page[p].keys) = MAX_NUM \div 2 /\ Len(u.page[c].keys) = MAX_NUM - MAX_NUM \div 2
      /\ \A y \in t.used : u.page[y].leaf = t.page[y].leaf
      /\ \A y \in t.used \ {p} : Len(u.page[y].keys) = Len(t.page[y].keys)
      /\ SameHas(t, u)
  BY <1>7 DEF Halved
<1>8b. u.page[p].parent = NULL_ID
  <2>1. h[p] >= h[p]
    BY <1>4
  <2> QED BY <2>1, <1>1, <1>7 DEF Halved
<1>9. /\ Links(u, h2, S, {}) /\ Tops(u, {}) /\ Ordered(u, lo2, hi2) /\ p \in u.used /\ c \in u.used /\ p # c
      /\ hi2[p] <= lo2[c] /\ Adjacent(u, S, p, c)
      /\ lo2 \in [PageId -> Int] /\ hi2 \in [PageId -> Int]
  BY <1>8 DEF Pair, Ordered
<1>10. u.used # PageId /\ u \in TreeType /\ u.used \subseteq PageId
  <2>1. Free(u) = Free(t) - 1
    BY <1>5, <1>8
  <2>2. u.used \subseteq PageId /\ u \in TreeType
    BY <1>9, LinkFacts
  <2> QED BY <2>1, <2>2, <1>4, <1>5, FreeFacts
<1>11. r \in PageId \ u.used /\ r # p /\ r # c
  BY <1>9, <1>10, FreshIs
<1> DEFINE f == FALSE
<1>12. Fresh(u, made, r, NULL_ID, NULL_ID, f)
  <2> DEFINE x == NULL_ID
  <2>1. x \in Cell /\ x \in 1 .. MAX_NUM \cup {NULL_ID} /\ f \in BOOLEAN /\ x \in u.used \cup {NULL_ID}
    BY DEF Cell
  <2>2. made = New(u, x, x, x, x, f)
    OBVIOUS
  <2> HIDE DEF made, f, x, r
  <2>3. Fresh(u, made, FreshId(u), x, x, f)
    BY <2>1, <2>2, <1>10, NewIs
  <2> QED BY <2>3 DEF x, r
<1>13. w1 = InsertPage(made, r, 1, p) /\ w2 = InsertPage(w1, r, 2, c) /\ v = [w2 EXCEPT !.root = r]
  BY <1>6 DEF NewRoot
<1> HIDE DEF made, r, w1, w2
<1> DEFINE n == h2[p] + 1
           b == lo2[p]
           e == hi2[c]
           h3 == [h2 EXCEPT ![r] = n]
           lo3 == [lo2 EXCEPT ![r] = b]
           hi3 == [hi2 EXCEPT ![r] = e]
<1>14. /\ b \in Int /\ e \in Int /\ b <= e /\ n \in 0 .. LEVELS - 1 /\ n # 0 /\ n = h[p] + 1 /\ h2[p] = h[p]
       /\ lo2[c] \in Int /\ hi2[p] \in Int
  <2>1. Sorted(u, lo2, hi2, p) /\ Sorted(u, lo2, hi2, c) /\ c \in PageId
    BY <1>8, <1>9 DEF Ordered
  <2>2. b <= hi2[p] /\ lo2[c] <= e
    BY <2>1 DEF Sorted
  <2>3. lo2[c] \in Int /\ hi2[p] \in Int /\ b \in Int /\ e \in Int
    BY <2>1, <1>2, <1>9
  <2>4. h2[p] = h[p] /\ n = h[p] + 1
    BY <1>1, <1>8
  <2> HIDE DEF b, e, n
  <2> QED BY <2>2, <2>3, <2>4, <1>4, <1>9
<1>15. HasMade(u, h2, S, lo2, hi2, made, r, h3, lo3, hi3)
  <2>1. CanMake(u, h2, S, lo2, hi2, made, r, NULL_ID, NULL_ID, f, n, b, e)
    BY <1>9, <1>12, <1>14 DEF CanMake
  <2>2. h3 = [h2 EXCEPT ![r] = n] /\ lo3 = [lo2 EXCEPT ![r] = b] /\ hi3 = [hi2 EXCEPT ![r] = e]
    OBVIOUS
  <2> HIDE DEF S, n, b, e, h3, lo3, hi3, f
  <2> QED BY <2>1, <2>2, Making
<1>16. /\ h3 \in [PageId -> Nat] /\ lo3 \in [PageId -> Int] /\ hi3 \in [PageId -> Int]
       /\ h3[r] = h[p] + 1 /\ lo3[r] = lo2[p] /\ hi3[r] = hi2[c]
       /\ h3[p] = h[p] /\ h3[c] = h[p]
       /\ lo3[p] = lo2[p] /\ hi3[p] = hi2[p] /\ lo3[c] = lo2[c] /\ hi3[c] = hi2[c]
  BY <1>2, <1>4, <1>8, <1>9, <1>11, <1>14
<1> HIDE DEF h3, lo3, hi3
<1>17. /\ made.root = t.root /\ made.used = u.used \cup {r}
       /\ made.page[r].parent = NULL_ID /\ made.page[r].leaf = FALSE /\ Len(made.page[r].keys) = 0
       /\ \A y \in u.used : /\ made.page[y].parent = u.page[y].parent /\ made.page[y].leaf = u.page[y].leaf
                            /\ made.page[y].keys = u.page[y].keys /\ made.page[y].kids = u.page[y].kids
  <2>1. \A y \in u.used : y \in PageId \ {r}
    BY <1>10, <1>11
  <2>2. Len(<<>>) = 0
    OBVIOUS
  <2> QED BY <2>1, <2>2, <1>8, <1>12 DEF Fresh
<1>18. /\ Links(made, h3, S1, {}) /\ Tops(made, {}) /\ Ordered(made, lo3, hi3) /\ SameHas(u, made)
  <2>1. S \cup {r} = S1
    OBVIOUS
  <2> QED BY <2>1, <1>15 DEF HasMade
<1>19. made.page[p].keys # <<>> /\ made.page[c].keys # <<>>
  <2> DEFINE s == made.page[p].keys
             z == made.page[c].keys
  <2>1. Len(s) > 0 /\ Len(z) > 0 /\ Len(<<>>) = 0
    <3>1. made.page[p].keys = u.page[p].keys /\ made.page[c].keys = u.page[c].keys
      BY <1>9, <1>17
    <3>2. Len(s) = MAX_NUM \div 2 /\ Len(z) = MAX_NUM - MAX_NUM \div 2
      BY <3>1, <1>8
    <3> HIDE DEF s, z
    <3> QED BY <3>2, Half
  <2> HIDE DEF s, z
  <2>2. s # <<>> /\ z # <<>>
    BY <2>1
  <2> QED BY <2>2 DEF s, z
<1>20. ASSUME NEW x \in made.used, ~made.page[x].leaf, NEW j \in 1 .. Len(made.page[x].keys)
       PROVE  x # r /\ made.page[x].kids[j] # p /\ made.page[x].kids[j] # c
  <2>1. x # r
    BY <1>17
  <2>2. x \in u.used /\ ~u.page[x].leaf /\ j \in 1 .. Len(u.page[x].keys) /\ made.page[x].kids[j] = u.page[x].kids[j]
    BY <2>1, <1>17, <1>20
  <2>3. NextTo(u, S, p, c)
    <3> HIDE DEF S
    <3> QED BY <1>8, <1>9, AdjacentIs
  <2>4. u.page[x].kids[j] # c
    BY <2>2, <2>3 DEF NextTo
  <2>5. Known(u, x, j)
    BY <2>2, <1>9 DEF Links
  <2>6. x # NULL_ID
    BY <2>2, <1>9, <1>10, LinkFacts
  <2>7. u.page[x].kids[j] # p
    BY <2>5, <2>6, <1>8b DEF Known
  <2> QED BY <2>1, <2>2, <2>4, <2>7
<1> DEFINE m0 == 0
           m1 == 1
           i2 == 2
<1>21. CanAttach(made, h3, S1, lo3, hi3, r, m1, p, m0)
  <2>1. Orphans(made, h3, S1, h3[r])
    BY <1>2, <1>4, <1>16 DEF Orphans
  <2>2. Between(made, lo3, hi3, r, m1, m0, lo3[p], hi3[p])
    <3>1. lo3[r] <= lo3[p] /\ hi3[p] <= hi3[r] /\ lo3[p] \in Int /\ hi3[p] \in Int
      <4>1. Sorted(u, lo2, hi2, c)
        BY <1>9 DEF Ordered
      <4>2. lo2[c] <= hi2[c]
        BY <4>1 DEF Sorted
      <4>3. lo2[p] \in Int /\ hi2[c] \in Int
        BY <1>2, <1>8, <1>9
      <4> QED BY <4>2, <4>3, <1>9, <1>14, <1>16
    <3> QED BY <3>1 DEF Between
  <2>3. m0 < MAX_NUM /\ m1 \in 1 .. m0 + 1
    BY Half
  <2> QED BY <2>1, <2>2, <2>3, <1>2, <1>4, <1>9, <1>16, <1>17, <1>18, <1>19, <1>20 DEF CanAttach
<1>22. HasAttached(made, w1, h3, S1, lo3, hi3, r, m1, p, m0)
  <2>1. w1 = InsertPage(made, r, m1, p)
    BY <1>13
  <2> HIDE DEF S1, m1, m0
  <2> QED BY <2>1, <1>21, Attaching
<1>23. /\ Links(w1, h3, S1 \ {p}, {}) /\ Tops(w1, {}) /\ Ordered(w1, lo3, hi3)
       /\ Changed(made, w1, h3, r) /\ SameHas(made, w1)
       /\ Len(w1.page[r].keys) = 1 /\ w1.page[r].kids[1] = p
  <2>1. Len(w1.page[r].keys) = m0 + 1 /\ With(w1.page[r].kids, made.page[r].kids, m1, p, m0)
    BY <1>22 DEF HasAttached
  <2> QED BY <2>1, <1>22 DEF HasAttached, With
<1>24. S1 \ {p} = S2
  BY <1>2, <1>9, <1>11
<1>25. /\ w1.root = t.root /\ w1.used = made.used
       /\ w1.page[r].parent = NULL_ID /\ w1.page[r].leaf = FALSE
       /\ \A y \in PageId : w1.page[y].leaf = made.page[y].leaf
       /\ \A y \in PageId \ {r} : w1.page[y].kids = made.page[y].kids /\ Len(w1.page[y].keys) = Len(made.page[y].keys)
  <2>1. h3[r] >= h3[r] /\ r \in made.used /\ r \in PageId
    BY <1>4, <1>11, <1>16, <1>17
  <2> QED BY <2>1, <1>17, <1>23 DEF Changed
<1>26. CanAttach(w1, h3, S2, lo3, hi3, r, i2, c, m1)
  <2>1. Orphans(w1, h3, S2, h3[r])
    BY <1>2, <1>4, <1>16 DEF Orphans
  <2>2. Between(w1, lo3, hi3, r, i2, m1, lo3[c], hi3[c])
    <3>1. lo3[r] <= lo3[c] /\ hi3[c] <= hi3[r] /\ lo3[c] \in Int /\ hi3[c] \in Int
      <4>1. Sorted(u, lo2, hi2, p)
        BY <1>9 DEF Ordered
      <4>2. lo2[p] <= hi2[p]
        BY <4>1 DEF Sorted
      <4>3. lo2[p] \in Int /\ hi2[c] \in Int
        BY <1>2, <1>8, <1>9
      <4> QED BY <4>2, <4>3, <1>9, <1>14, <1>16
    <3>2. High(w1, hi3, r, 1) = hi3[p]
      BY <1>23, <1>25 DEF High
    <3>3. \A j \in 1 .. m1 : j = 1 /\ j < i2
      OBVIOUS
    <3> QED BY <3>1, <3>2, <3>3, <1>9, <1>16 DEF Between
  <2>3. m1 < MAX_NUM /\ i2 \in 1 .. m1 + 1
    BY Half
  <2>4. ASSUME NEW x \in w1.used, ~w1.page[x].leaf, NEW j \in 1 .. Len(w1.page[x].keys)
        PROVE  w1.page[x].kids[j] # c
    <3>1. CASE x = r
      BY <3>1, <2>4, <1>9, <1>23
    <3>2. CASE x # r
      <4>1. x \in PageId \ {r} /\ x \in made.used
        BY <3>2, <1>10, <1>17, <1>25
      <4> QED BY <4>1, <2>4, <1>20, <1>25
    <3> QED BY <3>1, <3>2
  <2>5. w1.page[c].keys # <<>>
    <3> DEFINE s == w1.page[c].keys
    <3>1. Len(s) > 0 /\ Len(<<>>) = 0
      <4>1. c \in PageId \ {r} /\ made.page[c].keys = u.page[c].keys
        BY <1>8, <1>9, <1>11, <1>17
      <4>2. Len(s) = MAX_NUM - MAX_NUM \div 2
        BY <4>1, <1>8, <1>25
      <4> HIDE DEF s
      <4> QED BY <4>2, Half
    <3> HIDE DEF s
    <3>2. s # <<>>
      BY <3>1
    <3> QED BY <3>2 DEF s
  <2>6. Links(w1, h3, S2, {}) /\ r \in w1.used /\ c \in S2 /\ h3[c] + 1 = h3[r] /\ m1 = Len(w1.page[r].keys)
    BY <1>16, <1>17, <1>23, <1>24, <1>25
  <2> QED BY <2>1, <2>2, <2>3, <2>4, <2>5, <2>6, <1>23, <1>25 DEF CanAttach
<1>27. HasAttached(w1, w2, h3, S2, lo3, hi3, r, i2, c, m1)
  <2>1. w2 = InsertPage(w1, r, i2, c)
    BY <1>13
  <2> HIDE DEF S2, m1, i2
  <2> QED BY <2>1, <1>26, Attaching
<1>28. /\ Links(w2, h3, {r}, {}) /\ Tops(w2, {}) /\ Ordered(w2, lo3, hi3)
       /\ Changed(w1, w2, h3, r) /\ SameHas(w1, w2) /\ Len(w2.page[r].keys) = 2
  <2>1. S2 \ {c} = {r} /\ m1 + 1 = 2
    BY <1>11
  <2> QED BY <2>1, <1>27 DEF HasAttached
<1>29. /\ w2.used = made.used /\ w2.page[r].parent = NULL_ID /\ w2.page[r].leaf = FALSE
       /\ \A y \in PageId \ {r} : Len(w2.page[y].keys) = Len(made.page[y].keys)
  <2>1. h3[r] >= h3[r] /\ r \in made.used /\ r \in PageId
    BY <1>4, <1>11, <1>16, <1>17
  <2> QED BY <2>1, <1>25, <1>28 DEF Changed
<1>30. v.root = r /\ v.used = w2.used /\ v.page = w2.page /\ v \in TreeType
  BY <1>11, <1>13, <1>28 DEF Links, TreeType, Cell
<1>31. Shape(v, h3, lo3, hi3)
  <2>1. Links(v, h3, {v.root}, {})
    BY <1>28, <1>30 DEF Links, Even, Below, Known, Hung
  <2>2. Tops(v, {})
    <3>1. \A x, j : Top(w2, x, j) => Top(v, x, j)
      BY <1>30 DEF Top, LastKey, Size
    <3> QED BY <3>1, <1>28, <1>30 DEF Tops
  <2>3. Ordered(v, lo3, hi3)
    BY <1>28, <1>30 DEF Ordered, Sorted, Low, High
  <2> QED BY <2>1, <2>2, <2>3, <1>29, <1>30 DEF Shape
<1>32. ASSUME NEW y \in v.used PROVE Fine(v, y)
  <2>1. CASE y = r
    <3>1. Size(v, y) = 2 /\ v.root = y /\ v.page[y].leaf = FALSE
      BY <2>1, <1>28, <1>29, <1>30 DEF Size
    <3> QED BY <3>1, Half DEF Fine
  <2>2. CASE y # r
    <3>1. y \in u.used /\ y \in PageId \ {r}
      BY <2>2, <1>10, <1>17, <1>29, <1>30
    <3>2. Size(v, y) = Len(u.page[y].keys)
      BY <3>1, <1>17, <1>29, <1>30 DEF Size
    <3>3. CASE y = c
      BY <2>2, <3>2, <3>3, <1>8, <1>30, Half DEF Fine
    <3>4. CASE y = p
      BY <2>2, <3>2, <3>4, <1>8, <1>30, Half DEF Fine
    <3>5. CASE y # c /\ y # p
      <4>1. y \in t.used \ {p} /\ y # t.root
        BY <3>1, <3>5, <1>2, <1>8
      <4>2. Fine(t, y) /\ Size(v, y) = Size(t, y)
        BY <4>1, <3>2, <1>1, <1>8 DEF Size
      <4> QED BY <4>1, <4>2, <2>2, <1>30 DEF Fine
    <3> QED BY <3>3, <3>4, <3>5
  <2> QED BY <2>1, <2>2
<1>33. SameHas(t, v)
  <2>1. SameHas(w2, v)
    BY <1>30 DEF SameHas, Has
  <2> QED BY <2>1, <1>8, <1>18, <1>23, <1>28 DEF SameHas
<1>34. Good(v, h3, lo3, hi3)
  BY <1>31, <1>32 DEF Good
<1> QED BY <1>33, <1>34 DEF Ended, Sound

(* Two children of q side by side, one of them p. *)
Siblings(t, p, q, a, b) ==
  \E j \in Nat : /\ j \in 1 .. Len(t.page[q].keys) /\ j + 1 \in 1 .. Len(t.page[q].keys)
                 /\ a = t.page[q].kids[j] /\ b = t.page[q].kids[j + 1]
                 /\ t.page[p].place = j \/ t.page[p].place = j + 1

Nearby(t, h, lo, hi, p, q, a, b) ==
  /\ Pair(t, h, {t.root}, lo, hi, a, b) /\ p \in {a, b} /\ h[a] = h[p]
  /\ a # t.root /\ b # t.root /\ t.page[a].parent = q /\ t.page[b].parent = q

LEMMA Neighbours ==
  ASSUME NEW t, NEW h, NEW lo, NEW hi, NEW p, NEW q, NEW a, NEW b,
         Off(t, h, lo, hi, p), p # t.root, q = t.page[p].parent, Siblings(t, p, q, a, b)
  PROVE  Nearby(t, h, lo, hi, p, q, a, b)
PROOF
<1> DEFINE i == t.page[p].place
           n == Len(t.page[q].keys)
<1>1. /\ Shape(t, h, lo, hi) /\ p \in t.used /\ \A y \in t.used \ {p} : Fine(t, y)
      /\ Links(t, h, {t.root}, {}) /\ Tops(t, {}) /\ Ordered(t, lo, hi) /\ t.page[t.root].parent = NULL_ID
  BY DEF Off, Shape
<1>2. /\ Hangs(t, h, lo, hi, p, q, i, n)
      /\ \A j \in 1 .. n : Kid(t, h, lo, hi, p, q, i, j, t.page[q].kids[j])
  BY <1>1, Hanging
<1>3. PICK j \in Nat : /\ j \in 1 .. n /\ j + 1 \in 1 .. n
                       /\ a = t.page[q].kids[j] /\ b = t.page[q].kids[j + 1]
                       /\ i = j \/ i = j + 1
  BY DEF Siblings
<1> DEFINE l == j + 1
<1>4. l \in 1 .. n /\ b = t.page[q].kids[l] /\ (i = j \/ i = l) /\ l = j + 1
  BY <1>3
<1> HIDE DEF l
<1>5. Kid(t, h, lo, hi, p, q, i, j, a) /\ Kid(t, h, lo, hi, p, q, i, l, b)
  BY <1>2, <1>3, <1>4
<1>6. p \in {a, b} /\ i \in Nat /\ n \in Nat /\ t.page[q].kids[i] = p
  <2>1. t.page[q].kids[i] = p /\ i \in 1 .. n /\ n \in Nat
    BY <1>2 DEF Hangs
  <2> QED BY <2>1, <1>3, <1>4
<1> HIDE DEF i, n
<1>7. /\ a \in t.used /\ b \in t.used /\ h[a] = h[p] /\ h[b] = h[p]
      /\ t.page[a].parent = q /\ t.page[b].parent = q /\ t.page[a].place = j /\ t.page[b].place = l
      /\ a # t.root /\ b # t.root
  BY <1>5 DEF Kid
<1>8. a # b /\ hi[a] <= lo[b]
  <2>1. a # b /\ j < l
    <3>1. j # l /\ j < l
      BY <1>3, <1>4
    <3> QED BY <3>1, <1>7
  <2>2. CASE i = j
    <3>1. p = a /\ i < l
      BY <2>1, <2>2, <1>3, <1>6
    <3> QED BY <3>1, <2>1, <1>5 DEF Kid
  <2>3. CASE i = l
    <3>1. p = b /\ j < i
      BY <2>1, <2>3, <1>4, <1>6
    <3> QED BY <3>1, <2>1, <1>5 DEF Kid
  <2> QED BY <2>2, <2>3, <1>4
<1>9. Adjacent(t, {t.root}, a, b)
  BY <1>4, <1>7 DEF Adjacent
<1>10. Orphans(t, h, {t.root}, h[a])
  BY <1>1 DEF Orphans
<1>11. ASSUME NEW c \in t.used, h[c] + 1 = h[a] PROVE t.page[c].keys # <<>>
  <2>1. h[c] \in Nat /\ h[p] \in Nat
    BY <1>1, ShapeFacts
  <2>2. c # p
    BY <2>1, <1>7, <1>11
  <2> QED BY <2>2, <1>1, FineSize
<1>12. Pair(t, h, {t.root}, lo, hi, a, b)
  BY <1>1, <1>7, <1>8, <1>9, <1>10, <1>11 DEF Pair
<1> QED BY <1>6, <1>7, <1>12 DEF Nearby

(* The tree is in shape again after the two have traded. *)
Swapped(t, v, h, lo, hi, a, b, k) ==
  /\ Shape(v, h, lo, hi) /\ v.root = t.root /\ v.used = t.used /\ SameHas(t, v)
  /\ \A y \in t.used : v.page[y].leaf = t.page[y].leaf
  /\ \A y \in t.used \ {a, b} : Len(v.page[y].keys) = Len(t.page[y].keys)
  /\ Len(v.page[a].keys) = Len(t.page[a].keys) - k
  /\ Len(v.page[b].keys) = Len(t.page[b].keys) + k
  /\ v.page[a].parent = t.page[a].parent /\ v.page[b].parent = t.page[b].parent

LEMMA Swapping ==
  ASSUME NEW t, NEW v, NEW h, NEW lo, NEW hi, NEW a, NEW b, NEW k,
         Shape(t, h, lo, hi), Pair(t, h, {t.root}, lo, hi, a, b),
         Traders(t, v, h, {t.root}, lo, hi, a, b, k)
  PROVE  \E lo2, hi2 : Swapped(t, v, h, lo2, hi2, a, b, k)
PROOF
<1>1. PICK lo2, hi2 : /\ Pair(v, h, {t.root}, lo2, hi2, a, b)
                      /\ Traded(t, v, h, lo, hi, lo2, hi2, a, b)
                      /\ Len(v.page[a].keys) = Len(t.page[a].keys) - k
                      /\ Len(v.page[b].keys) = Len(t.page[b].keys) + k
  BY DEF Traders
<1>2. /\ a \in t.used /\ b \in t.used /\ h[a] = h[b]
      /\ Links(v, h, {t.root}, {}) /\ Tops(v, {}) /\ Ordered(v, lo2, hi2)
  BY <1>1 DEF Pair
<1>3. Exchanged(t, v, h, a, b) /\ SameHas(t, v)
  BY <1>1 DEF Traded
<1>4. /\ t.used \subseteq PageId /\ t.root \in t.used /\ h[a] <= h[t.root] /\ h[a] >= h[a]
      /\ t.page[t.root].parent = NULL_ID
  <2>1. h[a] \in Nat /\ t.used \subseteq PageId /\ t.root \in t.used /\ h[a] <= h[t.root] /\ h[t.root] \in Nat
    BY <1>2, ShapeFacts
  <2> QED BY <2>1 DEF Shape
<1>5. /\ v.root = t.root /\ v.used = t.used
      /\ \A y \in t.used : v.page[y].leaf = t.page[y].leaf
      /\ \A y \in t.used \ {a, b} : Len(v.page[y].keys) = Len(t.page[y].keys)
  BY <1>3, <1>4 DEF Exchanged
<1>6. /\ v.page[a].parent = t.page[a].parent /\ v.page[b].parent = t.page[b].parent
  BY <1>2, <1>3, <1>4 DEF Exchanged
<1>7. v.page[t.root].parent = NULL_ID
  <2>1. h[t.root] >= h[a]
    BY <1>2, <1>4, ShapeFacts
  <2> QED BY <2>1, <1>3, <1>4 DEF Exchanged
<1>8. Shape(v, h, lo2, hi2)
  BY <1>2, <1>5, <1>7 DEF Shape
<1> QED BY <1>1, <1>3, <1>5, <1>6, <1>8 DEF Swapped

(* One page lends an entry to the other. *)
LEMMA Lent ==
  ASSUME NEW t, NEW v, NEW h, NEW lo, NEW hi, NEW p, NEW a, NEW b, NEW k, NEW m, NEW n,
         Off(t, h, lo, hi, p), p \in {a, b}, a # t.root, b # t.root,
         Pair(t, h, {t.root}, lo, hi, a, b), Traders(t, v, h, {t.root}, lo, hi, a, b, k),
         m = Len(t.page[a].keys) - k, n = Len(t.page[b].keys) + k,
         m >= MAX_NUM \div 2, m < MAX_NUM, n >= MAX_NUM \div 2, n < MAX_NUM
  PROVE  Ended(t, v)
PROOF
<1>1. Shape(t, h, lo, hi) /\ \A y \in t.used \ {p} : Fine(t, y)
  BY DEF Off
<1>2. PICK lo2, hi2 : Swapped(t, v, h, lo2, hi2, a, b, k)
  BY <1>1, Swapping
<1>3. ASSUME NEW y \in v.used PROVE Fine(v, y)
  <2>1. CASE y \in {a, b}
    <3>1. Size(v, y) \in {m, n} /\ y # v.root
      BY <2>1, <1>2 DEF Swapped, Size
    <3> QED BY <3>1 DEF Fine
  <2>2. CASE y \notin {a, b}
    <3>1. y \in t.used \ {a, b} /\ Fine(t, y)
      BY <2>2, <1>1, <1>2 DEF Swapped
    <3>2. Size(v, y) = Size(t, y) /\ v.root = t.root /\ v.page[y].leaf = t.page[y].leaf
      BY <3>1, <1>2 DEF Swapped, Size
    <3> QED BY <3>1, <3>2 DEF Fine
  <2> QED BY <2>1, <2>2
<1>4. Good(v, h, lo2, hi2)
  BY <1>2, <1>3 DEF Swapped, Good
<1> QED BY <1>2, <1>4 DEF Ended, Sound, Swapped

(* One page, d, has given all to the other, p, and is deleted. *)
LEMMA Merged ==
  ASSUME NEW t, NEW w, NEW v, NEW h, NEW lo, NEW hi, NEW p, NEW d, NEW q, NEW a, NEW b, NEW k,
         Off(t, h, lo, hi, p), {p, d} = {a, b}, a # t.root, b # t.root,
         Pair(t, h, {t.root}, lo, hi, a, b), Traders(t, w, h, {t.root}, lo, hi, a, b, k),
         q = t.page[p].parent, t.page[d].parent = q,
         Len(w.page[d].keys) = 0, Len(w.page[p].keys) >= MAX_NUM \div 2, Len(w.page[p].keys) < MAX_NUM,
         v = Delete(w, d)
  PROVE  WentUp(t, v, h, p, q)
PROOF
<1>1. Shape(t, h, lo, hi) /\ \A y \in t.used \ {p} : Fine(t, y)
  BY DEF Off
<1>2. PICK lo2, hi2 : Swapped(t, w, h, lo2, hi2, a, b, k)
  BY <1>1, Swapping
<1>0. (p = a /\ d = b) \/ (p = b /\ d = a)
  OBVIOUS
<1>3. /\ Shape(w, h, lo2, hi2) /\ w.root = t.root /\ w.used = t.used /\ SameHas(t, w)
      /\ \A y \in t.used : w.page[y].leaf = t.page[y].leaf
      /\ \A y \in t.used \ {p, d} : Len(w.page[y].keys) = Len(t.page[y].keys)
      /\ w.page[d].parent = q /\ p # t.root /\ d # t.root
  BY <1>0, <1>2 DEF Swapped
<1>4. /\ p \in t.used /\ d \in t.used /\ p # d /\ h[p] = h[d]
  BY DEF Pair
<1>5. /\ q \in t.used /\ q # p /\ q # d /\ q # NULL_ID /\ h[q] = h[p] + 1 /\ ~t.page[q].leaf
      /\ h[p] \in Nat
  <2>1. Hangs(t, h, lo, hi, p, q, t.page[p].place, Len(t.page[q].keys))
    BY <1>1, <1>3, <1>4, Hanging
  <2>2. Hangs(t, h, lo, hi, d, q, t.page[d].place, Len(t.page[q].keys))
    BY <1>1, <1>3, <1>4, Hanging
  <2>3. h[p] \in Nat
    BY <1>1, <1>4, ShapeFacts
  <2> QED BY <2>1, <2>2, <2>3 DEF Hangs
<1> DEFINE n == Len(w.page[q].keys)
<1>6. n = Len(t.page[q].keys) /\ n \in Nat /\ Fine(t, q)
  BY <1>1, <1>3, <1>5, ShapeFacts
<1>7. n < MAX_NUM /\ n >= IF q # t.root THEN MAX_NUM \div 2 ELSE 2
  BY <1>5, <1>6 DEF Fine, Size
<1>8. CanDelete(w, h, lo2, hi2, q, d, n)
  <2>1. w.page[d].keys = <<>>
    <3> DEFINE s == w.page[d].keys
    <3>1. s \in Seq(Key)
      <4>1. Links(w, h, {w.root}, {}) /\ d \in PageId
        BY <1>1, <1>3, <1>4, ShapeFacts DEF Shape
      <4> QED BY <4>1, LinkFacts
    <3>2. Len(s) = 0
      OBVIOUS
    <3> HIDE DEF s
    <3>3. s = <<>>
      BY <3>1, <3>2
    <3> QED BY <3>3 DEF s
  <2>2. n = Len(w.page[q].keys) /\ n <= MAX_NUM
    BY <1>6, <1>7, Half
  <2> HIDE DEF n
  <2> QED BY <2>1, <2>2, <1>3, <1>4 DEF CanDelete
<1> HIDE DEF n
<1>9. HasDeleted(w, v, h, lo2, hi2, q, d, n)
  BY <1>8, Deleting
<1>10. /\ Shape(v, h, lo2, hi2) /\ v.used = t.used \ {d} /\ v.root = t.root
       /\ Len(v.page[q].keys) = n - 1 /\ SameHas(w, v)
       /\ \A y \in t.used : v.page[y].leaf = t.page[y].leaf
       /\ \A y \in t.used \ {q} : Len(v.page[y].keys) = Len(w.page[y].keys)
  BY <1>3, <1>9 DEF HasDeleted
<1>11. ASSUME NEW y \in v.used \ {q} PROVE Fine(v, y)
  <2>1. CASE y = p
    <3>1. Size(v, y) = Len(w.page[p].keys) /\ y # v.root
      BY <2>1, <1>3, <1>4, <1>5, <1>10 DEF Size
    <3> QED BY <3>1, <2>1 DEF Fine
  <2>2. CASE y # p
    <3>1. y \in t.used \ {p, d} /\ Fine(t, y)
      BY <2>2, <1>1, <1>10
    <3>2. Size(v, y) = Size(t, y) /\ v.root = t.root /\ v.page[y].leaf = t.page[y].leaf
      BY <3>1, <1>3, <1>10, <1>11 DEF Size
    <3> QED BY <3>1, <3>2 DEF Fine
  <2> QED BY <2>1, <2>2
<1>12. Near(v, q) /\ Space(v, h, q)
  <2>1. Size(v, q) = n - 1 /\ v.root = t.root /\ v.page[q].leaf = FALSE
    <3>1. t.page[q].leaf \in BOOLEAN
      BY <1>1, <1>5, ShapeFacts
    <3> QED BY <3>1, <1>5, <1>10 DEF Size
  <2> DEFINE m == MAX_NUM \div 2
  <2>2. m \in Nat /\ MAX_NUM \in Nat /\ n >= IF q # t.root THEN m ELSE 2
    BY <1>7, Half
  <2> HIDE DEF m
  <2>3. n - 1 < MAX_NUM /\ n - 1 >= IF q # t.root THEN m - 1 ELSE 1
    BY <2>2, <1>6, <1>7
  <2>4. n - 1 <= MAX_NUM /\ n - 1 # MAX_NUM
    BY <2>2, <2>3, <1>6
  <2> QED BY <2>1, <2>3, <2>4 DEF Near, Space, m
<1>13. Off(v, h, lo2, hi2, q)
  BY <1>4, <1>5, <1>10, <1>11, <1>12 DEF Off
<1>14. SameHas(t, v)
  BY <1>3, <1>10 DEF SameHas
<1> QED BY <1>5, <1>13, <1>14 DEF WentUp

(* The root has one child left, which becomes the root. *)
Collapsed(t, v, c) ==
  /\ v \in TreeType /\ v.root = c /\ v.used = t.used \ {t.root}
  /\ \A y \in PageId : /\ v.page[y].leaf = t.page[y].leaf
                       /\ v.page[y].keys = t.page[y].keys /\ v.page[y].kids = t.page[y].kids
                       /\ y # c => v.page[y].parent = t.page[y].parent /\ v.page[y].place = t.page[y].place
  /\ v.page[c].parent = NULL_ID

Shrunk(t, r) == [Delete(t, r) EXCEPT !.root = t.page[r].kids[1]]

OnlyChild(t, h, lo, hi, r, c) ==
  /\ Shape(t, h, lo, hi) /\ r = t.root /\ ~t.page[r].leaf /\ Size(t, r) = 1 /\ c = t.page[r].kids[1]

LEMMA CollapsedIs ==
  ASSUME NEW t, NEW v, NEW h, NEW lo, NEW hi, NEW r, NEW c,
         OnlyChild(t, h, lo, hi, r, c), v = Shrunk(t, r)
  PROVE  /\ Collapsed(t, v, c)
         /\ c \in t.used /\ c # r /\ h[c] + 1 = h[r] /\ Known(t, r, 1)
PROOF
<1>1. /\ Links(t, h, {t.root}, {}) /\ t.page[r].parent = NULL_ID /\ r = t.root /\ ~t.page[r].leaf
      /\ Len(t.page[r].keys) = 1 /\ c = t.page[r].kids[1]
  BY DEF OnlyChild, Shape, Size
<1>2. t \in TreeType /\ t.used \subseteq PageId /\ r \in t.used
  BY <1>1, ShapeFacts DEF OnlyChild
<1>3. Below(t, h, r, 1) /\ Known(t, r, 1)
  <2>1. 1 \in 1 .. Len(t.page[r].keys)
    BY <1>1
  <2> QED BY <2>1, <1>1, <1>2 DEF Links
<1>4. c \in t.used /\ h[c] + 1 = h[r] /\ t.page[c].parent = r
  BY <1>1, <1>3 DEF Below, Known
<1>5. c # r
  <2>1. NULL_ID \notin t.used
    BY ShapeFacts DEF OnlyChild
  <2> QED BY <2>1, <1>1, <1>2, <1>4
<1> DEFINE o == [t EXCEPT !.page[c].parent = NULL_ID, !.page[c].place = NULL_ID]
<1>6. v = [[o EXCEPT !.used = @ \ {r}] EXCEPT !.root = c]
  <2>1. Detached(t, r) = o
    BY <1>1 DEF Detached, Size
  <2> QED BY <2>1, <1>1 DEF Delete, Shrunk
<1>7. /\ t = [root |-> t.root, used |-> t.used, page |-> t.page]
      /\ t.page \in [PageId -> NodeType] /\ c \in PageId
  BY <1>2, <1>4 DEF TreeType
<1> DEFINE g == [t.page EXCEPT ![c] = [t.page[c] EXCEPT !.parent = NULL_ID, !.place = NULL_ID]]
<1>9. t.page[c] \in NodeType /\ NULL_ID \in Cell
  BY <1>7 DEF Cell
<1>8. /\ v.root = c /\ v.used = t.used \ {r} /\ v.page = g
      /\ v = [root |-> c, used |-> t.used \ {r}, page |-> g]
  <2> DEFINE g1 == [t.page EXCEPT ![c] = [t.page[c] EXCEPT !.parent = NULL_ID]]
             o1 == [t EXCEPT !.page[c].parent = NULL_ID]
  <2>1. o1 = [root |-> t.root, used |-> t.used, page |-> g1]
    BY <1>7
  <2>2. g1 \in [PageId -> [parent : Cell, place : 1 .. MAX_NUM \cup {NULL_ID}, next : Cell, leaf : BOOLEAN,
                           keys : Seq(Key), kids : Seq(Value \cup PageId)]]
    BY <1>7, <1>9 DEF NodeType
  <2>3. g1[c] = [t.page[c] EXCEPT !.parent = NULL_ID]
    BY <1>7
  <2>4. g = [g1 EXCEPT ![c] = [g1[c] EXCEPT !.place = NULL_ID]]
    <3>1. [g1[c] EXCEPT !.place = NULL_ID] = [t.page[c] EXCEPT !.parent = NULL_ID, !.place = NULL_ID]
      BY <2>3
    <3> QED BY <3>1, <1>7, <2>2
  <2>5. o = [o1 EXCEPT !.page[c].place = NULL_ID]
    OBVIOUS
  <2> HIDE DEF o1, g1, g
  <2>6. o = [root |-> t.root, used |-> t.used, page |-> g]
    BY <2>1, <2>4, <2>5
  <2> HIDE DEF o
  <2> QED BY <2>6, <1>6
<1> DEFINE x == [t.page[c] EXCEPT !.parent = NULL_ID, !.place = NULL_ID]
<1>10. /\ x \in NodeType /\ x.parent = NULL_ID /\ x.leaf = t.page[c].leaf /\ x.keys = t.page[c].keys
       /\ x.kids = t.page[c].kids
  BY <1>9 DEF NodeType
<1>11. g \in [PageId -> NodeType] /\ g[c] = x /\ \A y \in PageId \ {c} : g[y] = t.page[y]
  <2> HIDE DEF x
  <2>1. g = [t.page EXCEPT ![c] = x]
    BY DEF x
  <2> QED BY <2>1, <1>7, <1>10
<1> HIDE DEF x, g
<1>12. v \in TreeType
  BY <1>2, <1>7, <1>8, <1>11 DEF TreeType, Cell
<1>13. Collapsed(t, v, c)
  BY <1>1, <1>8, <1>10, <1>11, <1>12 DEF Collapsed
<1> QED BY <1>1, <1>3, <1>4, <1>5, <1>13

LEMMA Collapsing ==
  ASSUME NEW t, NEW v, NEW h, NEW lo, NEW hi, NEW r,
         Shape(t, h, lo, hi), r = t.root, ~t.page[r].leaf, Size(t, r) = 1,
         \A y \in t.used \ {r} : Fine(t, y), v = Shrunk(t, r)
  PROVE  Ended(t, v)
PROOF
<1> DEFINE c == t.page[r].kids[1]
<1>1. OnlyChild(t, h, lo, hi, r, c)
  BY DEF OnlyChild
<1>2. /\ Collapsed(t, v, c)
      /\ c \in t.used /\ c # r /\ h[c] + 1 = h[r] /\ Known(t, r, 1)
  <2> HIDE DEF c
  <2> QED BY <1>1, CollapsedIs
<1>3. /\ Links(t, h, {r}, {}) /\ Tops(t, {}) /\ Ordered(t, lo, hi) /\ t.page[r].parent = NULL_ID
      /\ r \in t.used /\ t.used \subseteq PageId /\ NULL_ID \notin t.used
  BY ShapeFacts DEF Shape
<1>4. Len(t.page[r].keys) = 1 /\ c = t.page[r].kids[1] /\ t.page[c].parent = r /\ t.page[c].place = 1
  BY <1>2 DEF Size, Known
<1> HIDE DEF c
<1>5. /\ v \in TreeType /\ v.root = c /\ v.used = t.used \ {r}
      /\ \A y \in PageId : /\ v.page[y].leaf = t.page[y].leaf
                           /\ v.page[y].keys = t.page[y].keys /\ v.page[y].kids = t.page[y].kids
                           /\ y # c => v.page[y].parent = t.page[y].parent /\ v.page[y].place = t.page[y].place
      /\ v.page[c].parent = NULL_ID
  BY <1>2 DEF Collapsed
<1>6. ASSUME NEW y \in v.used, NEW i \in 1 .. Len(v.page[y].keys), ~v.page[y].leaf
      PROVE  Below(v, h, y, i) /\ Known(v, y, i) /\ Top(v, y, i)
  <2> DEFINE d == t.page[y].kids[i]
  <2>1. /\ y \in t.used /\ y # r /\ y \in PageId /\ ~t.page[y].leaf /\ i \in 1 .. Len(t.page[y].keys)
        /\ v.page[y].kids[i] = d /\ v.page[y].keys = t.page[y].keys
    BY <1>3, <1>5, <1>6
  <2>2. Below(t, h, y, i) /\ Known(t, y, i) /\ Top(t, y, i)
    BY <1>3, <2>1 DEF Links, Tops
  <2>3. d \in t.used /\ h[d] + 1 = h[y] /\ t.page[d].parent = y /\ t.page[d].place = i
    BY <2>2 DEF Below, Known
  <2>4. d # r /\ d # c /\ d \in PageId
    BY <2>1, <2>3, <1>3, <1>4
  <2>5. Below(v, h, y, i) /\ Known(v, y, i)
    <3> HIDE DEF d
    <3> QED BY <2>1, <2>3, <2>4, <1>5 DEF Below, Known
  <2>6. Top(v, y, i)
    <3>1. v.page[d].keys = t.page[d].keys
      BY <2>4, <1>5
    <3> QED BY <2>1, <2>2, <3>1 DEF Top, LastKey, Size
  <2> QED BY <2>5, <2>6
<1>7. ASSUME NEW y \in v.used \ {c} PROVE Hung(v, y)
  <2>1. y \in t.used /\ y # r /\ y \in PageId
    BY <1>3, <1>5
  <2>2. Hung(t, y)
    BY <2>1, <1>3 DEF Links
  <2> DEFINE q == t.page[y].parent
             i == t.page[y].place
  <2>3. q \in t.used /\ ~t.page[q].leaf /\ i \in 1 .. Len(t.page[q].keys) /\ t.page[q].kids[i] = y
    BY <2>2 DEF Hung
  <2>4. v.page[y].parent = q /\ v.page[y].place = i
    BY <2>1, <1>5, <1>7
  <2> HIDE DEF q, i
  <2>5. q # r
    <3>1. SUFFICES ASSUME q = r PROVE FALSE
      OBVIOUS
    <3>2. i = 1
      BY <3>1, <2>3, <1>4
    <3> QED BY <3>1, <3>2, <2>3, <1>4, <1>7
  <2>6. q \in v.used /\ q \in PageId /\ v.page[q].leaf = t.page[q].leaf
        /\ v.page[q].keys = t.page[q].keys /\ v.page[q].kids = t.page[q].kids
    BY <2>3, <2>5, <1>3, <1>5
  <2> QED BY <2>3, <2>4, <2>6 DEF Hung
<1>8. ASSUME NEW y \in v.used PROVE Even(v, h, y)
  <2>1. y \in t.used /\ y \in PageId
    BY <1>3, <1>5
  <2>2. Even(t, h, y)
    BY <2>1, <1>3 DEF Links
  <2> QED BY <2>1, <2>2, <1>5 DEF Even
<1>9. Links(v, h, {v.root}, {}) /\ Tops(v, {})
  <2>1. h \in Heights /\ {v.root} \subseteq v.used
    BY <1>2, <1>3, <1>5 DEF Links
  <2> QED BY <2>1, <1>5, <1>6, <1>7, <1>8 DEF Links, Tops
<1>10. Ordered(v, lo, hi)
  <2>1. ASSUME NEW y \in v.used PROVE Sorted(v, lo, hi, y)
    <3>1. y \in t.used /\ y \in PageId /\ Sorted(t, lo, hi, y)
      BY <1>3, <1>5 DEF Ordered
    <3>2. /\ v.page[y].leaf = t.page[y].leaf /\ v.page[y].keys = t.page[y].keys
          /\ v.page[y].kids = t.page[y].kids
      BY <3>1, <1>5
    <3> QED BY <3>1, <3>2 DEF Sorted, Low, High
  <2> QED BY <2>1, <1>3 DEF Ordered
<1>11. Shape(v, h, lo, hi)
  BY <1>5, <1>9, <1>10 DEF Shape
<1>12. ASSUME NEW y \in v.used PROVE Fine(v, y)
  <2>1. y \in t.used \ {r} /\ y \in PageId /\ Fine(t, y)
    BY <1>3, <1>5
  <2>2. Size(v, y) = Size(t, y)
    BY <2>1, <1>5 DEF Size
  <2>3. Size(v, y) < MAX_NUM /\ Size(v, y) >= MAX_NUM \div 2
    BY <2>1, <2>2 DEF Fine
  <2>4. Size(v, y) \in Nat
    BY <2>2, <2>1, ShapeFacts DEF Size
  <2> DEFINE m == MAX_NUM \div 2
             s == Size(v, y)
  <2>5. m \in Nat /\ m >= 2 /\ s \in Nat /\ s >= m
    BY <2>3, <2>4, Half
  <2> HIDE DEF m, s
  <2>6. s >= 1 /\ s >= 2
    BY <2>5
  <2> QED BY <2>3, <2>6 DEF Fine, s
<1>13. SameHas(t, v)
  <2>1. ASSUME NEW y \in t.used, t.page[y].leaf
        PROVE  y \in v.used /\ v.page[y].leaf
    <3>1. y # r
      BY <2>1
    <3> QED BY <3>1, <2>1, <1>3, <1>5
  <2>2. ASSUME NEW y \in v.used
        PROVE /\ y \in t.used /\ v.page[y].leaf = t.page[y].leaf /\ v.page[y].keys = t.page[y].keys
              /\ v.page[y].kids = t.page[y].kids
    BY <1>3, <1>5
  <2> QED BY <2>1, <2>2 DEF SameHas, Has
<1>14. Good(v, h, lo, hi)
  BY <1>11, <1>12 DEF Good
<1> QED BY <1>13, <1>14 DEF Ended, Sound

(* The root is an emptied leaf and is given back. *)
LEMMA Emptied ==
  ASSUME NEW t, NEW v, NEW h, NEW lo, NEW hi, NEW r,
         Shape(t, h, lo, hi), r = t.root, t.page[r].leaf, Size(t, r) = 0,
         v = [Delete(t, r) EXCEPT !.root = NULL_ID]
  PROVE  Ended(t, v)
PROOF
<1>1. /\ Links(t, h, {r}, {}) /\ t.page[r].parent = NULL_ID /\ r \in t.used /\ t \in TreeType
  BY ShapeFacts DEF Shape
<1>2. h[r] = 0
  BY <1>1 DEF Links, Even
<1>3. t.used = {r}
  <2>1. ASSUME NEW y \in t.used, y # r PROVE FALSE
    <3>1. h[y] < h[r] /\ h[y] \in Nat
      BY <2>1, <1>1, RootHighest, ShapeFacts
    <3> QED BY <3>1, <1>2
  <2> QED BY <2>1, <1>1
<1>4. v = [[t EXCEPT !.used = @ \ {r}] EXCEPT !.root = NULL_ID]
  <2>1. Size(t, r) # 1
    OBVIOUS
  <2> QED BY <2>1, <1>1 DEF Delete, Detached
<1>5. /\ t = [root |-> t.root, used |-> t.used, page |-> t.page]
      /\ t.page \in [PageId -> NodeType]
  BY <1>1 DEF TreeType
<1>6. v = [root |-> NULL_ID, used |-> {}, page |-> t.page]
  BY <1>3, <1>4, <1>5
<1>7. v \in TreeType /\ v.root = NULL_ID /\ v.used = {}
  BY <1>5, <1>6 DEF TreeType, Cell
<1>8. SameHas(t, v)
  <2>1. \A k, x : ~Has(v, k, x)
    BY <1>7 DEF Has
  <2>2. 1 .. Len(t.page[r].keys) = {}
    BY DEF Size
  <2>3. \A k, x : ~Has(t, k, x)
    BY <1>3, <2>2 DEF Has
  <2> QED BY <2>1, <2>3 DEF SameHas
<1> QED BY <1>7, <1>8 DEF Ended, Sound

TurnDone(t, s, h, p) ==
  \/ s.page = NULL_ID /\ Ended(t, s.tree)
  \/ WentUp(t, s.tree, h, p, s.page)

(* The sizes of two neighbours, one of which, p, runs low. *)
LowOne(t, h, lo, hi, p, q, a, b, d, num, other) ==
  /\ Off(t, h, lo, hi, p) /\ p # t.root /\ q = t.page[p].parent
  /\ Siblings(t, p, q, a, b) /\ {p, d} = {a, b} /\ p # d
  /\ num = Size(t, p) /\ other = Size(t, d) /\ num < MAX_NUM \div 2

LowIs(t, h, lo, hi, p, q, a, b, d, num, other) ==
  /\ num \in Nat /\ other \in Nat /\ num + 1 = MAX_NUM \div 2
  /\ other < MAX_NUM /\ other >= MAX_NUM \div 2
  /\ Pair(t, h, {t.root}, lo, hi, a, b) /\ a # t.root /\ b # t.root
  /\ p \in {a, b} /\ t.page[d].parent = q

LEMMA LowSizes ==
  ASSUME NEW t, NEW h, NEW lo, NEW hi, NEW p, NEW q, NEW a, NEW b, NEW d, NEW num, NEW other,
         LowOne(t, h, lo, hi, p, q, a, b, d, num, other)
  PROVE  LowIs(t, h, lo, hi, p, q, a, b, d, num, other)
PROOF
<1>1. /\ Shape(t, h, lo, hi) /\ p \in t.used /\ Near(t, p) /\ p # t.root
      /\ \A y \in t.used \ {p} : Fine(t, y)
  BY DEF Off, LowOne
<1>2. /\ Pair(t, h, {t.root}, lo, hi, a, b) /\ p \in {a, b}
      /\ a # t.root /\ b # t.root /\ t.page[a].parent = q /\ t.page[b].parent = q
  <2>1. Off(t, h, lo, hi, p) /\ p # t.root /\ q = t.page[p].parent /\ Siblings(t, p, q, a, b)
    BY DEF LowOne
  <2>2. Nearby(t, h, lo, hi, p, q, a, b)
    BY <2>1, Neighbours
  <2> QED BY <2>2 DEF Nearby
<1>3. d \in {a, b} /\ p # d /\ num = Len(t.page[p].keys) /\ other = Len(t.page[d].keys) /\ num < MAX_NUM \div 2
  <2>1. {p, d} = {a, b}
    BY DEF LowOne
  <2>2. d \in {a, b}
    BY <2>1
  <2> QED BY <2>2 DEF LowOne, Size
<1>4. d \in t.used /\ d # t.root /\ t.page[d].parent = q
  BY <1>2, <1>3 DEF Pair
<1>5. num \in Nat /\ other \in Nat
  BY <1>1, <1>3, <1>4, ShapeFacts
<1>6. num >= MAX_NUM \div 2 - 1
  BY <1>1, <1>3 DEF Near, Size
<1>7. Fine(t, d)
  BY <1>1, <1>3, <1>4
<1>8. other < MAX_NUM /\ other >= MAX_NUM \div 2
  BY <1>3, <1>4, <1>7 DEF Fine, Size
<1> DEFINE m == MAX_NUM \div 2
<1>9. m \in Nat /\ num < m /\ num >= m - 1
  BY <1>3, <1>6, Half
<1> HIDE DEF m
<1>10. num + 1 = m
  BY <1>5, <1>9
<1> QED BY <1>2, <1>4, <1>5, <1>8, <1>10 DEF m, LowIs

(* The left neighbour lends its last entry. *)
LEMMA LendLeft ==
  ASSUME NEW t, NEW h, NEW lo, NEW hi, NEW p, NEW q, NEW a, NEW num, NEW other,
         LowOne(t, h, lo, hi, p, q, a, p, a, num, other), other > MAX_NUM \div 2
  PROVE  Ended(t, MoveLast(t, a, p))
PROOF
<1>1. /\ num \in Nat /\ other \in Nat /\ num + 1 = MAX_NUM \div 2
      /\ other < MAX_NUM /\ other >= MAX_NUM \div 2
      /\ Pair(t, h, {t.root}, lo, hi, a, p) /\ a # t.root /\ p # t.root
  <2>1. LowIs(t, h, lo, hi, p, q, a, p, a, num, other)
    BY LowSizes
  <2> QED BY <2>1 DEF LowIs
<1>2. num = Len(t.page[p].keys) /\ other = Len(t.page[a].keys) /\ Off(t, h, lo, hi, p)
  BY DEF LowOne, Size
<1> DEFINE v == MoveLast(t, a, p)
           m == MAX_NUM \div 2
           k == 1
           x == other - k
           y == num + k
           R == {t.root}
<1>3. m \in Nat /\ MAX_NUM \in Nat /\ m < MAX_NUM /\ other > m /\ num + 1 = m
  BY <1>1, Half
<1>4. other # 0 /\ other <= MAX_NUM /\ num < MAX_NUM /\ x >= m /\ x < MAX_NUM /\ y >= m /\ y < MAX_NUM
  <2> HIDE DEF m
  <2> QED BY <1>1, <1>3
<1>5. Traders(t, v, h, R, lo, hi, a, p, k)
  <2> HIDE DEF R
  <2> QED BY <1>1, <1>2, <1>4, LastStep DEF R
<1>6. x = Len(t.page[a].keys) - k /\ y = Len(t.page[p].keys) + k /\ p \in {a, p}
  BY <1>2
<1>7. v = MoveLast(t, a, p)
  OBVIOUS
<1> HIDE DEF v, k, x, y
<1> QED BY <1>1, <1>2, <1>4, <1>5, <1>6, <1>7, Lent

(* The right neighbour lends its first. *)
LEMMA LendRight ==
  ASSUME NEW t, NEW h, NEW lo, NEW hi, NEW p, NEW q, NEW b, NEW num, NEW other,
         LowOne(t, h, lo, hi, p, q, p, b, b, num, other), other > MAX_NUM \div 2
  PROVE  Ended(t, MoveFirst(t, b, p))
PROOF
<1>1. /\ num \in Nat /\ other \in Nat /\ num + 1 = MAX_NUM \div 2
      /\ other < MAX_NUM /\ other >= MAX_NUM \div 2
      /\ Pair(t, h, {t.root}, lo, hi, p, b) /\ b # t.root /\ p # t.root
  <2>1. LowIs(t, h, lo, hi, p, q, p, b, b, num, other)
    BY LowSizes
  <2> QED BY <2>1 DEF LowIs
<1>2. num = Len(t.page[p].keys) /\ other = Len(t.page[b].keys) /\ Off(t, h, lo, hi, p)
  BY DEF LowOne, Size
<1> DEFINE v == MoveFirst(t, b, p)
           m == MAX_NUM \div 2
           k == -1
           x == num - k
           y == other + k
           R == {t.root}
<1>3. m \in Nat /\ MAX_NUM \in Nat /\ m < MAX_NUM /\ other > m /\ num + 1 = m
  BY <1>1, Half
<1>4. other # 0 /\ other <= MAX_NUM /\ num < MAX_NUM /\ x >= m /\ x < MAX_NUM /\ y >= m /\ y < MAX_NUM
  <2> HIDE DEF m
  <2> QED BY <1>1, <1>3
<1>5. Traders(t, v, h, R, lo, hi, p, b, k)
  <2>1. b \notin R /\ Pair(t, h, R, lo, hi, p, b)
    BY <1>1
  <2> HIDE DEF R
  <2> QED BY <2>1, <1>2, <1>4, FirstStep
<1>6. x = Len(t.page[p].keys) - k /\ y = Len(t.page[b].keys) + k /\ p \in {p, b}
  BY <1>2
<1>7. v = MoveFirst(t, b, p)
  OBVIOUS
<1> HIDE DEF v, k, x, y
<1> QED BY <1>1, <1>2, <1>4, <1>5, <1>6, <1>7, Lent

(* Two pages become one. *)
LEMMA MergeLeft ==
  ASSUME NEW t, NEW h, NEW lo, NEW hi, NEW p, NEW q, NEW a, NEW num, NEW other,
         LowOne(t, h, lo, hi, p, q, a, p, a, num, other), other <= MAX_NUM \div 2
  PROVE  WentUp(t, Delete(MoveLasts(t, a, p, other), a), h, p, q)
PROOF
<1>1. /\ num \in Nat /\ other \in Nat /\ num + 1 = MAX_NUM \div 2
      /\ other < MAX_NUM /\ other >= MAX_NUM \div 2
      /\ Pair(t, h, {t.root}, lo, hi, a, p) /\ a # t.root /\ p # t.root /\ t.page[a].parent = q
  <2>1. LowIs(t, h, lo, hi, p, q, a, p, a, num, other)
    BY LowSizes
  <2> QED BY <2>1 DEF LowIs
<1>2. num = Len(t.page[p].keys) /\ other = Len(t.page[a].keys) /\ Off(t, h, lo, hi, p) /\ q = t.page[p].parent
  BY DEF LowOne, Size
<1> DEFINE w == MoveLasts(t, a, p, other)
           m == MAX_NUM \div 2
           R == {t.root}
<1>3. m \in Nat /\ MAX_NUM \in Nat /\ m < MAX_NUM /\ other <= m /\ other >= m /\ num + 1 = m /\ m + m - 1 < MAX_NUM
  BY <1>1, Half
<1>4. other <= other /\ other <= MAX_NUM /\ num + other <= MAX_NUM /\ num + other >= m /\ num + other < MAX_NUM
      /\ other - other = 0
  <2> HIDE DEF m
  <2> QED BY <1>1, <1>3
<1>5. Traders(t, w, h, R, lo, hi, a, p, other)
  <2>1. w = MoveLasts(t, a, p, other) /\ Pair(t, h, R, lo, hi, a, p)
    BY <1>1
  <2> HIDE DEF R, w
  <2> QED BY <2>1, <1>1, <1>2, <1>4, LastLoop
<1>6. Len(w.page[a].keys) = 0 /\ Len(w.page[p].keys) = num + other
  <2> HIDE DEF w, R
  <2> QED BY <1>2, <1>4, <1>5 DEF Traders
<1>7. Len(w.page[p].keys) >= m /\ Len(w.page[p].keys) < MAX_NUM /\ {p, a} = {a, p}
  BY <1>4, <1>6
<1>8. Delete(MoveLasts(t, a, p, other), a) = Delete(w, a)
  OBVIOUS
<1> HIDE DEF w
<1> QED BY <1>1, <1>2, <1>5, <1>6, <1>7, <1>8, Merged

LEMMA MergeRight ==
  ASSUME NEW t, NEW h, NEW lo, NEW hi, NEW p, NEW q, NEW b, NEW num, NEW other,
         LowOne(t, h, lo, hi, p, q, p, b, b, num, other), other <= MAX_NUM \div 2
  PROVE  WentUp(t, Delete(MoveFirsts(t, b, p, other), b), h, p, q)
PROOF
<1>1. /\ num \in Nat /\ other \in Nat /\ num + 1 = MAX_NUM \div 2
      /\ other < MAX_NUM /\ other >= MAX_NUM \div 2
      /\ Pair(t, h, {t.root}, lo, hi, p, b) /\ b # t.root /\ p # t.root /\ t.page[b].parent = q
  <2>1. LowIs(t, h, lo, hi, p, q, p, b, b, num, other)
    BY LowSizes
  <2> QED BY <2>1 DEF LowIs
<1>2. num = Len(t.page[p].keys) /\ other = Len(t.page[b].keys) /\ Off(t, h, lo, hi, p) /\ q = t.page[p].parent
  BY DEF LowOne, Size
<1> DEFINE w == MoveFirsts(t, b, p, other)
           m == MAX_NUM \div 2
           R == {t.root}
           k == -other
<1>3. m \in Nat /\ MAX_NUM \in Nat /\ m < MAX_NUM /\ other <= m /\ other >= m /\ num + 1 = m /\ m + m - 1 < MAX_NUM
  BY <1>1, Half
<1>4. other <= other /\ other <= MAX_NUM /\ num + other <= MAX_NUM /\ num + other >= m /\ num + other < MAX_NUM
      /\ num - k = num + other /\ other + k = 0
  <2> HIDE DEF m
  <2> QED BY <1>1, <1>3
<1>5. Traders(t, w, h, R, lo, hi, p, b, k)
  <2>1. w = MoveFirsts(t, b, p, other) /\ Pair(t, h, R, lo, hi, p, b) /\ b \notin R
    BY <1>1
  <2> HIDE DEF R, w
  <2> QED BY <2>1, <1>1, <1>2, <1>4, FirstLoop
<1>6. Len(w.page[b].keys) = 0 /\ Len(w.page[p].keys) = num + other
  <2> HIDE DEF w, R, k
  <2> QED BY <1>2, <1>4, <1>5 DEF Traders
<1>7. Len(w.page[p].keys) >= m /\ Len(w.page[p].keys) < MAX_NUM /\ {p, b} = {p, b}
  BY <1>4, <1>6
<1>8. Delete(MoveFirsts(t, b, p, other), b) = Delete(w, b)
  OBVIOUS
<1> HIDE DEF w, k
<1> QED BY <1>1, <1>2, <1>5, <1>6, <1>7, <1>8, Merged

(* A page that runs low has a neighbour. *)
LEMMA LowHangs ==
  ASSUME NEW t, NEW h, NEW lo, NEW hi, NEW p, NEW q,
         Off(t, h, lo, hi, p), p # t.root, q = t.page[p].parent, Size(t, p) < MAX_NUM \div 2
  PROVE  /\ HasLeft(t, p) \/ HasRight(t, p)
         /\ HasLeft(t, p) => LowOne(t, h, lo, hi, p, q, Left(t, p), p, Left(t, p), Size(t, p), Size(t, Left(t, p)))
         /\ HasRight(t, p) => LowOne(t, h, lo, hi, p, q, p, Right(t, p), Right(t, p), Size(t, p), Size(t, Right(t, p)))
PROOF
<1> DEFINE i == t.page[p].place
           n == Len(t.page[q].keys)
<1>1. Shape(t, h, lo, hi) /\ p \in t.used /\ \A y \in t.used \ {p} : Fine(t, y)
  BY DEF Off
<1>2. /\ Hangs(t, h, lo, hi, p, q, i, n)
      /\ \A j \in 1 .. n : Kid(t, h, lo, hi, p, q, i, j, t.page[q].kids[j])
  BY <1>1, Hanging
<1>3. i \in 1 .. n /\ n \in Nat /\ t.page[q].kids[i] = p /\ q \in t.used /\ q # p /\ ~t.page[q].leaf
  BY <1>2 DEF Hangs
<1>4. n >= 2
  <2>1. Fine(t, q)
    BY <1>1, <1>3
  <2> DEFINE m == MAX_NUM \div 2
  <2>2. m \in Nat /\ m >= 2 /\ n >= IF q # t.root THEN m ELSE 2
    BY <2>1, <1>3, Half DEF Fine, Size
  <2> HIDE DEF n, m
  <2> QED BY <2>2, <1>3
<1>5. /\ HasLeft(t, p) <=> i > 1
      /\ HasRight(t, p) <=> i < n
      /\ Left(t, p) = t.page[q].kids[i - 1] /\ Right(t, p) = t.page[q].kids[i + 1]
  BY DEF HasLeft, HasRight, Left, Right, Size
<1>6. HasLeft(t, p) \/ HasRight(t, p)
  <2> HIDE DEF i, n
  <2> QED BY <1>3, <1>4, <1>5
<1>7. ASSUME NEW j \in 1 .. n, j # i PROVE t.page[q].kids[j] # p
  <2>1. Kid(t, h, lo, hi, p, q, i, j, t.page[q].kids[j])
    BY <1>2, <1>7
  <2>2. t.page[t.page[q].kids[j]].place = j
    BY <2>1 DEF Kid
  <2> QED BY <2>2, <1>7
<1>8. HasLeft(t, p) => Siblings(t, p, q, Left(t, p), p) /\ Left(t, p) # p
  <2> SUFFICES ASSUME HasLeft(t, p) PROVE Siblings(t, p, q, Left(t, p), p) /\ Left(t, p) # p
    OBVIOUS
  <2> HIDE DEF n
  <2> DEFINE j == i - 1
  <2>1. j \in Nat /\ j \in 1 .. n /\ j + 1 = i /\ j # i
    <3> HIDE DEF i
    <3> QED BY <1>3, <1>5
  <2>2. Left(t, p) = t.page[q].kids[j]
    BY <1>5
  <2>3. t.page[p].place = j + 1 /\ p = t.page[q].kids[j + 1] /\ j + 1 \in 1 .. n
    BY <2>1, <1>3
  <2> HIDE DEF j
  <2>4. Left(t, p) # p
    BY <2>1, <2>2, <1>7
  <2> QED BY <2>1, <2>2, <2>3, <2>4 DEF Siblings, n
<1>9. HasRight(t, p) => Siblings(t, p, q, p, Right(t, p)) /\ Right(t, p) # p
  <2> SUFFICES ASSUME HasRight(t, p) PROVE Siblings(t, p, q, p, Right(t, p)) /\ Right(t, p) # p
    OBVIOUS
  <2> HIDE DEF n
  <2>1. i \in Nat /\ i + 1 \in 1 .. n /\ i + 1 # i
    <3> HIDE DEF i
    <3> QED BY <1>3, <1>5
  <2>2. Right(t, p) = t.page[q].kids[i + 1] /\ t.page[p].place = i
    BY <1>5
  <2> HIDE DEF i
  <2>3. Right(t, p) # p
    BY <2>1, <2>2, <1>7
  <2> QED BY <2>1, <2>2, <2>3, <1>3 DEF Siblings, n
<1> HIDE DEF i, n
<1>10. HasLeft(t, p) => LowOne(t, h, lo, hi, p, q, Left(t, p), p, Left(t, p), Size(t, p), Size(t, Left(t, p)))
  <2> DEFINE d == Left(t, p)
  <2>1. {p, d} = {d, p}
    OBVIOUS
  <2> HIDE DEF d
  <2>2. HasLeft(t, p) => Siblings(t, p, q, d, p) /\ d # p
    BY <1>8 DEF d
  <2>3. HasLeft(t, p) => LowOne(t, h, lo, hi, p, q, d, p, d, Size(t, p), Size(t, d))
    BY <2>1, <2>2 DEF LowOne
  <2> QED BY <2>3 DEF d
<1>11. HasRight(t, p) => LowOne(t, h, lo, hi, p, q, p, Right(t, p), Right(t, p), Size(t, p), Size(t, Right(t, p)))
  <2> DEFINE d == Right(t, p)
  <2> HIDE DEF d
  <2>2. HasRight(t, p) => Siblings(t, p, q, p, d) /\ d # p
    BY <1>9 DEF d
  <2>3. HasRight(t, p) => LowOne(t, h, lo, hi, p, q, p, d, d, Size(t, p), Size(t, d))
    BY <2>2 DEF LowOne
  <2> QED BY <2>3 DEF d
<1> QED BY <1>6, <1>10, <1>11

(* One call of Adjust. *)
LEMMA Turning ==
  ASSUME NEW t, NEW h, NEW lo, NEW hi, NEW p, NEW s, Off(t, h, lo, hi, p), s = AdjustPage(t, p)
  PROVE  TurnDone(t, s, h, p)
PROOF
<1> DEFINE num == Size(t, p)
           q == t.page[p].parent
           c == FreshId(t)
           m == MAX_NUM \div 2
<1>1. Shape(t, h, lo, hi) /\ p \in t.used /\ Near(t, p) /\ \A y \in t.used \ {p} : Fine(t, y)
  BY DEF Off
<1>2. num \in Nat /\ m \in Nat /\ MAX_NUM \in Nat /\ m < MAX_NUM /\ m >= 2 /\ num <= MAX_NUM
  BY <1>1, ShapeFacts, Half DEF Near, Size
<1>3. p = t.root <=> q = NULL_ID
  <2>1. p # t.root => Hangs(t, h, lo, hi, p, q, t.page[p].place, Len(t.page[q].keys))
    BY <1>1, Hanging
  <2> QED BY <2>1, <1>1 DEF Hangs, Shape
<1>4. ASSUME NEW u, s = Done(u), Ended(t, u) PROVE TurnDone(t, s, h, p)
  BY <1>4 DEF TurnDone, Done, Go
<1>5. ASSUME NEW u, s = Go(u, q), WentUp(t, u, h, p, q) PROVE TurnDone(t, s, h, p)
  <2>1. s.page = q /\ s.tree = u
    BY <1>5 DEF Go
  <2> QED BY <2>1, <1>5 DEF TurnDone
<1>6. CASE num = MAX_NUM /\ q = NULL_ID
  <2> DEFINE v == NewRoot(Split(t, p), p, c)
  <2>1. s = Done(v)
    BY <1>6 DEF AdjustPage
  <2>2. Ended(t, v)
    BY <1>6, SplitRoot
  <2> QED BY <2>1, <2>2, <1>4
<1>7. CASE num = MAX_NUM /\ q # NULL_ID
  <2> DEFINE v == InsertPage(Split(t, p), q, Split(t, p).page[p].place + 1, c)
  <2>1. s = Go(v, q)
    BY <1>7 DEF AdjustPage
  <2>2. WentUp(t, v, h, p, q)
    BY <1>7, SplitInner
  <2> QED BY <2>1, <2>2, <1>5
<1>8. CASE num # MAX_NUM /\ Fine(t, p)
  <2>1. Ended(t, t)
    BY <1>1, <1>8 DEF Ended, Sound, Good, SameHas
  <2>2. num >= m => s = Done(t)
    BY <1>8 DEF AdjustPage
  <2>3. num < m => p = t.root /\ num >= IF t.page[p].leaf THEN 1 ELSE 2
    <3>1. num >= IF p # t.root THEN m ELSE IF t.page[p].leaf THEN 1 ELSE 2
      BY <1>8 DEF Fine
    <3> HIDE DEF m, num
    <3> QED BY <3>1, <1>2
  <2>4. num < m => s = Done(t)
    <3> SUFFICES ASSUME num < m PROVE s = Done(t)
      OBVIOUS
    <3>1. p = t.root /\ ~(num >= m) /\ ~(num = 1 /\ ~t.page[p].leaf) /\ ~(num = 0 /\ t.page[p].leaf)
      <4> HIDE DEF num, m
      <4> QED BY <2>3, <1>2
    <3> QED BY <3>1, <1>8 DEF AdjustPage
  <2>5. num >= m \/ num < m
    <3> HIDE DEF num, m
    <3> QED BY <1>2
  <2> QED BY <2>1, <2>2, <2>4, <2>5, <1>4
<1>9. CASE num # MAX_NUM /\ ~Fine(t, p) /\ p = t.root
  <2>1. num < IF t.page[p].leaf THEN 1 ELSE 2
    <3>1. ~(num < MAX_NUM /\ num >= IF t.page[p].leaf THEN 1 ELSE 2)
      BY <1>9 DEF Fine
    <3> HIDE DEF num
    <3> QED BY <3>1, <1>2, <1>9
  <2>2. num >= IF t.page[p].leaf THEN 0 ELSE 1
    BY <1>1, <1>9 DEF Near
  <2>3. IF t.page[p].leaf THEN num = 0 ELSE num = 1
    <3> HIDE DEF num
    <3> QED BY <2>1, <2>2, <1>2
  <2>4. ~(num >= m)
    <3> HIDE DEF num, m
    <3> QED BY <2>3, <1>2
  <2>5. CASE ~t.page[p].leaf
    <3>1. s = Done(Shrunk(t, p))
      BY <2>3, <2>4, <2>5, <1>9 DEF AdjustPage, Shrunk
    <3>2. Ended(t, Shrunk(t, p))
      BY <2>3, <2>5, <1>1, <1>9, Collapsing
    <3> QED BY <3>1, <3>2, <1>4
  <2>6. CASE t.page[p].leaf
    <3> DEFINE v == [Delete(t, p) EXCEPT !.root = NULL_ID]
    <3>1. s = Done(v)
      BY <2>3, <2>4, <2>6, <1>9 DEF AdjustPage
    <3>2. Ended(t, v)
      BY <2>3, <2>6, <1>1, <1>9, Emptied
    <3> QED BY <3>1, <3>2, <1>4
  <2> QED BY <2>5, <2>6
<1>10. CASE num # MAX_NUM /\ ~Fine(t, p) /\ p # t.root
  <2>1. num < m
    <3>1. ~(num < MAX_NUM /\ num >= m)
      BY <1>10 DEF Fine
    <3> HIDE DEF num, m
    <3> QED BY <3>1, <1>2, <1>10
  <2>2. ~(num >= m)
    <3> HIDE DEF num, m
    <3> QED BY <2>1, <1>2
  <2> DEFINE a == Left(t, p)
             b == Right(t, p)
             x == Size(t, a)
             y == Size(t, b)
  <2>3. /\ HasLeft(t, p) \/ HasRight(t, p)
        /\ HasLeft(t, p) => LowOne(t, h, lo, hi, p, q, a, p, a, num, x)
        /\ HasRight(t, p) => LowOne(t, h, lo, hi, p, q, p, b, b, num, y)
    BY <2>1, <1>10, LowHangs
  <2>4. /\ HasLeft(t, p) => x \in Nat
        /\ HasRight(t, p) => y \in Nat
    <3> HIDE DEF a, b, x, y, num
    <3>1. HasLeft(t, p) => LowIs(t, h, lo, hi, p, q, a, p, a, num, x)
      BY <2>3, LowSizes
    <3>2. HasRight(t, p) => LowIs(t, h, lo, hi, p, q, p, b, b, num, y)
      BY <2>3, LowSizes
    <3> QED BY <3>1, <3>2 DEF LowIs
  <2>5. CASE HasLeft(t, p) /\ Spare(t, a)
    <3>1. s = Done(MoveLast(t, a, p))
      BY <2>2, <2>5, <1>10 DEF AdjustPage
    <3>2. Ended(t, MoveLast(t, a, p))
      <4>1. x > m
        BY <2>5 DEF Spare
      <4> HIDE DEF a, x, num, q
      <4> QED BY <4>1, <2>3, <2>5, LendLeft
    <3> QED BY <3>1, <3>2, <1>4
  <2>6. CASE ~(HasLeft(t, p) /\ Spare(t, a)) /\ HasRight(t, p) /\ Spare(t, b)
    <3>1. s = Done(MoveFirst(t, b, p))
      BY <2>2, <2>6, <1>10 DEF AdjustPage
    <3>2. Ended(t, MoveFirst(t, b, p))
      <4>1. y > m
        BY <2>6 DEF Spare
      <4> HIDE DEF b, y, num, q
      <4> QED BY <4>1, <2>3, <2>6, LendRight
    <3> QED BY <3>1, <3>2, <1>4
  <2>7. CASE ~(HasLeft(t, p) /\ Spare(t, a)) /\ ~(HasRight(t, p) /\ Spare(t, b)) /\ HasLeft(t, p)
    <3>1. s = Go(CombineLeft(t, p), q)
      BY <2>2, <2>7, <1>10 DEF AdjustPage
    <3>2. CombineLeft(t, p) = Delete(MoveLasts(t, a, p, x), a)
      BY DEF CombineLeft, MoveLasts
    <3>3. WentUp(t, CombineLeft(t, p), h, p, q)
      <4>1. ~(x > m)
        BY <2>7 DEF Spare
      <4> HIDE DEF a, x, num, q, m
      <4>2. x <= m
        BY <4>1, <2>4, <2>7, <1>2
      <4>3. WentUp(t, Delete(MoveLasts(t, a, p, x), a), h, p, q)
        BY <4>2, <2>3, <2>7, MergeLeft DEF m
      <4> QED BY <4>3, <3>2
    <3> QED BY <3>1, <3>3, <1>5
  <2>8. CASE ~(HasLeft(t, p) /\ Spare(t, a)) /\ ~(HasRight(t, p) /\ Spare(t, b)) /\ ~HasLeft(t, p)
    <3>0. HasRight(t, p)
      BY <2>3, <2>8
    <3>1. s = Go(CombineRight(t, p), q)
      BY <3>0, <2>2, <2>8, <1>10 DEF AdjustPage
    <3>2. CombineRight(t, p) = Delete(MoveFirsts(t, b, p, y), b)
      BY DEF CombineRight, MoveFirsts
    <3>3. WentUp(t, CombineRight(t, p), h, p, q)
      <4>1. ~(y > m)
        BY <3>0, <2>8 DEF Spare
      <4> HIDE DEF b, y, num, q, m
      <4>2. y <= m
        BY <4>1, <3>0, <2>4, <1>2
      <4>3. WentUp(t, Delete(MoveFirsts(t, b, p, y), b), h, p, q)
        BY <4>2, <3>0, <2>3, MergeRight DEF m
      <4> QED BY <4>3, <3>2
    <3> QED BY <3>1, <3>3, <1>5
  <2> QED BY <2>5, <2>6, <2>7, <2>8
<1> QED BY <1>3, <1>6, <1>7, <1>8, <1>9, <1>10

(* After n calls, Adjust has ended or come to a page at least so high. *)
Progress(t, s, n) ==
  /\ SameHas(t, s.tree)
  /\ \/ s.page = NULL_ID /\ Sound(s.tree)
     \/ s.page # NULL_ID /\ \E h, lo, hi : Off(s.tree, h, lo, hi, s.page) /\ h[s.page] >= n

LEMMA SameHasTwice ==
  ASSUME NEW t, NEW u, NEW v, SameHas(t, u), SameHas(u, v)
  PROVE  SameHas(t, v)
PROOF BY DEF SameHas

LEMMA Progressing ==
  ASSUME NEW t, NEW s, NEW v, NEW n \in Nat, Progress(t, s, n), v = Turn(s)
  PROVE  Progress(t, v, n + 1)
PROOF
<1>1. CASE s.page = NULL_ID
  <2>1. v = s
    BY <1>1 DEF Turn
  <2> QED BY <2>1, <1>1 DEF Progress
<1>2. CASE s.page # NULL_ID
  <2>1. v = AdjustPage(s.tree, s.page)
    BY <1>2 DEF Turn
  <2>2. PICK h, lo, hi : Off(s.tree, h, lo, hi, s.page) /\ h[s.page] >= n
    BY <1>2 DEF Progress
  <2>3. TurnDone(s.tree, v, h, s.page)
    BY <2>1, <2>2, Turning
  <2>4. SameHas(t, s.tree)
    BY DEF Progress
  <2>5. CASE v.page = NULL_ID /\ Ended(s.tree, v.tree)
    BY <2>4, <2>5, SameHasTwice DEF Ended, Progress
  <2>6. CASE WentUp(s.tree, v.tree, h, s.page, v.page)
    <3>1. SameHas(t, v.tree) /\ v.page # NULL_ID
      BY <2>4, <2>6, SameHasTwice DEF WentUp
    <3>2. PICK h2, lo2, hi2 : Off(v.tree, h2, lo2, hi2, v.page) /\ h2[v.page] = h[s.page] + 1
      BY <2>6 DEF WentUp
    <3>3. h[s.page] \in Nat
      BY <2>2, ShapeFacts DEF Off
    <3>4. h2[v.page] >= n + 1
      BY <2>2, <3>2, <3>3
    <3> QED BY <3>1, <3>2, <3>4 DEF Progress
  <2> QED BY <2>3, <2>5, <2>6 DEF TurnDone
<1> QED BY <1>1, <1>2

(* The whole of Adjust. *)
LEMMA Adjusted ==
  ASSUME NEW t, NEW h, NEW lo, NEW hi, NEW p, Off(t, h, lo, hi, p)
  PROVE  Ended(t, Adjust(t, p))
PROOF
<1>1. PICK at : /\ at[0] = Go(t, p)
                /\ \A n \in 1 .. LEVELS : at[n] = Turn(at[n - 1])
                /\ Adjust(t, p) = at[LEVELS].tree
  BY AdjustingIs
<1>2. LEVELS \in Nat
  BY PageAssumption
<1> DEFINE T == {n \in 0 .. LEVELS : Progress(t, at[n], n)}
<1>3. 0 \in T
  <2>1. at[0].tree = t /\ at[0].page = p
    BY <1>1 DEF Go
  <2>2. p \in t.used /\ Shape(t, h, lo, hi)
    BY DEF Off
  <2>3. p # NULL_ID /\ h[p] \in Nat
    BY <2>2, ShapeFacts
  <2>4. SameHas(t, t)
    BY DEF SameHas
  <2>5. Progress(t, at[0], 0)
    BY <2>1, <2>3, <2>4 DEF Progress
  <2> QED BY <2>5, <1>2
<1>4. ASSUME NEW n \in 0 .. LEVELS - 1, n \in T PROVE n + 1 \in T
  <2> DEFINE m == n + 1
  <2>1. m \in 1 .. LEVELS /\ m - 1 = n /\ n \in Nat /\ m \in 0 .. LEVELS
    BY <1>2
  <2>2. at[m] = Turn(at[n]) /\ Progress(t, at[n], n)
    BY <1>1, <1>4, <2>1
  <2>3. Progress(t, at[m], m)
    <3> DEFINE s == at[n]
               v == at[m]
    <3>1. v = Turn(s) /\ Progress(t, s, n)
      BY <2>2
    <3> HIDE DEF s, v
    <3>2. Progress(t, v, n + 1)
      BY <3>1, <2>1, Progressing
    <3> QED BY <3>2 DEF s, v
  <2> QED BY <2>1, <2>3
<1> DEFINE s == at[LEVELS]
<1>5. Progress(t, s, LEVELS)
  <2> HIDE DEF T
  <2>1. LEVELS \in T
    BY <1>2, <1>3, <1>4, UpTo
  <2> QED BY <2>1 DEF T
<1> HIDE DEF s, T
<1>6. s.page = NULL_ID
  <2> SUFFICES ASSUME s.page # NULL_ID PROVE FALSE
    OBVIOUS
  <2>1. PICK h1, lo1, hi1 : Off(s.tree, h1, lo1, hi1, s.page) /\ h1[s.page] >= LEVELS
    BY <1>5 DEF Progress
  <2>2. s.page \in s.tree.used /\ Links(s.tree, h1, {s.tree.root}, {}) /\ Shape(s.tree, h1, lo1, hi1)
    BY <2>1 DEF Off, Shape
  <2>3. h1[s.page] < LEVELS /\ h1[s.page] \in Nat
    BY <2>2, LinkFacts, ShapeFacts
  <2> QED BY <2>1, <2>3, <1>2
<1>7. Adjust(t, p) = s.tree
  BY <1>1 DEF s
<1> QED BY <1>5, <1>6, <1>7 DEF Progress, Ended

-----------------------------------------------------------------------------
(* The pages of the tree, level by level.                                  *)
AtDepth(t, h, d) == {y \in t.used : h[y] + d = h[t.root]}

LEMMA OneDown ==
  ASSUME NEW t, NEW h, NEW lo, NEW hi, Shape(t, h, lo, hi), NEW d \in Nat
  PROVE  LevelBelow(t, AtDepth(t, h, d)) = AtDepth(t, h, d + 1)
PROOF
<1> DEFINE S == AtDepth(t, h, d)
<1>1. /\ Links(t, h, {t.root}, {})
      /\ \A y \in t.used : h[y] \in Nat
      /\ t.root \in t.used
      /\ \A y \in t.used : t.page[y].kids \in Seq(Value \cup PageId) /\ Len(t.page[y].kids) = Len(t.page[y].keys)
  <2>1. Links(t, h, {t.root}, {}) /\ t.used \subseteq PageId
    BY ShapeFacts DEF Shape
  <2> QED BY <2>1, ShapeFacts, LinkFacts
<1>2. ASSUME NEW y \in LevelBelow(t, S) PROVE y \in AtDepth(t, h, d + 1)
  <2>1. PICK p \in S : ~t.page[p].leaf /\ y \in Seqs!ToSet(t.page[p].kids)
    BY <1>2 DEF LevelBelow
  <2>2. p \in t.used /\ h[p] + d = h[t.root]
    BY <2>1 DEF AtDepth
  <2>3. PICK i \in 1 .. Len(t.page[p].keys) : y = t.page[p].kids[i]
    BY <2>1, <2>2, <1>1 DEF Seqs!ToSet
  <2>4. Below(t, h, p, i)
    BY <2>1, <2>2, <1>1 DEF Links
  <2>5. y \in t.used /\ h[y] + 1 = h[p] /\ h[y] \in Nat /\ h[p] \in Nat /\ h[t.root] \in Nat
    BY <2>2, <2>3, <2>4, <1>1 DEF Below
  <2>6. h[y] + (d + 1) = h[t.root]
    BY <2>2, <2>5
  <2> QED BY <2>5, <2>6 DEF AtDepth
<1>3. ASSUME NEW y \in AtDepth(t, h, d + 1) PROVE y \in LevelBelow(t, S)
  <2>1. y \in t.used /\ h[y] + (d + 1) = h[t.root] /\ h[y] \in Nat /\ h[t.root] \in Nat
    BY <1>1, <1>3 DEF AtDepth
  <2>2. y # t.root
    BY <2>1
  <2> DEFINE q == t.page[y].parent
             i == t.page[y].place
  <2>3. q \in t.used /\ ~t.page[q].leaf /\ i \in 1 .. Len(t.page[q].keys) /\ t.page[q].kids[i] = y
    BY <2>1, <2>2, <1>1 DEF Links, Hung
  <2> HIDE DEF q, i
  <2>4. Below(t, h, q, i)
    BY <2>3, <1>1 DEF Links
  <2>5. h[y] + 1 = h[q] /\ h[q] \in Nat
    BY <2>3, <2>4, <1>1 DEF Below
  <2>6. h[q] + d = h[t.root]
    BY <2>1, <2>5
  <2>7. q \in S
    BY <2>3, <2>6 DEF AtDepth
  <2>8. y \in Seqs!ToSet(t.page[q].kids)
    BY <2>3, <1>1 DEF Seqs!ToSet
  <2> QED BY <2>3, <2>7, <2>8 DEF LevelBelow
<1> QED BY <1>2, <1>3

LEMMA LevelsAre ==
  ASSUME NEW t, NEW h, NEW lo, NEW hi, Shape(t, h, lo, hi)
  PROVE  \A d \in 0 .. LEVELS : Level(t)[d] = AtDepth(t, h, d)
PROOF
<1>1. PICK at : /\ at[0] = {t.root} \ {NULL_ID}
                /\ \A n \in 1 .. LEVELS : at[n] = LevelBelow(t, at[n - 1])
                /\ Level(t) = at
  BY LevelIs
<1>2. LEVELS \in Nat
  BY PageAssumption
<1> DEFINE T == {n \in 0 .. LEVELS : at[n] = AtDepth(t, h, n)}
<1>3. 0 \in T
  <2>1. t.root \in t.used /\ NULL_ID \notin t.used /\ Links(t, h, {t.root}, {})
    BY ShapeFacts DEF Shape
  <2>2. ASSUME NEW y \in t.used, y # t.root PROVE h[y] + 0 # h[t.root]
    <3>1. h[y] < h[t.root] /\ h[y] \in Nat /\ h[t.root] \in Nat
      BY <2>1, <2>2, RootHighest, ShapeFacts
    <3> QED BY <3>1
  <2>3. h[t.root] + 0 = h[t.root]
    BY <2>1, ShapeFacts
  <2>4. AtDepth(t, h, 0) = {t.root}
    BY <2>1, <2>2, <2>3 DEF AtDepth
  <2> QED BY <2>1, <2>4, <1>1, <1>2
<1>4. ASSUME NEW n \in 0 .. LEVELS - 1, n \in T PROVE n + 1 \in T
  <2> DEFINE m == n + 1
  <2>1. m \in 1 .. LEVELS /\ m - 1 = n /\ n \in Nat /\ m \in 0 .. LEVELS
    BY <1>2
  <2>2. at[m] = LevelBelow(t, at[n]) /\ at[n] = AtDepth(t, h, n)
    BY <1>1, <1>4, <2>1
  <2>3. LevelBelow(t, AtDepth(t, h, n)) = AtDepth(t, h, m)
    BY <2>1, OneDown
  <2> QED BY <2>1, <2>2, <2>3
<1> HIDE DEF T
<1>5. \A n \in 0 .. LEVELS : n \in T
  BY <1>2, <1>3, <1>4, UpTo
<1> QED BY <1>1, <1>5 DEF T

LEMMA PagesAre ==
  ASSUME NEW t, NEW h, NEW lo, NEW hi, Shape(t, h, lo, hi)
  PROVE  Pages(t) = t.used
PROOF
<1>1. \A d \in 0 .. LEVELS : Level(t)[d] = AtDepth(t, h, d)
  BY LevelsAre
<1>2. ASSUME NEW y \in t.used PROVE \E d \in 0 .. LEVELS : y \in AtDepth(t, h, d)
  <2> DEFINE d == h[t.root] - h[y]
  <2>1. h[y] \in Nat /\ h[t.root] \in Nat /\ h[y] <= h[t.root] /\ h[t.root] < LEVELS /\ LEVELS \in Nat
    <3>1. Links(t, h, {t.root}, {}) /\ t.root \in t.used
      BY ShapeFacts DEF Shape
    <3>2. h[t.root] < LEVELS
      BY <3>1, LinkFacts
    <3> QED BY <3>1, <3>2, ShapeFacts, PageAssumption
  <2>2. d \in 0 .. LEVELS /\ h[y] + d = h[t.root]
    BY <2>1
  <2> QED BY <2>2 DEF AtDepth
<1> QED BY <1>1, <1>2 DEF Pages, AtDepth

LEMMA NoPages ==
  ASSUME NEW t, t.root = NULL_ID
  PROVE  Pages(t) = {} /\ Levels(t) = 0
PROOF
<1>1. PICK at : /\ at[0] = {t.root} \ {NULL_ID}
                /\ \A n \in 1 .. LEVELS : at[n] = LevelBelow(t, at[n - 1])
                /\ Level(t) = at
  BY LevelIs
<1>2. LEVELS \in Nat
  BY PageAssumption
<1> DEFINE T == {n \in 0 .. LEVELS : at[n] = {}}
<1>3. 0 \in T
  BY <1>1, <1>2
<1>4. ASSUME NEW n \in 0 .. LEVELS - 1, n \in T PROVE n + 1 \in T
  <2>1. n + 1 \in 1 .. LEVELS /\ n + 1 - 1 = n /\ n + 1 \in 0 .. LEVELS
    BY <1>2
  <2>2. at[n + 1] = LevelBelow(t, {})
    BY <1>1, <1>4, <2>1
  <2> QED BY <2>1, <2>2 DEF LevelBelow
<1> HIDE DEF T
<1>5. \A n \in 0 .. LEVELS : n \in T
  BY <1>2, <1>3, <1>4, UpTo
<1>6. \A n \in 0 .. LEVELS : Level(t)[n] = {}
  BY <1>1, <1>5 DEF T
<1>7. {d \in 0 .. LEVELS : Level(t)[d] # {}} = {}
  BY <1>6
<1> QED BY <1>6, <1>7, FS_EmptySet DEF Pages, Levels

LEMMA LevelCount ==
  ASSUME NEW t, NEW h, NEW lo, NEW hi, Good(t, h, lo, hi)
  PROVE  Levels(t) = h[t.root] + 1
PROOF
<1>1. Shape(t, h, lo, hi) /\ Links(t, h, {t.root}, {}) /\ \A y \in t.used : Fine(t, y)
  BY DEF Good, Shape
<1> DEFINE r == h[t.root]
<1>2. r \in Nat /\ r < LEVELS /\ LEVELS \in Nat /\ t.root \in t.used /\ \A y \in t.used : h[y] \in Nat /\ h[y] <= r
  <2>1. t.root \in t.used
    BY <1>1, ShapeFacts
  <2> QED BY <2>1, <1>1, ShapeFacts, LinkFacts, PageAssumption
<1> DEFINE T == {n \in 0 .. r : AtDepth(t, h, n) # {}}
<1>3. 0 \in T
  <2>1. t.root \in AtDepth(t, h, 0)
    BY <1>2 DEF AtDepth
  <2> QED BY <2>1, <1>2
<1>4. ASSUME NEW n \in 0 .. r - 1, n \in T PROVE n + 1 \in T
  <2>1. PICK y \in t.used : h[y] + n = r
    BY <1>4 DEF AtDepth
  <2>2. h[y] # 0 /\ n \in Nat /\ n + 1 \in 0 .. r
    BY <1>2, <2>1
  <2>3. ~t.page[y].leaf
    BY <1>1, <2>2 DEF Links, Even
  <2>4. 1 \in 1 .. Len(t.page[y].keys)
    <3> DEFINE s == t.page[y].keys
    <3>1. s # <<>> /\ s \in Seq(Key)
      <4>1. y \in PageId
        BY <1>1, ShapeFacts
      <4> QED BY <4>1, <1>1, FineSize, LinkFacts
    <3> HIDE DEF s
    <3>2. 1 \in 1 .. Len(s)
      BY <3>1
    <3> QED BY <3>2 DEF s
  <2> DEFINE d == t.page[y].kids[1]
  <2>5. d \in t.used /\ h[d] + 1 = h[y]
    BY <1>1, <2>3, <2>4 DEF Links, Below
  <2> HIDE DEF d
  <2>6. h[d] + (n + 1) = r
    <3>1. h[d] \in Nat /\ h[y] \in Nat
      BY <1>2, <2>5
    <3> HIDE DEF r
    <3> QED BY <3>1, <2>1, <2>2, <2>5
  <2>7. d \in AtDepth(t, h, n + 1)
    BY <2>5, <2>6 DEF AtDepth
  <2> QED BY <2>2, <2>7
<1> HIDE DEF T
<1>5. \A n \in 0 .. r : n \in T
  <2> HIDE DEF r
  <2> QED BY <1>2, <1>3, <1>4, UpTo
<1>6. {d \in 0 .. LEVELS : Level(t)[d] # {}} = 0 .. r
  <2>1. ASSUME NEW d \in 0 .. LEVELS PROVE Level(t)[d] # {} <=> d \in 0 .. r
    <3>1. Level(t)[d] = AtDepth(t, h, d)
      BY <1>1, LevelsAre
    <3>2. d \in 0 .. r => AtDepth(t, h, d) # {}
      BY <1>5 DEF T
    <3>3. ASSUME NEW y \in AtDepth(t, h, d) PROVE d \in 0 .. r
      <4>1. h[y] + d = r /\ h[y] \in Nat
        BY <1>2, <3>3 DEF AtDepth
      <4> HIDE DEF r
      <4> QED BY <4>1, <1>2
    <3> QED BY <3>1, <3>2, <3>3
  <2>2. 0 .. r \subseteq 0 .. LEVELS
    <3> HIDE DEF r
    <3> QED BY <1>2
  <2> QED BY <2>1, <2>2
<1>7. Cardinality(0 .. r) = r + 1
  <2> HIDE DEF r
  <2>1. 0 \in Int /\ r \in Int /\ ~(0 > r)
    BY <1>2
  <2>2. Cardinality(0 .. r) = r - 0 + 1
    BY <2>1, FS_Interval
  <2> QED BY <2>2, <1>2
<1> QED BY <1>6, <1>7 DEF Levels

-----------------------------------------------------------------------------
(* Searching.  Each key of a page is about its own entry.                  *)
GoodPage(t, h, lo, hi, y, n) ==
  /\ y \in PageId /\ n = Len(t.page[y].keys) /\ n \in Nat /\ n > 0 /\ LastKey(t, y) = t.page[y].keys[n]
  /\ lo[y] \in Int /\ hi[y] \in Int
  /\ \A i \in 1 .. n : /\ t.page[y].keys[i] \in Key /\ t.page[y].keys[i] \in Int
                       /\ Low(t, lo, y, i) \in Int /\ High(t, hi, y, i) \in Int
                       /\ lo[y] <= Low(t, lo, y, i) /\ High(t, hi, y, i) <= hi[y]
  /\ \A i, j \in 1 .. n : i < j => High(t, hi, y, i) <= Low(t, lo, y, j)

LEMMA GoodPages ==
  ASSUME NEW t, NEW h, NEW lo, NEW hi, Good(t, h, lo, hi), NEW y \in t.used
  PROVE  \E n : GoodPage(t, h, lo, hi, y, n)
PROOF
<1> DEFINE n == Len(t.page[y].keys)
<1>1. /\ Shape(t, h, lo, hi) /\ Links(t, h, {t.root}, {}) /\ Ordered(t, lo, hi) /\ Fine(t, y)
  BY DEF Good, Shape
<1>2. y \in PageId /\ t.page[y].keys \in Seq(Key) /\ t.page[y].keys # <<>> /\ lo[y] \in Int /\ hi[y] \in Int
  <2>1. y \in PageId
    BY <1>1, ShapeFacts
  <2> QED BY <2>1, <1>1, LinkFacts, FineSize, ShapeFacts
<1>3. n \in Nat /\ n > 0 /\ \A i \in 1 .. n : t.page[y].keys[i] \in Key
  <2> DEFINE s == t.page[y].keys
  <2> HIDE DEF s
  <2>1. Len(s) \in Nat /\ Len(s) > 0 /\ \A i \in 1 .. Len(s) : s[i] \in Key
    BY <1>2 DEF s
  <2> QED BY <2>1 DEF s
<1>4. \A i \in 1 .. n : t.page[y].keys[i] \in Int
  BY <1>3, TreeAssumption
<1>5. LastKey(t, y) = t.page[y].keys[n]
  BY DEF LastKey, Size
<1>6. \A i \in 1 .. n : Low(t, lo, y, i) \in Int /\ High(t, hi, y, i) \in Int
  BY <1>1, EntryBounds
<1>7. Sorted(t, lo, hi, y)
  BY <1>1 DEF Ordered
<1>8. GoodPage(t, h, lo, hi, y, n)
  BY <1>2, <1>3, <1>4, <1>5, <1>6, <1>7 DEF GoodPage, Sorted
<1> QED BY <1>8

(* The child at i. *)
GoodKid(t, h, lo, hi, y, i, c) ==
  /\ c = t.page[y].kids[i] /\ c \in t.used /\ h[c] + 1 = h[y]
  /\ t.page[y].keys[i] = LastKey(t, c) /\ t.page[c].parent = y /\ t.page[c].place = i
  /\ Low(t, lo, y, i) = lo[c] /\ High(t, hi, y, i) = hi[c]

LEMMA GoodKids ==
  ASSUME NEW t, NEW h, NEW lo, NEW hi, Good(t, h, lo, hi), NEW y \in t.used, ~t.page[y].leaf,
         NEW i \in 1 .. Len(t.page[y].keys)
  PROVE  GoodKid(t, h, lo, hi, y, i, t.page[y].kids[i])
PROOF
<1> DEFINE c == t.page[y].kids[i]
<1>1. /\ Shape(t, h, lo, hi) /\ Links(t, h, {t.root}, {}) /\ Tops(t, {}) /\ \A z \in t.used : Fine(t, z)
  BY DEF Good, Shape
<1>2. Below(t, h, y, i) /\ Known(t, y, i) /\ Top(t, y, i)
  BY <1>1 DEF Links, Tops
<1>3. c \in t.used /\ h[c] + 1 = h[y] /\ t.page[c].parent = y /\ t.page[c].place = i
  BY <1>2 DEF Below, Known
<1>4. t.page[c].keys # <<>>
  BY <1>1, <1>3, FineSize
<1>5. t.page[y].keys[i] = LastKey(t, c)
  BY <1>2, <1>4 DEF Top
<1>6. Low(t, lo, y, i) = lo[c] /\ High(t, hi, y, i) = hi[c]
  BY DEF Low, High
<1> QED BY <1>3, <1>5, <1>6 DEF GoodKid

KeyInside(t, lo, hi, y, i) ==
  Low(t, lo, y, i) < t.page[y].keys[i] /\ t.page[y].keys[i] <= High(t, hi, y, i)

LastInside(t, lo, hi, y) == lo[y] < LastKey(t, y) /\ LastKey(t, y) <= hi[y]

LEMMA LastsInside ==
  ASSUME NEW t, NEW h, NEW lo, NEW hi, Good(t, h, lo, hi), NEW y \in t.used,
         \A c \in t.used : h[c] + 1 = h[y] => LastInside(t, lo, hi, c)
  PROVE  /\ \A i \in 1 .. Len(t.page[y].keys) : KeyInside(t, lo, hi, y, i)
         /\ LastInside(t, lo, hi, y)
PROOF
<1>1. PICK n : GoodPage(t, h, lo, hi, y, n)
  BY GoodPages
<1>2. /\ n = Len(t.page[y].keys) /\ n \in Nat /\ n > 0 /\ LastKey(t, y) = t.page[y].keys[n]
      /\ lo[y] \in Int /\ hi[y] \in Int
      /\ \A i \in 1 .. n : /\ t.page[y].keys[i] \in Int
                           /\ Low(t, lo, y, i) \in Int /\ High(t, hi, y, i) \in Int
                           /\ lo[y] <= Low(t, lo, y, i) /\ High(t, hi, y, i) <= hi[y]
  BY <1>1 DEF GoodPage
<1>3. ASSUME NEW i \in 1 .. n PROVE KeyInside(t, lo, hi, y, i)
  <2>1. CASE t.page[y].leaf
    <3> DEFINE k == t.page[y].keys[i]
    <3>1. k \in Int /\ Low(t, lo, y, i) = k - 1 /\ High(t, hi, y, i) = k
      BY <2>1, <1>2 DEF Low, High
    <3> HIDE DEF k
    <3>2. k - 1 < k /\ k <= k
      BY <3>1
    <3> QED BY <3>1, <3>2 DEF KeyInside, k
  <2>2. CASE ~t.page[y].leaf
    <3> DEFINE c == t.page[y].kids[i]
    <3>1. GoodKid(t, h, lo, hi, y, i, c)
      BY <2>2, <1>2, <1>3, GoodKids
    <3>2. c \in t.used /\ h[c] + 1 = h[y] /\ t.page[y].keys[i] = LastKey(t, c)
          /\ Low(t, lo, y, i) = lo[c] /\ High(t, hi, y, i) = hi[c]
      BY <3>1 DEF GoodKid
    <3>3. LastInside(t, lo, hi, c)
      BY <3>2
    <3> QED BY <3>2, <3>3 DEF LastInside, KeyInside
  <2> QED BY <2>1, <2>2
<1>4. LastInside(t, lo, hi, y)
  <2> DEFINE l == Low(t, lo, y, n)
             g == High(t, hi, y, n)
             k == t.page[y].keys[n]
  <2>1. n \in 1 .. n
    BY <1>2
  <2>2. l \in Int /\ g \in Int /\ k \in Int /\ lo[y] <= l /\ g <= hi[y] /\ l < k /\ k <= g /\ LastKey(t, y) = k
    BY <2>1, <1>2, <1>3 DEF KeyInside
  <2> HIDE DEF l, g, k
  <2>3. lo[y] < k /\ k <= hi[y]
    BY <2>2, <1>2
  <2> QED BY <2>2, <2>3 DEF LastInside
<1> QED BY <1>2, <1>3, <1>4

LEMMA KeysInside ==
  ASSUME NEW t, NEW h, NEW lo, NEW hi, Good(t, h, lo, hi), NEW y \in t.used
  PROVE  /\ \A i \in 1 .. Len(t.page[y].keys) : KeyInside(t, lo, hi, y, i)
         /\ LastInside(t, lo, hi, y)
PROOF
<1>1. \A z \in t.used : h[z] \in Nat /\ h[z] < LEVELS
  <2>1. Shape(t, h, lo, hi) /\ Links(t, h, {t.root}, {})
    BY DEF Good, Shape
  <2> QED BY <2>1, ShapeFacts, LinkFacts
<1>2. LEVELS \in Nat
  BY PageAssumption
<1> DEFINE T == {n \in 0 .. LEVELS : \A z \in t.used : h[z] = n => LastInside(t, lo, hi, z)}
<1>3. 0 \in T
  <2>1. ASSUME NEW z \in t.used, h[z] = 0 PROVE LastInside(t, lo, hi, z)
    <3>1. \A c \in t.used : h[c] + 1 # h[z]
      BY <2>1, <1>1
    <3> QED BY <3>1, LastsInside
  <2> QED BY <2>1, <1>2
<1>4. ASSUME NEW n \in 0 .. LEVELS - 1, n \in T PROVE n + 1 \in T
  <2>1. ASSUME NEW z \in t.used, h[z] = n + 1 PROVE LastInside(t, lo, hi, z)
    <3>1. \A c \in t.used : h[c] + 1 = h[z] => h[c] = n
      BY <2>1, <1>1
    <3>2. \A c \in t.used : h[c] + 1 = h[z] => LastInside(t, lo, hi, c)
      BY <3>1, <1>4
    <3> QED BY <3>2, LastsInside
  <2> QED BY <2>1, <1>2
<1> HIDE DEF T
<1>5. \A n \in 0 .. LEVELS : n \in T
  BY <1>2, <1>3, <1>4, UpTo
<1>6. \A z \in t.used : LastInside(t, lo, hi, z)
  <2>1. \A z \in t.used : h[z] \in 0 .. LEVELS
    BY <1>1, <1>2
  <2> QED BY <2>1, <1>5 DEF T
<1> QED BY <1>6, LastsInside

(* The upper bound of a page is its last key. *)
TightPage(t, lo, hi, y, n) ==
  /\ y \in PageId /\ n = Len(t.page[y].keys) /\ n \in Nat /\ n > 0
  /\ lo[y] \in Int /\ hi[y] \in Int /\ hi[y] = t.page[y].keys[n] /\ lo[y] < hi[y]
  /\ \A i \in 1 .. n : /\ t.page[y].keys[i] \in Key /\ t.page[y].keys[i] \in Int
                       /\ Low(t, lo, y, i) \in Int /\ High(t, hi, y, i) = t.page[y].keys[i]
                       /\ lo[y] <= Low(t, lo, y, i) /\ Low(t, lo, y, i) < t.page[y].keys[i]
                       /\ t.page[y].keys[i] <= hi[y]
  /\ \A i, j \in 1 .. n : i < j => /\ t.page[y].keys[i] <= Low(t, lo, y, j)
                                   /\ t.page[y].keys[i] < t.page[y].keys[j]

Tight(t, h, lo, hi) ==
  Good(t, h, lo, hi) /\ \A y \in t.used : TightPage(t, lo, hi, y, Len(t.page[y].keys))

LEMMA TightPages ==
  ASSUME NEW t, NEW h, NEW lo, NEW hi, NEW hi2, Good(t, h, lo, hi), NEW y \in t.used,
         hi2 = [z \in PageId |-> IF z \in t.used THEN LastKey(t, z) ELSE hi[z]]
  PROVE  TightPage(t, lo, hi2, y, Len(t.page[y].keys))
PROOF
<1>1. PICK n : GoodPage(t, h, lo, hi, y, n)
  BY GoodPages
<1>2. /\ y \in PageId /\ n = Len(t.page[y].keys) /\ n \in Nat /\ n > 0 /\ LastKey(t, y) = t.page[y].keys[n]
      /\ lo[y] \in Int /\ hi[y] \in Int
      /\ \A i \in 1 .. n : /\ t.page[y].keys[i] \in Key /\ t.page[y].keys[i] \in Int
                           /\ Low(t, lo, y, i) \in Int /\ High(t, hi, y, i) \in Int
                           /\ lo[y] <= Low(t, lo, y, i)
      /\ \A i, j \in 1 .. n : i < j => High(t, hi, y, i) <= Low(t, lo, y, j)
  BY <1>1 DEF GoodPage
<1>3. /\ \A i \in 1 .. n : /\ Low(t, lo, y, i) < t.page[y].keys[i]
                           /\ t.page[y].keys[i] <= High(t, hi, y, i)
      /\ lo[y] < LastKey(t, y)
  BY <1>2, KeysInside DEF KeyInside, LastInside
<1>4. ASSUME NEW i \in 1 .. n, NEW j \in 1 .. n, i < j
      PROVE  /\ t.page[y].keys[i] <= Low(t, lo, y, j)
             /\ t.page[y].keys[i] < t.page[y].keys[j]
  <2> DEFINE a == t.page[y].keys[i]
             b == High(t, hi, y, i)
             c == Low(t, lo, y, j)
             d == t.page[y].keys[j]
  <2>1. a \in Int /\ b \in Int /\ c \in Int /\ d \in Int /\ a <= b /\ b <= c /\ c < d
    BY <1>2, <1>3, <1>4
  <2> HIDE DEF a, b, c, d
  <2>2. a <= c /\ a < d
    BY <2>1
  <2> QED BY <2>2 DEF a, c, d
<1>5. hi2[y] = t.page[y].keys[n]
  BY <1>2
<1>6. n \in 1 .. n
  BY <1>2
<1>7. ASSUME NEW i \in 1 .. n PROVE t.page[y].keys[i] <= hi2[y]
  <2> DEFINE a == t.page[y].keys[i]
             d == t.page[y].keys[n]
  <2>1. i < n \/ i = n
    BY <1>2
  <2>2. a \in Int /\ d \in Int /\ (i < n => a < d) /\ (i = n => a = d)
    BY <1>2, <1>4, <1>6
  <2> HIDE DEF a, d
  <2>3. a <= d
    BY <2>1, <2>2
  <2> QED BY <2>3, <1>5 DEF a, d
<1>8. ASSUME NEW i \in 1 .. n PROVE High(t, hi2, y, i) = t.page[y].keys[i]
  <2>1. CASE t.page[y].leaf
    BY <2>1 DEF High
  <2>2. CASE ~t.page[y].leaf
    <3> DEFINE c == t.page[y].kids[i]
    <3>1. GoodKid(t, h, lo, hi, y, i, c)
      BY <2>2, <1>2, <1>8, GoodKids
    <3>2. c \in t.used /\ t.page[y].keys[i] = LastKey(t, c)
      BY <3>1 DEF GoodKid
    <3>3. c \in PageId
      <4>1. Shape(t, h, lo, hi)
        BY DEF Good
      <4> QED BY <4>1, <3>2, ShapeFacts
    <3>4. hi2[c] = LastKey(t, c)
      <4> HIDE DEF c
      <4> QED BY <3>2, <3>3
    <3> QED BY <2>2, <3>2, <3>4 DEF High
  <2> QED BY <2>1, <2>2
<1>9. hi2[y] \in Int /\ lo[y] < hi2[y]
  <2>1. LastKey(t, y) = hi2[y] /\ hi2[y] \in Int
    BY <1>2, <1>5, <1>6
  <2> QED BY <2>1, <1>3
<1> QED BY <1>2, <1>3, <1>4, <1>5, <1>7, <1>8, <1>9 DEF TightPage

LEMMA Tightening ==
  ASSUME NEW t, NEW h, NEW lo, NEW hi, Good(t, h, lo, hi)
  PROVE  \E hi2 : Tight(t, h, lo, hi2)
PROOF
<1> DEFINE hi2 == [z \in PageId |-> IF z \in t.used THEN LastKey(t, z) ELSE hi[z]]
<1>1. hi2 = [z \in PageId |-> IF z \in t.used THEN LastKey(t, z) ELSE hi[z]]
  OBVIOUS
<1>2. /\ Links(t, h, {t.root}, {}) /\ Tops(t, {}) /\ Ordered(t, lo, hi) /\ t.page[t.root].parent = NULL_ID
      /\ \A y \in t.used : Fine(t, y)
      /\ t.used \subseteq PageId
  BY ShapeFacts DEF Good, Shape
<1>3. \A y \in t.used : TightPage(t, lo, hi2, y, Len(t.page[y].keys))
  <2> HIDE DEF hi2
  <2> QED BY <1>1, TightPages
<1>4. hi2 \in [PageId -> Int] /\ lo \in [PageId -> Int]
  <2>1. \A z \in PageId : hi2[z] \in Int
    <3>1. \A z \in t.used : hi2[z] \in Int
      <4> HIDE DEF hi2
      <4> QED BY <1>3 DEF TightPage
    <3>2. \A z \in PageId \ t.used : hi2[z] = hi[z] /\ hi[z] \in Int
      BY <1>2 DEF Ordered
    <3> HIDE DEF hi2
    <3> QED BY <3>1, <3>2
  <2> QED BY <2>1, <1>2 DEF Ordered
<1> HIDE DEF hi2
<1>5. ASSUME NEW y \in t.used PROVE Sorted(t, lo, hi2, y)
  <2> DEFINE n == Len(t.page[y].keys)
  <2>1. /\ n \in Nat /\ lo[y] \in Int /\ hi2[y] \in Int /\ lo[y] < hi2[y]
        /\ \A i \in 1 .. n : /\ High(t, hi2, y, i) = t.page[y].keys[i]
                             /\ lo[y] <= Low(t, lo, y, i)
                             /\ t.page[y].keys[i] <= hi2[y]
        /\ \A i, j \in 1 .. n : i < j => t.page[y].keys[i] <= Low(t, lo, y, j)
    BY <1>3 DEF TightPage
  <2>2. lo[y] <= hi2[y]
    BY <2>1
  <2> QED BY <2>1, <2>2 DEF Sorted
<1>6. Good(t, h, lo, hi2)
  BY <1>2, <1>4, <1>5 DEF Good, Shape, Ordered
<1> QED BY <1>3, <1>6 DEF Tight

(* The first position whose key is not less than k. *)
FindIs(t, p, k, n, i) ==
  \/ /\ i = 0 /\ \A j \in 1 .. n : t.page[p].keys[j] < k
  \/ /\ i \in 1 .. n /\ k <= t.page[p].keys[i]
     /\ \A j \in 1 .. n : j < i => t.page[p].keys[j] < k

LEMMA Finding ==
  ASSUME NEW t, NEW p, NEW k \in Int, NEW n, n = Len(t.page[p].keys), n \in Nat,
         \A j \in 1 .. n : t.page[p].keys[j] \in Int
  PROVE  FindIs(t, p, k, n, Find(t, p, k))
PROOF
<1> DEFINE At == {i \in 1 .. n : t.page[p].keys[i] >= k}
           x == CHOOSE i \in At : \A j \in At : i <= j
<1>1. Find(t, p, k) = IF At = {} THEN 0 ELSE x
  BY DEF Find, Size
<1>2. \A j \in 1 .. n : j \in At \/ t.page[p].keys[j] < k
  OBVIOUS
<1>3. CASE At = {}
  BY <1>1, <1>2, <1>3 DEF FindIs
<1>4. CASE At # {}
  <2>1. \E i \in At : \A j \in At : i <= j
    <3>1. At \subseteq Nat
      OBVIOUS
    <3> HIDE DEF At
    <3> QED BY <3>1, <1>4, LeastNat
  <2>2. x \in At /\ \A j \in At : x <= j
    BY <2>1
  <2>3. ASSUME NEW j \in 1 .. n, j < x PROVE t.page[p].keys[j] < k
    <3>1. j \notin At
      <4>1. x \in Nat /\ j \in Nat /\ ~(x <= j)
        <5>1. x \in Nat /\ j \in Nat
          BY <2>2
        <5> HIDE DEF x
        <5> QED BY <5>1, <2>3
      <4> HIDE DEF At, x
      <4> QED BY <4>1, <2>2
    <3> QED BY <3>1, <1>2
  <2>4. x \in 1 .. n /\ k <= t.page[p].keys[x]
    BY <2>2
  <2> QED BY <1>1, <1>4, <2>3, <2>4 DEF FindIs
<1> QED BY <1>3, <1>4

(* Where the search goes from an inner page. *)
Onward(t, k, q) == IF Find(t, q, k) = 0 THEN Size(t, q) ELSE Find(t, q, k)

NextPage(t, k, q) == IF t.page[q].leaf THEN q ELSE t.page[q].kids[Onward(t, k, q)]

LEMMA PathIs ==
  ASSUME NEW t, NEW p, NEW k
  PROVE  \E at : /\ at[0] = p
                 /\ \A n \in 1 .. LEVELS : at[n - 1] \in PageId => at[n] = NextPage(t, k, at[n - 1])
                 /\ Path(t, p, k) = at
PROOF
<1> DEFINE below == [q \in Cell |->
                  IF q = NULL_ID THEN q
                  ELSE IF t.page[q].leaf THEN q
                  ELSE t.page[q].kids[IF Find(t, q, k) = 0 THEN Size(t, q) ELSE Find(t, q, k)]]
<1>1. LEVELS \in Nat
  BY PageAssumption
<1>2. \A q \in PageId : below[q] = NextPage(t, k, q)
  <2>1. \A q \in PageId : q \in Cell /\ q # NULL_ID
    BY PageAssumption DEF PageId, Cell, NULL_ID
  <2> QED BY <2>1 DEF NextPage, Onward
<1> DEFINE at == CHOOSE at : at = [n \in 0 .. LEVELS |-> IF n = 0 THEN p ELSE below[at[n - 1]]]
<1>3. Path(t, p, k) = at
  BY DEF Path
<1> HIDE DEF below
<1>4. PICK f : Steps(f, "path", below, 0, p, LEVELS)
  BY <1>1, StepsExist
<1>5. \A x : Step("path", below, 0, x) = below[x]
  BY DEF Step
<1>6. f = [n \in 0 .. LEVELS |-> IF n = 0 THEN p ELSE below[f[n - 1]]]
  BY <1>4, <1>5 DEF Steps
<1>7. at = [n \in 0 .. LEVELS |-> IF n = 0 THEN p ELSE below[at[n - 1]]]
  BY <1>6
<1> HIDE DEF at
<1>8. 0 \in 0 .. LEVELS /\ \A n \in 1 .. LEVELS : n \in 0 .. LEVELS /\ n # 0
  BY <1>1
<1>9. at[0] = p /\ \A n \in 1 .. LEVELS : at[n] = below[at[n - 1]]
  BY <1>7, <1>8
<1> QED BY <1>2, <1>3, <1>9

(* Step by step the search goes down, and stays in the leaf it comes to. *)
Deep(t, h, y, n) ==
  /\ y \in t.used /\ h[y] \in Nat
  /\ \/ h[y] + n = h[t.root]
     \/ t.page[y].leaf /\ n >= h[t.root]

OnPath(t, k, y) == \E n \in 0 .. LEVELS : y = Path(t, t.root, k)[n]

PathGoes(t, h, k) ==
  LET at == Path(t, t.root, k)
  IN /\ at[0] = t.root
     /\ \A n \in 0 .. LEVELS : Deep(t, h, at[n], n)
     /\ \A n \in 1 .. LEVELS : at[n] = NextPage(t, k, at[n - 1])
     /\ t.page[at[LEVELS]].leaf

LEMMA NextPageIs ==
  ASSUME NEW t, NEW h, NEW lo, NEW hi, Tight(t, h, lo, hi), NEW k \in Int, NEW y \in t.used, ~t.page[y].leaf,
         NEW n, n = Len(t.page[y].keys)
  PROVE  /\ Onward(t, k, y) \in 1 .. n /\ NextPage(t, k, y) = t.page[y].kids[Onward(t, k, y)]
         /\ GoodKid(t, h, lo, hi, y, Onward(t, k, y), NextPage(t, k, y))
PROOF
<1>1. Good(t, h, lo, hi) /\ TightPage(t, lo, hi, y, n)
  BY DEF Tight
<1>2. n \in Nat /\ n > 0 /\ \A i \in 1 .. n : t.page[y].keys[i] \in Int
  BY <1>1 DEF TightPage
<1>3. FindIs(t, y, k, n, Find(t, y, k))
  BY <1>2, Finding
<1>4. Onward(t, k, y) \in 1 .. n
  <2>1. Find(t, y, k) \in 1 .. n \/ Find(t, y, k) = 0
    BY <1>3 DEF FindIs
  <2>2. n \in 1 .. n
    BY <1>2
  <2> QED BY <2>1, <2>2, <1>2 DEF Onward, Size
<1>5. NextPage(t, k, y) = t.page[y].kids[Onward(t, k, y)]
  BY DEF NextPage
<1>6. GoodKid(t, h, lo, hi, y, Onward(t, k, y), t.page[y].kids[Onward(t, k, y)])
  BY <1>1, <1>4, GoodKids
<1> QED BY <1>4, <1>5, <1>6

LEMMA PathDown ==
  ASSUME NEW t, NEW h, NEW lo, NEW hi, Tight(t, h, lo, hi), NEW k \in Int
  PROVE  PathGoes(t, h, k)
PROOF
<1>1. PICK at : /\ at[0] = t.root
                /\ \A n \in 1 .. LEVELS : at[n - 1] \in PageId => at[n] = NextPage(t, k, at[n - 1])
                /\ Path(t, t.root, k) = at
  BY PathIs
<1>2. /\ LEVELS \in Nat /\ t.root \in t.used /\ t.used \subseteq PageId
      /\ \A y \in t.used : h[y] \in Nat /\ h[y] < LEVELS /\ h[y] <= h[t.root]
      /\ \A y \in t.used : t.page[y].leaf <=> h[y] = 0
  <2>1. Shape(t, h, lo, hi) /\ Links(t, h, {t.root}, {})
    BY DEF Tight, Good, Shape
  <2> QED BY <2>1, PageAssumption, ShapeFacts, LinkFacts DEF Links, Even
<1> DEFINE T == {n \in 0 .. LEVELS : Deep(t, h, at[n], n)}
<1>3. 0 \in T
  <2>1. h[t.root] + 0 = h[t.root]
    BY <1>2
  <2> QED BY <2>1, <1>1, <1>2 DEF Deep
<1>4. ASSUME NEW n \in 0 .. LEVELS - 1, n \in T PROVE n + 1 \in T
  <2> DEFINE m == n + 1
             y == at[n]
  <2>1. m \in 1 .. LEVELS /\ m - 1 = n /\ n \in Nat /\ m \in 0 .. LEVELS
    BY <1>2
  <2>2. Deep(t, h, y, n) /\ y \in t.used
    BY <1>4 DEF Deep
  <2>3. at[m] = NextPage(t, k, y)
    BY <1>1, <1>2, <2>1, <2>2
  <2> HIDE DEF y
  <2>4. CASE t.page[y].leaf
    <3>1. at[m] = y
      BY <2>3, <2>4 DEF NextPage
    <3>2. n >= h[t.root]
      BY <2>1, <2>2, <2>4, <1>2 DEF Deep
    <3>3. m >= h[t.root]
      BY <3>2, <2>1, <1>2
    <3> QED BY <3>1, <3>3, <2>1, <2>2, <2>4 DEF Deep
  <2>5. CASE ~t.page[y].leaf
    <3>1. GoodKid(t, h, lo, hi, y, Onward(t, k, y), at[m])
      BY <2>2, <2>3, <2>5, NextPageIs
    <3>2. at[m] \in t.used /\ h[at[m]] + 1 = h[y]
      BY <3>1 DEF GoodKid
    <3>3. h[y] + n = h[t.root] /\ h[y] \in Nat
      BY <2>2, <2>5 DEF Deep
    <3>4. h[at[m]] \in Nat
      BY <3>2, <1>2
    <3>5. h[at[m]] + m = h[t.root]
      BY <3>2, <3>3, <3>4, <2>1
    <3> QED BY <3>2, <3>4, <3>5, <2>1 DEF Deep
  <2> QED BY <2>4, <2>5
<1>5. \A n \in 0 .. LEVELS : Deep(t, h, at[n], n)
  <2> HIDE DEF T
  <2>1. \A n \in 0 .. LEVELS : n \in T
    BY <1>2, <1>3, <1>4, UpTo
  <2> QED BY <2>1 DEF T
<1>6. ASSUME NEW n \in 1 .. LEVELS PROVE at[n] = NextPage(t, k, at[n - 1])
  <2>1. n - 1 \in 0 .. LEVELS
    BY <1>2
  <2>2. at[n - 1] \in t.used
    BY <2>1, <1>5 DEF Deep
  <2> QED BY <2>2, <1>1, <1>2
<1>7. t.page[at[LEVELS]].leaf
  <2>1. LEVELS \in 0 .. LEVELS
    BY <1>2
  <2>2. Deep(t, h, at[LEVELS], LEVELS)
    BY <2>1, <1>5
  <2>3. h[t.root] < LEVELS /\ h[t.root] \in Nat
    BY <1>2
  <2> QED BY <2>2, <2>3, <1>2 DEF Deep
<1> QED BY <1>1, <1>5, <1>6, <1>7 DEF PathGoes

Covers(lo, hi, y, k) == lo[y] < k /\ k <= hi[y]

(* From the parent of a page that is about k, the search goes to the page. *)
Above(t, h, lo, hi, y, k, q) ==
  /\ q \in t.used /\ ~t.page[q].leaf /\ h[q] = h[y] + 1 /\ Covers(lo, hi, q, k)
  /\ NextPage(t, k, q) = y /\ Find(t, q, k) # 0

LEMMA CoverUp ==
  ASSUME NEW t, NEW h, NEW lo, NEW hi, Tight(t, h, lo, hi), NEW k \in Int, NEW y \in t.used, y # t.root,
         Covers(lo, hi, y, k), NEW q, q = t.page[y].parent
  PROVE  Above(t, h, lo, hi, y, k, q)
PROOF
<1> DEFINE i == t.page[y].place
           n == Len(t.page[q].keys)
           f == Find(t, q, k)
<1>1. Good(t, h, lo, hi) /\ Shape(t, h, lo, hi)
  BY DEF Tight, Good
<1>2. Hangs(t, h, lo, hi, y, q, i, n)
  BY <1>1, Hanging
<1>3. q \in t.used /\ ~t.page[q].leaf /\ n \in Nat /\ i \in 1 .. n /\ t.page[q].kids[i] = y
      /\ h[q] = h[y] + 1 /\ lo[q] <= lo[y] /\ hi[y] <= hi[q]
  BY <1>2 DEF Hangs
<1>4. TightPage(t, lo, hi, q, n)
  BY <1>3 DEF Tight
<1>5. /\ lo[q] \in Int /\ hi[q] \in Int
      /\ \A j \in 1 .. n : /\ t.page[q].keys[j] \in Int /\ High(t, hi, q, j) = t.page[q].keys[j]
      /\ \A l, j \in 1 .. n : l < j => t.page[q].keys[l] <= Low(t, lo, q, j)
  BY <1>4 DEF TightPage
<1>6. Low(t, lo, q, i) = lo[y] /\ High(t, hi, q, i) = hi[y] /\ lo[y] \in Int /\ hi[y] \in Int
  BY <1>1, <1>3, ShapeFacts DEF Low, High
<1>7. Covers(lo, hi, q, k)
  <2>1. lo[y] < k /\ k <= hi[y]
    BY DEF Covers
  <2> QED BY <2>1, <1>3, <1>5, <1>6 DEF Covers
<1>8. lo[y] < k /\ k <= t.page[q].keys[i]
  BY <1>3, <1>5, <1>6 DEF Covers
<1>9. FindIs(t, q, k, n, f)
  BY <1>3, <1>5, Finding
<1>10. f = i
  <2>1. f \in 1 .. n /\ k <= t.page[q].keys[f] /\ \A j \in 1 .. n : j < f => t.page[q].keys[j] < k
    <3>1. ~(t.page[q].keys[i] < k)
      BY <1>3, <1>5, <1>8
    <3> HIDE DEF f, n, i
    <3> QED BY <3>1, <1>3, <1>9 DEF FindIs
  <2>2. ~(f < i)
    <3> SUFFICES ASSUME f < i PROVE FALSE
      OBVIOUS
    <3>1. t.page[q].keys[f] <= lo[y] /\ t.page[q].keys[f] \in Int
      BY <2>1, <1>3, <1>5, <1>6
    <3> QED BY <3>1, <2>1, <1>6, <1>8
  <2>3. ~(i < f)
    <3> SUFFICES ASSUME i < f PROVE FALSE
      OBVIOUS
    <3>1. t.page[q].keys[i] < k /\ t.page[q].keys[i] \in Int
      BY <2>1, <1>3, <1>5
    <3> QED BY <3>1, <1>8
  <2>4. f \in Nat /\ i \in Nat
    BY <2>1, <1>3
  <2> HIDE DEF f, i
  <2> QED BY <2>2, <2>3, <2>4
<1>11. i # 0
  BY <1>3
<1>12. NextPage(t, k, q) = y /\ Find(t, q, k) # 0
  BY <1>3, <1>10, <1>11 DEF NextPage, Onward
<1> QED BY <1>3, <1>7, <1>12 DEF Above

(* The search comes to the leaf that is about k. *)
Found(t, k, z) ==
  LET at == Path(t, t.root, k)
  IN /\ at[LEVELS] = z
     /\ \E n \in 0 .. LEVELS : at[n] = z
     /\ \A n \in 0 .. LEVELS : ~t.page[at[n]].leaf => Find(t, at[n], k) # 0

LEMMA CoveredPath ==
  ASSUME NEW t, NEW h, NEW lo, NEW hi, Tight(t, h, lo, hi), NEW k \in Int,
         NEW z \in t.used, t.page[z].leaf, Covers(lo, hi, z, k)
  PROVE  Found(t, k, z)
PROOF
<1> DEFINE at == Path(t, t.root, k)
           r == h[t.root]
<1>1. /\ at[0] = t.root
      /\ \A n \in 0 .. LEVELS : Deep(t, h, at[n], n)
      /\ \A n \in 1 .. LEVELS : at[n] = NextPage(t, k, at[n - 1])
  BY PathDown DEF PathGoes
<1>2. /\ LEVELS \in Nat /\ t.root \in t.used /\ r \in Nat /\ r < LEVELS
      /\ \A y \in t.used : h[y] \in Nat /\ h[y] <= r
      /\ \A y \in t.used : t.page[y].leaf <=> h[y] = 0
      /\ \A y \in t.used : y # t.root => h[y] < r
  <2>1. Shape(t, h, lo, hi) /\ Links(t, h, {t.root}, {})
    BY DEF Tight, Good, Shape
  <2> QED BY <2>1, PageAssumption, ShapeFacts, LinkFacts, RootHighest DEF Links, Even
<1> HIDE DEF at
<1> DEFINE T == {n \in 0 .. r : \A c \in t.used : h[c] + n = r /\ Covers(lo, hi, c, k) => c = at[n]}
<1>3. 0 \in T
  <2>1. \A c \in t.used : h[c] + 0 = r => c = t.root
    <3>1. ASSUME NEW c \in t.used, h[c] + 0 = r PROVE ~(h[c] < r)
      BY <1>2, <3>1
    <3> HIDE DEF r
    <3> QED BY <3>1, <1>2
  <2> QED BY <2>1, <1>1, <1>2
<1>4. ASSUME NEW n \in 0 .. r - 1, n \in T PROVE n + 1 \in T
  <2> DEFINE m == n + 1
  <2>1. m \in 1 .. LEVELS /\ m - 1 = n /\ n \in Nat /\ m \in 0 .. r
    <3> HIDE DEF r
    <3> QED BY <1>2
  <2>2. ASSUME NEW c \in t.used, h[c] + m = r, Covers(lo, hi, c, k) PROVE c = at[m]
    <3> DEFINE q == t.page[c].parent
    <3>1. c # t.root
      <4>1. h[c] # r /\ h[c] \in Nat
        <5> HIDE DEF r
        <5> QED BY <2>1, <2>2, <1>2
      <4> QED BY <4>1
    <3>2. Above(t, h, lo, hi, c, k, q)
      BY <3>1, <2>2, CoverUp
    <3>3. q \in t.used /\ h[q] = h[c] + 1 /\ Covers(lo, hi, q, k) /\ NextPage(t, k, q) = c
      BY <3>2 DEF Above
    <3>4. h[q] + n = r
      <4> HIDE DEF r, q
      <4> QED BY <3>3, <2>1, <2>2, <1>2
    <3>5. q = at[n]
      BY <3>3, <3>4, <1>4
    <3> QED BY <3>3, <3>5, <2>1, <1>1
  <2> QED BY <2>1, <2>2
<1>5. \A n \in 0 .. r : \A c \in t.used : h[c] + n = r /\ Covers(lo, hi, c, k) => c = at[n]
  <2> HIDE DEF T
  <2>1. \A n \in 0 .. r : n \in T
    BY <1>2, <1>3, <1>4, UpTo
  <2> QED BY <2>1 DEF T
<1> HIDE DEF T
<1>6. at[r] = z
  <2>1. h[z] + r = r /\ r \in 0 .. r
    <3>1. h[z] = 0
      BY <1>2
    <3> HIDE DEF r
    <3> QED BY <3>1, <1>2
  <2> QED BY <2>1, <1>5
(* It stays there. *)
<1> DEFINE U == {n \in 0 .. LEVELS - r : at[n + r] = z}
<1>7. 0 \in U
  <2> HIDE DEF r
  <2>1. 0 \in 0 .. LEVELS - r /\ 0 + r = r
    BY <1>2
  <2> QED BY <2>1, <1>6 DEF r
<1>8. ASSUME NEW n \in 0 .. LEVELS - r - 1, n \in U PROVE n + 1 \in U
  <2>1. n + 1 + r \in 1 .. LEVELS /\ n + 1 + r - 1 = n + r /\ n + 1 \in 0 .. LEVELS - r
    <3> HIDE DEF r
    <3> QED BY <1>2
  <2>2. at[n + 1 + r] = NextPage(t, k, at[n + r])
    <3> DEFINE m == n + 1 + r
    <3>1. m \in 1 .. LEVELS /\ m - 1 = n + r
      <4> HIDE DEF r
      <4> QED BY <1>2
    <3>2. at[m] = NextPage(t, k, at[m - 1])
      <4> HIDE DEF m
      <4> QED BY <3>1, <1>1
    <3> QED BY <3>1, <3>2
  <2>3. at[n + r] = z
    BY <1>8
  <2> QED BY <2>1, <2>2, <2>3 DEF NextPage
<1>9. at[LEVELS] = z
  <2> DEFINE N == LEVELS - r
  <2>1. N \in Nat /\ N + r = LEVELS /\ N \in 0 .. N
    <3> HIDE DEF r
    <3> QED BY <1>2
  <2>2. N \in U
    <3> HIDE DEF U
    <3>1. 0 \in U /\ \A n \in 0 .. N - 1 : n \in U => n + 1 \in U
      BY <1>7, <1>8
    <3> HIDE DEF N
    <3>2. \A n \in 0 .. N : n \in U
      BY <3>1, <2>1, UpTo
    <3> QED BY <3>2, <2>1
  <2> QED BY <2>1, <2>2
<1> HIDE DEF U
(* On the way, all pages are about k. *)
<1> DEFINE W == {m \in 0 .. r : /\ Covers(lo, hi, at[r - m], k)
                                /\ m # 0 => Find(t, at[r - m], k) # 0}
<1>10. 0 \in W
  <2>1. r - 0 = r /\ 0 \in 0 .. r
    <3> HIDE DEF r
    <3> QED BY <1>2
  <2> QED BY <2>1, <1>6
<1>11. ASSUME NEW m \in 0 .. r - 1, m \in W PROVE m + 1 \in W
  <2> DEFINE c == at[r - m]
             q == t.page[c].parent
             n == r - (m + 1)
  <2>1. m + 1 \in 0 .. r /\ n \in 0 .. r /\ r - m \in 0 .. LEVELS /\ n + 1 = r - m /\ m + 1 # 0
        /\ m \in Nat /\ n \in Nat /\ n # r - m /\ n < r /\ r - m # 0
    <3> HIDE DEF r
    <3> QED BY <1>2
  <2>2. Covers(lo, hi, c, k)
    BY <1>11
  <2>3. Deep(t, h, c, r - m)
    BY <2>1, <1>1
  <2>4. c \in t.used /\ h[c] \in Nat /\ h[c] + (r - m) = r
    <3>1. c \in t.used /\ h[c] \in Nat
      BY <2>3 DEF Deep
    <3>2. CASE h[c] + (r - m) = r
      BY <3>1, <3>2
    <3>3. CASE t.page[c].leaf /\ r - m >= r
      <4>1. h[c] = 0
        BY <3>1, <3>3, <1>2
      <4> HIDE DEF c, r
      <4> QED BY <4>1, <3>1, <3>3, <2>1, <1>2
    <3> QED BY <2>3, <3>2, <3>3 DEF Deep
  <2> HIDE DEF c
  <2>5. c # t.root
    <3>1. h[c] # r
      <4> HIDE DEF r
      <4> QED BY <2>1, <2>4, <1>2
    <3> QED BY <3>1
  <2>6. Above(t, h, lo, hi, c, k, q)
    BY <2>2, <2>4, <2>5, CoverUp
  <2>7. q \in t.used /\ h[q] = h[c] + 1 /\ Covers(lo, hi, q, k) /\ Find(t, q, k) # 0
    BY <2>6 DEF Above
  <2>8. h[q] + n = r
    <3> HIDE DEF r, q
    <3> QED BY <2>4, <2>7, <1>2
  <2>9. q = at[n]
    <3> HIDE DEF n
    <3> QED BY <2>1, <2>7, <2>8, <1>5
  <2> QED BY <2>1, <2>7, <2>9
<1> HIDE DEF W
<1>12. \A m \in 0 .. r : m \in W
  <2> HIDE DEF r
  <2> QED BY <1>2, <1>10, <1>11, UpTo
<1>13. ASSUME NEW n \in 0 .. LEVELS, ~t.page[at[n]].leaf PROVE Find(t, at[n], k) # 0
  <2> DEFINE m == r - n
  <2>1. Deep(t, h, at[n], n)
    BY <1>1
  <2>2. h[at[n]] + n = r /\ h[at[n]] \in Nat /\ h[at[n]] # 0
    BY <2>1, <1>2, <1>13 DEF Deep
  <2>3. m \in 0 .. r /\ m # 0 /\ r - m = n
    <3> DEFINE x == h[at[n]]
    <3>1. x + n = r /\ x \in Nat /\ x # 0
      BY <2>2
    <3> HIDE DEF x, r
    <3> QED BY <3>1, <1>2
  <2>4. m \in W
    <3> HIDE DEF m
    <3> QED BY <2>3, <1>12
  <2> HIDE DEF m
  <2> QED BY <2>3, <2>4 DEF W
<1>14. r \in 0 .. LEVELS
  <2> HIDE DEF r
  <2> QED BY <1>2
<1> QED BY <1>6, <1>9, <1>13, <1>14 DEF Found, at

(* A key is where Find says. *)
LEMMA KeyAt ==
  ASSUME NEW t, NEW h, NEW lo, NEW hi, Tight(t, h, lo, hi), NEW y \in t.used, NEW k,
         NEW j \in 1 .. Len(t.page[y].keys), t.page[y].keys[j] = k
  PROVE  k \in Key /\ Find(t, y, k) = j /\ Equal(t, y, k) /\ Covers(lo, hi, y, k)
PROOF
<1> DEFINE n == Len(t.page[y].keys)
           f == Find(t, y, k)
<1>1. TightPage(t, lo, hi, y, n)
  BY DEF Tight
<1>2. /\ n \in Nat /\ lo[y] \in Int /\ hi[y] \in Int
      /\ \A i \in 1 .. n : /\ t.page[y].keys[i] \in Key /\ t.page[y].keys[i] \in Int
                           /\ Low(t, lo, y, i) \in Int
                           /\ lo[y] <= Low(t, lo, y, i) /\ Low(t, lo, y, i) < t.page[y].keys[i]
                           /\ t.page[y].keys[i] <= hi[y]
      /\ \A l, i \in 1 .. n : l < i => t.page[y].keys[l] < t.page[y].keys[i]
  BY <1>1 DEF TightPage
<1>3. k \in Int /\ k \in Key
  BY <1>2
<1>4. FindIs(t, y, k, n, f)
  BY <1>2, <1>3, Finding
<1>5. f = j
  <2>1. f \in 1 .. n /\ k <= t.page[y].keys[f] /\ \A i \in 1 .. n : i < f => t.page[y].keys[i] < k
    <3>1. ~(t.page[y].keys[j] < k)
      BY <1>3
    <3> HIDE DEF f
    <3> QED BY <3>1, <1>4 DEF FindIs
  <2>2. ~(f < j)
    <3> SUFFICES ASSUME f < j PROVE FALSE
      OBVIOUS
    <3>1. t.page[y].keys[f] < k /\ t.page[y].keys[f] \in Int
      BY <2>1, <1>2
    <3> QED BY <3>1, <2>1, <1>3
  <2>3. ~(j < f)
    <3> SUFFICES ASSUME j < f PROVE FALSE
      OBVIOUS
    <3>1. k < k
      BY <2>1
    <3> QED BY <3>1, <1>3
  <2>4. f \in Nat /\ j \in Nat
    BY <2>1, <1>2
  <2> HIDE DEF f
  <2> QED BY <2>2, <2>3, <2>4
<1>6. Equal(t, y, k)
  <2>1. j # 0
    BY <1>2
  <2> QED BY <2>1, <1>5 DEF Equal
<1>7. Covers(lo, hi, y, k)
  <2> DEFINE l == Low(t, lo, y, j)
  <2>1. l \in Int /\ lo[y] <= l /\ l < k /\ k <= hi[y]
    BY <1>2
  <2> HIDE DEF l
  <2> QED BY <2>1, <1>2, <1>3 DEF Covers
<1> QED BY <1>3, <1>5, <1>6, <1>7

(* What the tree holds is found. *)
LEMMA LookupFinds ==
  ASSUME NEW t, NEW h, NEW lo, NEW hi, Tight(t, h, lo, hi), NEW k, NEW x, Has(t, k, x)
  PROVE  /\ k \in Key /\ Lookup(t, k) = x
         /\ \E n \in 0 .. LEVELS : Equal(t, Path(t, t.root, k)[n], k)
PROOF
<1>1. PICK z \in t.used : /\ t.page[z].leaf
                          /\ \E i \in 1 .. Len(t.page[z].keys) :
                               t.page[z].keys[i] = k /\ t.page[z].kids[i] = x
  BY DEF Has
<1>2. PICK i \in 1 .. Len(t.page[z].keys) : t.page[z].keys[i] = k /\ t.page[z].kids[i] = x
  BY <1>1
<1>3. k \in Key /\ Find(t, z, k) = i /\ Equal(t, z, k) /\ Covers(lo, hi, z, k)
  BY <1>2, KeyAt
<1>4. k \in Int
  BY <1>3, TreeAssumption
<1>5. Found(t, k, z)
  BY <1>1, <1>3, <1>4, CoveredPath
<1>6. LeafFor(t, t.root, k) = z
  BY <1>5 DEF Found, LeafFor
<1>7. z # NULL_ID /\ t.root # NULL_ID
  <2>1. Shape(t, h, lo, hi)
    BY DEF Tight, Good
  <2> QED BY <2>1, ShapeFacts
<1>8. Lookup(t, k) = x
  BY <1>2, <1>3, <1>6, <1>7 DEF Lookup
<1> QED BY <1>3, <1>5, <1>8 DEF Found

(* The entry a search ends at. *)
EntryFor(t, k, p, i) ==
  /\ p \in t.used /\ t.page[p].leaf /\ i \in 1 .. Len(t.page[p].keys)
  /\ t.page[p].keys[i] = k /\ t.page[p].kids[i] = Lookup(t, k)

LEMMA LookupTells ==
  ASSUME NEW t, NEW h, NEW lo, NEW hi, Tight(t, h, lo, hi), NEW k \in Int, Lookup(t, k) # Absent
  PROVE  EntryFor(t, k, LeafFor(t, t.root, k), Find(t, LeafFor(t, t.root, k), k))
PROOF
<1> DEFINE p == LeafFor(t, t.root, k)
           f == Find(t, p, k)
           n == Len(t.page[p].keys)
<1>1. p # NULL_ID /\ Equal(t, p, k) /\ Lookup(t, k) = t.page[p].kids[f]
  BY DEF Lookup
<1>2. p = Path(t, t.root, k)[LEVELS]
  BY <1>1 DEF LeafFor
<1>3. p \in t.used /\ t.page[p].leaf
  <2>1. PathGoes(t, h, k)
    BY PathDown
  <2>2. LEVELS \in 0 .. LEVELS
    BY PageAssumption
  <2>3. Deep(t, h, p, LEVELS) /\ t.page[p].leaf
    <3> HIDE DEF p
    <3> QED BY <2>1, <2>2, <1>2 DEF PathGoes
  <2> QED BY <2>3 DEF Deep
<1> HIDE DEF p
<1>4. TightPage(t, lo, hi, p, n)
  BY <1>3 DEF Tight
<1>5. n \in Nat /\ \A i \in 1 .. n : t.page[p].keys[i] \in Int
  BY <1>4 DEF TightPage
<1>6. FindIs(t, p, k, n, f)
  BY <1>5, Finding
<1>7. f \in 1 .. n /\ t.page[p].keys[f] = k
  BY <1>1, <1>6 DEF FindIs, Equal
<1> QED BY <1>1, <1>3, <1>7 DEF EntryFor, p

LEMMA EntryHas ==
  ASSUME NEW t, NEW k, NEW p, NEW i, EntryFor(t, k, p, i)
  PROVE  Has(t, k, Lookup(t, k))
PROOF BY DEF EntryFor, Has

(* Each key of an inner page is the key of a leaf below. *)
LEMMA KeyHeld ==
  ASSUME NEW t, NEW h, NEW lo, NEW hi, Tight(t, h, lo, hi), NEW y \in t.used,
         NEW j \in 1 .. Len(t.page[y].keys)
  PROVE  \E x : Has(t, t.page[y].keys[j], x)
PROOF
<1>1. /\ \A z \in t.used : h[z] \in Nat /\ h[z] < LEVELS /\ (t.page[z].leaf <=> h[z] = 0)
      /\ Good(t, h, lo, hi) /\ LEVELS \in Nat
  <2>1. Good(t, h, lo, hi) /\ Shape(t, h, lo, hi) /\ Links(t, h, {t.root}, {})
    BY DEF Tight, Good, Shape
  <2> QED BY <2>1, ShapeFacts, LinkFacts, PageAssumption DEF Links, Even
<1> DEFINE T == {n \in 0 .. LEVELS : \A z \in t.used : h[z] = n =>
                   \A i \in 1 .. Len(t.page[z].keys) : \E x : Has(t, t.page[z].keys[i], x)}
<1>2. 0 \in T
  <2>1. ASSUME NEW z \in t.used, h[z] = 0, NEW i \in 1 .. Len(t.page[z].keys)
        PROVE  \E x : Has(t, t.page[z].keys[i], x)
    <3>1. t.page[z].leaf
      BY <2>1, <1>1
    <3>2. Has(t, t.page[z].keys[i], t.page[z].kids[i])
      BY <3>1 DEF Has
    <3> QED BY <3>2
  <2> QED BY <2>1, <1>1
<1>3. ASSUME NEW n \in 0 .. LEVELS - 1, n \in T PROVE n + 1 \in T
  <2>1. ASSUME NEW z \in t.used, h[z] = n + 1, NEW i \in 1 .. Len(t.page[z].keys)
        PROVE  \E x : Has(t, t.page[z].keys[i], x)
    <3> DEFINE c == t.page[z].kids[i]
               l == Len(t.page[c].keys)
    <3>1. ~t.page[z].leaf
      BY <2>1, <1>1
    <3>2. GoodKid(t, h, lo, hi, z, i, c)
      BY <3>1, <1>1, GoodKids
    <3>3. c \in t.used /\ h[c] + 1 = h[z] /\ t.page[z].keys[i] = LastKey(t, c)
      BY <3>2 DEF GoodKid
    <3> HIDE DEF c
    <3>4. h[c] = n
      BY <3>3, <2>1, <1>1
    <3>5. l \in 1 .. Len(t.page[c].keys)
      <4>1. TightPage(t, lo, hi, c, l)
        BY <3>3 DEF Tight
      <4>2. l \in Nat /\ l > 0
        BY <4>1 DEF TightPage
      <4> QED BY <4>2
    <3>6. \E x : Has(t, t.page[c].keys[l], x)
      BY <3>3, <3>4, <3>5, <1>3
    <3> QED BY <3>3, <3>6 DEF LastKey, Size
  <2> QED BY <2>1, <1>1
<1> HIDE DEF T
<1>4. \A n \in 0 .. LEVELS : n \in T
  BY <1>1, <1>2, <1>3, UpTo
<1>5. h[y] \in T
  BY <1>1, <1>4
<1> QED BY <1>5 DEF T

(* Insert stops exactly at a key that is there. *)
Stops(t, k) == InsertLeaf(t, t.root, k) = NULL_ID

LEMMA StopsThere ==
  ASSUME NEW t, NEW h, NEW lo, NEW hi, Tight(t, h, lo, hi), NEW k \in Int
  PROVE  /\ Stops(t, k) => \E x : Has(t, k, x)
         /\ ~Stops(t, k) => /\ \A x : ~Has(t, k, x)
                            /\ \A n \in 0 .. LEVELS : ~Equal(t, Path(t, t.root, k)[n], k)
                            /\ InsertLeaf(t, t.root, k) = Path(t, t.root, k)[LEVELS]
PROOF
<1> DEFINE at == Path(t, t.root, k)
<1>1. \A n \in 0 .. LEVELS : at[n] \in t.used
  <2>1. PathGoes(t, h, k)
    BY PathDown
  <2> QED BY <2>1 DEF PathGoes, Deep
<1>2. LEVELS \in 0 .. LEVELS /\ NULL_ID \notin t.used
  <2>1. Shape(t, h, lo, hi)
    BY DEF Tight, Good
  <2> QED BY <2>1, ShapeFacts, PageAssumption
<1>3. ASSUME NEW n \in 0 .. LEVELS, Equal(t, at[n], k) PROVE \E x : Has(t, k, x)
  <2> DEFINE y == at[n]
             l == Len(t.page[y].keys)
             f == Find(t, y, k)
  <2>1. y \in t.used /\ f # 0 /\ t.page[y].keys[f] = k
    BY <1>1, <1>3 DEF Equal
  <2> HIDE DEF y
  <2>2. TightPage(t, lo, hi, y, l)
    BY <2>1 DEF Tight
  <2>3. l \in Nat /\ \A i \in 1 .. l : t.page[y].keys[i] \in Int
    BY <2>2 DEF TightPage
  <2>4. FindIs(t, y, k, l, f)
    BY <2>3, Finding
  <2>5. f \in 1 .. l
    BY <2>1, <2>4 DEF FindIs
  <2>6. \E x : Has(t, t.page[y].keys[f], x)
    <3> HIDE DEF f
    <3> QED BY <2>1, <2>5, KeyHeld
  <2> QED BY <2>1, <2>6
<1>4. (\E n \in 0 .. LEVELS : Equal(t, at[n], k)) => Stops(t, k)
  BY DEF Stops, InsertLeaf
<1>5. (\A n \in 0 .. LEVELS : ~Equal(t, at[n], k)) => InsertLeaf(t, t.root, k) = at[LEVELS]
  BY DEF InsertLeaf
<1>6. ASSUME NEW x, Has(t, k, x) PROVE \E n \in 0 .. LEVELS : Equal(t, at[n], k)
  BY <1>6, LookupFinds
<1> HIDE DEF at
<1>7. Stops(t, k) => \E n \in 0 .. LEVELS : Equal(t, at[n], k)
  BY <1>1, <1>2, <1>5 DEF Stops
<1> QED BY <1>3, <1>4, <1>5, <1>6, <1>7 DEF at

-----------------------------------------------------------------------------
(* Insertion.  A leaf gets an entry.                                       *)
HasMore(t, v, k, x) == \A a, b : Has(v, a, b) <=> Has(t, a, b) \/ (a = k /\ b = x)

CanEnter(t, h, lo, hi, p, i, n, k, x) ==
  /\ Shape(t, h, lo, hi) /\ p \in t.used /\ t.page[p].leaf /\ k \in Key /\ x \in Value
  /\ n = Len(t.page[p].keys) /\ n < MAX_NUM /\ i \in 1 .. n + 1
  /\ Between(t, lo, hi, p, i, n, k - 1, k)

HasEntered(t, v, h, lo, hi, p, n, k, x) ==
  /\ Shape(v, h, lo, hi) /\ v.used = t.used /\ v.root = t.root /\ Len(v.page[p].keys) = n + 1
  /\ \A y \in t.used : v.page[y].leaf = t.page[y].leaf
  /\ \A y \in t.used \ {p} : Len(v.page[y].keys) = Len(t.page[y].keys)
  /\ HasMore(t, v, k, x)

LEMMA Entering ==
  ASSUME NEW t, NEW v, NEW h, NEW lo, NEW hi, NEW p, NEW i, NEW n, NEW k, NEW x,
         CanEnter(t, h, lo, hi, p, i, n, k, x), v = InsertAt(t, p, i, x, k)
  PROVE  HasEntered(t, v, h, lo, hi, p, n, k, x)
PROOF
<1> DEFINE R == {t.root}
<1>1. /\ Links(t, h, R, {}) /\ Tops(t, {}) /\ Ordered(t, lo, hi) /\ t.page[t.root].parent = NULL_ID
      /\ p \in t.used /\ t.page[p].leaf /\ k \in Key /\ x \in Value
      /\ n = Len(t.page[p].keys) /\ n < MAX_NUM /\ i \in 1 .. n + 1
      /\ Between(t, lo, hi, p, i, n, k - 1, k)
      /\ t.used \subseteq PageId /\ t.root \in t.used
  BY ShapeFacts DEF CanEnter, Shape
<1>2. CanInsert(t, h, R, p, i, x, k, n)
  <2>1. Fits(t, h, p, i, x, k)
    BY <1>1 DEF Fits
  <2>2. Orphans(t, h, R, h[p])
    BY <1>1 DEF Orphans
  <2>3. Raisable(t, h, R, p, k)
    BY <1>1 DEF Raisable
  <2> HIDE DEF R
  <2> QED BY <2>1, <2>2, <2>3, <1>1 DEF CanInsert
<1> HIDE DEF R
<1>3. HasInserted(t, v, h, R, p, i, x, k, n)
  BY <1>2, InsertDone
<1>4. Ordered(v, lo, hi)
  <2> DEFINE low == k - 1
             high == k
  <2>1. /\ low = (IF t.page[p].leaf THEN k - 1 ELSE lo[x])
        /\ high = (IF t.page[p].leaf THEN k ELSE hi[x])
        /\ Between(t, lo, hi, p, i, n, low, high)
    BY <1>1
  <2> HIDE DEF low, high
  <2> QED BY <2>1, <1>1, <1>2, <1>3, InsertOrder
<1>5. Listed(t, x, p) = {}
  BY <1>1 DEF Listed
<1>6. /\ Links(v, h, R, {}) /\ Tops(v, {}) /\ Changed(t, v, h, p)
      /\ With(v.page[p].keys, t.page[p].keys, i, k, n)
      /\ With(v.page[p].kids, t.page[p].kids, i, x, n)
  BY <1>3, <1>5 DEF HasInserted
<1>7. /\ v.root = t.root /\ v.used = t.used
      /\ \A y \in PageId : v.page[y].leaf = t.page[y].leaf
      /\ \A y \in PageId \ {p} : Len(v.page[y].keys) = Len(t.page[y].keys)
      /\ \A y \in PageId \ {p} : v.page[y].kids = t.page[y].kids /\ (y \notin Higher(t, h, h[p]) => v.page[y].keys = t.page[y].keys)
      /\ \A y \in t.used : v.page[y].parent = t.page[y].parent
  BY <1>1, <1>6 DEF Changed
<1>8. Shape(v, h, lo, hi)
  BY <1>1, <1>4, <1>6, <1>7 DEF Shape, R
<1>9. Len(v.page[p].keys) = n + 1
  BY <1>6 DEF With
<1>10. HasMore(t, v, k, x)
  <2>1. WithPlaces(v.page[p].keys, t.page[p].keys, i, n) /\ WithPlaces(v.page[p].kids, t.page[p].kids, i, n)
    BY <1>6, WithAt
  <2>2. v.page[p].keys[i] = k /\ v.page[p].kids[i] = x /\ i \in 1 .. n + 1 /\ n \in Nat
    BY <1>6 DEF With
  <2>3. ASSUME NEW y \in t.used, t.page[y].leaf, y # p
        PROVE  v.page[y].keys = t.page[y].keys /\ v.page[y].kids = t.page[y].kids
    <3>1. h[y] = 0 /\ h[p] = 0
      BY <1>1, <2>3 DEF Links, Even
    <3>2. y \notin Higher(t, h, h[p])
      BY <3>1 DEF Higher
    <3> QED BY <3>2, <2>3, <1>1, <1>7
  <2>4. ASSUME NEW a, NEW b, Has(v, a, b), ~(a = k /\ b = x) PROVE Has(t, a, b)
    <3>1. PICK y \in t.used : /\ v.page[y].leaf
                              /\ \E j \in 1 .. Len(v.page[y].keys) :
                                   v.page[y].keys[j] = a /\ v.page[y].kids[j] = b
      BY <2>4, <1>7 DEF Has
    <3>2. PICK j \in 1 .. Len(v.page[y].keys) : v.page[y].keys[j] = a /\ v.page[y].kids[j] = b
      BY <3>1
    <3>3. t.page[y].leaf
      BY <3>1, <1>1, <1>7
    <3>4. CASE y # p
      <4>1. v.page[y].keys = t.page[y].keys /\ v.page[y].kids = t.page[y].kids
        BY <3>3, <3>4, <2>3
      <4> QED BY <4>1, <3>2, <3>3 DEF Has
    <3>5. CASE y = p
      <4>1. j \in 1 .. n + 1 /\ j # i
        BY <3>2, <3>5, <2>2, <2>4, <1>9
      <4> DEFINE m == IF j < i THEN j ELSE j - 1
      <4>2. m \in 1 .. n /\ v.page[p].keys[j] = t.page[p].keys[m] /\ v.page[p].kids[j] = t.page[p].kids[m]
        <5> HIDE DEF m
        <5> QED BY <4>1, <2>1 DEF WithPlaces, m
      <4> QED BY <4>2, <3>2, <3>3, <3>5, <1>1 DEF Has
    <3> QED BY <3>4, <3>5
  <2>5. ASSUME NEW a, NEW b, Has(t, a, b) PROVE Has(v, a, b)
    <3>1. PICK y \in t.used : /\ t.page[y].leaf
                              /\ \E j \in 1 .. Len(t.page[y].keys) :
                                   t.page[y].keys[j] = a /\ t.page[y].kids[j] = b
      BY <2>5 DEF Has
    <3>2. PICK j \in 1 .. Len(t.page[y].keys) : t.page[y].keys[j] = a /\ t.page[y].kids[j] = b
      BY <3>1
    <3>3. v.page[y].leaf /\ y \in v.used
      BY <3>1, <1>1, <1>7
    <3>4. CASE y # p
      <4>1. v.page[y].keys = t.page[y].keys /\ v.page[y].kids = t.page[y].kids
        BY <3>1, <3>4, <2>3
      <4> QED BY <4>1, <3>2, <3>3 DEF Has
    <3>5. CASE y = p
      <4> DEFINE m == IF j < i THEN j ELSE j + 1
      <4>1. j \in 1 .. n
        BY <3>2, <3>5, <1>1
      <4>2. m \in 1 .. n + 1 /\ v.page[p].keys[m] = t.page[p].keys[j] /\ v.page[p].kids[m] = t.page[p].kids[j]
        <5> HIDE DEF m
        <5> QED BY <4>1, <2>1 DEF WithPlaces, m
      <4> QED BY <4>2, <3>2, <3>3, <3>5, <1>9 DEF Has
    <3> QED BY <3>4, <3>5
  <2>6. Has(v, k, x)
    <3>1. p \in v.used /\ v.page[p].leaf /\ i \in 1 .. Len(v.page[p].keys)
      BY <2>2, <1>1, <1>7, <1>9
    <3> QED BY <3>1, <2>2 DEF Has
  <2> QED BY <2>4, <2>5, <2>6 DEF HasMore
<1>11. /\ \A y \in t.used : v.page[y].leaf = t.page[y].leaf
       /\ \A y \in t.used \ {p} : Len(v.page[y].keys) = Len(t.page[y].keys)
  BY <1>1, <1>7
<1> QED BY <1>7, <1>8, <1>9, <1>10, <1>11 DEF HasEntered

(* Above a page of the path, other than the root, is one of the path.      *)
LEMMA PathUp ==
  ASSUME NEW t, NEW h, NEW lo, NEW hi, Tight(t, h, lo, hi), NEW k \in Int,
         NEW y, OnPath(t, k, y), y # t.root
  PROVE  LET q == t.page[y].parent
         IN q \in t.used /\ OnPath(t, k, q) /\ ~t.page[q].leaf /\ NextPage(t, k, q) = y
PROOF
<1> DEFINE at == Path(t, t.root, k)
           Up(c, q) == q \in t.used /\ OnPath(t, k, q) /\ ~t.page[q].leaf /\ NextPage(t, k, q) = c
<1>1. /\ at[0] = t.root
      /\ \A n \in 0 .. LEVELS : Deep(t, h, at[n], n) /\ at[n] \in t.used
      /\ \A n \in 1 .. LEVELS : at[n] = NextPage(t, k, at[n - 1])
  <2>1. PathGoes(t, h, k)
    BY PathDown
  <2> QED BY <2>1 DEF PathGoes, Deep
<1>2. LEVELS \in Nat
  BY PageAssumption
<1>3. \A n \in 0 .. LEVELS : OnPath(t, k, at[n])
  BY DEF OnPath
<1>4. PICK l \in 0 .. LEVELS : y = at[l]
  BY DEF OnPath
<1> HIDE DEF at
<1> DEFINE T == {n \in 0 .. LEVELS : at[n] = t.root \/ Up(at[n], t.page[at[n]].parent)}
<1>5. 0 \in T
  BY <1>1, <1>2
<1>6. ASSUME NEW n \in 0 .. LEVELS - 1, n \in T PROVE n + 1 \in T
  <2> DEFINE m == n + 1
             c == at[n]
             d == at[m]
  <2>1. m \in 1 .. LEVELS /\ m - 1 = n /\ n \in 0 .. LEVELS /\ m \in 0 .. LEVELS
    BY <1>2
  <2>2. d = NextPage(t, k, c) /\ c \in t.used /\ OnPath(t, k, c)
    BY <1>1, <1>3, <2>1
  <2>3. CASE t.page[c].leaf
    <3>1. d = c
      BY <2>2, <2>3 DEF NextPage
    <3>2. c = t.root \/ Up(c, t.page[c].parent)
      BY <1>6
    <3>3. d = t.root \/ Up(d, t.page[d].parent)
      <4> HIDE DEF c, d, Up
      <4> QED BY <3>1, <3>2
    <3> QED BY <3>3, <2>1
  <2>4. CASE ~t.page[c].leaf
    <3> HIDE DEF c, d
    <3>1. GoodKid(t, h, lo, hi, c, Onward(t, k, c), d)
      BY <2>2, <2>4, NextPageIs
    <3>2. t.page[d].parent = c
      BY <3>1 DEF GoodKid
    <3>3. Up(d, t.page[d].parent)
      BY <2>2, <2>4, <3>2
    <3> QED BY <3>3, <2>1 DEF d
  <2> QED BY <2>3, <2>4
<1> HIDE DEF T
<1>7. l \in T
  BY <1>2, <1>5, <1>6, UpTo
<1>8. Up(y, t.page[y].parent)
  <2> HIDE DEF Up
  <2>1. at[l] = t.root \/ Up(at[l], t.page[at[l]].parent)
    BY <1>7 DEF T
  <2> QED BY <2>1, <1>4
<1> QED BY <1>8

LEMMA PathOn ==
  ASSUME NEW t, NEW h, NEW lo, NEW hi, Tight(t, h, lo, hi), NEW k \in Int,
         NEW y, OnPath(t, k, y), ~t.page[y].leaf
  PROVE  OnPath(t, k, NextPage(t, k, y))
PROOF
<1> DEFINE at == Path(t, t.root, k)
<1>1. /\ \A n \in 1 .. LEVELS : at[n] = NextPage(t, k, at[n - 1])
      /\ t.page[at[LEVELS]].leaf
  <2>1. PathGoes(t, h, k)
    BY PathDown
  <2> QED BY <2>1 DEF PathGoes
<1>2. PICK l \in 0 .. LEVELS : y = at[l]
  BY DEF OnPath
<1>3. l # LEVELS
  BY <1>1, <1>2
<1> DEFINE m == l + 1
<1>4. m \in 1 .. LEVELS /\ m - 1 = l /\ m \in 0 .. LEVELS
  BY <1>3, PageAssumption
<1>5. at[m] = NextPage(t, k, y)
  <2> HIDE DEF m, at
  <2> QED BY <1>1, <1>2, <1>4
<1> HIDE DEF m
<1> QED BY <1>4, <1>5 DEF OnPath

(* The bounds of the pages on the path give way to k.                      *)
Wider(t, k, lo, hi, lo2, hi2) ==
  /\ lo2 \in [PageId -> Int] /\ hi2 \in [PageId -> Int]
  /\ \A y \in PageId : /\ lo2[y] = IF OnPath(t, k, y) THEN Least(lo[y], k - 1) ELSE lo[y]
                       /\ hi2[y] = IF OnPath(t, k, y) THEN Greatest(hi[y], k) ELSE hi[y]

LEMMA WiderIs ==
  ASSUME NEW t, NEW k \in Int, NEW lo \in [PageId -> Int], NEW hi \in [PageId -> Int]
  PROVE  \E lo2, hi2 : Wider(t, k, lo, hi, lo2, hi2)
PROOF
<1> DEFINE lo2 == [y \in PageId |-> IF OnPath(t, k, y) THEN Least(lo[y], k - 1) ELSE lo[y]]
           hi2 == [y \in PageId |-> IF OnPath(t, k, y) THEN Greatest(hi[y], k) ELSE hi[y]]
<1>1. ASSUME NEW y \in PageId PROVE Least(lo[y], k - 1) \in Int /\ Greatest(hi[y], k) \in Int
  BY DEF Least, Greatest
<1>2. lo2 \in [PageId -> Int] /\ hi2 \in [PageId -> Int]
  BY <1>1
<1>3. Wider(t, k, lo, hi, lo2, hi2)
  BY <1>2 DEF Wider
<1> QED BY <1>3

(* What that does to an entry. *)
EntryWider(t, k, lo, hi, lo2, hi2, y, j) ==
  IF OnPath(t, k, y) /\ ~t.page[y].leaf /\ j = Onward(t, k, y)
  THEN /\ Low(t, lo2, y, j) = Least(Low(t, lo, y, j), k - 1)
       /\ High(t, hi2, y, j) = Greatest(High(t, hi, y, j), k)
  ELSE /\ Low(t, lo2, y, j) = Low(t, lo, y, j)
       /\ High(t, hi2, y, j) = High(t, hi, y, j)

LEMMA WiderEntry ==
  ASSUME NEW t, NEW h, NEW lo, NEW hi, NEW lo2, NEW hi2, Tight(t, h, lo, hi), NEW k \in Int,
         Wider(t, k, lo, hi, lo2, hi2), NEW y \in t.used, NEW j \in 1 .. Len(t.page[y].keys)
  PROVE  EntryWider(t, k, lo, hi, lo2, hi2, y, j)
PROOF
<1>1. CASE t.page[y].leaf
  BY <1>1 DEF Low, High, EntryWider
<1>2. CASE ~t.page[y].leaf
  <2> DEFINE c == t.page[y].kids[j]
  <2>1. GoodKid(t, h, lo, hi, y, j, c)
    <3>1. Good(t, h, lo, hi)
      BY DEF Tight
    <3> QED BY <3>1, <1>2, GoodKids
  <2>2. c \in t.used /\ t.page[c].parent = y /\ t.page[c].place = j
        /\ Low(t, lo, y, j) = lo[c] /\ High(t, hi, y, j) = hi[c]
    BY <2>1 DEF GoodKid
  <2>3. c \in PageId /\ c # t.root
    <3>1. Shape(t, h, lo, hi) /\ t.page[t.root].parent = NULL_ID
      BY DEF Tight, Good, Shape
    <3>2. NULL_ID \notin t.used /\ t.used \subseteq PageId
      BY <3>1, ShapeFacts
    <3> QED BY <3>1, <3>2, <2>2
  <2>4. Low(t, lo2, y, j) = lo2[c] /\ High(t, hi2, y, j) = hi2[c]
    BY <1>2 DEF Low, High
  <2> HIDE DEF c
  <2>5. OnPath(t, k, c) <=> OnPath(t, k, y) /\ j = Onward(t, k, y)
    <3>1. OnPath(t, k, c) => OnPath(t, k, y) /\ NextPage(t, k, y) = c
      BY <2>2, <2>3, PathUp
    <3>2. OnPath(t, k, y) => OnPath(t, k, NextPage(t, k, y))
      BY <1>2, PathOn
    <3>3. GoodKid(t, h, lo, hi, y, Onward(t, k, y), NextPage(t, k, y))
      BY <1>2, NextPageIs
    <3>4. t.page[NextPage(t, k, y)].place = Onward(t, k, y)
      BY <3>3 DEF GoodKid
    <3>5. j = Onward(t, k, y) => NextPage(t, k, y) = c
      BY <1>2 DEF NextPage, c
    <3> QED BY <2>2, <3>1, <3>2, <3>4, <3>5
  <2> QED BY <1>2, <2>2, <2>3, <2>4, <2>5 DEF Wider, EntryWider
<1> QED BY <1>1, <1>2

LEMMA Widening ==
  ASSUME NEW t, NEW h, NEW lo, NEW hi, NEW lo2, NEW hi2, Tight(t, h, lo, hi), NEW k \in Int,
         Wider(t, k, lo, hi, lo2, hi2)
  PROVE  Shape(t, h, lo2, hi2)
PROOF
<1>1. Shape(t, h, lo, hi) /\ t.used \subseteq PageId
  BY ShapeFacts DEF Tight, Good
<1>2. ASSUME NEW y \in t.used PROVE Sorted(t, lo2, hi2, y)
  <2> DEFINE n == Len(t.page[y].keys)
             f == Onward(t, k, y)
             K(j) == t.page[y].keys[j]
             L(j) == Low(t, lo, y, j)
             L2(j) == Low(t, lo2, y, j)
             H2(j) == High(t, hi2, y, j)
             On == OnPath(t, k, y) /\ ~t.page[y].leaf
  <2>1. TightPage(t, lo, hi, y, n)
    BY DEF Tight
  <2>2. /\ y \in PageId /\ n \in Nat /\ lo[y] \in Int /\ hi[y] \in Int /\ lo[y] < hi[y]
        /\ \A j \in 1 .. n : /\ K(j) \in Int /\ L(j) \in Int /\ High(t, hi, y, j) = K(j)
                             /\ lo[y] <= L(j) /\ L(j) < K(j) /\ K(j) <= hi[y]
        /\ \A i, j \in 1 .. n : i < j => K(i) <= L(j)
    BY <2>1 DEF TightPage
  <2>3. FindIs(t, y, k, n, Find(t, y, k))
    BY <2>2, Finding
  <2>4. \A j \in 1 .. n : IF On /\ j = f
                          THEN L2(j) = Least(L(j), k - 1) /\ H2(j) = Greatest(K(j), k)
                          ELSE L2(j) = L(j) /\ H2(j) = K(j)
    <3>1. ASSUME NEW j \in 1 .. n PROVE EntryWider(t, k, lo, hi, lo2, hi2, y, j)
      BY WiderEntry
    <3> QED BY <3>1, <2>2 DEF EntryWider
  <2>5. /\ lo2[y] = IF OnPath(t, k, y) THEN Least(lo[y], k - 1) ELSE lo[y]
        /\ hi2[y] = IF OnPath(t, k, y) THEN Greatest(hi[y], k) ELSE hi[y]
    BY <2>2 DEF Wider
  <2>6. On => /\ f \in 1 .. n
              /\ \A j \in 1 .. n : j < f => K(j) < k
              /\ f # n => k <= K(f)
    <3>1. Find(t, y, k) # 0 => f = Find(t, y, k)
      BY DEF Onward
    <3>2. Find(t, y, k) = 0 => f = n
      BY DEF Onward, Size
    <3>3. n > 0
      BY <2>1 DEF TightPage
    <3> HIDE DEF f, n
    <3> QED BY <3>1, <3>2, <3>3, <2>2, <2>3 DEF FindIs
  <2>7. /\ lo2[y] \in Int /\ hi2[y] \in Int /\ lo2[y] <= lo[y] /\ hi[y] <= hi2[y]
        /\ On => lo2[y] <= k - 1 /\ k <= hi2[y]
    BY <2>2, <2>5 DEF Least, Greatest
  <2> HIDE DEF n, f, K, L, L2, H2, On
  <2>8. ASSUME NEW j \in 1 .. n PROVE lo2[y] <= L2(j) /\ H2(j) <= hi2[y] /\ L2(j) <= L(j) /\ K(j) <= H2(j)
    <3>1. K(j) \in Int /\ L(j) \in Int /\ lo[y] <= L(j) /\ K(j) <= hi[y]
      BY <2>2
    <3>2. IF On /\ j = f
          THEN L2(j) = Least(L(j), k - 1) /\ H2(j) = Greatest(K(j), k)
          ELSE L2(j) = L(j) /\ H2(j) = K(j)
      BY <2>4
    <3> QED BY <3>1, <3>2, <2>2, <2>7 DEF Least, Greatest
  <2>9. ASSUME NEW i \in 1 .. n, NEW j \in 1 .. n, i < j PROVE H2(i) <= L2(j)
    <3>1. K(i) \in Int /\ L(j) \in Int /\ K(i) <= L(j) /\ i \in Nat /\ j \in Nat /\ j <= n /\ i # n
      BY <2>2, <2>9
    <3>2. IF On /\ i = f THEN H2(i) = Greatest(K(i), k) ELSE H2(i) = K(i)
      BY <2>4
    <3>3. IF On /\ j = f THEN L2(j) = Least(L(j), k - 1) ELSE L2(j) = L(j)
      BY <2>4
    <3>4. On /\ i = f => k <= K(i)
      BY <3>1, <2>6
    <3>5. On /\ j = f => K(i) < k
      BY <2>6, <2>9
    <3>6. H2(i) = K(i)
      BY <3>1, <3>2, <3>4 DEF Greatest
    <3>7. K(i) <= L2(j)
      BY <3>1, <3>3, <3>5 DEF Least
    <3> QED BY <3>6, <3>7
  <2>10. lo2[y] <= hi2[y]
    BY <2>2, <2>7
  <2> QED BY <2>8, <2>9, <2>10 DEF Sorted, n, L2, H2
<1>3. lo2 \in [PageId -> Int] /\ hi2 \in [PageId -> Int]
  BY DEF Wider
<1> QED BY <1>1, <1>2, <1>3 DEF Shape, Ordered

Spot(t, p, k) == IF Find(t, p, k) = 0 THEN Size(t, p) + 1 ELSE Find(t, p, k)

(* The leaf at the end of the path has the place. *)
LEMMA SpotIs ==
  ASSUME NEW t, NEW h, NEW lo, NEW hi, NEW lo2, NEW hi2, Tight(t, h, lo, hi), NEW k \in Key, NEW x \in Value,
         Wider(t, k, lo, hi, lo2, hi2), ~Stops(t, k), NEW p, p = InsertLeaf(t, t.root, k),
         NEW n, n = Len(t.page[p].keys)
  PROVE  CanEnter(t, h, lo2, hi2, p, Spot(t, p, k), n, k, x)
PROOF
<1> DEFINE at == Path(t, t.root, k)
           f == Find(t, p, k)
           i == Spot(t, p, k)
<1>1. k \in Int /\ LEVELS \in 0 .. LEVELS
  BY TreeAssumption, PageAssumption
<1>2. p = at[LEVELS] /\ ~Equal(t, p, k)
  BY <1>1, StopsThere
<1>3. p \in t.used /\ t.page[p].leaf /\ OnPath(t, k, p)
  <2>1. PathGoes(t, h, k)
    BY <1>1, PathDown
  <2> HIDE DEF at
  <2>2. Deep(t, h, p, LEVELS) /\ t.page[p].leaf
    BY <2>1, <1>1, <1>2 DEF PathGoes, at
  <2> QED BY <2>2, <1>1, <1>2 DEF Deep, OnPath, at
<1> HIDE DEF at
<1>4. Shape(t, h, lo2, hi2) /\ Fine(t, p)
  BY <1>1, <1>3, Widening DEF Tight, Good
<1>5. TightPage(t, lo, hi, p, n)
  BY <1>3 DEF Tight
<1>6. /\ p \in PageId /\ n \in Nat /\ n > 0 /\ lo[p] \in Int /\ hi[p] \in Int
      /\ \A j \in 1 .. n : /\ t.page[p].keys[j] \in Int
      /\ \A l, j \in 1 .. n : l < j => t.page[p].keys[l] < t.page[p].keys[j]
  BY <1>5 DEF TightPage
<1>7. FindIs(t, p, k, n, f)
  BY <1>1, <1>6, Finding
<1>8. n < MAX_NUM
  BY <1>4 DEF Fine, Size
<1>9. i = IF f = 0 THEN n + 1 ELSE f
  BY DEF Spot, Size
<1>10. i \in 1 .. n + 1
  <2> HIDE DEF i, f
  <2> QED BY <1>6, <1>7, <1>9 DEF FindIs
<1>11. Between(t, lo2, hi2, p, i, n, k - 1, k)
  <2>1. k - 1 \in Int /\ lo2[p] <= k - 1 /\ k <= hi2[p]
    BY <1>1, <1>3, <1>6 DEF Wider, Least, Greatest
  <2>2. ASSUME NEW j \in 1 .. n, j < i PROVE High(t, hi2, p, j) <= k - 1
    <3>1. High(t, hi2, p, j) = t.page[p].keys[j] /\ t.page[p].keys[j] \in Int
      BY <1>3, <1>6 DEF High
    <3>2. t.page[p].keys[j] < k
      <4> HIDE DEF i, f
      <4> QED BY <2>2, <1>7, <1>9 DEF FindIs
    <3> QED BY <3>1, <3>2, <1>1
  <2>3. ASSUME NEW j \in 1 .. n, j >= i PROVE k <= Low(t, lo2, p, j)
    <3> DEFINE a == t.page[p].keys[j]
    <3>1. Low(t, lo2, p, j) = a - 1 /\ a \in Int
      BY <1>3, <1>6 DEF Low
    <3>2. f # 0 /\ i = f /\ f \in 1 .. n /\ k <= t.page[p].keys[f]
      <4>1. i # n + 1
        <5> HIDE DEF i
        <5> QED BY <2>3, <1>6
      <4> HIDE DEF i, f
      <4> QED BY <4>1, <1>7, <1>9 DEF FindIs
    <3>3. t.page[p].keys[f] # k
      BY <3>2, <1>2 DEF Equal
    <3> DEFINE b == t.page[p].keys[f]
    <3>4. b \in Int /\ k < b
      <4>1. b \in Int /\ k <= b /\ b # k
        BY <3>2, <3>3, <1>6
      <4> HIDE DEF b
      <4> QED BY <4>1, <1>1
    <3>5. b <= a
      <4>1. j = f \/ f < j
        <5> HIDE DEF i, f
        <5> QED BY <2>3, <3>2, <1>6
      <4>2. f < j => b < a
        BY <3>2, <1>6
      <4> QED BY <4>1, <4>2, <3>1, <3>4
    <3> HIDE DEF a, b
    <3> QED BY <3>1, <3>4, <3>5, <1>1
  <2> HIDE DEF i
  <2> QED BY <2>1, <2>2, <2>3, <1>1 DEF Between
<1> HIDE DEF i
<1>12. CanEnter(t, h, lo2, hi2, p, i, n, k, x)
  BY <1>3, <1>4, <1>8, <1>10, <1>11 DEF CanEnter
<1> QED BY <1>12 DEF i

(* An entry more is settled. *)
LEMMA EnteredSettles ==
  ASSUME NEW t, NEW v, NEW h, NEW lo, NEW hi, NEW p, NEW n, NEW k, NEW x,
         HasEntered(t, v, h, lo, hi, p, n, k, x), p \in t.used, n \in Nat, n < MAX_NUM,
         p # t.root => n >= MAX_NUM \div 2,
         n + 1 = MAX_NUM => Free(t) >= h[t.root] - h[p] + 2 /\ h[t.root] + 1 < LEVELS,
         \A y \in t.used \ {p} : Fine(t, y), t.page[p].leaf
  PROVE  Sound(Adjust(v, p)) /\ HasMore(t, Adjust(v, p), k, x)
PROOF
<1>1. /\ Shape(v, h, lo, hi) /\ v.used = t.used /\ v.root = t.root /\ Len(v.page[p].keys) = n + 1
      /\ \A y \in t.used : v.page[y].leaf = t.page[y].leaf
      /\ \A y \in t.used \ {p} : Len(v.page[y].keys) = Len(t.page[y].keys)
      /\ HasMore(t, v, k, x)
  BY DEF HasEntered
<1>2. Near(v, p)
  <2> DEFINE m == MAX_NUM \div 2
  <2>1. m \in Nat /\ MAX_NUM \in Nat
    BY Half
  <2>2. p # t.root => n >= m
    OBVIOUS
  <2>3. Size(v, p) = n + 1 /\ v.page[p].leaf
    BY <1>1 DEF Size
  <2> HIDE DEF m
  <2>4. n + 1 <= MAX_NUM /\ n + 1 >= 0 /\ (p # t.root => n + 1 >= m - 1)
    BY <2>1, <2>2
  <2> QED BY <2>3, <2>4, <1>1 DEF Near, m
<1>3. Space(v, h, p)
  <2>1. Size(v, p) = n + 1 /\ Free(v) = Free(t)
    BY <1>1 DEF Size, Free
  <2> QED BY <2>1, <1>1 DEF Space
<1>4. \A y \in v.used \ {p} : Fine(v, y)
  BY <1>1 DEF Fine, Size
<1>5. Off(v, h, lo, hi, p)
  BY <1>1, <1>2, <1>3, <1>4 DEF Off
<1>6. Ended(v, Adjust(v, p))
  BY <1>5, Adjusted
<1> QED BY <1>1, <1>6 DEF Ended, SameHas, HasMore

LEMMA InsertSettles ==
  ASSUME NEW t, NEW h, NEW lo, NEW hi, Tight(t, h, lo, hi), NEW k \in Key, NEW x \in Value,
         ~Stops(t, k), NEW p, p = InsertLeaf(t, t.root, k), NEW v, v = InsertAt(t, p, Spot(t, p, k), x, k),
         Free(t) >= h[t.root] + 2, h[t.root] + 1 < LEVELS
  PROVE  Sound(Adjust(v, p)) /\ HasMore(t, Adjust(v, p), k, x)
PROOF
<1> DEFINE n == Len(t.page[p].keys)
<1>1. Good(t, h, lo, hi) /\ Shape(t, h, lo, hi) /\ lo \in [PageId -> Int] /\ hi \in [PageId -> Int] /\ k \in Int
  BY TreeAssumption DEF Tight, Good, Shape, Ordered
<1>2. PICK lo2, hi2 : Wider(t, k, lo, hi, lo2, hi2)
  BY <1>1, WiderIs
<1>3. CanEnter(t, h, lo2, hi2, p, Spot(t, p, k), n, k, x)
  BY <1>2, SpotIs
<1>4. HasEntered(t, v, h, lo2, hi2, p, n, k, x)
  <2> DEFINE i == Spot(t, p, k)
  <2> HIDE DEF i, n
  <2>1. CanEnter(t, h, lo2, hi2, p, i, n, k, x) /\ v = InsertAt(t, p, i, x, k)
    BY <1>3 DEF i
  <2> QED BY <2>1, Entering
<1>5. p \in t.used /\ t.page[p].leaf /\ n < MAX_NUM
  BY <1>3 DEF CanEnter
<1>6. n \in Nat /\ \A y \in t.used : Fine(t, y)
  BY <1>1, <1>5, ShapeFacts DEF Good
<1>7. p # t.root => n >= MAX_NUM \div 2
  BY <1>5, <1>6 DEF Fine, Size
<1>8. Free(t) >= h[t.root] - h[p] + 2
  <2>1. h[p] = 0 /\ h[t.root] \in Nat
    <3>1. Links(t, h, {t.root}, {}) /\ t.root \in t.used
      BY <1>1, ShapeFacts DEF Shape
    <3> QED BY <3>1, <1>1, <1>5, ShapeFacts DEF Links, Even
  <2> QED BY <2>1
<1> HIDE DEF n
<1> QED BY <1>4, <1>5, <1>6, <1>7, <1>8, EnteredSettles

(* The first entry makes a root. *)
Bare(t) == t \in TreeType /\ t.root = NULL_ID /\ t.used = {}

NewLeaf(t, u, r) ==
  /\ u \in TreeType /\ u.root = r /\ u.used = {r} /\ r \in PageId
  /\ u.page[r].leaf /\ u.page[r].keys = <<>> /\ u.page[r].parent = NULL_ID

LEMMA RootedIs ==
  ASSUME NEW t, Bare(t), Free(t) > 0, NEW k \in Int
  PROVE  /\ NewLeaf(t, Rooted(t), FreshId(t))
         /\ \E h, lo, hi : /\ Shape(Rooted(t), h, lo, hi)
                           /\ lo[FreshId(t)] = k - 1 /\ hi[FreshId(t)] = k
PROOF
<1> DEFINE r == FreshId(t)
           u == New(t, NULL_ID, NULL_ID, NULL_ID, NULL_ID, TRUE)
           v == Rooted(t)
           z == NULL_ID
           h == [y \in PageId |-> 0]
           h2 == [h EXCEPT ![r] = 0]
           lo2 == [h EXCEPT ![r] = k - 1]
           hi2 == [h EXCEPT ![r] = k]
<1>1. t \in TreeType /\ t.root = z /\ t.used = {} /\ t.used # PageId
  <2>1. t.used = {}
    BY DEF Bare
  <2>2. t.used # PageId
    BY <2>1, FreeFacts
  <2> QED BY <2>2 DEF Bare
<1>2. v = [u EXCEPT !.root = r]
  BY <1>1 DEF Rooted
<1>3. Fresh(t, u, r, z, z, TRUE)
  <2>1. z \in Cell /\ z \in 1 .. MAX_NUM \cup {NULL_ID} /\ z \in t.used \cup {NULL_ID} /\ u = New(t, z, z, z, z, TRUE)
    BY DEF Cell
  <2> HIDE DEF z, u
  <2> QED BY <2>1, <1>1, NewIs
<1> HIDE DEF z
<1>4. /\ u \in TreeType /\ u.used = {r} /\ r \in PageId
      /\ u.page[r].leaf /\ u.page[r].keys = <<>> /\ u.page[r].parent = z
  BY <1>1, <1>3 DEF Fresh
<1> HIDE DEF u, r
<1>5. /\ v \in TreeType /\ v.root = r /\ v.used = {r} /\ v.page = u.page
  BY <1>2, <1>4 DEF TreeType, Cell
<1>6. NewLeaf(t, v, r)
  BY <1>4, <1>5 DEF NewLeaf, z
<1>7. CanMake(t, h, {}, h, h, u, r, z, z, TRUE, 0, k - 1, k)
  <2>1. LEVELS \in Nat /\ LEVELS # 0
    BY PageAssumption
  <2>2. h \in Heights /\ h \in [PageId -> Int] /\ 0 \in 0 .. LEVELS - 1
    BY <2>1 DEF Heights
  <2> HIDE DEF h
  <2>3. Links(t, h, {}, {}) /\ Tops(t, {}) /\ Ordered(t, h, h)
    BY <2>2, <1>1 DEF Links, Tops, Ordered
  <2>4. k - 1 \in Int /\ k \in Int /\ k - 1 <= k /\ TRUE \in BOOLEAN /\ (TRUE <=> 0 = 0)
    OBVIOUS
  <2>5. Fresh(t, u, r, z, z, TRUE)
    BY <1>3
  <2> QED BY <2>2, <2>3, <2>4, <2>5 DEF CanMake
<1>8. HasMade(t, h, {}, h, h, u, r, h2, lo2, hi2)
  <2> DEFINE R == {}
             l == TRUE
             n == 0
             b == k - 1
             e == k
  <2>1. CanMake(t, h, R, h, h, u, r, z, z, l, n, b, e)
    BY <1>7
  <2>2. h2 = [h EXCEPT ![r] = n] /\ lo2 = [h EXCEPT ![r] = b] /\ hi2 = [h EXCEPT ![r] = e]
    OBVIOUS
  <2> HIDE DEF R, l, n, b, e, h, h2, lo2, hi2
  <2>3. HasMade(t, h, R, h, h, u, r, h2, lo2, hi2)
    BY <2>1, <2>2, Making
  <2> QED BY <2>3 DEF R
<1>9. lo2[r] = k - 1 /\ hi2[r] = k
  BY <1>4
<1> HIDE DEF h, h2, lo2, hi2, v
<1>10. Links(u, h2, {r}, {}) /\ Tops(u, {}) /\ Ordered(u, lo2, hi2)
  BY <1>8 DEF HasMade
<1>11. Links(v, h2, {v.root}, {}) /\ Tops(v, {}) /\ Ordered(v, lo2, hi2)
  <2>1. v.used = u.used
    BY <1>4, <1>5
  <2>2. Links(v, h2, {r}, {})
    BY <2>1, <1>5, <1>10 DEF Links, Even, Below, Known, Hung
  <2>3. Tops(v, {})
    <3>1. \A y \in v.used : Len(v.page[y].keys) = 0
      BY <1>4, <1>5
    <3>2. \A y \in v.used : 1 .. Len(v.page[y].keys) = {}
      BY <3>1
    <3> QED BY <3>2 DEF Tops
  <2>4. Ordered(v, lo2, hi2)
    BY <2>1, <1>5, <1>10 DEF Ordered, Sorted, Low, High
  <2> QED BY <2>2, <2>3, <2>4, <1>5
<1>12. Shape(v, h2, lo2, hi2)
  BY <1>4, <1>5, <1>11 DEF Shape, z
<1> QED BY <1>6, <1>9, <1>12 DEF r, v

LEMMA FirstPath ==
  ASSUME NEW t, NEW u, NEW r, NewLeaf(t, u, r), NEW k
  PROVE  /\ InsertLeaf(u, u.root, k) = r /\ Spot(u, r, k) = 1 /\ r # NULL_ID
PROOF
<1>1. /\ u.root = r /\ r \in PageId /\ u.page[r].leaf /\ u.page[r].keys = <<>>
  BY DEF NewLeaf
<1>2. Size(u, r) = 0
  BY <1>1 DEF Size
<1>3. Find(u, r, k) = 0
  BY <1>2 DEF Find
<1>4. PICK at : /\ at[0] = r
                /\ \A n \in 1 .. LEVELS : at[n - 1] \in PageId => at[n] = NextPage(u, k, at[n - 1])
                /\ Path(u, r, k) = at
  BY PathIs
<1>5. LEVELS \in Nat /\ LEVELS \in 0 .. LEVELS
  BY PageAssumption
<1> DEFINE T == {n \in 0 .. LEVELS : at[n] = r}
<1>6. 0 \in T
  BY <1>4, <1>5
<1>7. ASSUME NEW n \in 0 .. LEVELS - 1, n \in T PROVE n + 1 \in T
  <2> DEFINE m == n + 1
  <2>1. m \in 1 .. LEVELS /\ m - 1 = n /\ m \in 0 .. LEVELS
    BY <1>5
  <2>2. at[m] = NextPage(u, k, r)
    <3>1. at[m - 1] = r
      BY <2>1, <1>7
    <3> HIDE DEF m
    <3> QED BY <2>1, <3>1, <1>1, <1>4
  <2> QED BY <2>1, <2>2, <1>1 DEF NextPage
<1> HIDE DEF T
<1>8. \A n \in 0 .. LEVELS : n \in T
  BY <1>5, <1>6, <1>7, UpTo
<1>9. \A n \in 0 .. LEVELS : ~Equal(u, at[n], k)
  BY <1>3, <1>8 DEF T, Equal
<1>10. InsertLeaf(u, u.root, k) = r
  BY <1>1, <1>4, <1>5, <1>8, <1>9 DEF InsertLeaf, T
<1>11. r # NULL_ID
  BY <1>1, PageAssumption DEF PageId, NULL_ID
<1> QED BY <1>2, <1>3, <1>10, <1>11 DEF Spot

LEMMA FirstInsert ==
  ASSUME NEW t, Bare(t), Free(t) > 0, NEW k \in Key, NEW x \in Value,
         NEW u, u = Rooted(t), NEW p, p = InsertLeaf(u, u.root, k), NEW v, v = InsertAt(u, p, Spot(u, p, k), x, k)
  PROVE  p # NULL_ID /\ Sound(Adjust(v, p)) /\ HasMore(t, Adjust(v, p), k, x)
PROOF
<1> DEFINE r == FreshId(t)
<1>1. k \in Int
  BY TreeAssumption
<1>2. NewLeaf(t, u, r)
  BY <1>1, RootedIs
<1>3. PICK h, lo, hi : Shape(u, h, lo, hi) /\ lo[r] = k - 1 /\ hi[r] = k
  BY <1>1, RootedIs
<1> HIDE DEF r
<1>4. p = r /\ Spot(u, p, k) = 1 /\ p # NULL_ID
  BY <1>2, FirstPath
<1>5. /\ u.root = p /\ u.used = {p} /\ p \in PageId /\ u.page[p].leaf /\ u.page[p].keys = <<>>
  BY <1>2, <1>4 DEF NewLeaf
<1> DEFINE i == Spot(u, p, k)
           n == Len(u.page[p].keys)
<1>6. n = 0 /\ i = 1 /\ n \in Nat /\ n < MAX_NUM /\ n + 1 # MAX_NUM /\ i \in 1 .. n + 1
  BY <1>4, <1>5, Half
<1> HIDE DEF i, n
<1>7. Between(u, lo, hi, p, i, n, k - 1, k)
  BY <1>1, <1>3, <1>4, <1>6 DEF Between
<1>8. CanEnter(u, h, lo, hi, p, i, n, k, x)
  BY <1>3, <1>5, <1>6, <1>7 DEF CanEnter, n
<1>9. HasEntered(u, v, h, lo, hi, p, n, k, x)
  BY <1>8, Entering DEF i
<1>10. Sound(Adjust(v, p)) /\ HasMore(u, Adjust(v, p), k, x)
  <2>1. p \in u.used /\ (\A y \in u.used \ {p} : Fine(u, y))
    BY <1>5
  <2> QED BY <2>1, <1>5, <1>6, <1>9, EnteredSettles
<1>11. HasMore(t, Adjust(v, p), k, x)
  <2>1. \A a, b : ~Has(t, a, b)
    BY DEF Has, Bare
  <2>2. \A a, b : ~Has(u, a, b)
    <3>1. 1 .. Len(u.page[p].keys) = {}
      BY <1>6 DEF n
    <3> QED BY <3>1, <1>5 DEF Has
  <2> QED BY <2>1, <2>2, <1>10 DEF HasMore
<1> QED BY <1>4, <1>10, <1>11

(* Removal.  A key is in one place. *)
LEMMA OnePlace ==
  ASSUME NEW t, NEW h, NEW lo, NEW hi, Tight(t, h, lo, hi), NEW k,
         NEW y \in t.used, NEW j \in 1 .. Len(t.page[y].keys), t.page[y].leaf, t.page[y].keys[j] = k,
         NEW p \in t.used, NEW i \in 1 .. Len(t.page[p].keys), t.page[p].leaf, t.page[p].keys[i] = k
  PROVE  y = p /\ j = i
PROOF
<1>1. k \in Key /\ Find(t, y, k) = j /\ Covers(lo, hi, y, k)
  BY KeyAt
<1>2. Find(t, p, k) = i /\ Covers(lo, hi, p, k)
  BY KeyAt
<1>3. k \in Int
  BY <1>1, TreeAssumption
<1>4. Found(t, k, y) /\ Found(t, k, p)
  BY <1>1, <1>2, <1>3, CoveredPath
<1>5. y = p
  BY <1>4 DEF Found
<1> QED BY <1>1, <1>2, <1>5

HasLess(t, v, k) == \A a, b : Has(v, a, b) <=> Has(t, a, b) /\ a # k

LEMMA RemoveSettles ==
  ASSUME NEW t, NEW h, NEW lo, NEW hi, Tight(t, h, lo, hi), NEW k, NEW p, NEW i, EntryFor(t, k, p, i),
         NEW v, v = RemoveAt(t, p, i)
  PROVE  Sound(Adjust(v, p)) /\ HasLess(t, Adjust(v, p), k)
PROOF
<1> DEFINE R == {t.root}
           n == Len(t.page[p].keys)
           X == {}
<1>1. /\ Links(t, h, R, X) /\ Tops(t, {}) /\ Ordered(t, lo, hi) /\ t.page[t.root].parent = NULL_ID
      /\ p \in t.used /\ t.page[p].leaf /\ i \in 1 .. n /\ t.page[p].keys[i] = k
      /\ t.used \subseteq PageId /\ t.root \in t.used
      /\ \A y \in t.used : Fine(t, y)
  BY ShapeFacts DEF Tight, Good, Shape, EntryFor
<1>2. n \in Nat /\ n < MAX_NUM /\ n <= MAX_NUM /\ n > 0
  <2>1. n \in Nat /\ n < MAX_NUM
    BY <1>1, LinkFacts DEF Fine, Size
  <2> HIDE DEF n
  <2> QED BY <2>1, <1>1, Half
<1>3. CanRemove(t, h, R, R, X, p, i, n)
  <2>1. Tops(t, {<<p, i>>})
    BY <1>1 DEF Tops
  <2>2. Orphans(t, h, R, h[p])
    BY <1>1 DEF Orphans
  <2>3. p \notin R \/ t.page[p].parent = NULL_ID
    BY <1>1
  <2>4. R \subseteq t.used /\ X \subseteq {<<p, i>>}
    BY <1>1
  <2> HIDE DEF R
  <2> QED BY <2>1, <2>2, <2>3, <2>4, <1>1, <1>2 DEF CanRemove
<1> HIDE DEF R, X
<1>4. HasRemoved(t, v, h, R, p, i, n)
  <2> HIDE DEF n
  <2> QED BY <1>3, RemoveDone
<1>5. Ordered(v, lo, hi)
  <2> HIDE DEF n
  <2> QED BY <1>1, <1>3, <1>4, RemoveOrder
<1>6. /\ Links(v, h, R, {}) /\ Tops(v, {}) /\ Changed(t, v, h, p)
      /\ Without(v.page[p].keys, t.page[p].keys, i, n)
      /\ Without(v.page[p].kids, t.page[p].kids, i, n)
  BY <1>4 DEF HasRemoved
<1>7. /\ v.root = t.root /\ v.used = t.used
      /\ \A y \in PageId : v.page[y].leaf = t.page[y].leaf
      /\ \A y \in PageId \ {p} : Len(v.page[y].keys) = Len(t.page[y].keys)
      /\ \A y \in PageId \ {p} : v.page[y].kids = t.page[y].kids /\ (y \notin Higher(t, h, h[p]) => v.page[y].keys = t.page[y].keys)
      /\ \A y \in t.used : v.page[y].parent = t.page[y].parent
  BY <1>1, <1>6 DEF Changed
<1>8. Shape(v, h, lo, hi)
  BY <1>1, <1>5, <1>6, <1>7 DEF Shape, R
<1>9. Len(v.page[p].keys) = n - 1
  BY <1>6 DEF Without
<1>10. Near(v, p) /\ Space(v, h, p)
  <2> DEFINE m == MAX_NUM \div 2
  <2>1. Size(v, p) = n - 1 /\ v.page[p].leaf
    BY <1>1, <1>7, <1>9 DEF Size
  <2>2. m \in Nat /\ MAX_NUM \in Nat
    BY Half
  <2>3. n >= IF p # t.root THEN m ELSE 1
    BY <1>1 DEF Fine, Size
  <2> HIDE DEF n, m
  <2>4. n - 1 <= MAX_NUM /\ n - 1 # MAX_NUM /\ n - 1 >= IF p # t.root THEN m - 1 ELSE 0
    BY <1>2, <2>2, <2>3
  <2> QED BY <2>1, <2>4, <1>7 DEF Near, Space, m
<1>11. \A y \in v.used \ {p} : Fine(v, y)
  BY <1>1, <1>7 DEF Fine, Size
<1>12. Off(v, h, lo, hi, p)
  BY <1>1, <1>7, <1>8, <1>10, <1>11 DEF Off
<1>13. Ended(v, Adjust(v, p))
  BY <1>12, Adjusted
<1>14. HasLess(t, v, k)
  <2>1. WithoutPlaces(v.page[p].keys, t.page[p].keys, i, n) /\ WithoutPlaces(v.page[p].kids, t.page[p].kids, i, n)
    BY <1>6, WithoutAt
  <2>2. ASSUME NEW y \in t.used, t.page[y].leaf, y # p
        PROVE  v.page[y].keys = t.page[y].keys /\ v.page[y].kids = t.page[y].kids
    <3>1. h[y] = 0 /\ h[p] = 0
      BY <1>1, <2>2 DEF Links, Even
    <3>2. y \notin Higher(t, h, h[p])
      BY <3>1 DEF Higher
    <3> QED BY <3>2, <2>2, <1>1, <1>7
  <2>3. ASSUME NEW a, NEW b, Has(v, a, b) PROVE Has(t, a, b) /\ a # k
    <3>1. PICK y \in t.used : /\ v.page[y].leaf
                              /\ \E j \in 1 .. Len(v.page[y].keys) :
                                   v.page[y].keys[j] = a /\ v.page[y].kids[j] = b
      BY <2>3, <1>7 DEF Has
    <3>2. PICK j \in 1 .. Len(v.page[y].keys) : v.page[y].keys[j] = a /\ v.page[y].kids[j] = b
      BY <3>1
    <3>3. t.page[y].leaf
      BY <3>1, <1>1, <1>7
    <3>4. \E l \in 1 .. Len(t.page[y].keys) :
            t.page[y].keys[l] = a /\ t.page[y].kids[l] = b /\ ~(y = p /\ l = i)
      <4>1. CASE y # p
        <5>1. v.page[y].keys = t.page[y].keys /\ v.page[y].kids = t.page[y].kids
          BY <3>3, <4>1, <2>2
        <5> QED BY <5>1, <3>2, <4>1
      <4>2. CASE y = p
        <5> DEFINE m == IF j < i THEN j ELSE j + 1
        <5>1. j \in 1 .. n - 1
          BY <3>2, <4>2, <1>9
        <5>2. m \in 1 .. n /\ m # i /\ v.page[p].keys[j] = t.page[p].keys[m] /\ v.page[p].kids[j] = t.page[p].kids[m]
          <6> HIDE DEF m
          <6> QED BY <5>1, <2>1 DEF WithoutPlaces, m
        <5> HIDE DEF m
        <5> QED BY <5>2, <3>2, <4>2
      <4> QED BY <4>1, <4>2
    <3>5. PICK l \in 1 .. Len(t.page[y].keys) :
            t.page[y].keys[l] = a /\ t.page[y].kids[l] = b /\ ~(y = p /\ l = i)
      BY <3>4
    <3>6. a # k
      BY <3>3, <3>5, <1>1, OnePlace
    <3> QED BY <3>3, <3>5, <3>6 DEF Has
  <2>4. ASSUME NEW a, NEW b, Has(t, a, b), a # k PROVE Has(v, a, b)
    <3>1. PICK y \in t.used : /\ t.page[y].leaf
                              /\ \E j \in 1 .. Len(t.page[y].keys) :
                                   t.page[y].keys[j] = a /\ t.page[y].kids[j] = b
      BY <2>4 DEF Has
    <3>2. PICK j \in 1 .. Len(t.page[y].keys) : t.page[y].keys[j] = a /\ t.page[y].kids[j] = b
      BY <3>1
    <3>3. v.page[y].leaf /\ y \in v.used
      BY <3>1, <1>1, <1>7
    <3>4. CASE y # p
      <4>1. v.page[y].keys = t.page[y].keys /\ v.page[y].kids = t.page[y].kids
        BY <3>1, <3>4, <2>2
      <4> QED BY <4>1, <3>2, <3>3 DEF Has
    <3>5. CASE y = p
      <4> DEFINE m == IF j < i THEN j ELSE j - 1
      <4>1. j \in 1 .. n /\ j # i
        BY <3>2, <3>5, <1>1, <2>4
      <4>2. m \in 1 .. n - 1 /\ v.page[p].keys[m] = t.page[p].keys[j] /\ v.page[p].kids[m] = t.page[p].kids[j]
        <5> HIDE DEF m
        <5> QED BY <4>1, <2>1 DEF WithoutPlaces, m
      <4> HIDE DEF m
      <4> QED BY <4>2, <3>2, <3>3, <3>5, <1>9 DEF Has
    <3> QED BY <3>4, <3>5
  <2> QED BY <2>3, <2>4 DEF HasLess
<1> QED BY <1>13, <1>14 DEF Ended, SameHas, HasLess

-----------------------------------------------------------------------------
(* The inductive invariant: the tree is sound, and holds what the          *)
(* dictionary does.                                                        *)
Holds(t, m) == \A k, x : Has(t, k, x) <=> k \in Key /\ m[k] = x /\ x # Absent

IInv ==
  /\ Sound(tree) /\ Holds(tree, map)
  /\ map \in [Key -> Value \cup {Absent}]
  /\ reply \in [ok : BOOLEAN, value : Value \cup {Absent}]

LEMMA SoundCases ==
  ASSUME NEW t, Sound(t)
  PROVE  \/ Bare(t) /\ t.root = NULL_ID
         \/ t.root # NULL_ID /\ \E h, lo, hi : Tight(t, h, lo, hi)
PROOF
<1>1. CASE t \in TreeType /\ t.root = NULL_ID /\ t.used = {}
  BY <1>1 DEF Bare
<1>2. CASE \E h, lo, hi : Good(t, h, lo, hi)
  <2>1. PICK h, lo, hi : Good(t, h, lo, hi)
    BY <1>2
  <2>2. \E hi2 : Tight(t, h, lo, hi2)
    BY <2>1, Tightening
  <2>3. t.root # NULL_ID
    <3>1. Shape(t, h, lo, hi)
      BY <2>1 DEF Good
    <3> QED BY <3>1, ShapeFacts
  <2> QED BY <2>2, <2>3
<1> QED BY <1>1, <1>2 DEF Sound

LEMMA BareHas ==
  ASSUME NEW t, Bare(t)
  PROVE  /\ \A k, x : ~Has(t, k, x)
         /\ \A k : Lookup(t, k) = Absent
PROOF BY DEF Bare, Has, Lookup

(* Query finds exactly what the dictionary has. *)
LEMMA LookupIs ==
  ASSUME NEW t, Sound(t), NEW m \in [Key -> Value \cup {Absent}], Holds(t, m), NEW k \in Key
  PROVE  Lookup(t, k) = m[k]
PROOF
<1>1. k \in Int
  BY TreeAssumption
<1>2. Has(t, k, m[k]) <=> m[k] # Absent
  BY DEF Holds
<1>3. CASE Bare(t)
  BY <1>2, <1>3, BareHas
<1>4. CASE \E h, lo, hi : Tight(t, h, lo, hi)
  <2>1. PICK h, lo, hi : Tight(t, h, lo, hi)
    BY <1>4
  <2>2. CASE m[k] # Absent
    <3>1. Has(t, k, m[k])
      BY <1>2, <2>2
    <3> QED BY <2>1, <3>1, LookupFinds
  <2>3. CASE m[k] = Absent /\ Lookup(t, k) # Absent
    <3>1. \E p, i : EntryFor(t, k, p, i)
      BY <1>1, <2>1, <2>3, LookupTells
    <3>2. Has(t, k, Lookup(t, k))
      BY <3>1, EntryHas
    <3>3. m[k] = Lookup(t, k)
      BY <3>2 DEF Holds
    <3> QED BY <2>3, <3>3
  <2> QED BY <2>2, <2>3
<1> QED BY <1>3, <1>4, SoundCases

LEMMA HoldsMore ==
  ASSUME NEW t, NEW v, NEW m \in [Key -> Value \cup {Absent}], NEW k \in Key, NEW x \in Value,
         Holds(t, m), m[k] = Absent, HasMore(t, v, k, x)
  PROVE  Holds(v, [m EXCEPT ![k] = x])
PROOF
<1>1. x # Absent
  BY TreeAssumption DEF Absent
<1>2. \A a, b : Has(t, a, b) <=> a \in Key /\ m[a] = b /\ b # Absent
  BY DEF Holds
<1>3. \A a, b : Has(v, a, b) <=> Has(t, a, b) \/ (a = k /\ b = x)
  BY DEF HasMore
<1>4. \A a \in Key : [m EXCEPT ![k] = x][a] = IF a = k THEN x ELSE m[a]
  OBVIOUS
<1> QED BY <1>1, <1>2, <1>3, <1>4 DEF Holds

LEMMA HoldsLess ==
  ASSUME NEW t, NEW v, NEW m \in [Key -> Value \cup {Absent}], NEW k \in Key,
         Holds(t, m), HasLess(t, v, k)
  PROVE  Holds(v, [m EXCEPT ![k] = Absent])
PROOF
<1>1. \A a, b : Has(t, a, b) <=> a \in Key /\ m[a] = b /\ b # Absent
  BY DEF Holds
<1>2. \A a, b : Has(v, a, b) <=> Has(t, a, b) /\ a # k
  BY DEF HasLess
<1>3. \A a \in Key : [m EXCEPT ![k] = Absent][a] = IF a = k THEN Absent ELSE m[a]
  OBVIOUS
<1> QED BY <1>1, <1>2, <1>3 DEF Holds

(* Insert, and Remove, of a key. *)
LEMMA InsertKeeps ==
  ASSUME IInv, NEW k \in Key, NEW x \in Value, Insert(k, x)
  PROVE  IInv' /\ map[k] = Absent
PROOF
<1> DEFINE t == Rooted(tree)
           p == InsertLeaf(t, t.root, k)
           v == InsertAt(t, p, Spot(t, p, k), x, k)
<1>1. /\ Room(tree) /\ p # NULL_ID /\ tree' = Adjust(v, p)
      /\ map' = [map EXCEPT ![k] = x] /\ reply' = Answer(TRUE, Absent)
  BY DEF Insert, Spot
<1>2. /\ Sound(tree) /\ Holds(tree, map) /\ map \in [Key -> Value \cup {Absent}] /\ k \in Int
  BY TreeAssumption DEF IInv
<1>3. Free(tree) > Levels(tree) /\ Levels(tree) < LEVELS
  BY <1>1 DEF Room, Free
<1>4. Sound(tree') /\ HasMore(tree, tree', k, x) /\ map[k] = Absent
  <2>1. CASE Bare(tree) /\ tree.root = NULL_ID
    <3>1. Free(tree) > 0
      BY <2>1, <1>3, NoPages
    <3>2. Sound(Adjust(v, p)) /\ HasMore(tree, Adjust(v, p), k, x)
      <4> HIDE DEF t, p, v
      <4>1. t = Rooted(tree) /\ p = InsertLeaf(t, t.root, k) /\ v = InsertAt(t, p, Spot(t, p, k), x, k)
        BY DEF t, p, v
      <4> QED BY <2>1, <3>1, <4>1, FirstInsert
    <3>3. map[k] = Absent
      BY <2>1, <1>2, BareHas DEF Holds
    <3> QED BY <1>1, <3>2, <3>3
  <2>2. CASE tree.root # NULL_ID /\ \E h, lo, hi : Tight(tree, h, lo, hi)
    <3>1. PICK h, lo, hi : Tight(tree, h, lo, hi)
      BY <2>2
    <3>2. t = tree
      BY <2>2 DEF Rooted
    <3>3. ~Stops(tree, k)
      BY <1>1, <3>2 DEF Stops
    <3>4. Free(tree) >= h[tree.root] + 2 /\ h[tree.root] + 1 < LEVELS
      <4>1. Levels(tree) = h[tree.root] + 1 /\ Shape(tree, h, lo, hi)
        BY <3>1, LevelCount DEF Tight, Good
      <4>2. h[tree.root] \in Nat /\ tree.used \subseteq PageId
        BY <4>1, ShapeFacts
      <4>3. Free(tree) \in Nat
        BY <4>2, FreeFacts
      <4> DEFINE a == h[tree.root]
      <4> HIDE DEF a
      <4>4. Free(tree) > a + 1 /\ a + 1 < LEVELS /\ a \in Nat /\ Free(tree) \in Nat
        BY <1>3, <4>1, <4>2, <4>3 DEF a
      <4>5. Free(tree) >= a + 2
        BY <4>4
      <4> QED BY <4>4, <4>5 DEF a
    <3>5. Sound(Adjust(v, p)) /\ HasMore(tree, Adjust(v, p), k, x)
      <4>1. p = InsertLeaf(tree, tree.root, k) /\ v = InsertAt(tree, p, Spot(tree, p, k), x, k)
        BY <3>2
      <4> HIDE DEF p, v
      <4> QED BY <3>1, <3>3, <3>4, <4>1, InsertSettles
    <3>6. \A b : ~Has(tree, k, b)
      BY <3>1, <3>3, <1>2, StopsThere
    <3>7. map[k] = Absent
      BY <3>6, <1>2 DEF Holds
    <3> HIDE DEF v, p
    <3> QED BY <1>1, <3>5, <3>7
  <2> QED BY <2>1, <2>2, <1>2, SoundCases
<1> HIDE DEF t, p, v
<1>5. Holds(tree', map')
  BY <1>1, <1>2, <1>4, HoldsMore
<1>6. map' \in [Key -> Value \cup {Absent}] /\ reply' \in [ok : BOOLEAN, value : Value \cup {Absent}]
  BY <1>1, <1>2 DEF Answer
<1> QED BY <1>4, <1>5, <1>6 DEF IInv

LEMMA RemoveKeeps ==
  ASSUME IInv, NEW k \in Key, Remove(k)
  PROVE  IInv' /\ map[k] # Absent
PROOF
<1> DEFINE p == LeafFor(tree, tree.root, k)
           i == Find(tree, p, k)
           v == RemoveAt(tree, p, i)
<1>1. /\ Lookup(tree, k) # Absent /\ tree' = Adjust(v, p)
      /\ map' = [map EXCEPT ![k] = Absent] /\ reply' = Answer(TRUE, Absent)
  BY DEF Remove
<1>2. /\ Sound(tree) /\ Holds(tree, map) /\ map \in [Key -> Value \cup {Absent}] /\ k \in Int
  BY TreeAssumption DEF IInv
<1>3. map[k] # Absent
  BY <1>1, <1>2, LookupIs
<1>4. PICK h, lo, hi : Tight(tree, h, lo, hi)
  BY <1>1, <1>2, SoundCases, BareHas
<1>5. EntryFor(tree, k, p, i)
  BY <1>1, <1>2, <1>4, LookupTells
<1> HIDE DEF i, p
<1>6. Sound(Adjust(v, p)) /\ HasLess(tree, Adjust(v, p), k)
  BY <1>4, <1>5, RemoveSettles
<1> HIDE DEF v
<1>7. Holds(tree', map')
  BY <1>1, <1>2, <1>6, HoldsLess
<1>8. map' \in [Key -> Value \cup {Absent}] /\ reply' \in [ok : BOOLEAN, value : Value \cup {Absent}]
  BY <1>1, <1>2 DEF Answer
<1>9. Sound(tree')
  BY <1>1, <1>6
<1> QED BY <1>3, <1>7, <1>8, <1>9 DEF IInv

LEMMA InitIInv == Init => IInv
PROOF
<1> SUFFICES ASSUME Init PROVE IInv
  OBVIOUS
<1>1. /\ tree.root = NULL_ID /\ tree.used = {} /\ reply = Answer(TRUE, Absent) /\ map = [k \in Key |-> Absent]
      /\ tree.page = [p \in PageId |-> [parent |-> NULL_ID, place |-> NULL_ID, next |-> NULL_ID,
                                         leaf |-> TRUE, keys |-> <<>>, kids |-> <<>>]]
      /\ tree = [root |-> tree.root, used |-> tree.used, page |-> tree.page]
  BY DEF Init
<1>2. [parent |-> NULL_ID, place |-> NULL_ID, next |-> NULL_ID, leaf |-> TRUE, keys |-> <<>>, kids |-> <<>>] \in NodeType
  BY DEF NodeType, Cell
<1>3. tree \in TreeType
  BY <1>1, <1>2 DEF TreeType, Cell
<1>4. Bare(tree) /\ Sound(tree)
  BY <1>1, <1>3 DEF Bare, Sound
<1>5. Holds(tree, map)
  <2>1. \A k \in Key : map[k] = Absent
    BY <1>1
  <2> QED BY <2>1, <1>4, BareHas DEF Holds
<1>6. map \in [Key -> Value \cup {Absent}] /\ reply \in [ok : BOOLEAN, value : Value \cup {Absent}]
  BY <1>1 DEF Answer
<1> QED BY <1>4, <1>5, <1>6 DEF IInv

LEMMA NextIInv == IInv /\ [Next]_vars => IInv'
PROOF
<1> SUFFICES ASSUME IInv, [Next]_vars PROVE IInv'
  OBVIOUS
<1>1. ASSUME UNCHANGED <<tree, map>>, reply' \in [ok : BOOLEAN, value : Value \cup {Absent}] PROVE IInv'
  BY <1>1 DEF IInv
<1>2. ASSUME NEW k \in Key, InsertExisting(k) PROVE IInv'
  BY <1>1, <1>2 DEF InsertExisting, Answer
<1>3. ASSUME NEW k \in Key, Remove(k) PROVE IInv'
  BY <1>3, RemoveKeeps
<1>4. ASSUME NEW k \in Key, RemoveMissing(k) PROVE IInv'
  BY <1>1, <1>4 DEF RemoveMissing, Answer
<1>5. ASSUME NEW k \in Key, Query(k) PROVE IInv'
  <2>1. Lookup(tree, k) = map[k] /\ map[k] \in Value \cup {Absent}
    BY LookupIs DEF IInv
  <2>2. reply' \in [ok : BOOLEAN, value : Value \cup {Absent}]
    BY <2>1, <1>5 DEF Query, Answer
  <2> QED BY <1>1, <1>5, <2>2 DEF Query
<1>6. ASSUME NEW k \in Key, NEW x \in Value, Insert(k, x) PROVE IInv'
  BY <1>6, InsertKeeps
<1>7. CASE UNCHANGED vars
  BY <1>1, <1>7 DEF vars, IInv
<1> QED BY <1>2, <1>3, <1>4, <1>5, <1>6, <1>7 DEF Next

(* Every Insert, Remove and Query, with all that Adjust does, leaves the    *)
(* tree sound and holding what the dictionary does.                        *)
THEOREM Invariance == Spec => []IInv
PROOF
<1> QED BY InitIInv, NextIInv, PTL DEF Spec

(* What the properties say of the tree alone.                              *)
LEMMA SoundShape ==
  ASSUME Sound(tree)
  PROVE  TreeShape
PROOF
<1>1. CASE Bare(tree) /\ tree.root = NULL_ID
  <2>1. Pages(tree) = {}
    BY <1>1, NoPages
  <2>2. \A d \in 0 .. LEVELS : Level(tree)[d] = {}
    BY <2>1 DEF Pages
  <2>3. Inner(tree) = {}
    BY <2>1 DEF Inner
  <2> QED BY <1>1, <2>2, <2>3 DEF TreeShape
<1>2. CASE tree.root # NULL_ID /\ \E h, lo, hi : Tight(tree, h, lo, hi)
  <2>1. PICK h, lo, hi : Tight(tree, h, lo, hi)
    BY <1>2
  <2>2. Good(tree, h, lo, hi) /\ Shape(tree, h, lo, hi)
    BY <2>1 DEF Tight, Good
  <2>3. \A d \in 0 .. LEVELS : Level(tree)[d] = AtDepth(tree, h, d)
    BY <2>2, LevelsAre
  <2>4. \A p \in tree.used : tree.page[p].leaf <=> h[p] = 0
    BY <2>2 DEF Shape, Links, Even
  <2>5. \A p \in tree.used : tree.page[p].leaf \in BOOLEAN
    BY <2>2 DEF Shape, Links, TreeType, NodeType
  <2>6. \A p \in tree.used : h[p] \in Nat
    BY <2>2, PageAssumption DEF Shape, Links, Heights, TreeType
  <2>7. ASSUME NEW d \in 0 .. LEVELS, NEW p \in Level(tree)[d], NEW q \in Level(tree)[d]
        PROVE  tree.page[p].leaf = tree.page[q].leaf
    <3>1. p \in tree.used /\ q \in tree.used /\ h[p] + d = h[tree.root] /\ h[q] + d = h[tree.root]
      BY <2>3, <2>7 DEF AtDepth
    <3>2. h[p] = h[q]
      <4>1. h[p] \in Nat /\ h[q] \in Nat /\ d \in Nat
        BY <2>6, <3>1, PageAssumption
      <4> QED BY <3>1, <4>1
    <3>3. tree.page[p].leaf <=> tree.page[q].leaf
      BY <2>4, <3>1, <3>2
    <3> QED BY <2>5, <3>1, <3>3
  <2>8. tree.page[tree.root].parent = NULL_ID
    BY <2>2 DEF Shape
  <2>9. ASSUME NEW p \in Inner(tree), NEW i \in 1 .. Size(tree, p)
        PROVE  /\ tree.page[tree.page[p].kids[i]].parent = p
               /\ tree.page[tree.page[p].kids[i]].place = i
    <3>1. p \in tree.used /\ ~tree.page[p].leaf /\ i \in 1 .. Len(tree.page[p].keys)
      BY <2>2, <2>9, PagesAre DEF Inner, Size
    <3>2. GoodKid(tree, h, lo, hi, p, i, tree.page[p].kids[i])
      BY <2>2, <3>1, GoodKids
    <3> QED BY <3>2 DEF GoodKid
  <2> QED BY <2>7, <2>8, <2>9 DEF TreeShape
<1> QED BY <1>1, <1>2, SoundCases

LEMMA SoundPages ==
  ASSUME Sound(tree)
  PROVE  NoPageLost
PROOF
<1>1. CASE Bare(tree) /\ tree.root = NULL_ID
  BY <1>1, NoPages DEF Bare, NoPageLost
<1>2. CASE tree.root # NULL_ID /\ \E h, lo, hi : Tight(tree, h, lo, hi)
  BY <1>2, PagesAre DEF Tight, Good, NoPageLost
<1> QED BY <1>1, <1>2, SoundCases

LEMMA SoundSizes ==
  ASSUME Sound(tree)
  PROVE  Occupancy
PROOF
<1>1. Pages(tree) = tree.used
  BY SoundPages DEF NoPageLost
<1>2. \A p \in tree.used : Fine(tree, p)
  BY SoundCases DEF Bare, Tight, Good
<1> QED BY <1>1, <1>2 DEF Occupancy, Fine

LEMMA SoundKeys ==
  ASSUME Sound(tree)
  PROVE  KeysOrdered
PROOF
<1>1. Pages(tree) = tree.used
  BY SoundPages DEF NoPageLost
<1>2. CASE Bare(tree)
  BY <1>1, <1>2 DEF Bare, KeysOrdered, Inner
<1>3. CASE \E h, lo, hi : Tight(tree, h, lo, hi)
  <2>1. PICK h, lo, hi : Tight(tree, h, lo, hi)
    BY <1>3
  <2>2. /\ Good(tree, h, lo, hi)
        /\ \A y \in tree.used : TightPage(tree, lo, hi, y, Len(tree.page[y].keys))
    BY <2>1 DEF Tight
  <2>3. ASSUME NEW p \in Pages(tree), NEW i \in 1 .. Size(tree, p), NEW j \in 1 .. Size(tree, p), i < j
        PROVE  tree.page[p].keys[i] < tree.page[p].keys[j]
    BY <1>1, <2>2, <2>3 DEF TightPage, Size
  <2>4. ASSUME NEW p \in Inner(tree), NEW i \in 1 .. Size(tree, p)
        PROVE  /\ tree.page[p].keys[i] = LastKey(tree, tree.page[p].kids[i])
               /\ i > 1 => tree.page[p].keys[i - 1] < tree.page[tree.page[p].kids[i]].keys[1]
    <3> DEFINE c == tree.page[p].kids[i]
    <3>1. p \in tree.used /\ ~tree.page[p].leaf /\ i \in 1 .. Len(tree.page[p].keys)
      BY <1>1, <2>4 DEF Inner, Size
    <3>2. GoodKid(tree, h, lo, hi, p, i, c)
      BY <2>2, <3>1, GoodKids
    <3> HIDE DEF c
    <3>3. /\ c \in tree.used /\ tree.page[p].keys[i] = LastKey(tree, c) /\ Low(tree, lo, p, i) = lo[c]
      BY <3>2 DEF GoodKid
    <3>4. TightPage(tree, lo, hi, p, Len(tree.page[p].keys)) /\ TightPage(tree, lo, hi, c, Len(tree.page[c].keys))
      BY <2>2, <3>1, <3>3
    <3>5. /\ lo[c] \in Int /\ Low(tree, lo, c, 1) \in Int /\ tree.page[c].keys[1] \in Int
          /\ lo[c] <= Low(tree, lo, c, 1) /\ Low(tree, lo, c, 1) < tree.page[c].keys[1]
      BY <3>4 DEF TightPage
    <3>6. ASSUME i > 1
          PROVE  tree.page[p].keys[i - 1] < tree.page[c].keys[1]
      <4>1. i - 1 \in 1 .. Len(tree.page[p].keys) /\ i - 1 < i
        BY <3>1, <3>6
      <4>2. tree.page[p].keys[i - 1] <= Low(tree, lo, p, i) /\ tree.page[p].keys[i - 1] \in Int
        BY <3>1, <3>4, <4>1 DEF TightPage
      <4> DEFINE a == tree.page[p].keys[i - 1]
      <4> HIDE DEF a
      <4>3. a \in Int /\ a <= lo[c]
        BY <4>2, <3>3 DEF a
      <4>4. a < tree.page[c].keys[1]
        BY <4>3, <3>5
      <4> QED BY <4>4 DEF a
    <3> QED BY <3>3, <3>6 DEF c
  <2> QED BY <2>3, <2>4 DEF KeysOrdered
<1> QED BY <1>2, <1>3, SoundCases

LEMMA SoundType ==
  ASSUME Sound(tree)
  PROVE  /\ tree.root \in Cell /\ tree.used \subseteq PageId
         /\ tree.page \in [PageId -> NodeType]
PROOF
<1>1. tree \in TreeType
  BY DEF Sound, Good, Shape, Links
<1> QED BY <1>1 DEF TreeType

-----------------------------------------------------------------------------
(* The tree and the answer of the last call are of their types.            *)
THEOREM TypeCorrect == Spec => []TypeOK
PROOF
<1>1. IInv => TypeOK
  BY SoundType DEF IInv, TypeOK
<1> QED BY <1>1, Invariance, PTL

(* Adjust leaves every leaf equally deep, and every child knowing its      *)
(* parent and its place there, whatever it split, lent or merged.          *)
THEOREM Balanced == Spec => []TreeShape
PROOF
<1>1. IInv => TreeShape
  BY SoundShape DEF IInv
<1> QED BY <1>1, Invariance, PTL

(* After each call no page is too full, and none but the root too empty.   *)
THEOREM PagesFilled == Spec => []Occupancy
PROOF
<1>1. IInv => Occupancy
  BY SoundSizes DEF IInv
<1> QED BY <1>1, Invariance, PTL

(* Keys ascend in each page and from page to page, and each inner key is   *)
(* the last key of its child: SetParentIndex goes up far enough.           *)
THEOREM Ordering == Spec => []KeysOrdered
PROOF
<1>1. IInv => KeysOrdered
  BY SoundKeys DEF IInv
<1> QED BY <1>1, Invariance, PTL

(* New and Delete are paired: the tree has exactly the pages it took.      *)
THEOREM PagesPaired == Spec => []NoPageLost
PROOF
<1>1. IInv => NoPageLost
  BY SoundPages DEF IInv
<1> QED BY <1>1, Invariance, PTL

(* Query finds what Insert put and Remove did not take away, and no more.  *)
THEOREM QueryCorrect == Spec => []QueryFinds
PROOF
<1>1. IInv => QueryFinds
  BY LookupIs DEF IInv, QueryFinds
<1> QED BY <1>1, Invariance, PTL

-----------------------------------------------------------------------------
(* Each call is one of the dictionary's.                                   *)
LEMMA StepsAsMap == IInv /\ [Next]_vars => [Map!Next]_(Map!vars)
PROOF
<1> SUFFICES ASSUME IInv, [Next]_vars PROVE [Map!Next]_(Map!vars)
  OBVIOUS
<1>1. /\ Sound(tree) /\ Holds(tree, map) /\ map \in [Key -> Value \cup {Absent}]
      /\ \A k \in Key : Lookup(tree, k) = map[k]
  BY LookupIs DEF IInv
<1>2. ASSUME NEW k \in Key, InsertExisting(k) PROVE Map!Next
  <2>1. Stops(tree, k) /\ tree.root # NULL_ID /\ k \in Int
    BY <1>2, TreeAssumption DEF InsertExisting, Stops
  <2>2. PICK h, lo, hi : Tight(tree, h, lo, hi)
    BY <1>1, <2>1, SoundCases
  <2>3. \E x : Has(tree, k, x)
    BY <2>1, <2>2, StopsThere
  <2>4. map[k] # Absent /\ map[k] \in Value
    BY <1>1, <2>3 DEF Holds
  <2>5. Map!Insert(k, map[k])
    BY <1>2, <2>4 DEF InsertExisting, Map!Insert, Map!Answer, Answer
  <2> QED BY <2>4, <2>5 DEF Map!Next
<1>3. ASSUME NEW k \in Key, Remove(k) PROVE Map!Next
  <2>1. map[k] # Absent
    BY <1>3, RemoveKeeps
  <2>2. Map!Remove(k)
    BY <1>3, <2>1 DEF Remove, Map!Remove, Map!Answer, Answer
  <2> QED BY <2>2 DEF Map!Next
<1>4. ASSUME NEW k \in Key, RemoveMissing(k) PROVE Map!Next
  <2>1. map[k] = Absent
    BY <1>1, <1>4 DEF RemoveMissing
  <2>2. map' = [map EXCEPT ![k] = Absent]
    BY <1>1, <1>4, <2>1 DEF RemoveMissing
  <2>3. Map!Remove(k)
    BY <1>4, <2>1, <2>2 DEF RemoveMissing, Map!Remove, Map!Answer, Answer
  <2> QED BY <2>3 DEF Map!Next
<1>5. ASSUME NEW k \in Key, Query(k) PROVE Map!Next
  <2>1. Map!Query(k)
    BY <1>1, <1>5 DEF Query, Map!Query, Map!Answer, Answer
  <2> QED BY <2>1 DEF Map!Next
<1>6. ASSUME NEW k \in Key, NEW x \in Value, Insert(k, x) PROVE Map!Next
  <2>1. map[k] = Absent
    BY <1>6, InsertKeeps
  <2>2. map' = [map EXCEPT ![k] = x] /\ reply' = Answer(TRUE, Absent)
    BY <1>6 DEF Insert
  <2>3. Map!Insert(k, x)
    BY <2>1, <2>2 DEF Map!Insert, Map!Answer, Answer
  <2> QED BY <2>3 DEF Map!Next
<1>7. CASE UNCHANGED vars
  BY <1>7 DEF vars, Map!vars
<1> QED BY <1>2, <1>3, <1>4, <1>5, <1>6, <1>7 DEF Next

(* The B+ tree is a dictionary: every call answers as one, for any number  *)
(* of keys and pages, and any page size from four entries.                 *)
THEOREM Refinement == Spec => RefinesDictionary
PROOF
<1>1. Init => Map!Init
  BY DEF Init, Map!Init, Map!Answer, Answer
<1> QED BY <1>1, Invariance, StepsAsMap, PTL DEF Spec, RefinesDictionary, Map!Spec
==============================================================================
