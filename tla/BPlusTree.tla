------------------------------- MODULE BPlusTree ------------------------------
(***************************************************************************)
(* BPlusTreeIndexTable.h: a dictionary in a B+ tree whose inner keys are   *)
(* the last keys of the children.                                          *)
(***************************************************************************)
EXTENDS BPlusPage

CONSTANTS MAX_NUM,         \* get_index_table_record_max_num
          Key, Value

ASSUME TreeAssumption ==
  /\ MAX_NUM \in Nat \ (0 .. 3)
  /\ Key \subseteq Int
  /\ NULL_ID \notin Value

VARIABLES tree, reply,
          map      \* history: what the calls so far should have left

vars == <<tree, reply, map>>

Absent == NULL_ID
Answer(ok, v) == [ok |-> ok, value |-> v]

(* The first position of p whose key is not LESS than k; 0 for none. *)
Find(t, p, k) ==
  LET At == {i \in 1 .. Size(t, p) : t.page[p].keys[i] >= k}
  IN IF At = {} THEN 0 ELSE CHOOSE i \in At : \A j \in At : i <= j

Equal(t, p, k) == Find(t, p, k) # 0 /\ t.page[p].keys[Find(t, p, k)] = k

(* One entry goes from the end of p to the front of q, or from the front   *)
(* of p to the end of q; n of them, one after the other.                   *)
MoveLast(t, p, q) ==
  LET x == Size(t, p)
  IN RemoveAt(InsertAt(t, q, 1, t.page[p].kids[x], t.page[p].keys[x]), p, x)

MoveFirst(t, p, q) ==
  RemoveAt(InsertAt(t, q, Size(t, q) + 1, t.page[p].kids[1], t.page[p].keys[1]), p, 1)

Repeat(Move(_, _, _), t, p, q, n) ==
  LET done[k \in 0 .. n] == IF k = 0 THEN t ELSE Move(done[k - 1], p, q)
  IN done[n]

-----------------------------------------------------------------------------
(* Adjust, case by case.  Each case returns the tree; Adjust then goes on  *)
(* with the parent.                                                        *)
Split(t, p) ==
  LET num   == Size(t, p)
      new_p == FreshId(t)
      made  == New(t, t.page[p].parent, t.page[p].place, t.page[p].next, p, t.page[p].leaf)
  IN Repeat(MoveLast, made, p, new_p, num - num \div 2)

NewRoot(t, p, new_p) ==
  LET r    == FreshId(t)
      made == New(t, NULL_ID, NULL_ID, NULL_ID, NULL_ID, FALSE)
  IN [InsertPage(InsertPage(made, r, 1, p), r, 2, new_p) EXCEPT !.root = r]

Left(t, p)  == t.page[t.page[p].parent].kids[t.page[p].place - 1]
Right(t, p) == t.page[t.page[p].parent].kids[t.page[p].place + 1]
HasLeft(t, p)  == t.page[p].place > 1
HasRight(t, p) == t.page[p].place < Size(t, t.page[p].parent)

(* Slip: a page lends an entry it cannot spare. *)
SpareAny(t, p) == Size(t, p) >= MAX_NUM \div 2

Spare(t, p) == Size(t, p) > MAX_NUM \div 2

(* Slip: the right page is emptied from its end. *)
CombineRightBackwards(t, p) ==
  LET r == Right(t, p)
      TakeLast(u, a, b) == RemoveAt(InsertAt(u, b, Size(u, b) + 1, u.page[a].kids[Size(u, a)],
                                             u.page[a].keys[Size(u, a)]), a, Size(u, a))
  IN Delete(Repeat(TakeLast, t, r, p, Size(t, r)), r)

CombineLeft(t, p)  == Delete(Repeat(MoveLast, t, Left(t, p), p, Size(t, Left(t, p))), Left(t, p))
CombineRight(t, p) == Delete(Repeat(MoveFirst, t, Right(t, p), p, Size(t, Right(t, p))), Right(t, p))

(* One call of Adjust, up to the one it makes for the parent. *)
AdjustPage(t, p) ==
  LET num    == Size(t, p)
      parent == t.page[p].parent
      new_p  == FreshId(t)
      halves == Split(t, p)
  IN IF num = MAX_NUM
     THEN IF parent = NULL_ID THEN Done(NewRoot(halves, p, new_p))
          ELSE Go(InsertPage(halves, parent, halves.page[p].place + 1, new_p), parent)
     ELSE IF num >= MAX_NUM \div 2 THEN Done(t)
     ELSE IF p # t.root
     THEN IF HasLeft(t, p) /\ Spare(t, Left(t, p)) THEN Done(MoveLast(t, Left(t, p), p))
          ELSE IF HasRight(t, p) /\ Spare(t, Right(t, p)) THEN Done(MoveFirst(t, Right(t, p), p))
          ELSE IF HasLeft(t, p) THEN Go(CombineLeft(t, p), parent)
          ELSE IF HasRight(t, p) THEN Go(CombineRight(t, p), parent)
          ELSE Done(t)
     ELSE IF num = 1 /\ ~t.page[p].leaf
     THEN Done([Delete(t, p) EXCEPT !.root = t.page[p].kids[1]])
     ELSE IF num = 0 /\ t.page[p].leaf
     THEN Done([Delete(t, p) EXCEPT !.root = NULL_ID])
     ELSE Done(t)

(* Each goes one level up. *)
Adjust(t, p) ==
  LET Turn(s) == IF s.page = NULL_ID THEN s ELSE AdjustPage(s.tree, s.page)
      at[n \in 0 .. LEVELS] == IF n = 0 THEN Go(t, p) ELSE Turn(at[n - 1])
  IN at[LEVELS].tree

-----------------------------------------------------------------------------
(* The pages from p down to where k belongs: each time the first child     *)
(* whose key is not less than k, or the last one.                          *)
Path(t, p, k) ==
  LET below == [q \in Cell |->
                  IF q = NULL_ID THEN q
                  ELSE IF t.page[q].leaf THEN q
                  ELSE t.page[q].kids[IF Find(t, q, k) = 0 THEN Size(t, q) ELSE Find(t, q, k)]]
      at[n \in 0 .. LEVELS] == IF n = 0 THEN p ELSE below[at[n - 1]]
  IN at

(* Where Query, Insert and Remove end up: a leaf.  Query and Remove stop   *)
(* (NULL_ID) in an inner page whose keys are all less; Insert stops at a   *)
(* key that is there already.                                              *)
LeafFor(t, p, k) ==
  LET path == Path(t, p, k)
  IN IF \E n \in 0 .. LEVELS : ~t.page[path[n]].leaf /\ Find(t, path[n], k) = 0
     THEN NULL_ID ELSE path[LEVELS]

(* Slip: Insert does not look whether the key is there. *)
InsertLeafBlind(t, p, k) == Path(t, p, k)[LEVELS]

InsertLeaf(t, p, k) ==
  LET path == Path(t, p, k)
  IN IF \E n \in 0 .. LEVELS : Equal(t, path[n], k) THEN NULL_ID ELSE path[LEVELS]

(* The value the tree has for k. *)
Lookup(t, k) ==
  LET p == LeafFor(t, t.root, k)
  IN IF t.root = NULL_ID THEN Absent
     ELSE IF p = NULL_ID THEN Absent
     ELSE IF Equal(t, p, k) THEN t.page[p].kids[Find(t, p, k)] ELSE Absent

Init ==
  /\ tree = [root |-> NULL_ID, used |-> {},
             page |-> [p \in PageId |-> [parent |-> NULL_ID, place |-> NULL_ID, next |-> NULL_ID,
                                         leaf |-> TRUE, keys |-> <<>>, kids |-> <<>>]]]
  /\ reply = Answer(TRUE, Absent)
  /\ map = [k \in Key |-> Absent]

(* The pages at each depth; those of the whole tree, and its inner ones. *)
Level(t) ==
  LET at[d \in 0 .. LEVELS] ==
        IF d = 0 THEN {t.root} \ {NULL_ID}
        ELSE UNION {Seqs!ToSet(t.page[p].kids) : p \in {q \in at[d - 1] : ~t.page[q].leaf}}
  IN at
Pages(t) == UNION {Level(t)[d] : d \in 0 .. LEVELS}
Inner(t) == {p \in Pages(t) : ~t.page[p].leaf}

(* Bound: an insertion finds the pages it may need, one for each level and *)
(* one for a new root, and the tree may grow.                              *)
Levels(t) == Cardinality({d \in 0 .. LEVELS : Level(t)[d] # {}})
Room(t)   == Cardinality(PageId \ t.used) > Levels(t) /\ Levels(t) < LEVELS

(* Insert(key, value) makes a root when there is none. *)
Rooted(t) ==
  IF t.root # NULL_ID THEN t
  ELSE [New(t, NULL_ID, NULL_ID, NULL_ID, NULL_ID, TRUE) EXCEPT !.root = FreshId(t)]

Insert(k, v) ==
  LET t == Rooted(tree)
      p == InsertLeaf(t, t.root, k)
      i == IF Find(t, p, k) = 0 THEN Size(t, p) + 1 ELSE Find(t, p, k)
  IN /\ Room(tree)
     /\ p # NULL_ID
     /\ tree' = Adjust(InsertAt(t, p, i, v, k), p)
     /\ map' = [map EXCEPT ![k] = v]
     /\ reply' = Answer(TRUE, Absent)

InsertExisting(k) ==
  /\ tree.root # NULL_ID /\ InsertLeaf(tree, tree.root, k) = NULL_ID
  /\ reply' = Answer(FALSE, Absent)
  /\ UNCHANGED <<tree, map>>

Remove(k) ==
  LET p == LeafFor(tree, tree.root, k)
  IN /\ Lookup(tree, k) # Absent
     /\ tree' = Adjust(RemoveAt(tree, p, Find(tree, p, k)), p)
     /\ map' = [map EXCEPT ![k] = Absent]
     /\ reply' = Answer(TRUE, Absent)

RemoveMissing(k) ==
  /\ Lookup(tree, k) = Absent
  /\ reply' = Answer(FALSE, Absent)
  /\ UNCHANGED <<tree, map>>

Query(k) ==
  /\ reply' = Answer(Lookup(tree, k) # Absent, Lookup(tree, k))
  /\ UNCHANGED <<tree, map>>

Next == \E k \in Key : \/ InsertExisting(k) \/ Remove(k) \/ RemoveMissing(k) \/ Query(k)
                       \/ \E v \in Value : Insert(k, v)

Spec == Init /\ [][Next]_vars

-----------------------------------------------------------------------------
NodeType == [parent : Cell, place : 1 .. MAX_NUM \cup {NULL_ID}, next : Cell, leaf : BOOLEAN,
             keys : Seq(Key), kids : Seq(Value \cup PageId)]

TypeOK ==
  /\ tree.root \in Cell /\ tree.used \subseteq PageId
  /\ tree.page \in [PageId -> NodeType]
  /\ reply \in [ok : BOOLEAN, value : Value \cup {Absent}]

(* Every leaf is equally deep, and every child knows its parent and its    *)
(* place there, although a split, a loan or a merge moves children one by  *)
(* one through pages that know different parents (b_plus_page.h:46-52,     *)
(* BPlusTreeIndexTable.h:239-331).                                         *)
TreeShape ==
  /\ \A d \in 0 .. LEVELS : \A p, q \in Level(tree)[d] : tree.page[p].leaf = tree.page[q].leaf
  /\ tree.root # NULL_ID => tree.page[tree.root].parent = NULL_ID
  /\ \A p \in Inner(tree) : \A i \in 1 .. Size(tree, p) :
       LET c == tree.page[p].kids[i]
       IN tree.page[c].parent = p /\ tree.page[c].place = i

(* No page overflows or runs low between two calls (Adjust, lines          *)
(* 239-331).                                                               *)
Occupancy ==
  \A p \in Pages(tree) :
    /\ Size(tree, p) < MAX_NUM
    /\ Size(tree, p) >= IF p # tree.root THEN MAX_NUM \div 2
                        ELSE IF tree.page[p].leaf THEN 1 ELSE 2

(* Keys ascend, and an inner key is the last key below it: SetParentIndex  *)
(* (b_plus_page.h:210-218) reaches every ancestor it has to.               *)
KeysOrdered ==
  /\ \A p \in Pages(tree) : \A i, j \in 1 .. Size(tree, p) :
       i < j => tree.page[p].keys[i] < tree.page[p].keys[j]
  /\ \A p \in Inner(tree) : \A i \in 1 .. Size(tree, p) :
       LET c == tree.page[p].kids[i]
       IN /\ tree.page[p].keys[i] = LastKey(tree, c)
          /\ i > 1 => tree.page[p].keys[i - 1] < tree.page[c].keys[1]

(* The pages the tree took from the file system and has not given back are *)
(* those it is made of: merging and shrinking leak none and free none that *)
(* is still linked (b_plus_page.h:180-195).                                *)
NoPageLost == tree.used = Pages(tree)

(* A key is found exactly if it is in the dictionary (Query, lines         *)
(* 152-173), and each call answers as a dictionary does.                   *)
QueryFinds == \A k \in Key : Lookup(tree, k) = map[k]

Map == INSTANCE Dictionary
RefinesDictionary == Map!Spec

(* Iterable.h:32-37, "correct use: ... while (!it->Null()) { it->Get();    *)
(* it->Next(); }": Next of each leaf is the leaf with the keys after its   *)
(* own, so that a walk from the first leaf goes through all and ends.      *)
LeafChain ==
  LET leaves   == Pages(tree) \ Inner(tree)
      First(p) == tree.page[p].keys[1]
  IN \A p \in leaves :
       LET after == {q \in leaves : First(q) > First(p)}
       IN IF after = {} THEN tree.page[p].next = NULL_ID
          ELSE tree.page[p].next \in {q \in after : \A r \in after : First(q) <= First(r)}
==============================================================================
