------------------------------- MODULE BPlusPage ------------------------------
(***************************************************************************)
(* b_plus_page.h: the pages of a B+ tree, and the writes its methods make. *)
(* A tree is a record:                                                     *)
(*   root   the cell of the root page that holds the tree's root           *)
(*   page   [PageId -> [parent, place, next, leaf, keys, kids]]            *)
(*   used   the pages that fs.New gave out and nobody deleted              *)
(* keys and kids are Index and Child; place is ParentIndexId.  Positions   *)
(* are counted from 1 here and from 0 in the code.  In a leaf the kids are *)
(* the values.  Each operator returns the tree after the call.             *)
(***************************************************************************)
EXTENDS Integers, Sequences, FiniteSets

CONSTANTS PAGES,           \* the pages the file system can hand out
          LEVELS           \* bound: the levels a tree may have

ASSUME PageAssumption == PAGES \in Nat /\ LEVELS \in Nat \ {0}

Seqs == INSTANCE SequencesExt

NULL_ID == -1
PageId  == 0 .. PAGES - 1
Cell    == PageId \cup {NULL_ID}

Size(t, p)    == Len(t.page[p].keys)
LastKey(t, p) == t.page[p].keys[Size(t, p)]

(* A method that calls itself page by page: the tree, and the page whose   *)
(* turn is next.                                                           *)
Go(t, p) == [tree |-> t, page |-> p]
Done(t)  == Go(t, NULL_ID)

(* Slip: it stops at the parent. *)
SetParentIndexOnce(t, p) ==
  LET q == t.page[p].parent
      i == t.page[p].place
  IN IF q = NULL_ID THEN t ELSE [t EXCEPT !.page[q].keys[i] = LastKey(t, p)]

(* A page's last key goes up into its parent, and on while the page is the *)
(* last child.                                                             *)
Raise(s) ==
  LET t == s.tree
      p == s.page
      q == t.page[p].parent
      i == t.page[p].place
      u == [t EXCEPT !.page[q].keys[i] = LastKey(t, p)]
  IN IF p = NULL_ID THEN s
     ELSE IF q = NULL_ID THEN Done(t)
     ELSE IF i = Size(t, q) THEN Go(u, q) ELSE Done(u)

SetParentIndex(t, p) ==
  LET at[n \in 0 .. LEVELS] == IF n = 0 THEN Go(t, p) ELSE Raise(at[n - 1])
  IN at[LEVELS].tree

(* Slip: only the new child is told. *)
AdoptedOne(page, p, i) ==
  LET kids == page[p].kids
  IN IF page[p].leaf \/ i > Len(kids) THEN page
     ELSE [page EXCEPT ![kids[i]].parent = p, ![kids[i]].place = i]

(* Child(j, c) for the children of p from position i on: writing a child   *)
(* of an inner page tells the child its parent and its place.              *)
Adopted(page, p, i) ==
  LET kids == page[p].kids
  IN IF page[p].leaf THEN page
     ELSE [q \in PageId |->
             IF \E j \in i .. Len(kids) : kids[j] = q
             THEN [page[q] EXCEPT !.parent = p,
                                  !.place = CHOOSE j \in i .. Len(kids) : kids[j] = q]
             ELSE page[q]]

(* Slip: index and child are confused. *)
InsertAtSwapped(t, p, i, kid, key) ==
  [t EXCEPT !.page[p].keys = Seqs!InsertAt(@, i, kid),
            !.page[p].kids = Seqs!InsertAt(@, i, key)]

(* Insert(i, to_page_id, index) *)
InsertAt(t, p, i, kid, key) ==
  LET written == [t.page EXCEPT ![p].keys = Seqs!InsertAt(@, i, key),
                                ![p].kids = Seqs!InsertAt(@, i, kid)]
      u == [t EXCEPT !.page = Adopted(written, p, i)]
  IN IF i = Size(u, p) THEN SetParentIndex(u, p) ELSE u

(* Insert(i, child_id) *)
InsertPage(t, p, i, c) == InsertAt(t, p, i, c, LastKey(t, c))

(* Remove(i) *)
RemoveAt(t, p, i) ==
  LET written == [t.page EXCEPT ![p].keys = Seqs!RemoveAt(@, i),
                                ![p].kids = Seqs!RemoveAt(@, i)]
      u == [t EXCEPT !.page = Adopted(written, p, i)]
  IN IF i = Size(u, p) + 1 /\ Size(u, p) # 0 THEN SetParentIndex(u, p) ELSE u

(* fs.New(): which of the unused pages it is does not matter, for the tree *)
(* compares page numbers with NULL_ID only.                                *)
FreshId(t) == CHOOSE p \in PageId : p \notin t.used

(* New(parent, parent_index, next, prev, is_leaf): the page is FreshId(t). *)
New(t, parent, place, next, prev, leaf) ==
  LET id   == FreshId(t)
      made == [t.page EXCEPT ![id] = [parent |-> parent, place |-> place, next |-> next,
                                      leaf |-> leaf, keys |-> <<>>, kids |-> <<>>]]
  IN [t EXCEPT !.used = @ \cup {id},
               !.page = IF prev # NULL_ID THEN [made EXCEPT ![prev].next = id] ELSE made]

(* Delete(id): the page before it is looked for under the same parent.  A  *)
(* page without parent passes the root on to its only child.               *)
Detached(t, id) ==
  LET p    == t.page[id]
      kin  == t.page[p.parent].kids
      skip == IF p.place > 1
              THEN [t EXCEPT !.page[kin[p.place - 1]].next = p.next] ELSE t
      orphan == [t EXCEPT !.page[p.kids[1]].parent = NULL_ID, !.page[p.kids[1]].place = NULL_ID]
  IN IF p.parent # NULL_ID THEN RemoveAt(skip, p.parent, p.place)
     ELSE IF Size(t, id) = 1 THEN orphan ELSE t

(* Slip: the page is not given back. *)
DeleteKept(t, id) == Detached(t, id)

Delete(t, id) == [Detached(t, id) EXCEPT !.used = @ \ {id}]
==============================================================================
