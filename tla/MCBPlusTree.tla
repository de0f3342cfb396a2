----------------------------- MODULE MCBPlusTree ------------------------------
(***************************************************************************)
(* BPlusTreeIndexTable.h with pages of at most three entries (a page that  *)
(* gets its fourth is split) and keys enough for trees of three levels, in *)
(* which inner pages are split, lend, borrow and merge.                    *)
(***************************************************************************)
EXTENDS BPlusTree

MCKey   == 1 .. 12
MCValue == {101, 102}

(* Only trees in which odd and even keys have different values are         *)
(* explored: an entry torn apart shows there.                              *)
Bound == \A k \in Key : map[k] \in {Absent, 101 + (k % 2)}

(* Two states are explored as one when their trees differ in page numbers, *)
(* in Next, which only the iterator acts upon, and in what TreeShape and   *)
(* NoPageLost fix.  With these, what a call does depends on the rest only. *)
RECURSIVE Nested(_)
Nested(p) ==
  LET n == tree.page[p]
  IN IF n.leaf THEN [keys |-> n.keys, kids |-> n.kids]
     ELSE [keys |-> n.keys, kids |-> [i \in 1 .. Len(n.kids) |-> Nested(n.kids[i])]]

Shape == <<TreeShape, NoPageLost, map, IF tree.root = NULL_ID THEN <<>> ELSE Nested(tree.root)>>
==============================================================================
