---------------------------- MODULE QueryIterators -----------------------------
(***************************************************************************)
(* Query/*.h: relational operators as iterators over iterators.            *)
(* A query is a record [op, ...] whose a and b are the queries it reads;   *)
(* an iterator is a record [kind, ...] whose a and b are the iterators it  *)
(* moves.  Null, Get and Moved are Iterable.h's Null(), Get() and Next().  *)
(* An iterator of kind "thrown" stands for a call that did not return: it  *)
(* threw, or went through a null pointer.                                  *)
(***************************************************************************)
EXTENDS SortedTable

Part(at, size) == <<Range(at, size)>>

Table(rows, words)      == [op |-> "table", rows |-> rows, words |-> words]
SelectQuery(a, filter)  == [op |-> "select", a |-> a, filter |-> filter]
ProjectionQuery(a, p)   == [op |-> "project", a |-> a, part |-> p]
SortQuery(a, part)      == [op |-> "sort", a |-> a, part |-> part]
DistinctQuery(a, part)  == [op |-> "distinct", a |-> a, part |-> part]
UnionQuery(a, b)        == [op |-> "union", a |-> a, b |-> b]
IntersectionQuery(a, b) == [op |-> "intersect", a |-> a, b |-> b]
SubQuery(a, b)          == [op |-> "sub", a |-> a, b |-> b]
JoinQuery(a, b, ap, bp) == [op |-> "join", a |-> a, b |-> b, ap |-> ap, bp |-> bp]
GroupQuery(a, key, p, memory) ==
  [op |-> "group", a |-> a, key |-> key, part |-> p, memory |-> memory]

(* RecordSize(); 0 where it throws.  A group says its input's.             *)
RECURSIVE RecordSize(_)
RecordSize(q) ==
  CASE q.op = "table" -> q.words
    [] q.op = "project" -> PartSize(q.part)
    [] q.op = "join" -> IF PartSize(q.ap) = PartSize(q.bp) THEN RecordSize(q.a) + RecordSize(q.b) ELSE 0
    [] q.op \in {"union", "intersect", "sub"} ->
         IF RecordSize(q.a) = RecordSize(q.b) THEN RecordSize(q.a) ELSE 0
    [] OTHER -> RecordSize(q.a)

(* GetIndexPart(): the part a query says it is sorted by.                  *)
Whole(q) == Part(1, RecordSize(q.a))
GetIndexPart(q) ==
  CASE q.op \in {"sort", "distinct"} -> q.part
    [] q.op \in {"intersect", "sub"} -> Whole(q)
    [] q.op = "join" -> q.ap
    [] q.op = "group" -> q.key
    [] OTHER -> EmptyIndexPart

(* CompareIntegerFilter::f and AndFilter::f.  A filter is a sequence of    *)
(* conditions, all of which must hold; a "null" one is a null pointer.     *)
Holds(c, r) ==
  LET v == GetIndex(r, c.part)[1]
  IN CASE c.type = "less"    -> v < c.value
       [] c.type = "greater" -> v > c.value
       [] c.type = "equal"   -> v = c.value
       [] c.type = "greater_equal" -> v >= c.value
       [] c.type = "less_equal"    -> v <= c.value
       [] c.type = "no_equal"      -> v # c.value
       [] OTHER -> FALSE
Passes(filter, r)  == \A i \in DOMAIN filter : Holds(filter[i], r)
Crashes(filter, r) ==
  \E i \in DOMAIN filter : filter[i].type = "null" /\ \A j \in 1 .. i - 1 : Holds(filter[j], r)

-----------------------------------------------------------------------------
RECURSIVE Null(_), Get(_), Moved(_)

MovedA(it) == [it EXCEPT !.a = Moved(@)]
MovedB(it) == [it EXCEPT !.b = Moved(@)]

(* Select: on to the next record that passes. *)
RECURSIVE Selected(_)
Selected(it) ==
  IF Null(it.a) THEN it
  ELSE IF Crashes(it.filter, Get(it.a)) THEN [it EXCEPT !.a = Thrown]
  ELSE IF Passes(it.filter, Get(it.a)) THEN it
  ELSE Selected(MovedA(it))

SelectNext(it) == Selected(MovedA(it))

(* Union: the first input to its end, then the second. *)
UnionNext(it) == IF ~Null(it.a) THEN MovedA(it) ELSE MovedB(it)
UnionGet(it)  == IF ~Null(it.a) THEN Get(it.a) ELSE Get(it.b)

(* Join and Intersection: both inputs on until their keys are equal. *)
RECURSIVE Met(_)
Met(it) ==
  IF Null(it.a) \/ Null(it.b) THEN it
  ELSE LET x == GetIndex(Get(it.a), it.ap)
           y == GetIndex(Get(it.b), it.bp)
       IN IF Before(x, y) THEN Met(MovedA(it))
          ELSE IF Before(y, x) THEN Met(MovedB(it))
          ELSE it

(* Slip: both inputs leave the record they agreed on. *)
IntersectionNextBoth(it) == Met(MovedA(MovedB(it)))

(* zigzag stays false, so it is always the second input that moves first.  *)
IntersectionNext(it) == Met(MovedB(it))

(* Slip: both sides leave the pair. *)
JoinNextBoth(it) == Met(MovedA(MovedB(it)))

(* Slip: in its turn the second side does not move. *)
JoinNextStays(it) ==
  Met(IF it.zigzag THEN [MovedA(it) EXCEPT !.zigzag = FALSE] ELSE [it EXCEPT !.zigzag = TRUE])

(* zigzag changes with every call, whatever the key.                       *)
JoinNext(it) ==
  Met(IF it.zigzag THEN [MovedA(it) EXCEPT !.zigzag = FALSE] ELSE [MovedB(it) EXCEPT !.zigzag = TRUE])
JoinGet(it) == Get(it.a) \o Get(it.b)

(* Difference: past the records of a that are in b as well. *)
RECURSIVE Subtracted(_)
Subtracted(it) ==
  IF Null(it.a) \/ Null(it.b) \/ Before(Get(it.a), Get(it.b)) THEN it
  ELSE IF Before(Get(it.b), Get(it.a)) THEN Subtracted(MovedB(it))
  ELSE Subtracted(MovedA(it))

SubNext(it) == Subtracted(MovedA(it))

(* Distinct: past the records that equal the one it stood on. *)
RECURSIVE PastEqual(_, _)
PastEqual(it, r) == IF ~Null(it.a) /\ Get(it.a) = r THEN PastEqual(MovedA(it), r) ELSE it

DistinctNext(it) == PastEqual(MovedA(it), Get(it.a))

-----------------------------------------------------------------------------
(* Group: Cal() runs through the records of the next key and sums them up. *)
(* stats[i] is <<sum, count, max, min>> of the i-th summed word.           *)
(* now_slice points into a temporary that is gone when the loop compares   *)
(* with it.  memory says what the build has left there: "kept", the key;   *)
(* or "overwritten", by the temporary of the same loop that the key is     *)
(* compared with, so that they are equal.  Compilers do the one without    *)
(* and the other with optimization.                                        *)
INT32_MIN == -2147483647 - 1
INT32_MAX == 2147483647
NoStats(it) == [i \in DOMAIN it.part |-> <<0, 0, INT32_MIN, INT32_MAX>>]

Added(stats, vals) ==
  [i \in DOMAIN stats |->
     <<stats[i][1] + vals[i], stats[i][2] + 1,
       IF stats[i][3] >= vals[i] THEN stats[i][3] ELSE vals[i],
       IF stats[i][4] <= vals[i] THEN stats[i][4] ELSE vals[i]>>]

ClassEnds(it, now) == it.memory = "kept" /\ GetIndex(Get(it.a), it.key) # now

RECURSIVE Summed(_, _)
Summed(it, now) ==
  IF Null(it.a) \/ ClassEnds(it, now) THEN it
  ELSE LET vals == [i \in DOMAIN it.part |-> GetIndex(Get(it.a), <<it.part[i]>>)[1]]
       IN Summed([MovedA(it) EXCEPT !.stats = Added(@, vals)], now)

(* On an empty input now_slice is whatever the heap's memory holds.        *)
Cal(it) ==
  IF Null(it.a) THEN [it EXCEPT !.stats = NoStats(it), !.now = <<>>]
  ELSE LET now == GetIndex(Get(it.a), it.key)
       IN Summed([it EXCEPT !.stats = NoStats(it), !.now = now], now)

(* Slip: the totals are not reset for the next key. *)
GroupNextKept(it) ==
  IF Null(it.a) THEN it
  ELSE LET now == GetIndex(Get(it.a), it.key) IN Summed([it EXCEPT !.now = now], now)

GroupNext(it) == IF Null(it.a) THEN it ELSE Cal(it)
GroupGet(it)  == it.now \o Seqs!FlattenSeq(it.stats)

-----------------------------------------------------------------------------
Null(it) ==
  CASE it.kind = "thrown" -> TRUE
    [] it.kind = "rows"   -> it.rows = <<>>
    [] it.kind = "merge"  -> MergeNull(it)
    [] it.kind = "union"  -> Null(it.b)
    [] it.kind \in {"join", "intersect"} -> Null(it.a) \/ Null(it.b)
    [] OTHER -> Null(it.a)

Get(it) ==
  CASE it.kind = "rows"    -> Head(it.rows)
    [] it.kind = "merge"   -> MergeGet(it)
    [] it.kind = "project" -> GetIndex(Get(it.a), it.part)
    [] it.kind = "union"   -> UnionGet(it)
    [] it.kind = "join"    -> JoinGet(it)
    [] it.kind = "group"   -> GroupGet(it)
    [] OTHER -> Get(it.a)

Moved(it) ==
  CASE it.kind = "rows"      -> [it EXCEPT !.rows = Tail(@)]
    [] it.kind = "merge"     -> MergeNext(it)
    [] it.kind = "select"    -> SelectNext(it)
    [] it.kind = "project"   -> MovedA(it)
    [] it.kind = "union"     -> UnionNext(it)
    [] it.kind = "intersect" -> IntersectionNext(it)
    [] it.kind = "join"      -> JoinNext(it)
    [] it.kind = "sub"       -> SubNext(it)
    [] it.kind = "distinct"  -> DistinctNext(it)
    [] it.kind = "group"     -> GroupNext(it)

(* A call below did not return. *)
RECURSIVE Dead(_)
Dead(it) ==
  \/ it.kind = "thrown"
  \/ it.kind \notin {"thrown", "rows", "merge"} /\ Dead(it.a)
  \/ it.kind \in {"union", "intersect", "join", "sub"} /\ Dead(it.b)

-----------------------------------------------------------------------------
(* while (!it->Null()) { it->Get(); it->Next(); } : what it gets, and the  *)
(* iterator that is left.                                                  *)
RECURSIVE Rows(_), Last(_)
Rows(it) == IF Null(it) THEN <<>> ELSE <<Get(it)>> \o Rows(Moved(it))
Last(it) == IF Null(it) THEN it ELSE Last(Moved(it))

(* SortedTable over an iterable: each record must have the size it says,   *)
(* and the iterator comes with the runs made and loaded.                   *)
SortedIterator(it, part, words) ==
  LET rows == Rows(it)
  IN IF Dead(Last(it)) \/ \E i \in DOMAIN rows : Len(rows[i]) # words THEN Thrown
     ELSE Merge(rows, part, words)

(* SortQuery's iterator, over the iterator it of query q, whose size is    *)
(* asked for: the input as it is, if its part is equal.                    *)
SortIterator(q, it, part) ==
  IF Dead(it) \/ RecordSize(q) = 0 THEN Thrown
  ELSE IF SamePart(GetIndexPart(q), part) THEN it
  ELSE SortedIterator(it, part, RecordSize(q))

Pair(q, a, b, ap, bp) == [kind |-> q.op, a |-> a, b |-> b, ap |-> ap, bp |-> bp, zigzag |-> FALSE]

(* GenerateIterator(): the constructors run Init(). *)
RECURSIVE GenerateIterator(_)
GenerateIterator(q) ==
  LET a == GenerateIterator(q.a)
      b == GenerateIterator(q.b)
      it ==
        CASE q.op = "table"     -> [kind |-> "rows", rows |-> q.rows]
          [] q.op = "select"    -> Selected([kind |-> "select", a |-> a, filter |-> q.filter])
          [] q.op = "project"   -> [kind |-> "project", a |-> a, part |-> q.part]
          [] q.op = "sort"      -> SortIterator(q.a, a, q.part)
          [] q.op = "distinct"  -> [kind |-> "distinct", a |-> SortIterator(q.a, a, q.part)]
          [] q.op = "union"     -> [kind |-> "union", a |-> a, b |-> b]
          [] q.op = "intersect" -> Met(Pair(q, SortIterator(q.a, a, Whole(q)), SortIterator(q.b, b, Whole(q)),
                                            Whole(q), Whole(q)))
          [] q.op = "sub"       -> Subtracted([kind |-> "sub", a |-> SortIterator(q.a, a, Whole(q)),
                                               b |-> SortIterator(q.b, b, Whole(q))])
          [] q.op = "join"      -> IF ~SamePart(q.ap, q.bp) THEN Thrown
                                   ELSE Met(Pair(q, SortIterator(q.a, a, q.ap), SortIterator(q.b, b, q.bp),
                                                 q.ap, q.bp))
          [] q.op = "group"     -> Cal([kind |-> "group", a |-> SortIterator(q.a, a, q.key),
                                        key |-> q.key, part |-> q.part, memory |-> q.memory,
                                        now |-> <<>>, stats |-> <<>>])
  IN IF Dead(it) THEN Thrown ELSE it
==============================================================================
