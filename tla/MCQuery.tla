-------------------------------- MODULE MCQuery --------------------------------
(***************************************************************************)
(* Queries over small tables, with a heap of 16 words: 3 records of 4      *)
(* words to a run and 2 runs to a merge, or 7 records of 2 words and 4     *)
(* runs; and questions to a table of two words of text and two integers.   *)
(***************************************************************************)
EXTENDS Query

Rows2    == {<<x, y>> : x, y \in {1, 2}}
Tables(n) == {Table(rows, 2) : rows \in Seqs!SeqOf(Rows2, n)}
First    == Part(1, 1)
Second   == Part(2, 1)
Both     == Part(1, 2)

(* Up to 7 records of 4 words, one more than a sort can take. *)
Keyed  == {Table([i \in DOMAIN s |-> <<s[i], i, 0, 0>>], 4) :
             s \in Seqs!SeqOf(1 .. 3, 6) \cup [1 .. 7 -> {1, 2}]}
Sorts  == {SortQuery(t, First) : t \in Keyed}

Binary ==
  UNION {{UnionQuery(a, b), IntersectionQuery(a, b), SubQuery(a, b),
          JoinQuery(a, b, First, First), JoinQuery(a, b, First, Second)} :
           a \in Tables(3), b \in Tables(2)}

(* What the build leaves where a grouping's key was. *)
Memory  == {"kept", "overwritten"}
Classes == {Table(rows, 2) : rows \in Seqs!SeqOf((1 .. 3) \X {1, 2}, 4)}

Unary ==
  {DistinctQuery(a, p) : a \in Tables(3), p \in {First, Both}}
    \cup {GroupQuery(a, First, p, m) : a \in Tables(3), p \in {Second, Second \o First}, m \in Memory}
    \cup {GroupQuery(t, First, Second, m) : t \in Classes, m \in Memory}

(* Operators over operators; a sort and a join whose input is sorted by a  *)
(* part of the same size; a sort of a grouping, whose records have not the *)
(* size it says; a join by parts of different sizes.                       *)
Nested ==
  UNION {{IntersectionQuery(IntersectionQuery(a, b), SubQuery(b, a)),
          SubQuery(UnionQuery(a, b), IntersectionQuery(a, b)),
          SortQuery(UnionQuery(a, b), Second),
          SortQuery(SortQuery(a, First), Second),
          SortQuery(GroupQuery(a, First, Second, "kept"), First),
          ProjectionQuery(JoinQuery(a, b, First, First), <<Range(4, 1), Range(1, 2)>>),
          DistinctQuery(ProjectionQuery(a, Second), First),
          JoinQuery(DistinctQuery(a, First), DistinctQuery(b, First), First, First),
          GroupQuery(JoinQuery(a, b, First, First), First, Part(4, 1), "kept"),
          JoinQuery(SortQuery(a, Second), b, First, First),
          SelectQuery(UnionQuery(a, b), <<[part |-> First, type |-> "equal", value |-> 1]>>),
          JoinQuery(a, b, First, Both)} : a, b \in Tables(2)}

(* Text of one word or of two, or none that ends within the column. *)
Infos == [name |-> ColumnInfo("varchar", 1, 2), id |-> ColumnInfo("int", 3, 1), age |-> ColumnInfo("int", 4, 1)]
People ==
  {[i \in DOMAIN s |-> <<s[i][1], s[i][2], i, s[i][3]>>] :
     s \in Seqs!SeqOf({<<100, 0, 17>>, <<100, 101, 18>>, <<101, 0, 18>>, <<101, 0, 20>>, <<100, 0, 20>>}, 3)}

Where(name, op, value) == [name |-> name, op |-> op, value |-> value]
Asks ==
  {[rows |-> p, words |-> 4, infos |-> Infos, where |-> w, order |-> o, columns |-> c] :
     p \in People,
     w \in {<<Where("age", ">=", 18), Where("id", "=", 2)>>,
            <<Where("age", "<", 20), Where("age", ">", 17)>>,
            <<Where("age", ">=", 18), Where("id", "<=", 2)>>,
            <<Where("age", ">", 17), Where("name", "=", 100)>>},
     o \in {"age"}, c \in {<<"name", "age">>, <<"age", "name">>}}
    \cup
  {[rows |-> p, words |-> 4, infos |-> Infos, order |-> "name", columns |-> <<"id", "age", "none">>,
    where |-> <<Where("age", ">=", 18), Where("age", "<", 20)>>] : p \in People}

MCQueries ==
  {Plain(p) : p \in Sorts \cup Binary \cup Unary \cup Nested} \cup UNION {Asked(a) : a \in Asks}

(* A query that is over stays as it is: any other end is a deadlock.       *)
Over   == status \in {"done", "thrown"} /\ UNCHANGED vars
MCSpec == Init /\ [][Next \/ Over]_vars

-----------------------------------------------------------------------------
(* The queries that the descriptions of the operators are compared with,    *)
(* one set for each.                                                       *)
Unions  == {Plain(UnionQuery(a, b)) : a, b \in Tables(2)}
Joins   == {Plain(JoinQuery(a, b, First, First)) : a, b \in Tables(2)}
Resorts == {Plain(SortQuery(SortQuery(a, First), Second)) : a \in Tables(2)}
Groups(m) == {Plain(GroupQuery(t, First, Second, m)) : t \in Classes}

Described == Unions \cup Joins \cup Resorts \cup Groups("kept") \cup Groups("overwritten")
==============================================================================
