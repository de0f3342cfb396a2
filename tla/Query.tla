--------------------------------- MODULE Query ---------------------------------
(***************************************************************************)
(* A client that runs one query: GenerateIterator(), then Get() and Next() *)
(* until Null(), as Iterable.h:32-37 says and DQLEngine::Return does.      *)
(*   query    entry, the top of an execution stack: its iterable is read,  *)
(*            as items if it has columns and as records if it has none;    *)
(*            and ask, the question the stack was built for                *)
(*   it, out  the iterator, and what it has given so far                   *)
(*   status   "new", "open", "done"; "thrown" if a call did not return     *)
(*   given    what each input of a query without a question gives by       *)
(*            itself, for the properties only                              *)
(***************************************************************************)
EXTENDS DQLEngine, FiniteSets

CONSTANT Queries,    \* the queries to run, each Plain(q) or one of Asked(ask)
         Unknown     \* a word read through a dangling pointer

VARIABLES query, it, out, status, given

vars == <<query, it, out, status, given>>

(* What SelectTableTest of Console.h does, for any two conditions, order   *)
(* and columns: from the file, where, order by, select; ask.infos and      *)
(* ask.words are what the file's configuration says of its records.        *)
Stacks(ask) ==
  LET file == GetFromFile(ask.rows, ask.words, ask.infos)
  IN {Projection(ask.columns, Sort(ask.order, Select(<<fa, fb>>, file))) :
        fa \in GetFilters(ask.where[1], Top(file)), fb \in GetFilters(ask.where[2], Top(file))}

(* The queries to choose from: with the question asked, or without one.    *)
NoAsk == [rows |-> <<>>]
Asked(ask)  == {[entry |-> Top(s), ask |-> ask] : s \in Stacks(ask)}
Plain(plan) == [entry |-> StackEntry(plan, NoColumns, FALSE), ask |-> NoAsk]

Closed == [kind |-> "rows", rows |-> <<>>]

(* What Get() may give: a group's key is read where a temporary has been,  *)
(* so it may have been overwritten since.                                  *)
Deliveries ==
  IF it.kind # "group" THEN {Get(it)}
  ELSE {Get(it), [i \in DOMAIN it.now |-> Unknown] \o Seqs!FlattenSeq(it.stats)}

Delivered(r) == IF query.entry.infos = NoColumns THEN r ELSE Item(r, query.entry.infos)

Inputs(asked) ==
  IF asked.ask # NoAsk \/ asked.entry.iterable.op = "table" THEN {}
  ELSE {asked.entry.iterable.a}
         \cup IF asked.entry.iterable.op \in {"union", "intersect", "sub", "join"}
              THEN {asked.entry.iterable.b} ELSE {}

Init ==
  /\ query \in Queries /\ it = Closed
  /\ out = <<>> /\ status = "new" /\ given = <<>>

Open ==
  /\ status = "new"
  /\ it' = GenerateIterator(query.entry.iterable)
  /\ status' = IF Dead(it') THEN "thrown" ELSE "open"
  /\ given' = [plan \in Inputs(query) |-> Rows(GenerateIterator(plan))]
  /\ UNCHANGED <<query, out>>

Turn ==
  /\ status = "open" /\ ~Null(it)
  /\ \E r \in Deliveries :
       IF ItemThrows(r, query.entry.infos)
       THEN status' = "thrown" /\ UNCHANGED <<it, out>>
       ELSE /\ it' = Moved(it)
            /\ out' = Append(out, Delivered(r))
            /\ status' = IF Dead(it') THEN "thrown" ELSE "open"
  /\ UNCHANGED <<query, given>>

End ==
  /\ status = "open" /\ Null(it)
  /\ status' = "done"
  /\ UNCHANGED <<query, it, out, given>>

Next == Open \/ Turn \/ End

Spec == Init /\ [][Next]_vars

-----------------------------------------------------------------------------
(* The query operators a property is about, and what their inputs give.    *)
Is(op)  == query.entry.iterable.op = op
q       == query.entry.iterable
InA     == given[q.a]
InB     == given[q.b]
Count(s, x) == Cardinality({i \in DOMAIN s : s[i] = x})
Members(s)  == Seqs!ToSet(s)
InOrder(s, part) ==
  \A i \in 1 .. Len(s) - 1 : ~Before(GetIndex(s[i + 1], part), GetIndex(s[i], part))

(* At every step of a merge each record of the input is given, in the heap *)
(* or in a run, and as often as in the input; nothing that waits comes     *)
(* before what has been given; and the merge is not over while a run has   *)
(* records (SortedTable.h:76-175, priority_queue.h).  The order is the one *)
(* asked for, or that of an input sorted by a part that looks the same     *)
(* (definition.h:85).                                                      *)
Merging == status \in {"open", "done"} /\ Is("sort") /\ it.kind = "merge"
Waiting(x) == Cardinality({i \in DOMAIN it.heap : it.heap[i].row = x})
              + Len(SelectSeq(Seqs!FlattenSeq(it.runs), LAMBDA y : y = x))

MergeKeepsRecords ==
  Merging /\ query.ask = NoAsk =>
    /\ \A x \in Members(InA) : Count(InA, x) = Count(out, x) + Waiting(x)
    /\ HeapOrdered(it.heap, it.part) /\ InOrder(out, it.part)
    /\ \A i \in DOMAIN it.heap :
          /\ out # <<>> => InOrder(<<Seqs!Last(out), it.heap[i].row>>, it.part)
          /\ InOrder(<<it.heap[i].row>> \o it.runs[it.heap[i].run], it.part)
    /\ it.part = q.part \/ SamePart(GetIndexPart(q.a), q.part)
    /\ MergeNull(it) => Members(it.runs) = {<<>>}

(* A sort fails exactly when its input takes more runs than the heap of    *)
(* the merge has places (SortedTable.h:141); it is never cut short.        *)
SortThrows ==
  status # "new" /\ Is("sort") /\ q.a.op = "table" =>
    LET run  == Slots(q.a.words) - 1
        runs == Slots(q.a.words + 1) - 1
    IN status = "thrown" <=> Len(q.a.rows) > run * runs

(* Each set operator gives the rows its name says: a union, if its second  *)
(* input has rows, all rows of the first and then of the second            *)
(* (Union.h:41-51); an intersection the rows of the second input that are  *)
(* in the first; a difference the rows of the first that are not in the    *)
(* second; distinct every row, and no row twice in a row.                  *)
SetOperators ==
  status = "done" /\ query.ask = NoAsk =>
    /\ Is("union") /\ InB # <<>> => out = InA \o InB
    /\ Is("intersect") =>
         /\ Members(out) = Members(InA) \cap Members(InB)
         /\ \A x \in Members(out) : Count(out, x) = Count(InB, x)
    /\ Is("sub") =>
         /\ Members(out) = Members(InA) \ Members(InB)
         /\ \A x \in Members(out) : Count(out, x) = Count(InA, x)
    /\ Is("distinct") =>
         /\ Members(out) = Members(InA)
         /\ \A i \in 1 .. Len(out) - 1 : out[i] # out[i + 1]
         /\ q.part = Whole(q) => \A x \in Members(out) : Count(out, x) = 1

(* A join gives pairs of rows with equal keys, no pair more often than     *)
(* there are such rows.  As it moves on one side at a time, in turns, it   *)
(* makes at least one pair less than twice the fewer of the rows of a key  *)
(* on either side (Join.h:72-93); but of an input that is not in the order *)
(* it says it is in (definition.h:85), it may pass rows without a pair.    *)
Keys(s, part)     == {GetIndex(s[i], part) : i \in DOMAIN s}
OfKey(s, part, k) == {i \in DOMAIN s : GetIndex(s[i], part) = k}
Ordered(rows, part) == \A i, j \in DOMAIN rows : i < j => InOrder(<<rows[i], rows[j]>>, part)
Deceives(plan, rows, part) == SamePart(GetIndexPart(plan), part) /\ ~Ordered(rows, part)

JoinPairs ==
  status = "done" /\ Is("join") =>
    LET w == RecordSize(q.a)
        a(r) == SubSeq(r, 1, w)
        b(r) == SubSeq(r, w + 1, Len(r))
    IN /\ \A r \in Members(out) :
            /\ GetIndex(a(r), q.ap) = GetIndex(b(r), q.bp)
            /\ Count(out, r) <= Count(InA, a(r)) * Count(InB, b(r))
       /\ Deceives(q.a, InA, q.ap) \/ Deceives(q.b, InB, q.bp)
            \/ \A k \in Keys(InA, q.ap) \cap Keys(InB, q.bp) :
                 LET m == Cardinality(OfKey(InA, q.ap, k))
                     n == Cardinality(OfKey(InB, q.bp, k))
                 IN Cardinality(OfKey(out, q.ap, k)) >= 2 * (IF m < n THEN m ELSE n) - 1

(* What a grouping gives are the right sums, counts, greatest and least    *)
(* values of the first groups, in the order of the keys, one after the     *)
(* other; how many of them is another question (Group.h:47-53, 71-90).     *)
Totals(s, part, k, at) ==
  LET is  == OfKey(s, part, k)
      val == {s[i][at] : i \in is}
      sum[n \in 0 .. Len(s)] == IF n = 0 THEN 0 ELSE sum[n - 1] + IF n \in is THEN s[n][at] ELSE 0
  IN <<sum[Len(s)], Cardinality(is),
       CHOOSE x \in val : \A y \in val : x >= y, CHOOSE x \in val : \A y \in val : x <= y>>

GroupTotals ==
  status = "done" /\ Is("group") =>
    LET keys  == Keys(InA, q.key)
        width == PartSize(q.key)
    IN /\ Len(out) <= Cardinality(keys)
       /\ \A k \in keys :
            LET place  == Cardinality({l \in keys : Before(l, k)}) + 1
                totals == Seqs!FlattenSeq([i \in DOMAIN q.part |-> Totals(InA, q.key, k, q.part[i].at)])
            IN place <= Len(out) =>
                 /\ SubSeq(out[place], width + 1, Len(out[place])) = totals
                 /\ \A i \in 1 .. width : out[place][i] \in {k[i], Unknown}

(* A question asked by column names is answered with the items of the rows *)
(* that satisfy both conditions, each once, in the order asked for; unless *)
(* a condition on text is reached, which is a null pointer                 *)
(* (DQLEngine.h:170), or a row has a text column to give that comes after  *)
(* a NUL byte of another column (DQLEngine.h:102), when it is not.         *)
(* Columns that do not exist are left out.  With an operator GetFilter     *)
(* does not know, nothing is promised.                                     *)
Satisfies(r, c, infos) ==
  LET v == r[infos[c.name].begin]
  IN \/ c.op = "<"  /\ v < c.value
     \/ c.op = ">"  /\ v > c.value
     \/ c.op = "="  /\ v = c.value
     \/ c.op = ">=" /\ v >= c.value

Words(r, col, infos) == SubSeq(r, infos[col].begin, infos[col].begin + infos[col].size - 1)
Field(r, col, infos) ==
  IF infos[col].type = "int" THEN r[infos[col].begin]
  ELSE SelectSeq(Words(r, col, infos), LAMBDA w : w >= FULL_WORD)

Reached(r, ask) ==
  LET text(i) == ask.infos[ask.where[i].name].type = "varchar"
  IN text(1) \/ (text(2) /\ Satisfies(r, ask.where[1], ask.infos))

NotGiven(r, ask) ==
  LET cols == SelectSeq(ask.columns, LAMBDA c : c \in DOMAIN ask.infos)
  IN \E i, j \in DOMAIN cols :
        /\ i < j /\ ask.infos[cols[j]].type = "varchar"
        /\ \E w \in Members(Words(r, cols[i], ask.infos)) : w < FULL_WORD

Answer(chosen, ask) ==
  \E f \in [DOMAIN chosen -> DOMAIN chosen] :
     /\ \A i, j \in DOMAIN chosen :
           i < j => /\ f[i] # f[j]
                    /\ ~Before(Words(chosen[f[j]], ask.order, ask.infos),
                               Words(chosen[f[i]], ask.order, ask.infos))
     /\ out = [i \in DOMAIN chosen |->
                 [c \in Members(ask.columns) \cap DOMAIN ask.infos |->
                    Field(chosen[f[i]], c, ask.infos)]]

DQLAnswers ==
  LET ask == query.ask
  IN status \in {"done", "thrown"} /\ ask # NoAsk
     /\ (\A i \in 1 .. 2 : ask.where[i].op \in {"<", ">", "=", ">="}) =>
       IF \E r \in Members(ask.rows) : Reached(r, ask) THEN status = "thrown"
       ELSE LET chosen == SelectSeq(ask.rows, LAMBDA r : \A i \in 1 .. 2 : Satisfies(r, ask.where[i], ask.infos))
            IN IF \E r \in Members(chosen) : NotGiven(r, ask) THEN status = "thrown"
               ELSE status = "done" /\ Answer(chosen, ask)

(* Whatever operators are put together, a Next that returns leaves fewer   *)
(* records to read below than there were, so that the loop of Iterable.h:  *)
(* 32-37 comes to an end: no operator stays on a record it has given, or   *)
(* moves on one side only while it waits for the other (Select.h:53-58,    *)
(* Join.h:72-93, Distinct.h:46-52, SortedTable.h:153-157).                 *)
RECURSIVE Left(_)
Left(i) ==
  CASE i.kind = "thrown" -> 0
    [] i.kind = "rows"   -> Len(i.rows)
    [] i.kind = "merge"  -> Len(i.heap) + Len(Seqs!FlattenSeq(i.runs))
    [] i.kind \in {"union", "intersect", "join", "sub"} -> Left(i.a) + Left(i.b)
    [] OTHER -> Left(i.a)

NextAdvances == [][out' # out => Left(it') < Left(it)]_vars

-----------------------------------------------------------------------------
(* What the comments say and the code does not do. *)

(* Union.h:11, "the union here is the simple concatenation of both tables". *)
UnionConcatenates == status = "done" /\ Is("union") => out = InA \o InB

(* Join.h:12, "sorts both tables, then puts the corresponding keys         *)
(* together": every row with every row of the same key.                    *)
JoinGivesAllPairs ==
  status = "done" /\ Is("join") =>
    \A x \in Members(InA), y \in Members(InB) :
       GetIndex(x, q.ap) = GetIndex(y, q.bp) => Count(out, x \o y) = Count(InA, x) * Count(InB, y)

(* Sort.h:12, "a sort query; the rule of the order has to be given".       *)
SortFollowsRule == status = "done" /\ Is("sort") => InOrder(out, q.part)

(* Group.h:11, "the iterator goes to the end of each class and puts out    *)
(* its statistics": of each class,                                         *)
EveryGroupGiven ==
  status = "done" /\ Is("group") => Len(out) = Cardinality(Keys(InA, q.key))

(* and at the end of each: those that end before the input does are given. *)
StopsAtClassEnd ==
  status = "done" /\ Is("group") => Len(out) >= Cardinality(Keys(InA, q.key)) - 1

(* What the classes of the operators are described to do, for every query. *)
OperatorsAsDescribed ==
  /\ UnionConcatenates
  /\ JoinGivesAllPairs
  /\ SortFollowsRule
  /\ EveryGroupGiven
  /\ StopsAtClassEnd
==============================================================================
