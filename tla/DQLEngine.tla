------------------------------- MODULE DQLEngine -------------------------------
(***************************************************************************)
(* DQLEngine.h: queries by column name.  An execution stack is a sequence  *)
(* of [iterable, infos, fromFile], its top last; infos says of each column *)
(* what it is and where in the record it is: [type, begin, size], in       *)
(* words, the first word being 1.                                          *)
(* A word of text with no NUL byte in it is a number from FULL_WORD on;    *)
(* the integers are small and have NUL bytes.                              *)
(***************************************************************************)
EXTENDS QueryIterators, Columns

FULL_WORD == 100

StackEntry(iterable, infos, fromFile) == [iterable |-> iterable, infos |-> infos, fromFile |-> fromFile]

Top(stack)           == Seqs!Last(stack)
Pushed(stack, q, in) == Append(stack, StackEntry(q, in, FALSE))

GetFromFile(rows, words, infos) == <<StackEntry(Table(rows, words), infos, TRUE)>>

(* GetFilter: the conditions it may build.  With the operators it does not *)
(* know, the type is left uninitialized; on text there is no filter.       *)
Types == {"less", "greater", "equal", "greater_equal", "less_equal", "no_equal", "other"}
TypesOf(op) ==
  CASE op = "<"  -> {"less"}
    [] op = ">"  -> {"greater"}
    [] op = "="  -> {"equal"}
    [] op = ">=" -> {"greater_equal"}
    [] OTHER     -> Types

GetFilters(c, top) ==
  IF c.name \in DOMAIN top.infos /\ top.infos[c.name].type = "int"
  THEN LET part == Part(top.infos[c.name].begin, top.infos[c.name].size)
       IN {[part |-> part, type |-> t, value |-> c.value] : t \in TypesOf(c.op)}
  ELSE {[type |-> "null"]}

(* Of a column that exists; with another, Sort reads where map::end()      *)
(* points (DQLEngine.h:248), and what it does then is left open.           *)
ColumnPart(column, top) == Part(top.infos[column].begin, top.infos[column].size)

Select(filter, stack) == Pushed(stack, SelectQuery(Top(stack).iterable, filter), Top(stack).infos)
Sort(column, stack) ==
  Pushed(stack, SortQuery(Top(stack).iterable, ColumnPart(column, Top(stack))), Top(stack).infos)

(* Slip: the columns do not move on to where the last one ended. *)
ProjectionUnmoved(columns, stack) ==
  LET in   == Top(stack).infos
      cols == SelectSeq(columns, LAMBDA c : c \in DOMAIN in)
      part == [i \in DOMAIN cols |-> Range(in[cols[i]].begin, in[cols[i]].size)]
  IN Pushed(stack, ProjectionQuery(Top(stack).iterable, part),
            [c \in Seqs!ToSet(cols) |-> ColumnInfo(in[c].type, 1, in[c].size)])

(* The columns that exist, one after the other; of a column named twice,   *)
(* the later place is kept.                                                *)
Projection(columns, stack) ==
  LET in   == Top(stack).infos
      cols == SelectSeq(columns, LAMBDA c : c \in DOMAIN in)
      part == [i \in DOMAIN cols |-> Range(in[cols[i]].begin, in[cols[i]].size)]
      at(c) == CHOOSE i \in DOMAIN cols : cols[i] = c /\ \A j \in i + 1 .. Len(cols) : cols[j] # c
  IN Pushed(stack, ProjectionQuery(Top(stack).iterable, part),
            [c \in Seqs!ToSet(cols) |->
               ColumnInfo(in[c].type, 1 + PartSize(SubSeq(part, 1, at(c) - 1)), in[c].size)])

-----------------------------------------------------------------------------
(* Return(): what becomes of a record.  A text column is read as the part  *)
(* of a C string that begins with the record; where that string ends       *)
(* before the column does begin, std::string throws.                       *)
TextLength(r) == CHOOSE n \in 0 .. Len(r) : /\ \A i \in 1 .. n : r[i] >= FULL_WORD
                                            /\ n < Len(r) => r[n + 1] < FULL_WORD
ItemThrows(r, infos) ==
  \E c \in DOMAIN infos : infos[c].type = "varchar" /\ infos[c].begin - 1 > TextLength(r)
Item(r, infos) ==
  [c \in DOMAIN infos |->
     LET first == infos[c].begin
         last  == first + infos[c].size - 1
     IN IF infos[c].type = "int" THEN r[first]
        ELSE SubSeq(r, first, IF last <= TextLength(r) THEN last ELSE TextLength(r))]
==============================================================================
