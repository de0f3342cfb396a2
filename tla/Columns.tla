------------------------------- MODULE Columns -------------------------------
(***************************************************************************)
(* The columns of a table: what DDLEngine.h:Touch writes of each into the  *)
(* configuration of the table, and DQLEngine.h reads there.                *)
(***************************************************************************)
EXTENDS Integers, Sequences

NoColumns == [n \in {} |-> 0]

ColumnInfo(type, begin, size) == [type |-> type, begin |-> begin, size |-> size]

(* What a table is made with.  Sizes are in words, as in IndexPart.        *)
Column(name, type, size, state) == [name |-> name, type |-> type, size |-> size, state |-> state]

(* Column i, [name, type, size, state], begins where the last one ended.   *)
Begin(columns, i) ==
  LET after[n \in 0 .. i - 1] == IF n = 0 THEN 1 ELSE after[n - 1] + columns[n].size
  IN after[i - 1]

ColumnsOf(columns) ==
  [c \in {columns[i].name : i \in DOMAIN columns} |->
     LET i == CHOOSE i \in DOMAIN columns : columns[i].name = c
     IN ColumnInfo(columns[i].type, Begin(columns, i), columns[i].size)]

RecordWords(columns) == Begin(columns, Len(columns) + 1) - 1
==============================================================================
