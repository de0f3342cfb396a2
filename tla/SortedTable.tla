------------------------------ MODULE SortedTable ------------------------------
(***************************************************************************)
(* SortedTable.h: an external sort.  Records go through a heap that is     *)
(* emptied into a run, a record table of its own, whenever it is full; a   *)
(* second heap then merges the runs.  The runs are sequences here, as a    *)
(* RecordQueue is; their pages, which nobody gives back, are left out.     *)
(***************************************************************************)
EXTENDS PriorityQueue

(* A run: the heap emptied in its order. *)
RECURSIVE Emptied(_, _)
Emptied(h, part) ==
  IF h = <<>> THEN <<>> ELSE <<h[1].row>> \o Emptied(Popped(h, part), part)

(* Sort(): the runs that rows, of so many words, are cut into.  The last   *)
(* one is made in any case.                                                *)
RECURSIVE Runs(_, _, _, _)
Runs(rows, part, words, h) ==
  IF rows = <<>> THEN <<Emptied(h, part)>>
  ELSE IF Full(h, words)
       THEN <<Emptied(h, part)>> \o Runs(Tail(rows), part, words, Push(<<>>, part, Entry(Head(rows), 0)))
       ELSE Runs(Tail(rows), part, words, Push(h, part, Entry(Head(rows), 0)))

(* GetRecordIntoQueue(i): the first record of run i moves into the heap. *)
WithHead(m, i) ==
  IF m.runs[i] = <<>> THEN m
  ELSE [m EXCEPT !.heap = Push(@, m.part, Entry(Head(m.runs[i]), i)), !.runs[i] = Tail(@)]

(* Init(), after Sort(): one record of every run, or ERROR_MEMORY.         *)
Thrown == [kind |-> "thrown"]

RECURSIVE Loaded(_, _, _)
Loaded(m, i, words) ==
  IF i > Len(m.runs) THEN m
  ELSE IF Full(m.heap, words) THEN Thrown
  ELSE Loaded(WithHead(m, i), i + 1, words)

(* The iterator: [kind, part, heap, runs]. *)
Merge(rows, part, words) ==
  Loaded([kind |-> "merge", part |-> part, heap |-> <<>>, runs |-> Runs(rows, part, words, <<>>)],
         1, words + 1)

MergeNull(m) == m.heap = <<>>
MergeGet(m)  == m.heap[1].row
MergeNext(m) == WithHead([m EXCEPT !.heap = Popped(@, m.part)], m.heap[1].run)
==============================================================================
