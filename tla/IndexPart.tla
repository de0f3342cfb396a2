------------------------------- MODULE IndexPart -------------------------------
(***************************************************************************)
(* definition.h and definition.cpp: parts of a record, keys and their      *)
(* order.  A record is a sequence of words (the 4 bytes of an Id); a part  *)
(* is a sequence of ranges, each so many words from one on.                *)
(***************************************************************************)
EXTENDS Integers, Sequences

CONSTANT HEAP_WORDS  \* MAX_QUEUE_NUM, in words

ASSUME HeapAssumption == HEAP_WORDS \in Nat \ {0}

Seqs == INSTANCE SequencesExt

Range(at, size) == [at |-> at, size |-> size]

EmptyIndexPart == <<>>

(* How many words a part has. *)
PartSize(part) ==
  LET sum[n \in 0 .. Len(part)] == IF n = 0 THEN 0 ELSE sum[n - 1] + part[n].size
  IN sum[Len(part)]

(* operator ==: as many ranges, of the same sizes, wherever they are. *)
SamePart(p, q) == Len(p) = Len(q) /\ \A i \in DOMAIN p : p[i].size = q[i].size

(* The words of a part of the record, one range after the other. *)
GetIndex(r, part) ==
  LET words[n \in 0 .. Len(part)] ==
        IF n = 0 THEN <<>>
        ELSE words[n - 1] \o SubSeq(r, part[n].at, part[n].at + part[n].size - 1)
  IN words[Len(part)]

(* string_compare, which is integer_compare when there is one word. *)
Before(x, y) ==
  \E i \in DOMAIN x : x[i] < y[i] /\ \A j \in 1 .. i - 1 : x[j] = y[j]
==============================================================================
