-------------------------- MODULE MCQueueRecordTable --------------------------
(***************************************************************************)
(* QueueRecordTable.h with at most two records to a page and three pages:  *)
(* a head and two pages after it that can be empty in a row.               *)
(***************************************************************************)
EXTENDS QueueRecordTable

(* What follows an insertion outside the chain is not explored. *)
Bound == ~lost
==============================================================================
