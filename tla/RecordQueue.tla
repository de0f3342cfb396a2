----------------------------- MODULE RecordQueue ------------------------------
(***************************************************************************)
(* What a RecordTable promises (Table.h, Iterable.h): a sequence of        *)
(* records, grown at its end, and an iterator over it.                     *)
(*   queue    the records                                                  *)
(*   cursor   where the open iterator stands: a position, or 0 for its end *)
(*   open     there is an iterator, and no record was removed since        *)
(*   reply    what the last call gave back                                 *)
(*   broken   the table has lost its tail: it promises nothing any more    *)
(***************************************************************************)
EXTENDS Naturals, Sequences

CONSTANTS Record, Nothing

Seqs == INSTANCE SequencesExt

VARIABLES queue, cursor, open, reply, broken

vars == <<queue, cursor, open, reply, broken>>

Init == queue = <<>> /\ cursor = 0 /\ open = FALSE /\ reply = Nothing /\ broken = FALSE

Insert(r) ==
  /\ reply' = Nothing /\ UNCHANGED <<open, broken>>
  /\ queue' = Append(queue, r) /\ UNCHANGED cursor

(* An iterator does not outlive the removal of a record. *)
Remove(j) ==
  /\ cursor' = 0 /\ open' = FALSE /\ UNCHANGED broken
  /\ reply' = queue[j] /\ queue' = Seqs!RemoveAt(queue, j)

Update(j, r) ==
  /\ reply' = queue[j] /\ UNCHANGED <<open, broken>>
  /\ queue' = [queue EXCEPT ![j] = r] /\ UNCHANGED cursor

Empty == reply' = (queue = <<>>) /\ UNCHANGED <<queue, cursor, open, broken>>

Open ==
  /\ reply' = Nothing /\ open' = TRUE /\ UNCHANGED <<queue, broken>>
  /\ cursor' = IF queue = <<>> THEN 0 ELSE 1

(* Get() and then Next(): the iterator moves on to the next record, and    *)
(* stays at its end once it has got there.                                 *)
Step ==
  /\ open /\ cursor # 0
  /\ reply' = queue[cursor]
  /\ cursor' = IF cursor = Len(queue) THEN 0 ELSE cursor + 1
  /\ UNCHANGED <<queue, open, broken>>

Next ==
  \/ ~broken' /\ \/ Empty \/ Open \/ Step
                 \/ \E r \in Record : Insert(r)
                 \/ \E j \in DOMAIN queue : Remove(j) \/ \E r \in Record : Update(j, r)
  \/ broken'

Spec == Init /\ [][Next]_vars
==============================================================================
