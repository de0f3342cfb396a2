------------------------------ MODULE PageStore -------------------------------
(***************************************************************************)
(* What BufferFileSystem promises to the tables above it: a large memory   *)
(* of pages (BufferFileSystem.h:16) with a durable copy behind it.         *)
(*   content    what a Read of each page returns                           *)
(*   durable    what is left of each page after a crash                    *)
(*   known      the page numbers ever given out;  live those in use        *)
(*   pristine   pages given out a second time and not written since        *)
(*   reply      what the last Read returned                                *)
(*   broken     somebody has used a page number never given out, or        *)
(*              deleted a page not in use: from then on the store promises *)
(*              nothing                                                    *)
(* Any call may write one other page back, or drop the blank content of a  *)
(* pristine page, which then shows its durable copy again.                 *)
(***************************************************************************)
CONSTANTS PageId, Part, Data, White

VARIABLES content, durable, known, live, pristine, reply, broken

vars == <<content, durable, known, live, pristine, reply, broken>>

Content == [Part -> Data \cup {White}]
Blank   == [x \in Part |-> White]
NoReply == [x \in {} |-> White]

Init ==
  /\ content = [i \in PageId |-> Blank] /\ durable = content
  /\ known = {} /\ live = {} /\ pristine = {}
  /\ reply = NoReply /\ broken = FALSE

(* Of the pages other than i, at most one changes: it is written back, or  *)
(* it is pristine and shows its durable copy again.                        *)
Same(j)        == content'[j] = content[j] /\ durable'[j] = durable[j]
WrittenBack(j) == content'[j] = content[j] /\ durable'[j] = content[j]
Reverted(j)    == j \in pristine /\ content'[j] = durable[j] /\ durable'[j] = durable[j]

EvictsOneBut(i) ==
  LET others == {k \in PageId \ {i} : ~Same(k)}
  IN /\ content' \in [PageId -> Content] /\ durable' \in [PageId -> Content]
     /\ \A k \in others : others = {k} /\ (WrittenBack(k) \/ Reverted(k))

Read(i) ==
  /\ i \in known
  /\ reply' = content[i]
  /\ UNCHANGED <<known, live, pristine, broken>>
  /\ Same(i) /\ EvictsOneBut(i)

Write(i, x, v) ==
  /\ i \in known
  /\ pristine' = pristine \ {i} /\ reply' = NoReply
  /\ UNCHANGED <<known, live, broken>>
  /\ content'[i] = [content[i] EXCEPT ![x] = v] /\ durable'[i] = durable[i]
  /\ EvictsOneBut(i)

NewFresh(i) ==
  /\ i \notin known
  /\ known' = known \cup {i} /\ live' = live \cup {i} /\ reply' = NoReply
  /\ UNCHANGED <<pristine, broken>>
  /\ content'[i] = Blank /\ durable'[i] = Blank
  /\ EvictsOneBut(i)

NewRecycled(i) ==
  /\ i \in known \ live
  /\ live' = live \cup {i} /\ pristine' = pristine \cup {i} /\ reply' = NoReply
  /\ UNCHANGED <<known, broken>>
  /\ content'[i] = Blank /\ durable'[i] = durable[i]
  /\ EvictsOneBut(i)

Delete(i) ==
  /\ i \in live
  /\ live' = live \ {i} /\ reply' = NoReply
  /\ UNCHANGED <<content, durable, known, pristine, broken>>

(* The last reply is forgotten. *)
Forget == reply' = NoReply /\ UNCHANGED <<content, durable, known, live, pristine, broken>>

(* A page is written back, as a part of WriteAllBack. *)
WriteBack ==
  /\ \E j \in known : durable' = [durable EXCEPT ![j] = content[j]]
  /\ UNCHANGED <<content, known, live, pristine, reply, broken>>

(* A crash and restart: the durable copies are what there is. *)
Restart ==
  /\ content' = durable /\ pristine' = {} /\ reply' = NoReply
  /\ UNCHANGED <<durable, known, live, broken>>

(* A page is used or deleted that was not to be, now or in the past. *)
Chaos ==
  /\ broken'
  /\ content' \in [PageId -> Content] /\ durable' \in [PageId -> Content]
  /\ {known', live', pristine'} \subseteq SUBSET PageId
  /\ reply' \in Content \cup {NoReply}

Next ==
  \/ \E i \in PageId :
       \/ Read(i) \/ NewFresh(i) \/ NewRecycled(i) \/ Delete(i)
       \/ \E x \in Part, v \in Data : Write(i, x, v)
  \/ Forget \/ WriteBack \/ Restart \/ Chaos

Spec == Init /\ [][Next]_vars
==============================================================================
