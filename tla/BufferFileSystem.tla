--------------------------- MODULE BufferFileSystem ---------------------------
(***************************************************************************)
(* fs/file_system/BufferFileSystem.h: page frames and dirty flags between  *)
(* the tables and the Disk, with LRUBuffer choosing the frames.            *)
(* Reading it:                                                             *)
(*   - A page is a function on Part; Write changes one part (memcpy).      *)
(*   - live, pristine and broken are history: the pages New gave out and   *)
(*     nobody deleted, those of them that came from the free stack and     *)
(*     were not written yet, and whether the clients ever used a page that *)
(*     the disk does not have or deleted one that was not in use.          *)
(*   - WriteAllBack is one action per step of its two loops, so that a     *)
(*     crash can come between two of them.  mode says how far it is:       *)
(*     "listing" the pages in the buffer, "flushing" them, "flushed" once  *)
(*     it has returned OK, and "hung" when the listing never ends.  A call *)
(*     of a client starts only when it is not running.                     *)
(*   - The disk is as small as MemoryDisk's; where FileDisk throws and     *)
(*     MemoryDisk returns an error nobody looks at, either may happen.     *)
(***************************************************************************)
EXTENDS LRUBuffer, Disk

ASSUME PagesAssumption == DiskPage \subseteq Page

VARIABLES lru, page, change_flag, disk,
          e_s,        \* the stack of deleted pages, in memory only
          mode,       \* "idle", or how far WriteAllBack is
          pos, todo,  \* WriteAllBack: Traverse's pointer, the pages listed
          reply,      \* what the last Read returned
          live, pristine, broken

core == <<lru, page, change_flag, disk, e_s>>
vars == <<lru, page, change_flag, disk, e_s, mode, pos, todo, reply, live, pristine, broken>>

NoReply == [x \in {} |-> White]

(* The page numbers the disk has. *)
Known == {i \in DiskPage : InBound(disk, i)}

(* Memory right after the constructors: white frames, and flags that       *)
(* nothing has initialized.                                                *)
FreshMemory ==
  /\ lru' = NewBuffer /\ page' = [s \in Slot |-> WhitePage]
  /\ change_flag' \in [Slot -> BOOLEAN]
  /\ e_s' = <<>>

Init ==
  /\ lru = NewBuffer /\ page = [s \in Slot |-> WhitePage]
  /\ change_flag \in [Slot -> BOOLEAN]
  /\ disk = NewDisk /\ e_s = <<>>
  /\ mode = "idle" /\ pos = NULL_ID /\ todo = <<>> /\ reply = NoReply
  /\ live = {} /\ pristine = {} /\ broken = FALSE

(* The victim of a Get must be written back first; the slip writes back    *)
(* the clean ones.                                                         *)
SpillsClean(g) == g.replace_key # NULL_ID /\ ~change_flag[g.replace_value]

Spills(g) == g.replace_key # NULL_ID /\ change_flag[g.replace_value]

(* Get(i) on disk d, where the buffer answered g.  A miss writes the victim *)
(* back when its frame is dirty, then reads i; either disk call may throw, *)
(* with the buffer already changed and the rest of Get not done.           *)
Fetched(g, d, i) ==
  LET spills  == Spills(g)
      spilt   == IF spills /\ InBound(d, g.replace_key)
                 THEN Stored(d, g.replace_key, page[g.replace_value]) ELSE d
      ok      == g.miss => InBound(d, i) /\ (spills => InBound(d, g.replace_key))
      loads   == g.miss /\ ok
  IN [ok   |-> ok,
      slot |-> g.ret,
      lru  |-> g.buffer,
      disk |-> IF g.miss THEN spilt ELSE d,
      page |-> IF loads THEN [page EXCEPT ![g.ret] = spilt.data[i]] ELSE page,
      flag |-> IF loads THEN [change_flag EXCEPT ![g.ret] = FALSE] ELSE change_flag]

Fetch(d, i) == Fetched(BufferGet(lru, i), d, i)

Installs(f) == lru' = f.lru /\ disk' = f.disk /\ page' = f.page /\ change_flag' = f.flag

(* A client's call runs from start to end while nothing else does: the     *)
(* database executes one command at a time (DB/Console.h).                 *)
Call == mode \in {"idle", "flushed"} /\ mode' = "idle" /\ UNCHANGED <<pos, todo>>

-----------------------------------------------------------------------------
Read(i) ==
  LET f == Fetch(disk, i)
  IN /\ Call /\ InBound(disk, i)
     /\ Installs(f)
     /\ reply' = IF f.ok THEN f.page[f.slot] ELSE NoReply
     /\ UNCHANGED <<e_s, live, pristine, broken>>

(* Slip: the frame is not marked dirty. *)
WriteUnmarked(i, x, v) ==
  LET f == Fetch(disk, i)
  IN /\ Call /\ InBound(disk, i)
     /\ lru' = f.lru /\ disk' = f.disk /\ change_flag' = f.flag
     /\ page' = IF f.ok THEN [f.page EXCEPT ![f.slot] = [@ EXCEPT ![x] = v]] ELSE f.page
     /\ pristine' = pristine \ {i}
     /\ reply' = NoReply
     /\ UNCHANGED <<e_s, live, broken>>

Write(i, x, v) ==
  LET f == Fetch(disk, i)
  IN /\ Call /\ InBound(disk, i)
     /\ lru' = f.lru /\ disk' = f.disk
     /\ page' = IF f.ok THEN [f.page EXCEPT ![f.slot] = [@ EXCEPT ![x] = v]] ELSE f.page
     /\ change_flag' = IF f.ok THEN [f.flag EXCEPT ![f.slot] = TRUE] ELSE f.flag
     /\ pristine' = pristine \ {i}
     /\ reply' = NoReply
     /\ UNCHANGED <<e_s, live, broken>>

(* New() with an empty free stack: a page more on the disk. *)
NewFresh ==
  LET i == disk.max_id
      f == Fetch(Grown(disk), i)
  IN /\ Call /\ e_s = <<>> /\ ~DiskFull(disk)
     /\ lru' = f.lru /\ disk' = f.disk /\ page' = f.page
     /\ change_flag' = IF f.ok THEN [f.flag EXCEPT ![f.slot] = FALSE] ELSE f.flag
     /\ live' = IF f.ok THEN live \cup {i} ELSE live
     /\ reply' = NoReply
     /\ UNCHANGED <<e_s, pristine, broken>>

(* MemoryDisk::New throws when there is no more room. *)
NewOnFullDisk ==
  /\ Call /\ e_s = <<>> /\ DiskFull(disk)
  /\ reply' = NoReply
  /\ UNCHANGED <<core, live, pristine, broken>>

(* New() from the free stack: the frame is blanked but not marked dirty.   *)
(* The stack may hold any page number.                                     *)
NewRecycled ==
  LET i == Top(e_s)
      f == Fetch(disk, i)
      given == IF f.ok THEN {i} \cap Known ELSE {}
  IN /\ Call /\ e_s # <<>>
     /\ e_s' = Rest(e_s)
     /\ lru' = f.lru /\ disk' = f.disk
     /\ page' = IF f.ok THEN [f.page EXCEPT ![f.slot] = WhitePage] ELSE f.page
     /\ change_flag' = IF f.ok THEN [f.flag EXCEPT ![f.slot] = FALSE] ELSE f.flag
     /\ live' = live \cup given /\ pristine' = pristine \cup given
     /\ reply' = NoReply
     /\ UNCHANGED broken

(* Delete(i) puts any page number on the stack, unless that is full; that  *)
(* the page is in use, and deleted only once, is up to the clients.        *)
Delete(i) ==
  /\ Call
  /\ e_s' = IF Len(e_s) = DISK_PAGES THEN e_s ELSE Append(e_s, i)
  /\ live' = live \ {i}
  /\ broken' = (broken \/ i \notin live)
  /\ reply' = NoReply
  /\ UNCHANGED <<lru, page, change_flag, disk, pristine>>

(* Read or Write of a page the disk does not have: Get throws on a miss,   *)
(* but by then the buffer has a frame for the page, and a second call      *)
(* hits.                                                                   *)
StrayRead(i) ==
  LET f == Fetch(disk, i)
  IN /\ Call /\ ~InBound(disk, i)
     /\ Installs(f)
     /\ reply' = IF f.ok THEN f.page[f.slot] ELSE NoReply
     /\ broken' = TRUE
     /\ UNCHANGED <<e_s, live, pristine>>

StrayWrite(i, x, v) ==
  LET f == Fetch(disk, i)
  IN /\ Call /\ ~InBound(disk, i)
     /\ lru' = f.lru /\ disk' = f.disk
     /\ page' = IF f.ok THEN [f.page EXCEPT ![f.slot] = [@ EXCEPT ![x] = v]] ELSE f.page
     /\ change_flag' = IF f.ok THEN [f.flag EXCEPT ![f.slot] = TRUE] ELSE f.flag
     /\ reply' = NoReply /\ broken' = TRUE
     /\ UNCHANGED <<e_s, live, pristine>>

-----------------------------------------------------------------------------
(* WriteAllBack(): Traverse() first lists the pages of the buffer, node by *)
(* node.  A chain of more than N nodes is cyclic, and the loop endless.    *)
FlushBegin ==
  /\ mode \in {"idle", "flushed"}
  /\ mode' = "listing" /\ pos' = lru.list.head /\ todo' = <<>> /\ reply' = NoReply
  /\ UNCHANGED <<core, live, pristine, broken>>

FlushLists ==
  /\ mode = "listing" /\ pos # NULL_ID /\ Len(todo) < N
  /\ todo' = Append(todo, lru.list.node[pos].t) /\ pos' = lru.list.node[pos].next
  /\ UNCHANGED <<core, mode, reply, live, pristine, broken>>

FlushHangs ==
  /\ mode = "listing" /\ pos # NULL_ID /\ Len(todo) = N
  /\ mode' = "hung" /\ todo' = <<>> /\ pos' = NULL_ID
  /\ UNCHANGED <<core, reply, live, pristine, broken>>

FlushListed ==
  /\ mode = "listing" /\ pos = NULL_ID
  /\ mode' = "flushing"
  /\ UNCHANGED <<core, pos, todo, reply, live, pristine, broken>>

(* change_flag[x] is indexed by the physical page number: outside the      *)
(* array it reads as anything.                                             *)
FlagRead(x) == IF x \in Slot THEN {change_flag[x]} ELSE BOOLEAN

(* One page of the loop; the flag that was read decides. *)
FlushSkips(x) ==
  /\ mode = "flushing" /\ todo # <<>> /\ x = Head(todo)
  /\ FALSE \in FlagRead(x)
  /\ todo' = Tail(todo)
  /\ UNCHANGED <<core, mode, pos, reply, live, pristine, broken>>

WriteThrows(x) == IF InBound(disk, x) THEN {FALSE} ELSE BOOLEAN

FlushWrites(x) ==
  LET g == BufferGet(lru, x)
  IN /\ mode = "flushing" /\ todo # <<>> /\ x = Head(todo)
     /\ TRUE \in FlagRead(x)
     /\ lru' = g.buffer
     /\ disk' = IF ~g.miss /\ InBound(disk, x) THEN Stored(disk, x, page[g.ret]) ELSE disk
     /\ \E throws \in WriteThrows(x) :
          /\ todo' = IF g.miss \/ throws THEN <<>> ELSE Tail(todo)
          /\ mode' = IF g.miss \/ throws THEN "idle" ELSE mode
     /\ UNCHANGED <<page, change_flag, e_s, pos, reply, live, pristine, broken>>

FlushEnd ==
  /\ mode = "flushing" /\ todo = <<>>
  /\ mode' = "flushed"
  /\ UNCHANGED <<core, pos, todo, reply, live, pristine, broken>>

(* The process dies, at any point, and is started again on the same file.  *)
Restart ==
  /\ FreshMemory /\ disk' = Reopened(disk)
  /\ mode' = "idle" /\ pos' = NULL_ID /\ todo' = <<>> /\ reply' = NoReply
  /\ pristine' = {}
  /\ UNCHANGED <<live, broken>>

Next ==
  \/ \E i \in Page :
       \/ Read(i) \/ StrayRead(i) \/ Delete(i)
       \/ FlushSkips(i) \/ FlushWrites(i)
       \/ \E x \in Part, v \in Data : Write(i, x, v) \/ StrayWrite(i, x, v)
  \/ NewFresh \/ NewOnFullDisk \/ NewRecycled
  \/ FlushBegin \/ FlushLists \/ FlushHangs \/ FlushListed \/ FlushEnd
  \/ Restart

Spec == Init /\ [][Next]_vars

-----------------------------------------------------------------------------
TypeOK ==
  /\ lru \in BufferType
  /\ page \in [Slot -> Content] /\ change_flag \in [Slot -> BOOLEAN]
  /\ disk \in DiskType
  /\ e_s \in Seq(Page)
  /\ mode \in {"idle", "listing", "flushing", "flushed", "hung"}
  /\ pos \in Link /\ todo \in Seq(Page)
  /\ reply \in Content \cup {NoReply}
  /\ live \in SUBSET DiskPage /\ pristine \in SUBSET DiskPage /\ broken \in BOOLEAN

(* What a Read of page i would return. *)
View(i) == IF lru.table[i] # NULL_ID THEN page[lru.table[i]] ELSE disk.data[i]

(* The page table, the list and the pool agree, also after calls that threw *)
(* half way (BufferFileSystem.h:82-104) and across WriteAllBack.            *)
BufferConsistent == TableOK(lru) /\ LinksOK(lru) /\ PoolOK(lru.list.pool, Used(lru))

(* A frame that would be dropped without being written (its change_flag is  *)
(* false) holds what the disk holds, unless New has just blanked it         *)
(* (BufferFileSystem.h:43-56, 90-102).                                      *)
CleanFramesMatchDisk ==
  ~broken => \A i \in Cached(lru) :
               /\ InBound(disk, i)
               /\ change_flag[lru.table[i]] \/ i \in pristine
                    \/ page[lru.table[i]] = disk.data[i]

(* The file system is the page store that PageStore.tla promises: a Read    *)
(* returns what was last written whatever has been evicted and reloaded in  *)
(* between, and a restart finds every page, as it was last written back.    *)
(* New gives out no page that is in use, as long as the clients delete only *)
(* pages that are, each once (BufferFileSystem.h:43-60, FileDisk.h:28).     *)
Store == INSTANCE PageStore
           WITH PageId <- DiskPage, known <- Known, durable <- disk.data,
                content <- [i \in DiskPage |-> View(i)]
RefinesPageStore == Store!Spec

(* BufferFileSystem.h:20, "write everything back is implemented", and       *)
(* Buffer.h:33, "get all memory page numbers, for the write-all-back": when *)
(* WriteAllBack has returned OK, the disk holds what every page in use      *)
(* holds.                                                                   *)
AllWrittenBack ==
  mode = "flushed" => \A i \in live \ pristine : disk.data[i] = View(i)
==============================================================================
