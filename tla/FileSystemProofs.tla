------------------------- MODULE FileSystemProofs --------------------------
(***************************************************************************)
(* First the safety invariants of BufferFileSystem, and that it implements *)
(* PageStore, for any number of frames and of disk pages, any clients'     *)
(* calls and a crash at any point.                                         *)
(*                                                                         *)
(* Then the files of Shell, for any names, and any number of files and any *)
(* length of the path: they are a tree, and the path leads to the one that *)
(* is open.                                                                *)
(***************************************************************************)
EXTENDS BufferFileSystem, Shell, ListProofs, SequenceTheorems

(* The frames in memory and the disk fit together. *)
Clean(b, pg, flag, d, fresh) ==
  \A i \in Cached(b) : /\ InBound(d, i)
                       /\ flag[b.table[i]] \/ i \in fresh \/ pg[b.table[i]] = d.data[i]

FrameTypes == page \in [Slot -> Content] /\ change_flag \in [Slot -> BOOLEAN]

LEMMA DiskFacts ==
  /\ DISK_PAGES \in Nat \ {0} /\ WhitePage \in Content /\ Page \subseteq Nat
  /\ DiskPage \subseteq Page /\ NULL_ID \notin Page /\ NULL_ID \notin Slot
  /\ \A d \in DiskType, i \in Page : InBound(d, i) => i \in DiskPage
PROOF
<1>1. DISK_PAGES \in Nat \ {0} /\ Page \subseteq Nat /\ DiskPage \subseteq Page
  BY DiskAssumption, PageAssumption, PagesAssumption
<1>2. WhitePage \in Content
  BY DEF WhitePage, Content
<1>3. NULL_ID \notin Page /\ NULL_ID \notin Slot
  BY <1>1 DEF NULL_ID, Slot
<1>4. \A d \in DiskType, i \in Page : InBound(d, i) => i \in DiskPage
  BY <1>1 DEF DiskType, InBound, DiskPage
<1> QED BY <1>1, <1>2, <1>3, <1>4

(* A page stored on the disk is there, and no other is disturbed. *)
LEMMA StoredOK ==
  ASSUME NEW d \in DiskType, NEW i \in DiskPage, InBound(d, i), NEW c \in Content
  PROVE  /\ Stored(d, i, c) \in DiskType
         /\ Stored(d, i, c).max_id = d.max_id
         /\ Stored(d, i, c).data[i] = c
         /\ \A j \in DiskPage \ {i} : Stored(d, i, c).data[j] = d.data[j]
PROOF
<1>1. /\ d.max_id \in 0 .. DISK_PAGES /\ d.length = d.max_id
      /\ d.data \in [DiskPage -> Content] /\ i < d.length
  BY DEF DiskType, InBound
<1> QED BY <1>1 DEF DiskType, Stored

(* A restart finds the disk as it was left: the file has every page.       *)
LEMMA ReopenedSame ==
  ASSUME NEW d \in DiskType
  PROVE  Reopened(d) = d
PROOF BY DEF DiskType, Reopened

(* What Get leaves behind is of its type, also when a disk call throws     *)
(* (BufferFileSystem.h:82-104).                                            *)
LEMMA FetchOK ==
  ASSUME BufferOK(lru), FrameTypes, NEW d \in DiskType, NEW i \in Page,
         NEW f, f = Fetch(d, i)
  PROVE  /\ BufferOK(f.lru) /\ f.slot \in Slot /\ f.lru.table[i] = f.slot
         /\ f.disk \in DiskType /\ f.disk.max_id = d.max_id
         /\ f.page \in [Slot -> Content] /\ f.flag \in [Slot -> BOOLEAN]
PROOF
<1> DEFINE g == BufferGet(lru, i)
           k == g.replace_key
           spills == k # NULL_ID /\ change_flag[g.replace_value]
           spilt == IF spills /\ InBound(d, k) THEN Stored(d, k, page[g.replace_value]) ELSE d
           ok == g.miss => InBound(d, i) /\ (spills => InBound(d, k))
<1>1. /\ BufferOK(g.buffer) /\ g.ret \in Slot /\ g.buffer.table[i] = g.ret
      /\ k # NULL_ID => k \in Page /\ g.replace_value \in Slot
  <2>1. k # NULL_ID => k \in Cached(lru) /\ g.replace_value = lru.table[k] /\ g.ret \in Slot /\ g.ret = g.replace_value
    BY BufferGetOK
  <2>2. BufferOK(g.buffer) /\ g.ret \in Slot /\ g.buffer.table[i] = g.ret
    BY BufferGetOK
  <2> HIDE DEF g
  <2> QED BY <2>1, <2>2 DEF Cached
<1>2. f = [ok |-> ok, slot |-> g.ret, lru |-> g.buffer,
           disk |-> IF g.miss THEN spilt ELSE d,
           page |-> IF g.miss /\ ok THEN [page EXCEPT ![g.ret] = spilt.data[i]] ELSE page,
           flag |-> IF g.miss /\ ok THEN [change_flag EXCEPT ![g.ret] = FALSE] ELSE change_flag]
  BY DEF Fetch, Fetched, Spills
<1> HIDE DEF g
<1>3. spilt \in DiskType /\ spilt.max_id = d.max_id
  <2>1. CASE spills /\ InBound(d, k)
    <3>1. k \in DiskPage /\ page[g.replace_value] \in Content
      BY <1>1, <2>1, DiskFacts DEF FrameTypes
    <3>2. /\ Stored(d, k, page[g.replace_value]) \in DiskType
          /\ Stored(d, k, page[g.replace_value]).max_id = d.max_id
      BY <2>1, <3>1, StoredOK
    <3> QED BY <2>1, <3>2
  <2>2. CASE ~(spills /\ InBound(d, k))
    BY <2>2
  <2> QED BY <2>1, <2>2
<1> HIDE DEF spilt
<1>4. g.miss /\ ok => spilt.data[i] \in Content
  <2>1. g.miss /\ ok => i \in DiskPage
    BY DiskFacts
  <2> QED BY <1>3, <2>1 DEF DiskType
<1> HIDE DEF ok
<1>5. IF g.miss /\ ok THEN [page EXCEPT ![g.ret] = spilt.data[i]] \in [Slot -> Content] ELSE TRUE
  BY <1>1, <1>4 DEF FrameTypes
<1> QED BY <1>1, <1>2, <1>3, <1>5 DEF FrameTypes

(* Get of a page that the disk has keeps frames and disk together: the     *)
(* victim was written if it was dirty, and the frame now holds what the    *)
(* disk holds (BufferFileSystem.h:90-102).                                 *)
LEMMA FetchClean ==
  ASSUME BufferOK(lru), FrameTypes, NEW d \in DiskType, NEW i \in Page, InBound(d, i),
         NEW fresh, Clean(lru, page, change_flag, d, fresh),
         NEW f, f = Fetch(d, i)
  PROVE  f.ok /\ Clean(f.lru, f.page, f.flag, f.disk, fresh)
PROOF
<1> DEFINE g == BufferGet(lru, i)
           k == g.replace_key
           spills == k # NULL_ID /\ change_flag[g.replace_value]
           spilt == IF spills /\ InBound(d, k) THEN Stored(d, k, page[g.replace_value]) ELSE d
           ok == g.miss => InBound(d, i) /\ (spills => InBound(d, k))
<1>1. /\ BufferOK(g.buffer) /\ g.ret \in Slot /\ g.buffer.table[i] = g.ret
      /\ g.miss \in BOOLEAN
      /\ ~g.miss => g.replace_key = NULL_ID /\ g.buffer.table = lru.table
      /\ k # NULL_ID => k \in Cached(lru) \ {i} /\ g.replace_value = lru.table[k]
                        /\ g.ret = g.replace_value
      /\ g.miss /\ k = NULL_ID => g.ret \notin Used(lru)
      /\ \A p \in Page \ {i} : g.buffer.table[p] = IF p = k THEN NULL_ID ELSE lru.table[p]
  BY BufferGetOK
<1>2. f = [ok |-> ok, slot |-> g.ret, lru |-> g.buffer,
           disk |-> IF g.miss THEN spilt ELSE d,
           page |-> IF g.miss /\ ok THEN [page EXCEPT ![g.ret] = spilt.data[i]] ELSE page,
           flag |-> IF g.miss /\ ok THEN [change_flag EXCEPT ![g.ret] = FALSE] ELSE change_flag]
  BY DEF Fetch, Fetched, Spills
<1> HIDE DEF g
<1>3. k # NULL_ID => InBound(d, k)
  BY <1>1 DEF Clean
<1>4. ok
  BY <1>3
<1>5. CASE ~g.miss
  <2> HIDE DEF spilt, ok
  <2>1. f.lru.table = lru.table /\ f.page = page /\ f.flag = change_flag /\ f.disk = d /\ f.ok
    BY <1>1, <1>2, <1>4, <1>5
  <2> QED BY <2>1 DEF Clean, Cached
<1>6. CASE g.miss
  <2>1. /\ f.ok /\ f.lru = g.buffer /\ f.disk = spilt
        /\ f.page = [page EXCEPT ![g.ret] = spilt.data[i]]
        /\ f.flag = [change_flag EXCEPT ![g.ret] = FALSE]
    <3> HIDE DEF spilt, ok
    <3> QED BY <1>2, <1>4, <1>6
  <2>2. /\ spilt \in DiskType /\ spilt.max_id = d.max_id
        /\ \A p \in DiskPage : p # k => spilt.data[p] = d.data[p]
    <3>1. CASE spills
      <4>1. k \in DiskPage /\ page[g.replace_value] \in Content
        <5>1. k \in Page /\ g.replace_value \in Slot
          BY <1>1, <3>1 DEF Cached
        <5> QED BY <1>3, <3>1, <5>1, DiskFacts DEF FrameTypes
      <4>2. /\ Stored(d, k, page[g.replace_value]) \in DiskType
            /\ Stored(d, k, page[g.replace_value]).max_id = d.max_id
            /\ \A p \in DiskPage \ {k} :
                 Stored(d, k, page[g.replace_value]).data[p] = d.data[p]
        BY <1>3, <3>1, <4>1, StoredOK
      <4> QED BY <1>3, <3>1, <4>2
    <3>2. CASE ~spills
      BY <3>2
    <3> QED BY <3>1, <3>2
  <2> HIDE DEF spilt, ok
  <2>3. ASSUME NEW p \in Cached(f.lru)
        PROVE  /\ InBound(f.disk, p)
               /\ f.flag[f.lru.table[p]] \/ p \in fresh \/ f.page[f.lru.table[p]] = f.disk.data[p]
    <3>1. p \in Page /\ g.buffer.table[p] # NULL_ID
      BY <2>1 DEF Cached
    <3>2. CASE p = i
      <4>1. f.page[g.ret] = f.disk.data[p] /\ f.lru.table[p] = g.ret
        BY <1>1, <2>1, <3>2 DEF FrameTypes
      <4> QED BY <2>1, <2>2, <3>2, <4>1 DEF InBound
    <3>3. CASE p # i
      <4>1. p # k /\ f.lru.table[p] = lru.table[p] /\ p \in Cached(lru)
        BY <1>1, <2>1, <3>1, <3>3 DEF Cached
      <4>2. lru.table[p] # g.ret
        <5>1. lru.table[p] \in Used(lru)
          BY <4>1 DEF Used
        <5>2. k # NULL_ID => lru.table[k] # lru.table[p]
          BY <1>1, <4>1 DEF BufferOK, TableOK
        <5> QED BY <1>1, <1>6, <5>1, <5>2
      <4>3. /\ InBound(d, p)
            /\ change_flag[lru.table[p]] \/ p \in fresh \/ page[lru.table[p]] = d.data[p]
        BY <4>1 DEF Clean
      <4>4. lru.table[p] \in Slot /\ p \in DiskPage
        BY <3>1, <4>1, <4>3, PartsOK, DiskFacts
      <4>5. f.page[lru.table[p]] = page[lru.table[p]] /\ f.flag[lru.table[p]] = change_flag[lru.table[p]]
        BY <2>1, <4>2, <4>4 DEF FrameTypes
      <4>6. InBound(f.disk, p) /\ f.disk.data[p] = d.data[p]
        BY <2>1, <2>2, <4>1, <4>3, <4>4 DEF InBound
      <4> QED BY <4>1, <4>3, <4>5, <4>6
    <3> QED BY <3>2, <3>3
  <2> QED BY <2>1, <2>3 DEF Clean
<1> QED BY <1>1, <1>5, <1>6

(* A page that was not in memory comes in with a clean frame. *)
LEMMA FetchMissClean ==
  ASSUME BufferOK(lru), FrameTypes, NEW d, NEW i \in Page, i \notin Cached(lru),
         NEW f, f = Fetch(d, i), f.ok
  PROVE  f.flag[f.slot] = FALSE
PROOF
<1> DEFINE g == BufferGet(lru, i)
<1>1. g.miss /\ g.ret \in Slot
  BY BufferGetOK
<1> HIDE DEF g
<1>2. f.slot = g.ret /\ f.flag = [change_flag EXCEPT ![g.ret] = FALSE]
  BY <1>1 DEF Fetch, Fetched, g
<1> QED BY <1>1, <1>2 DEF FrameTypes

(* Changing the frame of page i is harmless when it is left marked dirty,  *)
(* or i is counted as fresh.                                               *)
LEMMA TouchClean ==
  ASSUME NEW b, BufferOK(b), NEW pg \in [Slot -> Content], NEW flag \in [Slot -> BOOLEAN],
         NEW d, NEW fresh, Clean(b, pg, flag, d, fresh),
         NEW i \in Page, NEW s \in Slot, b.table[i] = s,
         NEW c, NEW v \in BOOLEAN, NEW more, v \/ i \in more, fresh \ {i} \subseteq more
  PROVE  Clean(b, [pg EXCEPT ![s] = c], [flag EXCEPT ![s] = v], d, more)
PROOF
<1> DEFINE pg2 == [pg EXCEPT ![s] = c]
           flag2 == [flag EXCEPT ![s] = v]
<1>1. ASSUME NEW p \in Cached(b)
      PROVE  InBound(d, p) /\ (flag2[b.table[p]] \/ p \in more \/ pg2[b.table[p]] = d.data[p])
  <2>1. p \in Page /\ b.table[p] \in Slot /\ i \in Cached(b)
    <3>1. b.table[p] \in Slot
      BY PartsOK
    <3>2. s # NULL_ID
      BY DiskFacts
    <3> QED BY <3>1, <3>2 DEF Cached
  <2>2. /\ InBound(d, p)
        /\ flag[b.table[p]] \/ p \in fresh \/ pg[b.table[p]] = d.data[p]
    BY DEF Clean
  <2>3. CASE p = i
    BY <2>1, <2>2, <2>3
  <2>4. CASE p # i
    <3>1. b.table[p] # s
      BY <2>1, <2>4 DEF BufferOK, TableOK
    <3> QED BY <2>1, <2>2, <2>4, <3>1
  <2> QED BY <2>3, <2>4
<1> QED BY <1>1 DEF Clean

-----------------------------------------------------------------------------
(* The inductive invariant, in three parts.  FrameInv: Get's victim is     *)
(* found through the page table, and is safe to drop because a clean frame *)
(* matches the disk.  FreeInv: as long as the clients keep the rules, a    *)
(* page is on the free stack once and only while nobody uses it.           *)
(* FlushInv: the pointer of Traverse stays on nodes in use, so the pages   *)
(* it lists are cached.                                                    *)
FrameInv ==
  /\ BufferOK(lru) /\ FrameTypes /\ disk \in DiskType
  /\ ~broken => Clean(lru, page, change_flag, disk, pristine)

FreePages ==
  /\ live \subseteq Known
  /\ \A k \in 1 .. Len(e_s) : e_s[k] \in Known \ live
  /\ \A j, k \in 1 .. Len(e_s) : j # k => e_s[j] # e_s[k]

FreeInv ==
  /\ e_s \in Seq(Page) /\ live \in SUBSET DiskPage /\ pristine \in SUBSET DiskPage
  /\ broken \in BOOLEAN /\ reply \in Content \cup {NoReply}
  /\ ~broken => FreePages

ListedCached == \A k \in 1 .. Len(todo) : todo[k] \in Cached(lru)

FlushInv ==
  /\ mode \in {"idle", "listing", "flushing", "flushed", "hung"}
  /\ pos \in Link /\ todo \in Seq(Page)
  /\ mode = "listing" => pos \in Used(lru) \cup {NULL_ID}
  /\ mode \notin {"listing", "flushing"} => todo = <<>>
  /\ ListedCached

Inv == FrameInv /\ FreeInv /\ FlushInv

(* Grown adds the page max_id, blank on the disk. *)
LEMMA GrownOK ==
  ASSUME NEW d \in DiskType, ~DiskFull(d)
  PROVE  /\ Grown(d) \in DiskType /\ d.max_id \in DiskPage /\ d.max_id \in Page
         /\ ~InBound(d, d.max_id) /\ InBound(Grown(d), d.max_id)
         /\ \A i \in DiskPage : InBound(d, i) => /\ InBound(Grown(d), i)
                                                 /\ Grown(d).data[i] = d.data[i]
         /\ Grown(d).max_id = d.max_id + 1
         /\ Grown(d).data = [d.data EXCEPT ![d.max_id] = WhitePage]
PROOF
<1>1. d.max_id \in 0 .. DISK_PAGES /\ d.max_id # DISK_PAGES /\ d.data \in [DiskPage -> Content]
  BY DEF DiskType, DiskFull
<1>2. d.max_id \in DiskPage
  BY <1>1, DiskFacts DEF DiskPage
<1>3. d.length = d.max_id /\ WhitePage \in Content
  BY DiskFacts DEF DiskType
<1>4. Grown(d) = [max_id |-> d.max_id + 1, length |-> d.max_id + 1,
                  data |-> [d.data EXCEPT ![d.max_id] = WhitePage]]
  <2>1. [d EXCEPT !.max_id = @ + 1] = [max_id |-> d.max_id + 1, length |-> d.max_id, data |-> d.data]
    BY <1>3 DEF DiskType
  <2> QED BY <1>1, <1>3, <2>1 DEF Grown, Stored
<1>5. Grown(d) \in DiskType
  <2>1. d.max_id + 1 \in 0 .. DISK_PAGES
    BY <1>1, DiskFacts
  <2>2. [d.data EXCEPT ![d.max_id] = WhitePage] \in [DiskPage -> Content]
    BY <1>1, <1>2, <1>3
  <2> QED BY <1>4, <2>1, <2>2 DEF DiskType
<1> QED BY <1>1, <1>2, <1>4, <1>5, DiskFacts DEF InBound, DiskPage

LEMMA InitInv == Init => Inv
PROOF
<1> SUFFICES ASSUME Init PROVE Inv
  OBVIOUS
<1>1. BufferOK(lru) /\ Cached(lru) = {}
  BY NewBufferOK DEF Init
<1>2. NewDisk \in DiskType
  BY DiskFacts DEF NewDisk, DiskType
<1>3. FrameInv
  BY <1>1, <1>2, DiskFacts DEF Init, FrameInv, FrameTypes, Clean
<1>4. FreeInv
  <2>1. e_s \in Seq(Page) /\ Len(e_s) = 0
    BY DEF Init
  <2>2. FreePages
    BY <2>1 DEF Init, FreePages
  <2> QED BY <2>1, <2>2 DEF Init, FreeInv
<1>5. FlushInv
  BY DEF Init, FlushInv, ListedCached, Link
<1> QED BY <1>3, <1>4, <1>5 DEF Inv

(* Read and StrayRead change memory and disk as Get does, and nothing else. *)
LEMMA ReadFrames ==
  ASSUME Inv, NEW i \in Page, Read(i) \/ StrayRead(i)
  PROVE  FrameInv'
PROOF
<1> DEFINE f == Fetch(disk, i)
<1>1. /\ BufferOK(f.lru) /\ f.disk \in DiskType
      /\ f.page \in [Slot -> Content] /\ f.flag \in [Slot -> BOOLEAN]
  BY FetchOK DEF Inv, FrameInv
<1>2. CASE Read(i)
  <2>1. ~broken => Clean(f.lru, f.page, f.flag, f.disk, pristine)
    BY <1>2, FetchClean DEF Inv, FrameInv, Read
  <2> HIDE DEF f
  <2> QED BY <1>1, <1>2, <2>1 DEF Read, Installs, FrameInv, FrameTypes, f
<1>3. CASE StrayRead(i)
  BY <1>1, <1>3 DEF StrayRead, Installs, FrameInv, FrameTypes
<1> QED BY <1>2, <1>3

(* Write leaves its frame dirty. *)
LEMMA WriteFrames ==
  ASSUME Inv, NEW i \in Page, NEW x \in Part, NEW v \in Data, Write(i, x, v) \/ StrayWrite(i, x, v)
  PROVE  FrameInv'
PROOF
<1> DEFINE f == Fetch(disk, i)
           c == [f.page[f.slot] EXCEPT ![x] = v]
<1>1. /\ BufferOK(f.lru) /\ f.disk \in DiskType /\ f.slot \in Slot /\ f.lru.table[i] = f.slot
      /\ f.page \in [Slot -> Content] /\ f.flag \in [Slot -> BOOLEAN]
  BY FetchOK DEF Inv, FrameInv
<1>2. CASE Write(i, x, v)
  <2>1. ~broken => f.ok /\ Clean(f.lru, f.page, f.flag, f.disk, pristine)
    BY <1>2, FetchClean DEF Inv, FrameInv, Write
  <2>2. /\ lru' = f.lru /\ disk' = f.disk /\ broken' = broken /\ pristine' = pristine \ {i}
        /\ page' = IF f.ok THEN [f.page EXCEPT ![f.slot] = c] ELSE f.page
        /\ change_flag' = IF f.ok THEN [f.flag EXCEPT ![f.slot] = TRUE] ELSE f.flag
    BY <1>2 DEF Write
  <2> HIDE DEF f
  <2>3. c \in Content
    BY <1>1 DEF Content
  <2> HIDE DEF c
  <2>4. ~broken => Clean(f.lru, [f.page EXCEPT ![f.slot] = c],
                         [f.flag EXCEPT ![f.slot] = TRUE], f.disk, pristine \ {i})
    BY <1>1, <2>1, TouchClean
  <2> QED BY <1>1, <2>1, <2>2, <2>3, <2>4 DEF FrameInv, FrameTypes
<1>3. CASE StrayWrite(i, x, v)
  <2>1. /\ lru' = f.lru /\ disk' = f.disk /\ broken' = TRUE
        /\ page' = IF f.ok THEN [f.page EXCEPT ![f.slot] = c] ELSE f.page
        /\ change_flag' = IF f.ok THEN [f.flag EXCEPT ![f.slot] = TRUE] ELSE f.flag
    BY <1>3 DEF StrayWrite
  <2> HIDE DEF f
  <2>2. c \in Content
    BY <1>1 DEF Content
  <2> HIDE DEF c
  <2> QED BY <1>1, <2>1, <2>2 DEF FrameInv, FrameTypes
<1> QED BY <1>2, <1>3

(* New: a fresh page is blank in its frame and on the disk; a recycled one *)
(* counts as pristine.                                                     *)
LEMMA NewFrames ==
  ASSUME Inv, NewFresh \/ NewRecycled
  PROVE  FrameInv'
PROOF
<1>1. CASE NewFresh
  <2> DEFINE i == disk.max_id
             d == Grown(disk)
             f == Fetch(d, i)
  <2>1. /\ d \in DiskType /\ i \in Page /\ InBound(d, i) /\ ~InBound(disk, i)
        /\ \A p \in DiskPage : InBound(disk, p) => InBound(d, p) /\ d.data[p] = disk.data[p]
    BY <1>1, GrownOK DEF Inv, FrameInv, NewFresh
  <2>2. ~broken => Clean(lru, page, change_flag, d, pristine)
    <3>1. \A p \in Cached(lru) : p \in Page
      BY DEF Cached
    <3> HIDE DEF d, i
    <3> QED BY <2>1, <3>1, DiskFacts DEF Inv, FrameInv, Clean
  <2>3. ~broken => i \notin Cached(lru)
    <3> HIDE DEF d, i
    <3> QED BY <2>1 DEF Inv, FrameInv, Clean
  <2>4. /\ lru' = f.lru /\ disk' = f.disk /\ broken' = broken /\ pristine' = pristine
        /\ page' = f.page
        /\ change_flag' = IF f.ok THEN [f.flag EXCEPT ![f.slot] = FALSE] ELSE f.flag
    BY <1>1 DEF NewFresh
  <2> HIDE DEF i, d
  <2>5. /\ BufferOK(f.lru) /\ f.disk \in DiskType /\ f.slot \in Slot
        /\ f.page \in [Slot -> Content] /\ f.flag \in [Slot -> BOOLEAN]
    BY <2>1, FetchOK DEF Inv, FrameInv
  <2>6. ~broken => f.ok /\ Clean(f.lru, f.page, f.flag, f.disk, pristine)
    BY <2>1, <2>2, FetchClean DEF Inv, FrameInv
  <2>7. ~broken => f.flag[f.slot] = FALSE
    BY <2>1, <2>3, <2>6, FetchMissClean DEF Inv, FrameInv
  <2> HIDE DEF f
  <2>8. ~broken => change_flag' = f.flag
    BY <2>4, <2>5, <2>7
  <2> QED BY <2>4, <2>5, <2>6, <2>8 DEF FrameInv, FrameTypes
<1>2. CASE NewRecycled
  <2> DEFINE i == Top(e_s)
             f == Fetch(disk, i)
  <2>1. i \in Page /\ (~broken => i \in Known /\ InBound(disk, i))
    <3>1. e_s # <<>> /\ e_s \in Seq(Page)
      BY <1>2 DEF NewRecycled, Inv, FreeInv
    <3>2. Len(e_s) \in 1 .. Len(e_s) /\ e_s[Len(e_s)] \in Page
      BY <3>1
    <3> QED BY <3>2 DEF Inv, FreeInv, FreePages, Known, Top
  <2>2. /\ lru' = f.lru /\ disk' = f.disk /\ broken' = broken
        /\ pristine' = pristine \cup IF f.ok THEN {i} \cap Known ELSE {}
        /\ page' = IF f.ok THEN [f.page EXCEPT ![f.slot] = WhitePage] ELSE f.page
        /\ change_flag' = IF f.ok THEN [f.flag EXCEPT ![f.slot] = FALSE] ELSE f.flag
    BY <1>2 DEF NewRecycled
  <2> HIDE DEF i
  <2>3. /\ BufferOK(f.lru) /\ f.disk \in DiskType /\ f.slot \in Slot /\ f.lru.table[i] = f.slot
        /\ f.page \in [Slot -> Content] /\ f.flag \in [Slot -> BOOLEAN]
    BY <2>1, FetchOK DEF Inv, FrameInv
  <2>4. ~broken => i \in Known /\ f.ok /\ Clean(f.lru, f.page, f.flag, f.disk, pristine)
    BY <2>1, FetchClean DEF Inv, FrameInv
  <2> HIDE DEF f
  <2>5. ~broken => Clean(f.lru, [f.page EXCEPT ![f.slot] = WhitePage],
                         [f.flag EXCEPT ![f.slot] = FALSE], f.disk, pristine \cup {i})
    BY <2>1, <2>3, <2>4, TouchClean
  <2>6. ~broken => pristine' = pristine \cup {i}
    BY <2>2, <2>4
  <2> QED BY <2>2, <2>3, <2>4, <2>5, <2>6, DiskFacts DEF FrameInv, FrameTypes
<1> QED BY <1>1, <1>2

(* What WriteAllBack writes makes disk and frame agree; Restart forgets    *)
(* all frames.                                                             *)
LEMMA FlushFrames ==
  ASSUME Inv, NEW x \in Page, FlushWrites(x)
  PROVE  FrameInv' /\ lru'.table = lru.table
PROOF
<1> DEFINE g == BufferGet(lru, x)
<1>1. x \in Cached(lru)
  <2>1. todo \in Seq(Page) /\ todo # <<>> /\ x = Head(todo)
    BY DEF Inv, FlushInv, FlushWrites
  <2>2. 1 \in 1 .. Len(todo) /\ x = todo[1]
    BY <2>1
  <2> QED BY <2>2 DEF Inv, FlushInv, ListedCached
<1>2. /\ BufferOK(g.buffer) /\ ~g.miss /\ g.buffer.table = lru.table
      /\ g.ret \in Slot /\ g.ret = lru.table[x]
  <2>1. /\ BufferOK(g.buffer) /\ (g.miss <=> x \notin Cached(lru)) /\ g.miss \in BOOLEAN
        /\ g.ret \in Slot /\ g.buffer.table[x] = g.ret
        /\ ~g.miss => g.buffer.table = lru.table
    BY BufferGetOK DEF Inv, FrameInv
  <2> HIDE DEF g
  <2> QED BY <1>1, <2>1
<1>3. /\ lru' = g.buffer
      /\ disk' = IF ~g.miss /\ InBound(disk, x) THEN Stored(disk, x, page[g.ret]) ELSE disk
      /\ UNCHANGED <<page, change_flag, pristine, broken>>
  BY DEF FlushWrites
<1> HIDE DEF g
<1>4. lru'.table = lru.table /\ BufferOK(lru') /\ Cached(lru') = Cached(lru)
  BY <1>2, <1>3 DEF Cached
<1>5. CASE InBound(disk, x)
  <2> DEFINE e == Stored(disk, x, page[g.ret])
  <2>1. x \in DiskPage /\ page[g.ret] \in Content
    BY <1>2, <1>5, DiskFacts DEF Inv, FrameInv, FrameTypes
  <2>2. /\ e \in DiskType /\ e.max_id = disk.max_id /\ e.data[x] = page[g.ret]
        /\ \A j \in DiskPage \ {x} : e.data[j] = disk.data[j]
    BY <1>5, <2>1, StoredOK DEF Inv, FrameInv
  <2>3. disk' = e
    BY <1>2, <1>3, <1>5
  <2> HIDE DEF e
  <2>4. ASSUME ~broken PROVE Clean(lru', page, change_flag, e, pristine)
    <3>1. \A i \in Cached(lru) : InBound(disk, i) /\ i \in DiskPage
      BY <2>4, DiskFacts DEF Inv, FrameInv, Clean, Cached
    <3> QED BY <1>2, <1>4, <2>2, <2>4, <3>1 DEF Inv, FrameInv, Clean, InBound
  <2> QED BY <1>3, <1>4, <2>2, <2>3, <2>4 DEF Inv, FrameInv, FrameTypes
<1>6. CASE ~InBound(disk, x)
  <2>1. disk' = disk
    BY <1>3, <1>6
  <2> QED BY <1>3, <1>4, <2>1 DEF Inv, FrameInv, FrameTypes, Clean
<1> QED BY <1>4, <1>5, <1>6

LEMMA RestartFrames ==
  ASSUME Inv, Restart
  PROVE  FrameInv'
PROOF
<1>1. BufferOK(lru') /\ Cached(lru') = {}
  BY NewBufferOK DEF Restart, FreshMemory
<1>2. page' \in [Slot -> Content] /\ change_flag' \in [Slot -> BOOLEAN] /\ disk' = disk
  BY DiskFacts, ReopenedSame DEF Restart, FreshMemory, Inv, FrameInv
<1> QED BY <1>1, <1>2 DEF Inv, FrameInv, FrameTypes, Clean

-----------------------------------------------------------------------------
(* New and Delete move a page between the free stack and its user; every   *)
(* other action leaves both alone.                                         *)
FreeUnchanged == UNCHANGED <<e_s, live>> /\ disk'.max_id = disk.max_id

LEMMA FreeKept ==
  ASSUME ~broken => FreePages, FreeUnchanged, broken => broken'
  PROVE  ~broken' => FreePages'
PROOF BY DEF FreePages, FreeUnchanged, Known, InBound

LEMMA FetchMax ==
  ASSUME Inv, NEW d \in DiskType, NEW i \in Page
  PROVE  /\ Fetch(d, i).disk.max_id = d.max_id
         /\ Fetch(d, i).ok => Fetch(d, i).page[Fetch(d, i).slot] \in Content
PROOF BY FetchOK DEF Inv, FrameInv

(* Popping the stack drops its last element. *)
LEMMA RestOK ==
  ASSUME NEW S, NEW s \in Seq(S), s # <<>>
  PROVE  /\ Rest(s) \in Seq(S) /\ Len(Rest(s)) = Len(s) - 1
         /\ \A k \in 1 .. Len(s) - 1 : Rest(s)[k] = s[k]
PROOF
<1>1. Len(s) \in Nat /\ Len(s) >= 1
  OBVIOUS
<1>2. ASSUME NEW n \in Nat, n + 1 = Len(s)
      PROVE  /\ SubSeq(s, 1, n) \in Seq(S) /\ Len(SubSeq(s, 1, n)) = n
             /\ \A k \in 1 .. n : SubSeq(s, 1, n)[k] = s[k]
  <2>1. \A k \in 1 .. n : k \in 1 .. Len(s) /\ s[k] \in S
    BY <1>1, <1>2
  <2>2. Len(SubSeq(s, 1, n)) = n
    BY <1>1, <1>2
  <2> QED BY <1>1, <1>2, <2>1, <2>2
<1>3. Len(s) - 1 \in Nat /\ (Len(s) - 1) + 1 = Len(s)
  BY <1>1
<1> QED BY <1>2, <1>3 DEF Rest

LEMMA DeleteFree ==
  ASSUME Inv, NEW i \in Page, Delete(i)
  PROVE  FreeInv'
PROOF
<1>1. /\ live' = live \ {i} /\ reply' = NoReply
      /\ broken' = (broken \/ i \notin live)
      /\ UNCHANGED <<disk, pristine>>
      /\ e_s' = IF Len(e_s) = DISK_PAGES THEN e_s ELSE Append(e_s, i)
  BY DEF Delete
<1>2. e_s \in Seq(Page) /\ Len(e_s) \in Nat /\ Known' = Known
  BY <1>1 DEF Inv, FreeInv, Known, InBound
<1>3. e_s' \in Seq(Page) /\ live' \in SUBSET DiskPage /\ pristine' \in SUBSET DiskPage
  BY <1>1, <1>2 DEF Inv, FreeInv
<1>4. broken' \in BOOLEAN
  BY <1>1
<1>5. ASSUME ~broken' PROVE FreePages'
  <2>1. FreePages /\ i \in live
    BY <1>1, <1>5 DEF Inv, FreeInv
  <2>2. i \in Known /\ \A k \in 1 .. Len(e_s) : e_s[k] \in Known \ live /\ e_s[k] # i
    BY <2>1 DEF FreePages
  <2>3. CASE Len(e_s) = DISK_PAGES
    BY <1>1, <1>2, <2>1, <2>3 DEF FreePages
  <2>4. CASE Len(e_s) # DISK_PAGES
    <3>1. /\ Len(e_s') = Len(e_s) + 1 /\ e_s'[Len(e_s) + 1] = i
          /\ \A k \in 1 .. Len(e_s) : e_s'[k] = e_s[k]
      BY <1>1, <1>2, <2>4
    <3>2. \A k \in 1 .. Len(e_s') : k \in 1 .. Len(e_s) \/ k = Len(e_s) + 1
      BY <1>2, <3>1
    <3>3. \A k \in 1 .. Len(e_s') : e_s'[k] \in Known \ live'
      BY <1>1, <2>2, <3>1, <3>2
    <3>4. \A j, k \in 1 .. Len(e_s') : j # k => e_s'[j] # e_s'[k]
      BY <2>1, <2>2, <3>1, <3>2 DEF FreePages
    <3>5. live' \subseteq Known
      BY <1>1, <2>1 DEF FreePages
    <3> QED BY <1>2, <3>3, <3>4, <3>5 DEF FreePages
  <2> QED BY <2>3, <2>4
<1> QED BY <1>1, <1>3, <1>4, <1>5 DEF Inv, FreeInv

(* Delete touches no frame. *)
LEMMA DeleteFrames ==
  ASSUME Inv, NEW i \in Page, Delete(i)
  PROVE  FrameInv'
PROOF
<1>1. UNCHANGED <<lru, page, change_flag, disk, pristine>> /\ (~broken' => ~broken)
  BY DEF Delete
<1> QED BY <1>1 DEF Inv, FrameInv, FrameTypes, Clean, InBound

LEMMA NewFree ==
  ASSUME Inv, NewFresh \/ NewRecycled
  PROVE  FreeInv'
PROOF
<1>1. CASE NewFresh
  <2> DEFINE i == disk.max_id
             f == Fetch(Grown(disk), i)
  <2>1. /\ i \in Page /\ i \in DiskPage /\ ~InBound(disk, i)
        /\ Grown(disk).max_id = disk.max_id + 1 /\ Grown(disk) \in DiskType
    BY <1>1, GrownOK DEF Inv, FrameInv, NewFresh
  <2>2. /\ disk' = f.disk /\ e_s = <<>> /\ e_s' = e_s /\ reply' = NoReply
        /\ UNCHANGED <<pristine, broken>>
        /\ live' = IF f.ok THEN live \cup {i} ELSE live
    BY <1>1 DEF NewFresh
  <2>3. disk'.max_id = disk.max_id + 1 /\ disk.max_id \in Int
    BY <2>1, <2>2, FetchMax, DiskFacts DEF DiskPage
  <2>4. Known \subseteq Known' /\ i \in Known'
    <3>1. \A p \in DiskPage : p \in Int
      BY DEF DiskPage
    <3> QED BY <2>1, <2>3, <3>1 DEF Known, InBound
  <2> HIDE DEF f, i
  <2>5. live' \in SUBSET DiskPage /\ (~broken => live' \subseteq Known')
    BY <2>1, <2>2, <2>4 DEF Inv, FreeInv, FreePages
  <2>6. Len(e_s') = 0
    BY <2>2
  <2>7. ~broken' => FreePages'
    BY <2>2, <2>5, <2>6 DEF FreePages
  <2> QED BY <2>2, <2>5, <2>7 DEF Inv, FreeInv
<1>2. CASE NewRecycled
  <2> DEFINE i == Top(e_s)
             f == Fetch(disk, i)
             n == Len(e_s)
             given == IF f.ok THEN {i} \cap Known ELSE {}
  <2>1. e_s # <<>> /\ e_s \in Seq(Page) /\ n \in Nat /\ n >= 1 /\ i = e_s[n] /\ i \in Page
    BY <1>2 DEF NewRecycled, Inv, FreeInv, Top
  <2>2. /\ disk' = f.disk /\ e_s' = Rest(e_s) /\ reply' = NoReply /\ broken' = broken
        /\ live' = live \cup given /\ pristine' = pristine \cup given
    BY <1>2 DEF NewRecycled
  <2>3. disk'.max_id = disk.max_id
    BY <2>1, <2>2, FetchMax DEF Inv, FrameInv
  <2>4. Known' = Known /\ given \subseteq {i} \cap Known /\ given \subseteq DiskPage
    BY <2>3 DEF Known, InBound
  <2>5. /\ e_s' \in Seq(Page) /\ Len(e_s') = n - 1
        /\ \A k \in 1 .. n - 1 : e_s'[k] = e_s[k] /\ k \in 1 .. n /\ k # n /\ n \in 1 .. n
    <3>1. /\ Rest(e_s) \in Seq(Page) /\ Len(Rest(e_s)) = n - 1
          /\ \A k \in 1 .. n - 1 : Rest(e_s)[k] = e_s[k]
      BY <2>1, RestOK
    <3>2. \A k \in 1 .. n - 1 : k \in 1 .. n /\ k # n /\ n \in 1 .. n
      BY <2>1
    <3> QED BY <2>2, <3>1, <3>2
  <2> HIDE DEF given, f
  <2>6. live' \in SUBSET DiskPage /\ pristine' \in SUBSET DiskPage
    BY <2>2, <2>4 DEF Inv, FreeInv
  <2>7. ASSUME ~broken PROVE FreePages'
    <3>1. /\ live \subseteq Known
          /\ \A k \in 1 .. n : e_s[k] \in Known \ live
          /\ \A j, k \in 1 .. n : j # k => e_s[j] # e_s[k]
      BY <2>7 DEF Inv, FreeInv, FreePages
    <3> HIDE DEF n, i
    <3>2. \A k \in 1 .. n - 1 : e_s'[k] \in Known \ live /\ e_s'[k] # i
      BY <2>1, <2>5, <3>1
    <3>3. \A j, k \in 1 .. n - 1 : j # k => e_s'[j] # e_s'[k]
      BY <2>5, <3>1
    <3> QED BY <2>2, <2>4, <2>5, <3>1, <3>2, <3>3 DEF FreePages
  <2> QED BY <2>2, <2>5, <2>6, <2>7 DEF Inv, FreeInv
<1> QED BY <1>1, <1>2

(* A client's use of a page frees none. *)
LEMMA UseFree ==
  ASSUME Inv, NEW i \in Page,
         \/ Read(i) \/ StrayRead(i)
         \/ \E x \in Part, v \in Data : Write(i, x, v) \/ StrayWrite(i, x, v)
  PROVE  FreeInv'
PROOF
<1> DEFINE f == Fetch(disk, i)
<1>1. /\ f.disk.max_id = disk.max_id
      /\ f.ok => f.page[f.slot] \in Content
  BY FetchMax DEF Inv, FrameInv
<1>2. /\ disk' = f.disk /\ UNCHANGED <<e_s, live>> /\ broken' \in {broken, TRUE}
      /\ reply' \in {f.page[f.slot], NoReply} /\ (~f.ok => reply' = NoReply)
      /\ pristine' \in {pristine, pristine \ {i}}
  BY DEF Read, StrayRead, Write, StrayWrite, Installs
<1> HIDE DEF f
<1>3. ~broken' => FreePages'
  <2>1. broken => broken'
    BY <1>2
  <2>2. FreeUnchanged
    BY <1>1, <1>2 DEF FreeUnchanged
  <2> QED BY <2>1, <2>2, FreeKept DEF Inv, FreeInv
<1>4. e_s' \in Seq(Page) /\ live' \in SUBSET DiskPage /\ pristine' \in SUBSET DiskPage
  BY <1>2 DEF Inv, FreeInv
<1>5. broken' \in BOOLEAN
  BY <1>2 DEF Inv, FreeInv
<1>6. reply' \in Content \cup {NoReply}
  BY <1>1, <1>2
<1> QED BY <1>3, <1>4, <1>5, <1>6 DEF FreeInv

(* WriteAllBack does not touch the free stack, and Restart empties it. *)
Flush == FlushBegin \/ FlushLists \/ FlushHangs \/ FlushListed \/ FlushEnd

LEMMA FlushFree ==
  ASSUME Inv, \/ Flush \/ NewOnFullDisk \/ UNCHANGED vars
              \/ \E x \in Page : FlushSkips(x) \/ FlushWrites(x)
  PROVE  FreeInv'
PROOF
<1>1. /\ UNCHANGED <<e_s, live, pristine, broken>> /\ reply' \in {reply, NoReply}
  BY DEF Flush, FlushBegin, FlushLists, FlushHangs, FlushListed, FlushEnd, NewOnFullDisk,
         FlushSkips, FlushWrites, vars, core
<1>2. disk'.max_id = disk.max_id
  <2>1. ASSUME NEW x \in Page, FlushWrites(x) PROVE disk'.max_id = disk.max_id
    BY <2>1 DEF FlushWrites, Stored
  <2> QED BY <2>1 DEF Flush, FlushBegin, FlushLists, FlushHangs, FlushListed, FlushEnd,
                      NewOnFullDisk, FlushSkips, vars, core
<1>3. ~broken' => FreePages'
  BY <1>1, <1>2, FreeKept DEF Inv, FreeInv, FreeUnchanged
<1> QED BY <1>1, <1>3 DEF Inv, FreeInv

LEMMA RestartFree ==
  ASSUME Inv, Restart
  PROVE  FreeInv'
PROOF
<1>1. e_s' = <<>> /\ UNCHANGED <<disk, live, broken>> /\ reply' = NoReply /\ pristine' = {}
  BY ReopenedSame DEF Restart, FreshMemory, Inv, FrameInv
<1>2. e_s' \in Seq(Page) /\ Len(e_s') = 0
  BY <1>1
<1>3. ~broken' => live' \subseteq Known'
  BY <1>1 DEF Inv, FreeInv, FreePages, Known, InBound
<1>4. ~broken' => FreePages'
  BY <1>2, <1>3 DEF FreePages
<1> QED BY <1>1, <1>2, <1>4 DEF Inv, FreeInv

-----------------------------------------------------------------------------
(* The actions that leave the buffer alone keep FrameInv. *)
LEMMA FramesKept ==
  ASSUME FrameInv, UNCHANGED <<lru, page, change_flag, disk, pristine, broken>>
  PROVE  FrameInv'
PROOF BY DEF FrameInv, FrameTypes, Clean, InBound

LEMMA NothingListed ==
  ASSUME mode' \in {"idle", "flushed", "hung"}, todo' = <<>>, pos' \in Link
  PROVE  FlushInv'
PROOF
<1>1. todo' \in Seq(Page) /\ Len(todo') = 0
  OBVIOUS
<1>2. ListedCached'
  BY <1>1 DEF ListedCached
<1> QED BY <1>1, <1>2 DEF FlushInv

LEMMA CallFlush ==
  ASSUME Inv, Call
  PROVE  FlushInv'
PROOF
<1>1. todo' = <<>> /\ mode' = "idle" /\ pos' \in Link
  BY DEF Inv, FlushInv, Call
<1> QED BY <1>1, NothingListed

LEMMA ListFlush ==
  ASSUME Inv, FlushBegin \/ FlushLists \/ FlushListed
  PROVE  FlushInv'
PROOF
<1>0. BufferOK(lru) /\ lru' = lru /\ Cached(lru') = Cached(lru) /\ Used(lru') = Used(lru)
  BY DEF Inv, FrameInv, FlushBegin, FlushLists, FlushListed, core
<1>1. CASE FlushBegin
  <2>1. mode' = "listing" /\ pos' = lru.list.head /\ todo' = <<>>
    BY <1>1 DEF FlushBegin
  <2>2. pos' \in Used(lru) \cup {NULL_ID} /\ pos' \in Link
    BY <1>0, <2>1, PartsOK DEF Link
  <2>3. todo' \in Seq(Page) /\ Len(todo') = 0
    BY <2>1
  <2>4. ListedCached'
    BY <2>3 DEF ListedCached
  <2> QED BY <1>0, <2>1, <2>2, <2>3, <2>4 DEF FlushInv
<1>2. CASE FlushLists
  <2> DEFINE p == lru.list.node[pos].t
  <2>1. /\ mode = "listing" /\ mode' = mode /\ pos # NULL_ID
        /\ todo' = Append(todo, p) /\ pos' = lru.list.node[pos].next
    BY <1>2 DEF FlushLists
  <2>2. pos \in Used(lru)
    BY <2>1 DEF Inv, FlushInv
  <2>3. p \in Cached(lru) /\ p \in Page
    <3>1. PICK q \in Cached(lru) : lru.table[q] = pos /\ lru.list.node[pos].t = q
      BY <1>0, <2>2, PartsOK
    <3> QED BY <3>1 DEF Cached
  <2>4. pos' \in Used(lru) \cup {NULL_ID} /\ pos' \in Link
    <3>1. lru.list.node[pos].next \in Used(lru) \cup {NULL_ID}
      BY <1>0, <2>2 DEF BufferOK, LinksOK
    <3>2. Used(lru) \in SUBSET Slot
      BY <1>0, PartsOK
    <3> QED BY <2>1, <3>1, <3>2 DEF Link
  <2> HIDE DEF p
  <2>5. todo \in Seq(Page) /\ \A k \in 1 .. Len(todo) : todo[k] \in Cached(lru)
    BY DEF Inv, FlushInv, ListedCached
  <2>6. /\ todo' \in Seq(Page) /\ Len(todo') = Len(todo) + 1 /\ Len(todo) \in Nat
        /\ todo'[Len(todo) + 1] = p
        /\ \A k \in 1 .. Len(todo) : todo'[k] = todo[k]
    BY <2>1, <2>3, <2>5
  <2>7. \A k \in 1 .. Len(todo') : k \in 1 .. Len(todo) \/ k = Len(todo) + 1
    BY <2>6
  <2>8. ListedCached'
    BY <1>0, <2>3, <2>5, <2>6, <2>7 DEF ListedCached
  <2> QED BY <1>0, <2>1, <2>4, <2>6, <2>8 DEF FlushInv
<1>3. CASE FlushListed
  <2>1. mode' = "flushing" /\ UNCHANGED <<pos, todo>>
    BY <1>3 DEF FlushListed
  <2> QED BY <1>0, <2>1 DEF Inv, FlushInv, ListedCached
<1> QED BY <1>1, <1>2, <1>3

LEMMA TailListed ==
  ASSUME Inv, mode' = "flushing", todo # <<>>, todo' = Tail(todo), pos' = pos,
         Cached(lru') = Cached(lru)
  PROVE  FlushInv'
PROOF
<1>1. todo \in Seq(Page) /\ pos \in Link /\ \A k \in 1 .. Len(todo) : todo[k] \in Cached(lru)
  BY DEF Inv, FlushInv, ListedCached
<1>2. /\ todo' \in Seq(Page) /\ Len(todo') = Len(todo) - 1 /\ Len(todo) \in Nat
      /\ \A k \in 1 .. Len(todo') : todo'[k] = todo[k + 1] /\ k + 1 \in 1 .. Len(todo)
  BY <1>1
<1>3. ListedCached'
  BY <1>1, <1>2 DEF ListedCached
<1> QED BY <1>1, <1>2, <1>3 DEF FlushInv

LEMMA LoopFlush ==
  ASSUME Inv, NEW x \in Page, FlushSkips(x) \/ FlushWrites(x)
  PROVE  FlushInv'
PROOF
<1>1. /\ mode = "flushing" /\ todo # <<>> /\ pos' = pos
      /\ \/ todo' = Tail(todo) /\ mode' = mode
         \/ todo' = <<>> /\ mode' = "idle"
  BY DEF FlushSkips, FlushWrites
<1>2. Cached(lru') = Cached(lru)
  <2>1. lru'.table = lru.table
    BY FlushFrames DEF FlushSkips, core
  <2> QED BY <2>1 DEF Cached
<1>3. CASE todo' = Tail(todo) /\ mode' = mode
  BY <1>1, <1>2, <1>3, TailListed
<1>4. CASE todo' = <<>> /\ mode' = "idle"
  BY <1>1, <1>4, NothingListed DEF Inv, FlushInv
<1> QED BY <1>1, <1>3, <1>4

LEMMA EndFlush ==
  ASSUME Inv, FlushHangs \/ FlushEnd \/ Restart
  PROVE  FlushInv'
PROOF
<1>1. mode' \in {"idle", "flushed", "hung"} /\ todo' = <<>> /\ pos' \in Link
  BY DEF Inv, FlushInv, FlushHangs, FlushEnd, Restart, Link
<1> QED BY <1>1, NothingListed

LEMMA StutterFlush ==
  ASSUME Inv, UNCHANGED vars
  PROVE  FlushInv'
PROOF BY DEF Inv, FlushInv, ListedCached, vars

(* Every step of the file system preserves the inductive invariant. *)
LEMMA NextInv == Inv /\ [Next]_vars => Inv'
PROOF
<1> SUFFICES ASSUME Inv, [Next]_vars PROVE Inv'
  OBVIOUS
<1>1. ASSUME NEW i \in Page, Read(i) \/ StrayRead(i) PROVE Inv'
  <2>1. Call
    BY <1>1 DEF Read, StrayRead
  <2> QED BY <1>1, <2>1, ReadFrames, UseFree, CallFlush DEF Inv
<1>2. ASSUME NEW i \in Page, NEW x \in Part, NEW v \in Data, Write(i, x, v) \/ StrayWrite(i, x, v)
      PROVE  Inv'
  <2>1. Call
    BY <1>2 DEF Write, StrayWrite
  <2> QED BY <1>2, <2>1, WriteFrames, UseFree, CallFlush DEF Inv
<1>3. ASSUME NEW i \in Page, Delete(i) PROVE Inv'
  <2>1. Call
    BY <1>3 DEF Delete
  <2> QED BY <1>3, <2>1, DeleteFrames, DeleteFree, CallFlush DEF Inv
<1>4. ASSUME NewFresh \/ NewRecycled PROVE Inv'
  <2>1. Call
    BY <1>4 DEF NewFresh, NewRecycled
  <2> QED BY <1>4, <2>1, NewFrames, NewFree, CallFlush DEF Inv
<1>5. ASSUME NewOnFullDisk PROVE Inv'
  <2>1. Call /\ UNCHANGED <<lru, page, change_flag, disk, pristine, broken>>
    BY <1>5 DEF NewOnFullDisk, core
  <2> QED BY <1>5, <2>1, FramesKept, FlushFree, CallFlush DEF Inv
<1>6. ASSUME Flush PROVE Inv'
  <2>1. UNCHANGED <<lru, page, change_flag, disk, pristine, broken>>
    BY <1>6 DEF Flush, FlushBegin, FlushLists, FlushHangs, FlushListed, FlushEnd, core
  <2> QED BY <1>6, <2>1, FramesKept, FlushFree, ListFlush, EndFlush DEF Inv, Flush
<1>7. ASSUME NEW x \in Page, FlushSkips(x) PROVE Inv'
  <2>1. UNCHANGED <<lru, page, change_flag, disk, pristine, broken>>
    BY <1>7 DEF FlushSkips, core
  <2> QED BY <1>7, <2>1, FramesKept, FlushFree, LoopFlush DEF Inv
<1>8. ASSUME NEW x \in Page, FlushWrites(x) PROVE Inv'
  BY <1>8, FlushFrames, FlushFree, LoopFlush DEF Inv
<1>9. ASSUME Restart PROVE Inv'
  BY <1>9, RestartFrames, RestartFree, EndFlush DEF Inv
<1>10. CASE UNCHANGED vars
  <2>1. UNCHANGED <<lru, page, change_flag, disk, pristine, broken>>
    BY <1>10 DEF vars
  <2> QED BY <1>10, <2>1, FramesKept, FlushFree, StutterFlush DEF Inv
<1> QED BY <1>1, <1>2, <1>3, <1>4, <1>5, <1>6, <1>7, <1>8, <1>9, <1>10 DEF Next, Flush

LEMMA Invariance == Spec => []Inv
PROOF BY InitInv, NextInv, PTL DEF Spec

(* The state stays of its type. *)
THEOREM TypeCorrect == Spec => []TypeOK
PROOF
<1>1. Inv => TypeOK
  BY DEF Inv, FrameInv, FreeInv, FlushInv, BufferOK, FrameTypes, TypeOK
<1> QED BY <1>1, Invariance, PTL

(* Page table, list and pool agree after every call, also one that threw. *)
THEOREM BufferCorrect == Spec => []BufferConsistent
PROOF
<1>1. Inv => BufferConsistent
  BY DEF Inv, FrameInv, BufferOK, BufferConsistent
<1> QED BY <1>1, Invariance, PTL

(* A frame that is not marked dirty can be dropped without losing what a   *)
(* client wrote.                                                           *)
THEOREM CleanCorrect == Spec => []CleanFramesMatchDisk
PROOF
<1>1. Inv => CleanFramesMatchDisk
  BY DEF Inv, FrameInv, Clean, CleanFramesMatchDisk
<1> QED BY <1>1, Invariance, PTL

-----------------------------------------------------------------------------
(***************************************************************************)
(* BufferFileSystem implements PageStore: whatever is evicted, reloaded,   *)
(* recycled or written back, and wherever the process is restarted.        *)
(***************************************************************************)

(* What a Read of page j returns, with buffer b, frames pg and disk d. *)
Seen(b, pg, d, j) == IF b.table[j] # NULL_ID THEN pg[b.table[j]] ELSE d.data[j]

(* From content c and disk d to content c2 and disk d2, page j is as it    *)
(* was, is written back, or shows its durable copy again.                  *)
Untouched(c, d, c2, d2, j) == c2[j] = c[j] /\ d2.data[j] = d.data[j]
Saved(c, c2, d2, j)        == c2[j] = c[j] /\ d2.data[j] = c[j]
Dropped(d, c2, d2, j)      == c2[j] = d.data[j] /\ d2.data[j] = d.data[j]

(* Of the pages but i only k has changed. *)
OneEvicted(c, d, c2, d2, i, k, fresh) ==
  \A j \in DiskPage \ {i} :
     \/ Untouched(c, d, c2, d2, j)
     \/ j = k /\ Saved(c, c2, d2, j)
     \/ j = k /\ j \in fresh /\ Dropped(d, c2, d2, j)

Shown(b, pg, d) == [j \in DiskPage |-> Seen(b, pg, d, j)]

(* The frames of two pages are different ones. *)
LEMMA FramesApart ==
  ASSUME NEW b, BufferOK(b), NEW i \in Page, NEW j \in Page, i # j,
         b.table[i] # NULL_ID, b.table[j] # NULL_ID
  PROVE  b.table[i] # b.table[j] /\ b.table[i] \in Slot /\ b.table[j] \in Slot
PROOF
<1>1. i \in Cached(b) /\ j \in Cached(b)
  BY DEF Cached
<1>2. b.table[i] \in Slot /\ b.table[j] \in Slot
  BY <1>1, PartsOK
<1>3. \A p, q \in Cached(b) : b.table[p] = b.table[q] => p = q
  BY DEF BufferOK, TableOK
<1> QED BY <1>1, <1>2, <1>3

(* Writing to page i's frame changes no other page. *)
LEMMA OthersUnseen ==
  ASSUME NEW b, BufferOK(b), NEW pg \in [Slot -> Content], NEW d, NEW i \in DiskPage,
         NEW s \in Slot, b.table[i] = s, NEW c,
         NEW pg2, pg2 = [pg EXCEPT ![s] = c]
  PROVE  /\ Seen(b, pg2, d, i) = c
         /\ \A j \in DiskPage \ {i} : Seen(b, pg2, d, j) = Seen(b, pg, d, j)
PROOF
<1>1. i \in Page /\ s # NULL_ID
  BY DiskFacts
<1>2. ASSUME NEW j \in DiskPage \ {i}
      PROVE  Seen(b, pg2, d, j) = Seen(b, pg, d, j)
  <2>1. j \in Page /\ j # i
    BY DiskFacts
  <2>2. CASE b.table[j] = NULL_ID
    BY <2>2 DEF Seen
  <2>3. CASE b.table[j] # NULL_ID
    <3>1. b.table[j] # s /\ b.table[j] \in Slot
      BY <1>1, <2>1, <2>3, FramesApart
    <3> QED BY <2>3, <3>1 DEF Seen
  <2> QED BY <2>2, <2>3
<1> QED BY <1>1, <1>2 DEF Seen

(* Get of a page that the disk has brings its content into the frame, and  *)
(* at most the victim changes besides: it is written back if it is dirty,  *)
(* and if it is clean, only a page that New has blanked loses anything     *)
(* (BufferFileSystem.h:82-104).                                            *)
LEMMA FetchEffect ==
  ASSUME BufferOK(lru), FrameTypes, NEW d \in DiskType, NEW i \in DiskPage, InBound(d, i),
         NEW fresh, Clean(lru, page, change_flag, d, fresh),
         NEW f, f = Fetch(d, i)
  PROVE  /\ f.ok /\ f.disk.data[i] = d.data[i]
         /\ f.page[f.slot] = Seen(lru, page, d, i)
         /\ \E k : OneEvicted(Shown(lru, page, d), d, Shown(f.lru, f.page, f.disk), f.disk,
                              i, k, fresh)
PROOF
<1> DEFINE g == BufferGet(lru, i)
           k == g.replace_key
           spills == k # NULL_ID /\ change_flag[g.replace_value]
           spilt == IF spills /\ InBound(d, k) THEN Stored(d, k, page[g.replace_value]) ELSE d
           ok == g.miss => InBound(d, i) /\ (spills => InBound(d, k))
<1>0. i \in Page /\ NULL_ID \notin Page /\ NULL_ID \notin Slot /\ DiskPage \subseteq Page
  BY DiskFacts
<1>1. /\ BufferOK(g.buffer) /\ g.ret \in Slot /\ g.buffer.table[i] = g.ret
      /\ g.miss \in BOOLEAN /\ (g.miss <=> i \notin Cached(lru))
      /\ ~g.miss => g.replace_key = NULL_ID /\ g.buffer.table = lru.table
      /\ k # NULL_ID => k \in Cached(lru) \ {i} /\ g.replace_value = lru.table[k]
                        /\ g.ret = g.replace_value
      /\ g.miss /\ k = NULL_ID => g.ret \notin Used(lru)
      /\ \A p \in Page \ {i} : g.buffer.table[p] = IF p = k THEN NULL_ID ELSE lru.table[p]
  BY <1>0, BufferGetOK
<1>2. f = [ok |-> ok, slot |-> g.ret, lru |-> g.buffer,
           disk |-> IF g.miss THEN spilt ELSE d,
           page |-> IF g.miss /\ ok THEN [page EXCEPT ![g.ret] = spilt.data[i]] ELSE page,
           flag |-> IF g.miss /\ ok THEN [change_flag EXCEPT ![g.ret] = FALSE] ELSE change_flag]
  BY DEF Fetch, Fetched, Spills
<1> HIDE DEF g
<1>3. k # NULL_ID => /\ InBound(d, k) /\ k \in DiskPage /\ k # i /\ lru.table[k] # NULL_ID
                     /\ change_flag[lru.table[k]] \/ k \in fresh \/ page[lru.table[k]] = d.data[k]
  <2>1. k # NULL_ID => InBound(d, k) /\ k \in Page /\ k # i /\ lru.table[k] # NULL_ID
                       /\ (change_flag[lru.table[k]] \/ k \in fresh \/ page[lru.table[k]] = d.data[k])
    BY <1>1 DEF Clean, Cached
  <2> QED BY <2>1, DiskFacts
<1>4. ok
  BY <1>3
<1>5. lru.table[i] # NULL_ID <=> ~g.miss
  BY <1>0, <1>1 DEF Cached
<1>6. CASE ~g.miss
  <2> HIDE DEF spilt, ok
  <2>1. /\ f.lru.table = lru.table /\ f.page = page /\ f.disk = d /\ f.ok
        /\ f.slot = g.ret /\ g.ret = lru.table[i]
    BY <1>1, <1>2, <1>4, <1>6
  <2>2. OneEvicted(Shown(lru, page, d), d, Shown(f.lru, f.page, f.disk), f.disk, i, NULL_ID, fresh)
    BY <2>1 DEF OneEvicted, Untouched, Shown, Seen
  <2>3. f.page[f.slot] = Seen(lru, page, d, i)
    BY <1>5, <1>6, <2>1 DEF Seen
  <2> QED BY <2>1, <2>2, <2>3
<1>7. CASE g.miss
  <2>1. /\ f.ok /\ f.lru = g.buffer /\ f.disk = spilt /\ f.slot = g.ret
        /\ f.page = [page EXCEPT ![g.ret] = spilt.data[i]]
    <3> HIDE DEF spilt, ok
    <3> QED BY <1>2, <1>4, <1>7
  <2>2. /\ \A p \in DiskPage : p # k => spilt.data[p] = d.data[p]
        /\ k # NULL_ID => spilt.data[k] = IF change_flag[lru.table[k]] THEN page[lru.table[k]]
                                          ELSE d.data[k]
    <3>1. CASE spills
      <4>1. k \in DiskPage /\ page[g.replace_value] \in Content /\ g.replace_value = lru.table[k]
        <5>1. k \in DiskPage /\ g.replace_value \in Slot /\ g.replace_value = lru.table[k]
          BY <1>1, <1>3, <3>1
        <5> QED BY <5>1 DEF FrameTypes
      <4>2. /\ Stored(d, k, page[g.replace_value]).data[k] = page[g.replace_value]
            /\ \A p \in DiskPage \ {k} :
                 Stored(d, k, page[g.replace_value]).data[p] = d.data[p]
        BY <1>3, <3>1, <4>1, StoredOK
      <4> QED BY <1>3, <3>1, <4>1, <4>2
    <3>2. CASE ~spills
      BY <1>1, <3>2
    <3> QED BY <3>1, <3>2
  <2> HIDE DEF spilt, ok
  <2>3. f.disk.data[i] = d.data[i]
    BY <1>3, <2>1, <2>2, <1>0
  <2>4. f.page[f.slot] = Seen(lru, page, d, i)
    BY <1>1, <1>5, <1>7, <2>1, <2>3 DEF Seen, FrameTypes
  <2>5. ASSUME NEW j \in DiskPage \ {i}, j # k
        PROVE  Untouched(Shown(lru, page, d), d, Shown(f.lru, f.page, f.disk), f.disk, j)
    <3>1. j \in Page /\ f.lru.table[j] = lru.table[j] /\ f.disk.data[j] = d.data[j]
      BY <1>0, <1>1, <2>1, <2>2, <2>5
    <3>2. CASE lru.table[j] = NULL_ID
      BY <3>1, <3>2 DEF Untouched, Shown, Seen
    <3>3. CASE lru.table[j] # NULL_ID
      <4>1. lru.table[j] # g.ret
        <5>1. j \in Cached(lru) /\ lru.table[j] \in Used(lru)
          BY <3>1, <3>3 DEF Cached, Used
        <5>2. k # NULL_ID => lru.table[k] # lru.table[j]
          BY <1>1, <2>5, <5>1 DEF BufferOK, TableOK
        <5> QED BY <1>1, <1>7, <5>1, <5>2
      <4>2. lru.table[j] \in Slot
        BY <3>1, <3>3, PartsOK DEF Cached
      <4>3. f.page[lru.table[j]] = page[lru.table[j]]
        BY <1>1, <2>1, <4>1, <4>2 DEF FrameTypes
      <4> QED BY <3>1, <3>3, <4>3 DEF Untouched, Shown, Seen
    <3> QED BY <3>2, <3>3
  <2>6. ASSUME NEW j \in DiskPage \ {i}, j = k
        PROVE  \/ Untouched(Shown(lru, page, d), d, Shown(f.lru, f.page, f.disk), f.disk, j)
               \/ Saved(Shown(lru, page, d), Shown(f.lru, f.page, f.disk), f.disk, j)
               \/ j \in fresh /\ Dropped(d, Shown(f.lru, f.page, f.disk), f.disk, j)
    <3>1. j # NULL_ID /\ j \in Page
      BY <1>0
    <3>2. f.lru.table[j] = NULL_ID /\ lru.table[j] # NULL_ID
      BY <1>1, <1>3, <2>1, <2>6, <3>1
    <3>3. /\ Shown(lru, page, d)[j] = page[lru.table[j]]
          /\ Shown(f.lru, f.page, f.disk)[j] = f.disk.data[j]
      BY <3>2 DEF Shown, Seen
    <3>4. CASE change_flag[lru.table[j]]
      <4>1. f.disk.data[j] = page[lru.table[j]]
        BY <2>1, <2>2, <2>6, <3>1, <3>4
      <4> QED BY <3>3, <4>1 DEF Saved
    <3>5. CASE ~change_flag[lru.table[j]]
      <4>1. f.disk.data[j] = d.data[j]
        BY <2>1, <2>2, <2>6, <3>1, <3>5
      <4>2. j \in fresh \/ page[lru.table[j]] = d.data[j]
        BY <1>3, <2>6, <3>1, <3>5
      <4> QED BY <3>3, <4>1, <4>2 DEF Untouched, Dropped
    <3> QED BY <3>4, <3>5
  <2>7. OneEvicted(Shown(lru, page, d), d, Shown(f.lru, f.page, f.disk), f.disk, i, k, fresh)
    BY <2>5, <2>6 DEF OneEvicted
  <2> QED BY <2>1, <2>3, <2>4, <2>7
<1> QED BY <1>1, <1>6, <1>7

-----------------------------------------------------------------------------
(* The refinement mapping: what the pages show now. *)
Now == Shown(lru, page, disk)

LEMMA ShownTyped ==
  ASSUME NEW b, BufferOK(b), NEW pg \in [Slot -> Content], NEW d \in DiskType
  PROVE  Shown(b, pg, d) \in [DiskPage -> Content] /\ d.data \in [DiskPage -> Content]
PROOF
<1> SUFFICES ASSUME NEW j \in DiskPage PROVE Seen(b, pg, d, j) \in Content
  BY DEF Shown, DiskType
<1>1. d.data \in [DiskPage -> Content] /\ j \in Page
  BY DiskFacts DEF DiskType
<1>2. b.table[j] # NULL_ID => b.table[j] \in Slot
  BY <1>1, PartsOK DEF Cached
<1> QED BY <1>1, <1>2 DEF Seen

LEMMA KnownIs == ASSUME NEW i \in Page, Inv PROVE i \in Known <=> InBound(disk, i)
PROOF BY DiskFacts DEF Known, Inv, FrameInv

(* One page evicted is what the store allows besides every call. *)
LEMMA EvictsOne ==
  ASSUME Inv, Inv', NEW i \in DiskPage, NEW k, OneEvicted(Now, disk, Now', disk', i, k, pristine)
  PROVE  Store!EvictsOneBut(i)
PROOF
<1> DEFINE others == {j \in DiskPage \ {i} : ~(Now'[j] = Now[j] /\ disk'.data[j] = disk.data[j])}
<1>1. Now' \in [DiskPage -> Content] /\ disk'.data \in [DiskPage -> Content]
  BY ShownTyped DEF Inv, FrameInv, FrameTypes, Now
<1>2. \A j \in others : j = k /\ (Saved(Now, Now', disk', j)
                                  \/ (j \in pristine /\ Dropped(disk, Now', disk', j)))
  BY DEF OneEvicted, Untouched
<1>3. \A j \in others : /\ others = {j}
                        /\ \/ Now'[j] = Now[j] /\ disk'.data[j] = Now[j]
                           \/ j \in pristine /\ Now'[j] = disk.data[j] /\ disk'.data[j] = disk.data[j]
  BY <1>2 DEF Saved, Dropped
<1>4. Now = [j \in DiskPage |-> View(j)] /\ Now' = [j \in DiskPage |-> View(j)]'
  BY DEF Now, Shown, Seen, View
<1> HIDE DEF Now
<1> QED BY <1>1, <1>3, <1>4 DEF Store!EvictsOneBut, Store!Same, Store!WrittenBack, Store!Reverted,
                              Store!Content, Content

(* What is told apart above is the same for states that agree but on i. *)
LEMMA EvictedAlike ==
  ASSUME NEW c, NEW d, NEW c2, NEW d2, NEW i, NEW k, NEW fresh, OneEvicted(c, d, c2, d2, i, k, fresh),
         NEW e, NEW d0, NEW e2,
         \A j \in DiskPage \ {i} : e[j] = c[j] /\ d0.data[j] = d.data[j] /\ e2[j] = c2[j]
  PROVE  OneEvicted(e, d0, e2, d2, i, k, fresh)
PROOF BY DEF OneEvicted, Untouched, Saved, Dropped

(* The same where a fetched frame is written to. *)
LEMMA FetchedAndWritten ==
  ASSUME NEW f, BufferOK(f.lru), f.page \in [Slot -> Content], NEW i \in DiskPage,
         f.slot \in Slot, f.lru.table[i] = f.slot,
         NEW c, NEW pg, pg = [f.page EXCEPT ![f.slot] = c]
  PROVE  /\ Seen(f.lru, pg, f.disk, i) = c
         /\ \A j \in DiskPage \ {i} : Seen(f.lru, pg, f.disk, j) = Seen(f.lru, f.page, f.disk, j)
PROOF
<1> DEFINE b == f.lru
           q == f.page
           s == f.slot
           d == f.disk
<1>1. BufferOK(b) /\ q \in [Slot -> Content] /\ s \in Slot /\ b.table[i] = s /\ pg = [q EXCEPT ![s] = c]
  OBVIOUS
<1> HIDE DEF b, q, s, d
<1>2. /\ Seen(b, pg, d, i) = c
      /\ \A j \in DiskPage \ {i} : Seen(b, pg, d, j) = Seen(b, q, d, j)
  BY <1>1, OthersUnseen
<1> QED BY <1>2 DEF b, q, s, d

(* FetchEffect in a state that satisfies the invariant. *)
LEMMA Fetches ==
  ASSUME Inv, ~broken, NEW d \in DiskType, NEW i \in DiskPage, InBound(d, i),
         Clean(lru, page, change_flag, d, pristine), NEW f, f = Fetch(d, i)
  PROVE  /\ f.ok /\ f.slot \in Slot /\ f.lru.table[i] = f.slot /\ BufferOK(f.lru)
         /\ f.page \in [Slot -> Content]
         /\ f.disk.max_id = d.max_id /\ f.disk.data[i] = d.data[i]
         /\ f.page[f.slot] = Seen(lru, page, d, i)
         /\ Seen(f.lru, f.page, f.disk, i) = Seen(lru, page, d, i)
         /\ \E k : OneEvicted(Shown(lru, page, d), d, Shown(f.lru, f.page, f.disk), f.disk,
                              i, k, pristine)
PROOF
<1>1. i \in Page /\ NULL_ID \notin Slot
  BY DiskFacts
<1>2. /\ f.slot \in Slot /\ f.lru.table[i] = f.slot /\ BufferOK(f.lru)
      /\ f.page \in [Slot -> Content] /\ f.disk.max_id = d.max_id
  BY <1>1, FetchOK DEF Inv, FrameInv
<1>3. /\ f.ok /\ f.disk.data[i] = d.data[i] /\ f.page[f.slot] = Seen(lru, page, d, i)
      /\ \E k : OneEvicted(Shown(lru, page, d), d, Shown(f.lru, f.page, f.disk), f.disk,
                           i, k, pristine)
  BY FetchEffect DEF Inv, FrameInv
<1>4. Seen(f.lru, f.page, f.disk, i) = f.page[f.slot]
  BY <1>1, <1>2 DEF Seen
<1> QED BY <1>2, <1>3, <1>4

LEMMA ReadStep ==
  ASSUME Inv, Inv', ~broken, NEW i \in Page, Read(i)
  PROVE  Store!Read(i)
PROOF
<1> DEFINE f == Fetch(disk, i)
<1>1. i \in DiskPage /\ InBound(disk, i) /\ i \in Known /\ disk \in DiskType
  BY DiskFacts DEF Read, Known, Inv, FrameInv
<1>2. /\ lru' = f.lru /\ disk' = f.disk /\ page' = f.page
      /\ reply' = IF f.ok THEN f.page[f.slot] ELSE NoReply
      /\ UNCHANGED <<live, pristine, broken>>
  BY DEF Read, Installs
<1>3. Clean(lru, page, change_flag, disk, pristine)
  BY DEF Inv, FrameInv
<1> HIDE DEF f
<1>4. /\ f.ok /\ f.disk.max_id = disk.max_id /\ f.disk.data[i] = disk.data[i]
      /\ f.page[f.slot] = Seen(lru, page, disk, i)
      /\ Seen(f.lru, f.page, f.disk, i) = Seen(lru, page, disk, i)
      /\ \E k : OneEvicted(Now, disk, Shown(f.lru, f.page, f.disk), f.disk, i, k, pristine)
  BY <1>1, <1>3, Fetches DEF Now, f
<1>5. PICK k : OneEvicted(Now, disk, Now', disk', i, k, pristine)
  BY <1>2, <1>4 DEF Now
<1>6. Store!EvictsOneBut(i)
  BY <1>1, <1>5, EvictsOne
<1>7. Known' = Known
  BY <1>2, <1>4 DEF Known, InBound
<1>8. View(i) = Seen(lru, page, disk, i) /\ View(i)' = View(i) /\ disk'.data[i] = disk.data[i]
  BY <1>2, <1>4 DEF View, Seen
<1>9. Store!Same(i)
  BY <1>1, <1>8 DEF Store!Same
<1> QED BY <1>1, <1>2, <1>4, <1>6, <1>7, <1>8, <1>9 DEF Store!Read

LEMMA WriteStep ==
  ASSUME Inv, Inv', ~broken, NEW i \in Page, NEW x \in Part, NEW v \in Data, Write(i, x, v)
  PROVE  Store!Write(i, x, v)
PROOF
<1> DEFINE f == Fetch(disk, i)
           c == [f.page[f.slot] EXCEPT ![x] = v]
<1>1. i \in DiskPage /\ InBound(disk, i) /\ i \in Known /\ disk \in DiskType
  BY DiskFacts DEF Write, Known, Inv, FrameInv
<1>2. /\ lru' = f.lru /\ disk' = f.disk
      /\ page' = IF f.ok THEN [f.page EXCEPT ![f.slot] = c] ELSE f.page
      /\ reply' = NoReply /\ pristine' = pristine \ {i}
      /\ UNCHANGED <<live, broken>>
  BY DEF Write
<1>3. Clean(lru, page, change_flag, disk, pristine)
  BY DEF Inv, FrameInv
<1> HIDE DEF f
<1>4. /\ f.ok /\ f.disk.max_id = disk.max_id /\ f.disk.data[i] = disk.data[i]
      /\ f.slot \in Slot /\ f.lru.table[i] = f.slot /\ BufferOK(f.lru)
      /\ f.page \in [Slot -> Content] /\ f.page[f.slot] = Seen(lru, page, disk, i)
      /\ \E k : OneEvicted(Now, disk, Shown(f.lru, f.page, f.disk), f.disk, i, k, pristine)
  BY <1>1, <1>3, Fetches DEF Now, f
<1> HIDE DEF c
<1>5. /\ Seen(lru', page', disk', i) = c
      /\ \A j \in DiskPage \ {i} : Seen(lru', page', disk', j) = Seen(f.lru, f.page, f.disk, j)
  <2> DEFINE pg == [f.page EXCEPT ![f.slot] = c]
  <2>1. page' = pg
    BY <1>2, <1>4
  <2>2. pg = [f.page EXCEPT ![f.slot] = c]
    OBVIOUS
  <2> HIDE DEF pg
  <2>3. /\ Seen(f.lru, pg, f.disk, i) = c
        /\ \A j \in DiskPage \ {i} : Seen(f.lru, pg, f.disk, j) = Seen(f.lru, f.page, f.disk, j)
    BY <1>1, <1>4, <2>2, FetchedAndWritten
  <2> QED BY <1>2, <2>1, <2>3
<1>6. \A j \in DiskPage \ {i} : Now'[j] = Shown(f.lru, f.page, f.disk)[j]
  BY <1>5 DEF Now, Shown
<1>7. PICK k : OneEvicted(Now, disk, Now', disk', i, k, pristine)
  BY <1>2, <1>4, <1>6, EvictedAlike
<1>8. Store!EvictsOneBut(i)
  BY <1>1, <1>7, EvictsOne
<1>9. Known' = Known
  BY <1>2, <1>4 DEF Known, InBound
<1>10. View(i) = Seen(lru, page, disk, i) /\ View(i)' = c
  BY <1>5 DEF View, Seen
<1>11. View(i)' = [View(i) EXCEPT ![x] = v] /\ disk'.data[i] = disk.data[i]
  BY <1>2, <1>4, <1>10 DEF c
<1> QED BY <1>1, <1>2, <1>8, <1>9, <1>11 DEF Store!Write, Store!NoReply, NoReply

LEMMA NewFreshStep ==
  ASSUME Inv, Inv', ~broken, NewFresh, NEW i, i = disk.max_id
  PROVE  i \in DiskPage /\ Store!NewFresh(i)
PROOF
<1> DEFINE d == Grown(disk)
           f == Fetch(d, i)
<1>1. /\ d \in DiskType /\ i \in DiskPage /\ i \in Page /\ InBound(d, i) /\ ~InBound(disk, i)
      /\ d.max_id = disk.max_id + 1 /\ disk \in DiskType
      /\ \A p \in DiskPage : InBound(disk, p) => InBound(d, p)
  BY GrownOK DEF Inv, FrameInv, NewFresh
<1>2. d.data[i] = WhitePage /\ \A j \in DiskPage \ {i} : d.data[j] = disk.data[j]
  <2>1. d.data = [disk.data EXCEPT ![i] = WhitePage] /\ disk.data \in [DiskPage -> Content]
    BY GrownOK DEF Inv, FrameInv, NewFresh, DiskType
  <2> QED BY <1>1, <2>1
<1>3. /\ lru' = f.lru /\ disk' = f.disk /\ page' = f.page
      /\ live' = IF f.ok THEN live \cup {i} ELSE live
      /\ reply' = NoReply
      /\ UNCHANGED <<pristine, broken>>
  BY DEF NewFresh
<1> HIDE DEF d
<1>4. i \notin Cached(lru) /\ i \notin Known /\ lru.table[i] = NULL_ID
  BY <1>1 DEF Inv, FrameInv, Clean, Known, Cached
<1>5. Clean(lru, page, change_flag, d, pristine)
  <2>1. \A p \in Cached(lru) : InBound(disk, p) /\ p \in DiskPage /\ p # i
    BY <1>1, <1>4, DiskFacts DEF Inv, FrameInv, Clean, Cached
  <2> QED BY <1>1, <1>2, <2>1 DEF Inv, FrameInv, Clean
<1> HIDE DEF f
<1>6. /\ f.ok /\ f.disk.max_id = d.max_id /\ f.disk.data[i] = d.data[i]
      /\ Seen(f.lru, f.page, f.disk, i) = Seen(lru, page, d, i)
      /\ \E k : OneEvicted(Shown(lru, page, d), d, Shown(f.lru, f.page, f.disk), f.disk,
                           i, k, pristine)
  BY <1>1, <1>5, Fetches DEF f
<1>7. \A j \in DiskPage \ {i} : Shown(lru, page, d)[j] = Now[j]
  BY <1>2 DEF Now, Shown, Seen
<1>8. PICK k : OneEvicted(Now, disk, Now', disk', i, k, pristine)
  <2>1. Now' = Shown(f.lru, f.page, f.disk)
    BY <1>3 DEF Now
  <2> QED BY <1>2, <1>3, <1>6, <1>7, <2>1, EvictedAlike
<1>9. Store!EvictsOneBut(i)
  BY <1>1, <1>8, EvictsOne
<1>10. Known' = Known \cup {i}
  <2>1. disk'.max_id = i + 1 /\ i \in Int /\ \A p \in DiskPage : p \in Int
    BY <1>1, <1>3, <1>6 DEF DiskPage
  <2> QED BY <1>1, <2>1 DEF Known, InBound
<1>11. View(i)' = WhitePage /\ disk'.data[i] = WhitePage
  BY <1>2, <1>3, <1>4, <1>6 DEF View, Seen
<1>12. Store!NewFresh(i)
  BY <1>1, <1>3, <1>4, <1>6, <1>9, <1>10, <1>11
     DEF Store!NewFresh, Store!NoReply, NoReply, Store!Blank, WhitePage
<1> QED BY <1>1, <1>12

LEMMA NewRecycledStep ==
  ASSUME Inv, Inv', ~broken, NewRecycled, NEW i, i = Top(e_s)
  PROVE  i \in DiskPage /\ Store!NewRecycled(i)
PROOF
<1> DEFINE f == Fetch(disk, i)
<1>1. i \in DiskPage /\ i \in Known \ live /\ InBound(disk, i) /\ disk \in DiskType
  <2>1. e_s # <<>> /\ e_s \in Seq(Page)
    BY DEF NewRecycled, Inv, FreeInv
  <2>2. Len(e_s) \in 1 .. Len(e_s) /\ e_s[Len(e_s)] \in Page
    BY <2>1
  <2> QED BY <2>2 DEF Inv, FrameInv, FreeInv, FreePages, Known, Top
<1>2. /\ lru' = f.lru /\ disk' = f.disk
      /\ page' = IF f.ok THEN [f.page EXCEPT ![f.slot] = WhitePage] ELSE f.page
      /\ f.ok => live' = live \cup {i} /\ pristine' = pristine \cup {i}
      /\ reply' = NoReply /\ broken' = broken
  BY <1>1 DEF NewRecycled
<1>3. Clean(lru, page, change_flag, disk, pristine)
  BY DEF Inv, FrameInv
<1> HIDE DEF f
<1>4. /\ f.ok /\ f.disk.max_id = disk.max_id /\ f.disk.data[i] = disk.data[i]
      /\ f.slot \in Slot /\ f.lru.table[i] = f.slot /\ BufferOK(f.lru)
      /\ f.page \in [Slot -> Content]
      /\ \E k : OneEvicted(Now, disk, Shown(f.lru, f.page, f.disk), f.disk, i, k, pristine)
  BY <1>1, <1>3, Fetches DEF Now, f
<1>5. /\ Seen(lru', page', disk', i) = WhitePage
      /\ \A j \in DiskPage \ {i} : Seen(lru', page', disk', j) = Seen(f.lru, f.page, f.disk, j)
  <2> DEFINE pg == [f.page EXCEPT ![f.slot] = WhitePage]
  <2>1. page' = pg
    BY <1>2, <1>4
  <2>2. pg = [f.page EXCEPT ![f.slot] = WhitePage]
    OBVIOUS
  <2> HIDE DEF pg
  <2>3. /\ Seen(f.lru, pg, f.disk, i) = WhitePage
        /\ \A j \in DiskPage \ {i} : Seen(f.lru, pg, f.disk, j) = Seen(f.lru, f.page, f.disk, j)
    BY <1>1, <1>4, <2>2, FetchedAndWritten
  <2> QED BY <1>2, <2>1, <2>3
<1>6. \A j \in DiskPage \ {i} : Now'[j] = Shown(f.lru, f.page, f.disk)[j]
  BY <1>5 DEF Now, Shown
<1>7. PICK k : OneEvicted(Now, disk, Now', disk', i, k, pristine)
  BY <1>2, <1>4, <1>6, EvictedAlike
<1>8. Store!EvictsOneBut(i)
  BY <1>1, <1>7, EvictsOne
<1>9. Known' = Known
  BY <1>2, <1>4 DEF Known, InBound
<1>10. View(i)' = WhitePage /\ disk'.data[i] = disk.data[i]
  BY <1>2, <1>4, <1>5 DEF View, Seen
<1>11. Store!NewRecycled(i)
  BY <1>1, <1>2, <1>4, <1>8, <1>9, <1>10
     DEF Store!NewRecycled, Store!NoReply, NoReply, Store!Blank, WhitePage
<1> QED BY <1>1, <1>11

(* WriteAllBack writes pages that the buffer has (ListedCached), so  *)
(* their content is what goes to the disk.                                 *)
LEMMA FlushStep ==
  ASSUME Inv, ~broken, NEW x \in Page, FlushWrites(x)
  PROVE  Store!WriteBack
PROOF
<1> DEFINE g == BufferGet(lru, x)
<1>1. x \in Cached(lru)
  <2>1. todo \in Seq(Page) /\ todo # <<>> /\ x = Head(todo)
    BY DEF Inv, FlushInv, FlushWrites
  <2>2. 1 \in 1 .. Len(todo) /\ x = todo[1]
    BY <2>1
  <2> QED BY <2>2 DEF Inv, FlushInv, ListedCached
<1>2. InBound(disk, x) /\ x \in DiskPage /\ x \in Known /\ lru.table[x] # NULL_ID
  BY <1>1, DiskFacts DEF Inv, FrameInv, Clean, Known, Cached
<1>3. g.miss = FALSE /\ g.ret = lru.table[x] /\ g.buffer.table = lru.table
  <2>1. /\ (g.miss <=> x \notin Cached(lru)) /\ g.miss \in BOOLEAN
        /\ g.buffer.table[x] = g.ret
        /\ ~g.miss => g.buffer.table = lru.table
    BY BufferGetOK DEF Inv, FrameInv
  <2> HIDE DEF g
  <2> QED BY <1>1, <2>1
<1>4. /\ lru' = g.buffer
      /\ disk' = IF ~g.miss /\ InBound(disk, x) THEN Stored(disk, x, page[g.ret]) ELSE disk
      /\ UNCHANGED <<page, reply, live, pristine, broken>>
  BY DEF FlushWrites
<1> HIDE DEF g
<1>5. disk' = Stored(disk, x, View(x)) /\ lru'.table = lru.table /\ page' = page
  BY <1>2, <1>3, <1>4 DEF View
<1>6. disk'.max_id = disk.max_id /\ disk'.data = [disk.data EXCEPT ![x] = View(x)]
  BY <1>5 DEF Stored
<1>7. \A j \in DiskPage : View(j)' = View(j)
  <2> SUFFICES ASSUME NEW j \in DiskPage PROVE View(j)' = View(j)
    OBVIOUS
  <2>1. j # x => disk'.data[j] = disk.data[j]
    BY <1>6 DEF Inv, FrameInv, DiskType
  <2> QED BY <1>2, <1>5, <2>1 DEF View
<1>8. Known' = Known
  BY <1>6 DEF Known, InBound
<1>9. [j \in DiskPage |-> View(j)]' = [j \in DiskPage |-> View(j)]
  BY <1>7
<1>10. disk'.data = [disk.data EXCEPT ![x] = [j \in DiskPage |-> View(j)][x]]
  BY <1>2, <1>6
<1> QED BY <1>2, <1>4, <1>8, <1>9, <1>10 DEF Store!WriteBack

(* A restart forgets every frame. *)
LEMMA RestartStep ==
  ASSUME Inv, Restart
  PROVE  Store!Restart
PROOF
<1>1. /\ lru' = NewBuffer /\ disk' = disk /\ pristine' = {} /\ reply' = NoReply
      /\ UNCHANGED <<live, broken>>
  BY ReopenedSame DEF Restart, FreshMemory, Inv, FrameInv
<1>2. \A j \in DiskPage : View(j)' = disk.data[j]
  BY <1>1, DiskFacts DEF View, NewBuffer
<1>3. [j \in DiskPage |-> View(j)]' = disk.data
  BY <1>2 DEF Inv, FrameInv, DiskType
<1>4. Known' = Known
  BY <1>1 DEF Known, InBound
<1> QED BY <1>1, <1>3, <1>4 DEF Store!Restart, Store!NoReply, NoReply

LEMMA DeleteStep ==
  ASSUME Inv, NEW i \in Page, Delete(i), ~broken'
  PROVE  i \in DiskPage /\ Store!Delete(i)
PROOF
<1>1. /\ i \in live /\ live' = live \ {i} /\ reply' = NoReply
      /\ UNCHANGED <<lru, page, disk, pristine, broken>>
  BY DEF Delete, Inv, FreeInv
<1>2. i \in DiskPage
  BY <1>1 DEF Inv, FreeInv
<1>3. Known' = Known /\ [j \in DiskPage |-> View(j)]' = [j \in DiskPage |-> View(j)]
  BY <1>1 DEF Known, InBound, View
<1> QED BY <1>1, <1>2, <1>3 DEF Store!Delete, Store!NoReply, NoReply

(* The steps that move nothing: a call that only throws, and WriteAllBack  *)
(* while it lists pages or skips one.                                      *)
LEMMA QuietStep ==
  ASSUME NewOnFullDisk \/ Flush \/ \E x \in Page : FlushSkips(x)
  PROVE  Store!Forget \/ UNCHANGED Store!vars
PROOF
<1>1. /\ UNCHANGED <<lru, page, disk, live, pristine, broken>>
      /\ reply' = NoReply \/ reply' = reply
  BY DEF NewOnFullDisk, Flush, FlushBegin, FlushLists, FlushHangs, FlushListed, FlushEnd,
         FlushSkips, core
<1>2. Known' = Known /\ [j \in DiskPage |-> View(j)]' = [j \in DiskPage |-> View(j)]
  BY <1>1 DEF Known, InBound, View
<1> QED BY <1>1, <1>2 DEF Store!Forget, Store!vars, Store!NoReply, NoReply

(* Once a page number that was never given out has been used, or a page    *)
(* deleted that was not in use, nothing is promised, and the store allows  *)
(* anything of its type.                                                   *)
LEMMA ChaosStep ==
  ASSUME Inv', broken'
  PROVE  Store!Chaos
PROOF
<1>1. Now' \in [DiskPage -> Content] /\ disk'.data \in [DiskPage -> Content]
  BY ShownTyped DEF Inv, FrameInv, FrameTypes, Now
<1>2. Now' = [j \in DiskPage |-> View(j)]'
  BY DEF Now, Shown, Seen, View
<1>3. Known' \in SUBSET DiskPage /\ live' \in SUBSET DiskPage /\ pristine' \in SUBSET DiskPage
  BY DEF Inv, FreeInv, Known
<1>4. reply' \in Content \cup {NoReply}
  BY DEF Inv, FreeInv
<1> HIDE DEF Now
<1> QED BY <1>1, <1>2, <1>3, <1>4 DEF Store!Chaos, Store!Content, Content, Store!NoReply, NoReply

LEMMA StaysBroken ==
  ASSUME [Next]_vars, broken
  PROVE  broken'
PROOF BY DEF Next, vars, core, Read, Write, StrayRead, StrayWrite, NewFresh, NewOnFullDisk,
             NewRecycled, Delete, FlushBegin, FlushLists, FlushHangs, FlushListed, FlushSkips,
             FlushWrites, FlushEnd, Restart

(* Every step of the file system is one of the store, or none. *)
LEMMA StoreStep ==
  ASSUME Inv, Inv', [Next]_vars
  PROVE  [Store!Next]_(Store!vars)
PROOF
<1>1. CASE broken'
  BY <1>1, ChaosStep DEF Store!Next
<1>2. CASE ~broken'
  <2>0. ~broken
    BY <1>2, StaysBroken
  <2>1. ASSUME NEW i \in Page, Read(i) PROVE Store!Next
    <3>1. i \in DiskPage
      BY <2>1, DiskFacts DEF Read, Inv, FrameInv
    <3> QED BY <2>0, <2>1, <3>1, ReadStep DEF Store!Next
  <2>2. ASSUME NEW i \in Page, NEW x \in Part, NEW v \in Data, Write(i, x, v) PROVE Store!Next
    <3>1. i \in DiskPage
      BY <2>2, DiskFacts DEF Write, Inv, FrameInv
    <3> QED BY <2>0, <2>2, <3>1, WriteStep DEF Store!Next
  <2>3. ASSUME NEW i \in Page, Delete(i) PROVE Store!Next
    BY <1>2, <2>3, DeleteStep DEF Store!Next
  <2>4. CASE NewFresh
    BY <2>0, <2>4, NewFreshStep DEF Store!Next
  <2>5. CASE NewRecycled
    BY <2>0, <2>5, NewRecycledStep DEF Store!Next
  <2>6. CASE NewOnFullDisk \/ Flush \/ \E x \in Page : FlushSkips(x)
    BY <2>6, QuietStep DEF Store!Next
  <2>7. ASSUME NEW x \in Page, FlushWrites(x) PROVE Store!Next
    BY <2>0, <2>7, FlushStep DEF Store!Next
  <2>8. CASE Restart
    BY <2>8, RestartStep DEF Store!Next
  <2>9. ASSUME NEW i \in Page, StrayRead(i) \/ \E x \in Part, v \in Data : StrayWrite(i, x, v)
        PROVE FALSE
    BY <1>2, <2>9 DEF StrayRead, StrayWrite
  <2>10. CASE UNCHANGED vars
    <3>1. Known' = Known /\ [j \in DiskPage |-> View(j)]' = [j \in DiskPage |-> View(j)]
      BY <2>10 DEF vars, Known, InBound, View
    <3> QED BY <2>10, <3>1 DEF vars, Store!vars
  <2> QED BY <2>1, <2>2, <2>3, <2>4, <2>5, <2>6, <2>7, <2>8, <2>9, <2>10 DEF Next, Flush
<1> QED BY <1>1, <1>2

LEMMA StoreInit == Init => Store!Init
PROOF
<1> SUFFICES ASSUME Init PROVE Store!Init
  OBVIOUS
<1>1. \A j \in DiskPage : View(j) = WhitePage /\ disk.data[j] = WhitePage
  BY DiskFacts DEF Init, View, NewBuffer, NewDisk
<1>2. Known = {}
  BY DiskFacts DEF Init, Known, InBound, NewDisk, DiskPage
<1>3. disk.data = [j \in DiskPage |-> WhitePage]
  BY DEF Init, NewDisk
<1> QED BY <1>1, <1>2, <1>3 DEF Init, Store!Init, Store!Blank, WhitePage, Store!NoReply, NoReply

(* The file system is the page store that the tables rely on: a Read       *)
(* returns the last Write, across eviction and reload, and a restart       *)
(* leaves each page as it was last written back.                           *)
THEOREM StoreImplemented == Spec => RefinesPageStore
PROOF
<1>1. Init => Store!Init
  BY StoreInit
<1>2. Inv /\ Inv' /\ [Next]_vars => [Store!Next]_(Store!vars)
  BY StoreStep
<1> QED BY <1>1, <1>2, Invariance, PTL DEF Spec, RefinesPageStore, Store!Spec

-----------------------------------------------------------------------------
(* Files fs, one after the other, each with a name and entries. *)
IsFile(x)  == "name" \in DOMAIN x /\ "entries" \in DOMAIN x
Listed(fs) ==
  /\ \E S : fs \in Seq(S)
  /\ Len(fs) # 0 /\ \A f \in 1 .. Len(fs) : IsFile(fs[f])

(* The entry of each directory of the path leads to the next one. *)
PathFollowed ==
  \A i \in 1 .. Len(path) - 1 :
     LET k == EntryKey[files[path[i + 1]].name]
     IN k \in DOMAIN files[path[i]].entries /\ files[path[i]].entries[k] = path[i + 1]

FilesOK ==
  /\ Listed(files) /\ currentDir \in DOMAIN files /\ astray \in BOOLEAN
  /\ path \in Seq(Nat) /\ \A i \in 1 .. Len(path) : path[i] \in DOMAIN files
  /\ FilesFormTree

PathOK ==
  Running => /\ path # <<>>
             /\ ~astray => /\ path[1] = 1 /\ currentDir = path[Len(path)]
                           /\ PathFollowed
                           /\ \A i, j \in 1 .. Len(path) : i < j => path[i] < path[j]

ShellInv == FilesOK /\ PathOK

(* Files gs are those of the state and a new one, entered under its name.  *)
Adds(gs, name) ==
  /\ Listed(gs) /\ Len(gs) = Len(files) + 1
  /\ gs[Len(gs)].name = name /\ DOMAIN gs[Len(gs)].entries = {}
  /\ \A f \in DOMAIN files :
       /\ gs[f].name = files[f].name
       /\ gs[f].entries = IF f = currentDir THEN With(files[f].entries, EntryKey[name], Len(gs))
                          ELSE files[f].entries

LEMMA ListedFacts ==
  ASSUME NEW fs, Listed(fs)
  PROVE  /\ Len(fs) \in Nat \ {0} /\ DOMAIN fs = 1 .. Len(fs)
         /\ \A f \in 1 .. Len(fs) : IsFile(fs[f])
BY DEF Listed

LEMMA AppendListed ==
  ASSUME NEW fs, Listed(fs), NEW x, IsFile(x)
  PROVE  /\ Listed(Append(fs, x)) /\ Len(Append(fs, x)) = Len(fs) + 1
         /\ \A f \in 1 .. Len(fs) : Append(fs, x)[f] = fs[f]
         /\ Append(fs, x)[Len(fs) + 1] = x
PROOF
<1>1. PICK S : fs \in Seq(S)
  BY DEF Listed
<1> DEFINE T == S \cup {x}
<1>2. fs \in Seq(T)
  BY <1>1, SeqMonotonic
<1>3. x \in T
  OBVIOUS
<1> HIDE DEF T
<1>4. /\ Append(fs, x) \in Seq(T) /\ Len(Append(fs, x)) = Len(fs) + 1 /\ Len(fs) \in Nat
      /\ \A i \in 1 .. Len(fs) : Append(fs, x)[i] = fs[i]
      /\ Append(fs, x)[Len(fs) + 1] = x
  BY <1>2, <1>3, AppendProperties
<1>5. \A f \in 1 .. Len(fs) + 1 : IsFile(Append(fs, x)[f])
  BY <1>4 DEF Listed
<1> QED BY <1>4, <1>5 DEF Listed

Replaced(fs, i, x) == [fs EXCEPT ![i] = x]

LEMMA ReplacedListed ==
  ASSUME NEW fs, Listed(fs), NEW i, i \in DOMAIN fs, NEW x, IsFile(x)
  PROVE  /\ Listed(Replaced(fs, i, x)) /\ Len(Replaced(fs, i, x)) = Len(fs)
         /\ \A f \in DOMAIN fs : Replaced(fs, i, x)[f] = IF f = i THEN x ELSE fs[f]
PROOF
<1>1. PICK S : fs \in Seq(S)
  BY DEF Listed
<1> DEFINE T  == S \cup {x}
           gs == [fs EXCEPT ![i] = x]
<1>2. fs \in Seq(T)
  BY <1>1, SeqMonotonic
<1>3. x \in T
  OBVIOUS
<1> HIDE DEF T
<1>0. DOMAIN fs = 1 .. Len(fs)
  BY ListedFacts
<1>4. /\ gs \in Seq(T) /\ Len(gs) = Len(fs)
      /\ \A j \in DOMAIN fs : gs[j] = IF j = i THEN x ELSE fs[j]
  BY <1>0, <1>2, <1>3, ExceptSeq
<1> HIDE DEF gs
<1>5. \A f \in 1 .. Len(fs) : IsFile(gs[f])
  BY <1>0, <1>4 DEF Listed
<1>6. Listed(gs)
  BY <1>4, <1>5 DEF Listed
<1> QED BY <1>4, <1>6 DEF gs, Replaced

(* A file x of that name is added to the files and to the open directory.  *)
LEMMA SetEntryAdds ==
  ASSUME Listed(files), currentDir \in DOMAIN files,
         NEW name, NEW x, IsFile(x), x.name = name, DOMAIN x.entries = {}
  PROVE  /\ Adds(SetEntry(Append(files, x), currentDir, name, Len(files) + 1), name)
         /\ SetEntry(Append(files, x), currentDir, name, Len(files) + 1)[currentDir].entries[EntryKey[name]]
              = Len(files) + 1
PROOF
<1> DEFINE fs  == Append(files, x)
           n   == Len(files)
           gs  == SetEntry(fs, currentDir, name, n + 1)
           new == With(fs[currentDir].entries, EntryKey[name], n + 1)
           d   == [fs[currentDir] EXCEPT !.entries = new]
<1>1. /\ Listed(fs) /\ Len(fs) = n + 1 /\ fs[n + 1] = x
      /\ \A f \in 1 .. n : fs[f] = files[f]
  BY AppendListed
<1>2. n \in Nat \ {0} /\ DOMAIN files = 1 .. n
  BY ListedFacts
<1> HIDE DEF fs, n
<1>3. /\ n + 1 \in Nat /\ currentDir \in 1 .. n /\ currentDir \in 1 .. Len(fs) /\ currentDir \in 1 .. n + 1
      /\ IsFile(fs[currentDir])
  <2>1. \A f \in 1 .. Len(fs) : IsFile(fs[f])
    BY <1>1, ListedFacts
  <2>2. currentDir \in 1 .. n
    BY <1>2
  <2>3. n + 1 \in Nat /\ currentDir \in 1 .. n + 1
    BY <1>2, <2>2
  <2> QED BY <1>1, <2>1, <2>2, <2>3
<1>4. gs = Replaced(fs, currentDir, d)
  BY DEF SetEntry, Replaced
<1> HIDE DEF gs, new
<1>5. /\ DOMAIN d = DOMAIN fs[currentDir]
      /\ d.entries = new /\ d.name = fs[currentDir].name
  BY <1>3 DEF IsFile
<1>6. IsFile(d)
  BY <1>3, <1>5 DEF IsFile
<1> HIDE DEF d
<1>7. /\ Listed(gs) /\ Len(gs) = n + 1
      /\ \A f \in 1 .. n + 1 : gs[f] = IF f = currentDir THEN d ELSE fs[f]
  <2>1. DOMAIN fs = 1 .. n + 1
    BY <1>1, ListedFacts
  <2> DEFINE c == currentDir
  <2>3. c \in DOMAIN fs /\ Listed(fs) /\ IsFile(d)
    BY <1>1, <1>3, <1>6, <2>1
  <2> HIDE DEF c
  <2>2. /\ Listed(Replaced(fs, c, d)) /\ Len(Replaced(fs, c, d)) = Len(fs)
        /\ \A f \in DOMAIN fs : Replaced(fs, c, d)[f] = IF f = c THEN d ELSE fs[f]
    BY <2>3, ReplacedListed
  <2> QED BY <1>1, <1>4, <2>1, <2>2 DEF c
<1>8. gs[n + 1] = x /\ n + 1 # currentDir
  <2>1. n + 1 # currentDir /\ n + 1 \in 1 .. n + 1
    BY <1>2, <1>3
  <2> QED BY <1>1, <1>7, <2>1
<1>9. new = With(files[currentDir].entries, EntryKey[name], n + 1)
  BY <1>1, <1>2 DEF new
<1>10. ASSUME NEW f \in DOMAIN files
       PROVE  /\ gs[f].name = files[f].name
              /\ gs[f].entries = IF f = currentDir THEN With(files[f].entries, EntryKey[name], Len(gs))
                                 ELSE files[f].entries
  <2>1. f \in 1 .. n /\ f \in 1 .. n + 1
    BY <1>2
  <2>2. gs[f] = (IF f = currentDir THEN d ELSE fs[f]) /\ fs[f] = files[f] /\ Len(gs) = n + 1
    BY <2>1, <1>1, <1>7
  <2> QED BY <1>5, <1>9, <2>1, <2>2
<1>11. Adds(gs, name)
  BY <1>7, <1>8, <1>10 DEF Adds, n
<1>12. new[EntryKey[name]] = n + 1
  BY DEF new, With
<1>13. gs[currentDir].entries[EntryKey[name]] = n + 1
  BY <1>1, <1>3, <1>5, <1>7, <1>12
<1> QED BY <1>11, <1>13 DEF gs, fs, n

(* What the commands that make a file do. *)
LEMMA MakesFile ==
  ASSUME FilesOK, NEW name, MkdirHere(name) \/ CreateTableTest
  PROVE  \E nm : Adds(files', nm)
PROOF
<1>1. Listed(files) /\ currentDir \in DOMAIN files
  BY DEF FilesOK
<1>2. CASE MkdirHere(name)
  <2> DEFINE x == NewDirectory(name)
  <2>1. IsFile(x) /\ x.name = name /\ DOMAIN x.entries = {}
    BY DEF NewDirectory, IsFile
  <2> HIDE DEF x
  <2>2. Adds(SetEntry(Append(files, x), currentDir, name, Len(files) + 1), name)
    BY <1>1, <2>1, SetEntryAdds
  <2> QED BY <1>2, <2>2 DEF MkdirHere, Mkdir, x
<1>3. CASE CreateTableTest
  <2> DEFINE x  == NewTable(Student, StudentColumns)
             gs == Touch(files, Student, StudentColumns, currentDir)
             n  == Len(files)
  <2>1. IsFile(x) /\ x.name = Student /\ DOMAIN x.entries = {}
    BY DEF NewTable, IsFile
  <2> HIDE DEF x
  <2>2. Adds(gs, Student) /\ gs[currentDir].entries[EntryKey[Student]] = n + 1
    BY <1>1, <2>1, SetEntryAdds DEF Touch, x
  <2>3. files' = [gs EXCEPT ![n + 1] = Insert(gs[n + 1], Students)]
    BY <1>3, <2>2 DEF CreateTableTest, InsertTableTest
  <2> HIDE DEF gs, n
  <2>4. /\ n \in Nat \ {0} /\ Len(gs) = n + 1 /\ Listed(gs) /\ DOMAIN files = 1 .. n
        /\ n + 1 \in 1 .. Len(gs) /\ IsFile(gs[n + 1])
    BY <1>1, <2>2, ListedFacts DEF Adds, n
  <2> DEFINE y == Insert(gs[n + 1], Students)
  <2>5. IsFile(y) /\ y.name = gs[n + 1].name /\ y.entries = gs[n + 1].entries
    BY <2>4 DEF Insert, IsFile
  <2> HIDE DEF y
  <2>6. /\ Listed(files') /\ Len(files') = n + 1
        /\ \A f \in 1 .. n + 1 : files'[f] = IF f = n + 1 THEN y ELSE gs[f]
    <3>1. files' = Replaced(gs, n + 1, y)
      BY <2>3 DEF y, Replaced
    <3>2. /\ Listed(Replaced(gs, n + 1, y)) /\ Len(Replaced(gs, n + 1, y)) = Len(gs)
          /\ \A f \in DOMAIN gs : Replaced(gs, n + 1, y)[f] = IF f = n + 1 THEN y ELSE gs[f]
      <4>1. n + 1 \in DOMAIN gs
        BY <2>4, ListedFacts
      <4> QED BY <2>4, <2>5, <4>1, ReplacedListed
    <3>3. DOMAIN gs = 1 .. n + 1
      BY <2>4, ListedFacts
    <3> QED BY <2>4, <3>1, <3>2, <3>3
  <2>10. Adds(files', Student)
    BY <2>2, <2>4, <2>5, <2>6 DEF Adds
  <2> QED BY <2>10
<1> QED BY <1>2, <1>3

(* The files are a tree with a new one as well. *)
LEMMA TreeGrows ==
  ASSUME FilesOK, NEW name, Adds(files', name)
  PROVE  FilesFormTree'
PROOF
<1> DEFINE n == Len(files)
           key == EntryKey[name]
<1>1. /\ n \in Nat \ {0} /\ DOMAIN files = 1 .. n /\ Len(files') = n + 1 /\ DOMAIN files' = 1 .. n + 1
      /\ currentDir \in 1 .. n /\ n + 1 \in 1 .. n + 1 /\ 1 .. n \subseteq 1 .. n + 1
  <2>1. Listed(files) /\ Listed(files') /\ currentDir \in DOMAIN files /\ Len(files') = n + 1
    BY DEF FilesOK, Adds
  <2>2. n \in Nat \ {0} /\ DOMAIN files = 1 .. n
    BY <2>1, ListedFacts
  <2>3. DOMAIN files' = 1 .. n + 1
    BY <2>1, ListedFacts
  <2> QED BY <2>1, <2>2, <2>3
<1>2. /\ files'[n + 1].name = name /\ DOMAIN files'[n + 1].entries = {}
      /\ \A f \in 1 .. n :
           /\ files'[f].name = files[f].name
           /\ files'[f].entries = IF f = currentDir THEN With(files[f].entries, key, n + 1) ELSE files[f].entries
  BY <1>1 DEF Adds
<1>3. /\ \A f \in 1 .. n : \A k \in DOMAIN files[f].entries :
           /\ files[f].entries[k] \in f + 1 .. n /\ EntryKey[files[files[f].entries[k]].name] = k
           /\ \A h \in 1 .. n : \A l \in DOMAIN files[h].entries :
                files[h].entries[l] = files[f].entries[k] => h = f /\ l = k
      /\ \A g \in 2 .. n : \E f \in 1 .. n :
           /\ EntryKey[files[g].name] \in DOMAIN files[f].entries
           /\ files[f].entries[EntryKey[files[g].name]] >= g
  BY <1>1 DEF FilesOK, FilesFormTree
<1> HIDE DEF n, key
(* An entry is the new one or an old one of the same file. *)
<1>4. ASSUME NEW f \in 1 .. n + 1, NEW k \in DOMAIN files'[f].entries
      PROVE  /\ f \in 1 .. n
             /\ \/ f = currentDir /\ k = key /\ files'[f].entries[k] = n + 1
                \/ /\ k \in DOMAIN files[f].entries /\ files'[f].entries[k] = files[f].entries[k]
                   /\ ~(f = currentDir /\ k = key)
  <2>1. f \in 1 .. n
    BY <1>1, <1>2
  <2>2. CASE f = currentDir
    <3>1. files'[f].entries = With(files[f].entries, key, n + 1)
      BY <1>2, <2>1, <2>2
    <3> QED BY <2>1, <2>2, <3>1 DEF With
  <2>3. CASE f # currentDir
    <3>1. files'[f].entries = files[f].entries
      BY <1>2, <2>1, <2>3
    <3> QED BY <2>1, <2>3, <3>1
  <2> QED BY <2>2, <2>3
<1>5. ASSUME NEW f \in 1 .. n + 1, NEW k \in DOMAIN files'[f].entries
      PROVE  /\ files'[f].entries[k] \in f + 1 .. n + 1
             /\ EntryKey[files'[files'[f].entries[k]].name] = k
             /\ \A h \in 1 .. n + 1 : \A l \in DOMAIN files'[h].entries :
                  files'[h].entries[l] = files'[f].entries[k] => h = f /\ l = k
  <2>1. f \in 1 .. n
    BY <1>4
  <2>2. CASE f = currentDir /\ k = key /\ files'[f].entries[k] = n + 1
    <3>1. EntryKey[files'[n + 1].name] = k
      BY <1>2, <2>2 DEF key
    <3>2. ASSUME NEW h \in 1 .. n + 1, NEW l \in DOMAIN files'[h].entries, files'[h].entries[l] = n + 1
          PROVE  h = f /\ l = k
      <4>1. \/ h = currentDir /\ l = key
            \/ h \in 1 .. n /\ l \in DOMAIN files[h].entries /\ files[h].entries[l] = n + 1
        BY <1>4, <3>2
      <4>2. ~(h \in 1 .. n /\ l \in DOMAIN files[h].entries /\ files[h].entries[l] = n + 1)
        BY <1>1, <1>3
      <4> QED BY <2>2, <4>1, <4>2
    <3> QED BY <1>1, <2>1, <2>2, <3>1, <3>2
  <2>3. CASE /\ k \in DOMAIN files[f].entries /\ files'[f].entries[k] = files[f].entries[k]
             /\ ~(f = currentDir /\ k = key)
    <3> DEFINE g == files[f].entries[k]
    <3>1. g \in f + 1 .. n /\ g \in 1 .. n /\ EntryKey[files[g].name] = k /\ files'[f].entries[k] = g
      BY <1>1, <1>3, <2>1, <2>3
    <3>2. EntryKey[files'[g].name] = k
      BY <1>2, <3>1
    <3>3. ASSUME NEW h \in 1 .. n + 1, NEW l \in DOMAIN files'[h].entries, files'[h].entries[l] = g
          PROVE  h = f /\ l = k
      <4>1. h \in 1 .. n /\ l \in DOMAIN files[h].entries /\ files[h].entries[l] = g
        BY <1>1, <1>4, <3>1, <3>3
      <4> QED BY <1>3, <2>1, <2>3, <4>1
    <3> HIDE DEF g
    <3> QED BY <1>1, <2>1, <3>1, <3>2, <3>3
  <2> QED BY <1>4, <2>2, <2>3
(* A file whose entry is taken has a later one there. *)
<1>6. ASSUME NEW g \in 2 .. n + 1
      PROVE  \E f \in 1 .. n + 1 :
               /\ EntryKey[files'[g].name] \in DOMAIN files'[f].entries
               /\ files'[f].entries[EntryKey[files'[g].name]] >= g
  <2> DEFINE k == EntryKey[files'[g].name]
  <2>1. PICK f \in 1 .. n : \/ f = currentDir /\ k = key
                            \/ k \in DOMAIN files[f].entries /\ files[f].entries[k] >= g
    <3>1. CASE g = n + 1
      BY <1>1, <1>2, <3>1 DEF key
    <3>2. CASE g # n + 1
      <4>1. g \in 2 .. n /\ g \in 1 .. n
        BY <1>1, <3>2
      <4>2. k = EntryKey[files[g].name]
        BY <1>2, <4>1
      <4> QED BY <1>3, <4>1, <4>2
    <3> QED BY <3>1, <3>2
  <2> HIDE DEF k
  <2>2. f \in 1 .. n + 1 /\ n + 1 >= g
    BY <1>1
  <2>3. CASE f = currentDir
    <3>1. files'[f].entries = With(files[f].entries, key, n + 1)
      BY <1>2, <2>3
    <3>2. k \in DOMAIN files'[f].entries /\ files'[f].entries[k] >= g
      BY <2>1, <2>2, <3>1 DEF With
    <3> QED BY <2>2, <3>2 DEF k
  <2>4. CASE f # currentDir
    <3>1. files'[f].entries = files[f].entries
      BY <1>2, <2>4
    <3> QED BY <2>1, <2>2, <2>4, <3>1 DEF k
  <2> QED BY <2>3, <2>4
<1>7. FilesFormTree' <=>
        /\ \A f \in 1 .. n + 1 : \A k \in DOMAIN files'[f].entries :
              /\ files'[f].entries[k] \in f + 1 .. n + 1
              /\ EntryKey[files'[files'[f].entries[k]].name] = k
              /\ \A h \in 1 .. n + 1 : \A l \in DOMAIN files'[h].entries :
                   files'[h].entries[l] = files'[f].entries[k] => h = f /\ l = k
        /\ \A g \in 2 .. n + 1 : \E f \in 1 .. n + 1 :
              /\ EntryKey[files'[g].name] \in DOMAIN files'[f].entries
              /\ files'[f].entries[EntryKey[files'[g].name]] >= g
  BY <1>1 DEF FilesFormTree
<1> QED BY <1>5, <1>6, <1>7

LEMMA FilesFacts ==
  ASSUME FilesOK
  PROVE  /\ Len(files) \in Nat \ {0} /\ DOMAIN files = 1 .. Len(files)
         /\ currentDir \in 1 .. Len(files) /\ astray \in BOOLEAN
         /\ Len(path) \in Nat /\ \A i \in 1 .. Len(path) : path[i] \in 1 .. Len(files)
         /\ \A f \in 1 .. Len(files) : \A k \in DOMAIN files[f].entries :
              /\ files[f].entries[k] \in f + 1 .. Len(files) /\ files[f].entries[k] \in 1 .. Len(files)
              /\ EntryKey[files[files[f].entries[k]].name] = k
PROOF
<1>1. /\ Len(files) \in Nat \ {0} /\ DOMAIN files = 1 .. Len(files)
      /\ currentDir \in 1 .. Len(files) /\ astray \in BOOLEAN
      /\ Len(path) \in Nat /\ \A i \in 1 .. Len(path) : path[i] \in 1 .. Len(files)
  BY ListedFacts DEF FilesOK
<1>2. \A f \in 1 .. Len(files) : \A k \in DOMAIN files[f].entries :
        /\ files[f].entries[k] \in f + 1 .. Len(files)
        /\ EntryKey[files[files[f].entries[k]].name] = k
  BY <1>1 DEF FilesOK, FilesFormTree
<1> QED BY <1>1, <1>2

(* A new file changes no entry that the path follows: the entry taken, if  *)
(* any, is one of the open directory, with which the path ends.            *)
LEMMA PathKept ==
  ASSUME ShellInv, NEW name, Adds(files', name), UNCHANGED <<path, currentDir, astray, status>>
  PROVE  ShellInv'
PROOF
<1> DEFINE n == Len(files)
<1>1. /\ n \in Nat \ {0} /\ DOMAIN files = 1 .. n /\ currentDir \in 1 .. n
      /\ Len(path) \in Nat /\ \A i \in 1 .. Len(path) : path[i] \in 1 .. n
  BY FilesFacts DEF ShellInv
<1>2. Len(files') = n + 1 /\ DOMAIN files' = 1 .. n + 1 /\ Listed(files')
  BY ListedFacts DEF Adds
<1>3. FilesOK'
  <2>1. FilesFormTree'
    BY TreeGrows DEF ShellInv
  <2>2. currentDir' \in DOMAIN files' /\ \A i \in 1 .. Len(path') : path'[i] \in DOMAIN files'
    BY <1>1, <1>2
  <2> QED BY <1>2, <2>1, <2>2 DEF ShellInv, FilesOK
<1>4. ASSUME Running, ~astray PROVE PathFollowed'
  <2>1. /\ PathFollowed /\ path # <<>> /\ currentDir = path[Len(path)]
        /\ \A i, j \in 1 .. Len(path) : i < j => path[i] < path[j]
    BY <1>4 DEF ShellInv, PathOK
  <2> SUFFICES ASSUME NEW i \in 1 .. Len(path) - 1
               PROVE  /\ EntryKey[files'[path[i + 1]].name] \in DOMAIN files'[path[i]].entries
                      /\ files'[path[i]].entries[EntryKey[files'[path[i + 1]].name]] = path[i + 1]
    BY DEF PathFollowed
  <2>2. i \in 1 .. Len(path) /\ i + 1 \in 1 .. Len(path) /\ Len(path) \in 1 .. Len(path) /\ i < Len(path)
    BY <1>1
  <2>3. path[i] \in 1 .. n /\ path[i + 1] \in 1 .. n /\ path[Len(path)] \in 1 .. n /\ path[i] < path[Len(path)]
    BY <1>1, <2>1, <2>2
  <2>4. path[i] # currentDir
    BY <2>1, <2>3
  <2>5. files'[path[i + 1]].name = files[path[i + 1]].name /\ files'[path[i]].entries = files[path[i]].entries
    BY <1>1, <2>3, <2>4 DEF Adds
  <2> QED BY <2>1, <2>5 DEF PathFollowed
<1>5. PathOK'
  <2>1. Running' <=> Running
    BY DEF Running
  <2> QED BY <1>4, <2>1 DEF ShellInv, PathOK
<1> QED BY <1>3, <1>5 DEF ShellInv

LEMMA UpKept ==
  ASSUME ShellInv, CdUp
  PROVE  ShellInv'
PROOF
<1> DEFINE n == Len(path)
           up == SubSeq(path, 1, n - 1)
<1>1. /\ Running /\ path' = up /\ UNCHANGED <<files, astray>> /\ path # <<>>
      /\ IF n = 1 THEN status' = "undefined" /\ UNCHANGED currentDir
         ELSE currentDir' = up[Len(up)] /\ UNCHANGED status
  BY DEF CdUp, ShellInv, PathOK
<1>2. /\ n \in Nat /\ \A i \in 1 .. n : path[i] \in DOMAIN files
      /\ path \in Seq(Nat) /\ currentDir \in DOMAIN files
  BY FilesFacts DEF ShellInv, FilesOK
<1>3. n \in Nat \ {0}
  BY <1>1, <1>2
<1>4. up \in Seq(Nat) /\ Len(up) = n - 1 /\ \A i \in 1 .. n - 1 : up[i] = path[i]
  <2>1. n - 1 \in Int /\ \A i \in 1 .. n - 1 : path[i] \in Nat
    BY <1>2, <1>3
  <2> HIDE DEF n
  <2>2. /\ up \in Seq(Nat) /\ Len(up) = IF 1 <= n - 1 THEN n - 1 - 1 + 1 ELSE 0
        /\ \A i \in 1 .. n - 1 - 1 + 1 : up[i] = path[1 + i - 1]
    BY <2>1, SubSeqProperties
  <2>3. 1 .. n - 1 - 1 + 1 = 1 .. n - 1 /\ \A i \in 1 .. n - 1 : 1 + i - 1 = i
    BY <1>3
  <2> QED BY <1>3, <2>2, <2>3
<1> HIDE DEF up, n
<1>5. \A i \in 1 .. n - 1 : up[i] \in DOMAIN files
  BY <1>2, <1>3, <1>4
<1>6. currentDir' \in DOMAIN files
  <2>1. CASE n = 1
    BY <1>1, <1>2, <2>1
  <2>2. CASE n # 1
    BY <1>1, <1>3, <1>4, <1>5, <2>2
  <2> QED BY <2>1, <2>2
<1>7. FilesOK'
  BY <1>1, <1>4, <1>5, <1>6 DEF ShellInv, FilesOK, FilesFormTree
<1>8. PathOK'
  <2>1. CASE n = 1
    BY <1>1, <2>1 DEF PathOK, Running
  <2>2. CASE n # 1
    <3>1. path' # <<>> /\ n - 1 \in Nat \ {0} /\ 1 .. n - 1 \subseteq 1 .. n
      BY <1>1, <1>3, <1>4, <2>2
    <3>2. ASSUME ~astray
          PROVE  /\ up[1] = 1 /\ currentDir' = up[Len(up)]
                 /\ \A i, j \in 1 .. Len(up) : i < j => up[i] < up[j]
      BY <1>1, <1>4, <2>2, <3>1, <3>2 DEF ShellInv, PathOK, n
    <3>3. ASSUME ~astray PROVE PathFollowed'
      <4>1. PathFollowed
        BY <1>1, <3>3 DEF ShellInv, PathOK
      <4> SUFFICES ASSUME NEW i \in 1 .. (n - 1) - 1
                   PROVE  /\ EntryKey[files[up[i + 1]].name] \in DOMAIN files[up[i]].entries
                          /\ files[up[i]].entries[EntryKey[files[up[i + 1]].name]] = up[i + 1]
        BY <1>1, <1>4 DEF PathFollowed
      <4>2. i \in 1 .. n - 1 /\ i + 1 \in 1 .. n - 1 /\ i \in 1 .. Len(path) - 1
        BY <1>3 DEF n
      <4>3. up[i] = path[i] /\ up[i + 1] = path[i + 1]
        BY <1>4, <4>2
      <4> QED BY <4>1, <4>2, <4>3 DEF PathFollowed
    <3> QED BY <1>1, <3>1, <3>2, <3>3 DEF PathOK
  <2> QED BY <2>1, <2>2
<1> QED BY <1>7, <1>8 DEF ShellInv

(* The file that a name leads to from the open one. *)
LEMMA CdLeads ==
  ASSUME FilesOK, NEW name, NEW id \in Cd(files, name, currentDir), id # NoNumber
  PROVE  /\ id \in DOMAIN files /\ id \in Nat
         /\ HasEntry(files[currentDir], name) =>
              /\ EntryKey[files[id].name] = EntryKey[name] /\ currentDir < id
              /\ EntryKey[name] \in DOMAIN files[currentDir].entries
              /\ files[currentDir].entries[EntryKey[name]] = id
PROOF
<1>1. DOMAIN files = 1 .. Len(files) /\ Len(files) \in Nat /\ currentDir \in 1 .. Len(files)
  BY FilesFacts
<1>2. CASE HasEntry(files[currentDir], name)
  <2>1. EntryKey[name] \in DOMAIN files[currentDir].entries /\ id = files[currentDir].entries[EntryKey[name]]
    BY <1>2 DEF Cd, HasEntry
  <2>2. id \in currentDir + 1 .. Len(files) /\ id \in 1 .. Len(files) /\ EntryKey[files[id].name] = EntryKey[name]
    BY <1>1, <2>1, FilesFacts
  <2> QED BY <1>1, <2>1, <2>2
<1>3. CASE ~HasEntry(files[currentDir], name)
  BY <1>1, <1>3 DEF Cd, NoNumber
<1> QED BY <1>2, <1>3

LEMMA CdKept ==
  ASSUME ShellInv, NEW name, CdTo(name)
  PROVE  ShellInv'
PROOF
<1> DEFINE n == Len(path)
<1>1. PICK id \in Cd(files, name, currentDir) :
        IF id = NoNumber THEN status' = "ended" /\ UNCHANGED <<path, currentDir>>
        ELSE path' = Append(path, id) /\ currentDir' = id /\ UNCHANGED status
  BY DEF CdTo
<1>2. Running /\ files' = files /\ astray' = (astray \/ ~HasEntry(files[currentDir], name)) /\ FilesOK /\ PathOK
  BY DEF CdTo, Strays, ShellInv
<1>3. CASE id = NoNumber
  <2>1. ~Running'
    BY <1>1, <1>3 DEF Running
  <2>2. astray' \in BOOLEAN
    BY <1>2 DEF FilesOK, HasEntry
  <2>3. FilesOK'
    BY <1>1, <1>2, <1>3, <2>2 DEF FilesOK, FilesFormTree
  <2> QED BY <2>1, <2>3 DEF ShellInv, PathOK
<1>4. CASE id # NoNumber
  <2>1. /\ id \in DOMAIN files /\ id \in Nat
        /\ HasEntry(files[currentDir], name) =>
             /\ EntryKey[files[id].name] = EntryKey[name] /\ currentDir < id
             /\ EntryKey[name] \in DOMAIN files[currentDir].entries
             /\ files[currentDir].entries[EntryKey[name]] = id
    BY <1>2, <1>4, CdLeads
  <2>2. path \in Seq(Nat) /\ n \in Nat /\ \A i \in 1 .. n : path[i] \in DOMAIN files /\ path[i] \in Nat
    BY <1>2, FilesFacts DEF FilesOK
  <2>3. /\ path' \in Seq(Nat) /\ Len(path') = n + 1 /\ path'[n + 1] = id
        /\ \A i \in 1 .. n : path'[i] = path[i]
    <3>1. path \in Seq(Nat) /\ id \in Nat
      BY <2>1, <2>2
    <3>2. /\ Append(path, id) \in Seq(Nat) /\ Len(Append(path, id)) = Len(path) + 1
          /\ \A i \in 1 .. Len(path) : Append(path, id)[i] = path[i]
          /\ Append(path, id)[Len(path) + 1] = id
      BY ONLY <3>1, AppendProperties
    <3> QED BY <1>1, <1>4, <3>2
  <2> HIDE DEF n
  <2>4. \A i \in 1 .. n + 1 : i \in 1 .. n \/ i = n + 1
    BY <2>2
  <2>5. currentDir' = id /\ \A i \in 1 .. n + 1 : path'[i] \in DOMAIN files
    BY <1>1, <1>4, <2>1, <2>2, <2>3, <2>4
  <2>6. FilesOK'
    <3>1. FilesFormTree'
      BY <1>2 DEF FilesOK, FilesFormTree
    <3>2. astray' \in BOOLEAN
      BY <1>2 DEF FilesOK, HasEntry
    <3>3. Listed(files') /\ currentDir' \in DOMAIN files'
      BY <1>2, <2>1, <2>5 DEF FilesOK
    <3>4. path' \in Seq(Nat) /\ \A i \in 1 .. Len(path') : path'[i] \in DOMAIN files'
      BY <1>2, <2>3, <2>5
    <3> QED BY <3>1, <3>2, <3>3, <3>4 DEF FilesOK
  <2>7. ASSUME ~astray'
        PROVE  /\ path'[1] = 1 /\ path'[Len(path')] = id /\ PathFollowed'
               /\ \A i, j \in 1 .. n + 1 : i < j => path'[i] < path'[j]
    <3>1. ~astray /\ HasEntry(files[currentDir], name)
      BY <1>2, <2>7 DEF FilesOK
    <3>2. /\ path # <<>> /\ path[1] = 1 /\ currentDir = path[n] /\ PathFollowed
          /\ \A i, j \in 1 .. n : i < j => path[i] < path[j]
      BY <1>2, <3>1 DEF PathOK, n
    <3>3. n \in Nat \ {0} /\ 1 \in 1 .. n /\ n \in 1 .. n
      BY <2>2, <3>2 DEF n
    <3>4. ASSUME NEW i \in 1 .. n + 1, NEW j \in 1 .. n + 1, i < j PROVE path'[i] < path'[j]
      <4>1. CASE j \in 1 .. n
        BY <2>2, <2>3, <3>2, <3>4, <4>1
      <4>2. CASE j = n + 1
        <5>1. i \in 1 .. n
          BY <2>2, <3>4, <4>2
        <5>2. path[i] < path[n] \/ i = n
          BY <2>2, <3>2, <3>3, <5>1
        <5>3. path[n] < id /\ path[n] \in Nat /\ path[i] \in Nat
          BY <2>1, <2>2, <3>1, <3>2, <3>3, <5>1
        <5> QED BY <2>1, <2>3, <4>2, <5>1, <5>2, <5>3
      <4> QED BY <2>4, <4>1, <4>2
    <3>5. ASSUME NEW i \in 1 .. n
          PROVE  /\ EntryKey[files[path'[i + 1]].name] \in DOMAIN files[path'[i]].entries
                 /\ files[path'[i]].entries[EntryKey[files[path'[i + 1]].name]] = path'[i + 1]
      <4>1. CASE i = n
        BY <2>1, <2>3, <3>1, <3>2, <3>3, <4>1
      <4>2. CASE i # n
        <5>1. i \in 1 .. n - 1 /\ i + 1 \in 1 .. n
          BY <2>2, <4>2
        <5> QED BY <2>3, <3>2, <5>1 DEF PathFollowed, n
      <4> QED BY <4>1, <4>2
    <3>6. PathFollowed'
      <4>1. 1 .. Len(path') - 1 = 1 .. n
        BY <2>2, <2>3
      <4> QED BY <1>2, <3>5, <4>1 DEF PathFollowed
    <3> QED BY <2>3, <3>2, <3>3, <3>4, <3>6
  <2>8. path' # <<>>
    BY <2>2, <2>3
  <2>9. PathOK'
    BY <2>3, <2>5, <2>7, <2>8 DEF PathOK
  <2> QED BY <2>6, <2>9 DEF ShellInv
<1> QED BY <1>3, <1>4

LEMMA LookKept ==
  ASSUME ShellInv, NEW name, NEW id, NEW throws, Look(name, id, throws)
  PROVE  ShellInv'
PROOF
<1>1. Running /\ UNCHANGED <<files, path, currentDir>> /\ astray' \in BOOLEAN /\ (astray => astray')
  BY DEF Look, Strays, HasEntry, ShellInv, FilesOK
<1>2. FilesOK'
  BY <1>1 DEF ShellInv, FilesOK, FilesFormTree
<1>3. PathOK'
  BY <1>1 DEF ShellInv, PathOK, PathFollowed
<1> QED BY <1>2, <1>3 DEF ShellInv

(* The inductive invariant. *)
THEOREM ShellInvariance == ShellSpec => []ShellInv
PROOF
<1>1. ShellInit => ShellInv
  <2> SUFFICES ASSUME ShellInit PROVE ShellInv
    OBVIOUS
  <2> DEFINE root == NewDirectory(Root)
  <2>1. IsFile(root) /\ DOMAIN root.entries = {}
    BY DEF NewDirectory, IsFile
  <2> HIDE DEF root
  <2>2. files = <<root>> /\ path = <<1>> /\ currentDir = 1 /\ Running /\ astray = FALSE
    BY DEF ShellInit, root, Running
  <2>3. files \in Seq({root}) /\ Len(files) = 1 /\ files[1] = root /\ DOMAIN files = 1 .. 1
    BY <2>2
  <2>4. Listed(files)
    BY <2>1, <2>3 DEF Listed
  <2>5. path \in Seq(Nat) /\ Len(path) = 1 /\ path[1] = 1 /\ path # <<>>
    BY <2>2
  <2>6. FilesFormTree
    BY <2>1, <2>3 DEF FilesFormTree
  <2>7. PathFollowed /\ \A i, j \in 1 .. Len(path) : i < j => path[i] < path[j]
    BY <2>5 DEF PathFollowed
  <2>8. FilesOK
    <3>1. \A i \in 1 .. Len(path) : path[i] \in DOMAIN files
      BY <2>3, <2>5
    <3>2. currentDir \in DOMAIN files /\ astray \in BOOLEAN
      <4>1. 1 \in DOMAIN files
        BY <2>3
      <4> QED BY <2>2, <4>1, Zenon
    <3> QED BY <2>4, <2>5, <2>6, <3>1, <3>2, Zenon DEF FilesOK
  <2>9. PathOK
    BY <2>2, <2>5, <2>7 DEF PathOK
  <2> QED BY <2>8, <2>9 DEF ShellInv
<1>2. ShellInv /\ [ShellNext]_shellVars => ShellInv'
  <2> SUFFICES ASSUME ShellInv, [ShellNext]_shellVars PROVE ShellInv'
    OBVIOUS
  <2>1. CASE CdUp
    BY <2>1, UpKept
  <2>2. CASE CreateTableTest
    <3>1. PICK nm : Adds(files', nm)
      BY <2>2, MakesFile DEF ShellInv
    <3> QED BY <2>2, <3>1, PathKept DEF CreateTableTest
  <2>3. ASSUME NEW name \in Name, CdTo(name) PROVE ShellInv'
    BY <2>3, CdKept
  <2>4. ASSUME NEW name \in Name, MkdirHere(name) PROVE ShellInv'
    <3>1. PICK nm : Adds(files', nm)
      BY <2>4, MakesFile DEF ShellInv
    <3> QED BY <2>4, <3>1, PathKept DEF MkdirHere
  <2>5. ASSUME NEW name \in Name \cup {Student}, NEW id \in {NoNumber} \cup DOMAIN files,
               NEW throws \in BOOLEAN, Look(name, id, throws)
        PROVE  ShellInv'
    BY <2>5, LookKept
  <2>6. CASE UNCHANGED shellVars
    BY <2>6 DEF shellVars, ShellInv, FilesOK, FilesFormTree, PathOK, PathFollowed, Running
  <2> QED BY <2>1, <2>2, <2>3, <2>4, <2>5, <2>6 DEF ShellNext
<1> QED BY <1>1, <1>2, PTL DEF ShellSpec

(* The files are a tree after any commands, those that followed a number   *)
(* made of uninitialized bytes to some other file included.                *)
THEOREM FilesTree == ShellSpec => []FilesFormTree
PROOF
<1>1. ShellInv => FilesFormTree
  BY DEF ShellInv, FilesOK
<1> QED BY <1>1, ShellInvariance, PTL

(* The path that pwd prints leads to the open file, although directories   *)
(* on it may have been given new entries of the same name since: each such *)
(* entry is one of the file then open, which the path ends with.           *)
THEOREM PathLeads == ShellSpec => []PwdLeadsHere
PROOF
<1>1. ShellInv => PwdLeadsHere
  <2> SUFFICES ASSUME ShellInv, Running, ~astray
               PROVE  /\ path # <<>> /\ path[1] = 1 /\ currentDir = path[Len(path)]
                      /\ \A i \in 1 .. Len(path) - 1 :
                            Cd(files, Pwd(files, path)[i + 1], path[i]) = {path[i + 1]}
    BY DEF PwdLeadsHere
  <2>1. path # <<>> /\ path[1] = 1 /\ currentDir = path[Len(path)] /\ PathFollowed
    BY DEF ShellInv, PathOK
  <2>2. Len(path) \in Nat /\ DOMAIN path = 1 .. Len(path)
    BY FilesFacts DEF ShellInv, FilesOK
  <2>3. ASSUME NEW i \in 1 .. Len(path) - 1
        PROVE  Cd(files, Pwd(files, path)[i + 1], path[i]) = {path[i + 1]}
    <3>1. i + 1 \in DOMAIN path
      BY <2>2
    <3>2. Pwd(files, path)[i + 1] = files[path[i + 1]].name
      BY <3>1 DEF Pwd
    <3> QED BY <2>1, <3>2 DEF PathFollowed, Cd, HasEntry
  <2> QED BY <2>1, <2>3
<1> QED BY <1>1, ShellInvariance, PTL
==============================================================================
