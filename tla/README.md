# Walker DB in TLA+

A TLA+ development of Walker DB, a small relational database engine written in
C++ (header-only, single-threaded). It models the engine from the slot allocator
over the buffered file system, the record tables and their B+ tree index up to
the query operators, the files and directories and the console; checks all of it
with TLC, and proves with TLAPS, for every value of the constants, the safety
properties of the buffer, the file system, the hash map, the record table, the
B+ tree, the indexed table and the tree of files, and that file system, hash map,
record table, B+ tree and indexed table each implement an abstract specification.

Reading order: `MemoryPool`, `DoubleLinkedList`, `LRUBuffer`,
`ReplacementOrder`, `Disk`, `PageStore`, `BufferFileSystem`; `HashMap` and
`FiniteMap` at any point; then `RecordPages`, `RecordQueue`, `QueueRecordTable`;
`Dictionary`, `BPlusPage`, `BPlusTree`; `RecordDictionary`, `WithIndexTable`;
`IndexPart`, `PriorityQueue`, `SortedTable`, `QueryIterators`, `DQLEngine`,
`Query`; `Columns`, `Catalog`, `Shell`, `Console`. The `*Proofs` modules hold the proofs, the `MC*`
modules the instances.

## The system

| component | source | state | operations | what makes it correct |
|---|---|---|---|---|
| slot allocator | `ds/MemoryManager.h`, `ds/stack.h` | free stack, `max_page`, `size` | `Create`, `Remove` | a slot is free or held, never both, never lost; the last slot is handed out |
| doubly linked list | `ds/double_linked_list.h` | `head`, `tail`, nodes, pool | `PushFront`, `PopFront`, `PopBack`, `Remove`, `MoveToFront`, `Traverse` | the chain ends; ends and links stay on nodes in use |
| hash map | `ds/hash_map.h` | lists (baskets) over one shared memory | `Find`, `Insert`, `Remove` | a finite map of bounded capacity |
| LRU buffer | `fs/Buffer/LRUBuffer.h` | list of pages, map page to frame | `Get`, `GetAllPagesInBuffer` | the frame handed on is the victim's; the victim is the least recently used page |
| disks | `fs/Disk/*.h` | pages, their number | `Read`, `Write`, `New`, `Size` | pages past the end are refused |
| buffered file system | `fs/file_system/BufferFileSystem.h` | frames, dirty flags, free pages | `Read`, `Write`, `New`, `Delete`, `WriteAllBack` | a page store: reads return the last write, across eviction, reload and restart |
| memory file system | `fs/file_system/MemoryFileSystem.h` | a `Memory` of pages | as above, no eviction | the same store without durability |
| queue record table | `QueueRecordTable.h`, `list_page.h` | chain of pages of records, head and tail | `Insert`, `Remove`, `Update`, `GetByIndex`, iterator | the iterator returns what was inserted and not removed, in order |
| B+ tree index | `BPlusTreeIndexTable.h`, `b_plus_page.h` | tree of pages with parents, separator keys, leaf chain | `Insert`, `Remove`, `Query`, iterator | a dictionary; the leaf chain is the sorted key sequence |
| table with index | `WithIndexTable.h`, `Table.h` | record table and index | `Insert`, `Remove`, `Update`, `Query` | both parts hold the same keys |
| external sort | `SortedTable.h`, `ds/priority_queue.h` | sorted runs, a heap of run heads | `Sort`, `Init`, `Next` | a sorted permutation of its input |
| query operators | `Query/*.h` | one or two input iterators | `Init`, `Next`, `Null`, `Get` | each returns the relation its name says |
| files and catalog | `fs/File.h`, `DB/DDLEngine.h` | configuration table, directory tables | `mkdir`, `touch`, `cat`, `cd` | names lead to the roots they were created with |
| console | `DB/Console.h` | the current path | the command loop | paths and file handles agree |
| query engine | `DB/DQLEngine.h` | a stack of operators | builds plans | column bookkeeping |
| SQL front end, stubs, logging | `sql/`, `DB/{Engine,Client,Database,...}.h`, `error/` | | | no behaviour of their own, or nothing executes their result yet |

How they interact: the console runs one command at a time to its end; there are
no threads. A command calls tables, tables call `fs.Read/Write/New/Delete`, the
file system calls `LRUBuffer::Get` to choose a frame and the disk to fill and
empty frames; the buffer is a list and a map that both live on slot allocators.
All of it is shared, synchronous state. What makes it hard is therefore not
preemption but (a) links and flags that are out of date when they are used
(`MoveToFront`, `change_flag`, tails, cached page numbers), (b) calls that throw
half way, (c) crashes: eviction order decides what is on the disk, and (d) long
legal call sequences that restructure trees and chains. `PROJECT.json` lists
these hazards line by line.

## Modules and code

* **MemoryPool** - `Memory<T, N>`. A pool is a record; `Taken`, `Released` are
  `e_pop()` and `Remove(i)`. `PoolOK(p, U)` says when a pool agrees with the
  set `U` of slots its owner holds.
* **DoubleLinkedList** - every pointer write of the list, in the order of the
  code, because `MoveToFront` leaves `tail` and the moved node's `prev` stale
  and the outcome of later calls depends on them. The chain from `head` may
  become cyclic; `Chain` follows it for at most N steps.
* **HashMap**, with its abstract specification **FiniteMap** - the baskets share
  a memory. `Remove(k)` is called only right after a `Find(k)`, as
  `LRUBuffer::Get` does (lines 37-38); the history variable `found` keeps that
  discipline, and without it entries are lost.
* **LRUBuffer** - `Get` as an operator that returns the new buffer and its four
  results; its map is the finite map that HashMap is shown to be.
* **ReplacementOrder** - the buffer alone under any sequence of `Get`s, with two
  histories to judge the victims by: `since` holds the pages used since each page
  was, and `exact` says that no hit has found its page at the tail yet.
* **Disk** - `FileDisk` and `MemoryDisk`. A page is a function on `Part`; `White`
  is what bytes of 0xff read as. `max_id` is the count in memory, `length` what the
  file has grown to by its writes: a restart takes the one from the other
  (`Reopened`). Faults of the medium are left out.
* **PageStore** - the abstract specification of a file system: what a read
  returns, what a crash leaves. It promises nothing once somebody has used a page
  that was never given out or deleted one that is not in use (`broken`).
* **BufferFileSystem** - the concrete one. A client's call is one action, since
  nothing interrupts it but a crash, and all calls but `New` write to the disk at
  most once. `Delete` pushes any page number, as the code does, which asks nothing
  (`BufferFileSystem.h:58-60`). `New` of a fresh page may write twice, growing the disk and then
  writing a victim back; a crash between the two is not a state of its own (it
  would leave an unused page of 0xff and the victim as it was). `WriteAllBack` is one action per step of its two loops, so
  that a crash may fall between any two of its writes. A call that throws half
  way is modelled to the point of the throw (`Fetch`). `change_flag` starts with
  any values, as the code never initializes it.
* **RecordPages** - `QueueRecordTable.h` over `list_page.h` as operators: the
  head and tail cells, the pages with `next` and their records, and the file
  system's stack of free pages, over a file system that loses nothing (what
  `PageStore` promises between crashes). The table is one record, so that the
  getters that change it (`Next`, `HeadPage`) are operators from table to table
  and run in the order the methods call them.
* **QueueRecordTable**, with its abstract specification **RecordQueue** - one such
  table and its client. One iterator lives across other
  calls: `IteratorStep` and `IteratorTurn` are a client's `Get(); Next()`, within
  a page and to the next. The refinement maps the chain of pages to the sequence
  of their records and the iterator to a place in it. Its history variable
  `lost` says that a record went to a page outside the chain; from there on the
  abstract table promises nothing, and `EveryPageLinked` shows how it comes to
  that.
* **BPlusPage** - `b_plus_page.h`: each method that writes, as an operator from
  tree to tree. `Child(i, c)` also writes the child's parent and place (`Adopted`),
  a page's last key is carried up (`SetParentIndex`), `Delete` relinks, removes
  and gives back. A method that calls itself for the parent is a step (`Raise`)
  taken `LEVELS` times, which stands still once the calls have ended (`Done`).
* **BPlusTree**, with its abstract specification **Dictionary** - `Adjust` case by
  case: split, new root, borrow from either side, combine with either side,
  shrink the root; the entries move one by one as in the code, since each move
  updates parents and keys. `AdjustPage` is one call of `Adjust` up to the call for
  the parent, `Path` the pages a descent goes through. `reply` is what a call returned, `map` what the calls
  so far should have left. Positions are counted from 1, in the code from 0; the
  number of entries at which a page is split (6 in `definition.cpp`) is `MAX_NUM`.
* **WithIndexTable**, with its abstract specification **RecordDictionary** - the
  same `RecordPages` and an index from key to page. The index is the dictionary
  that `BPlusTree` is shown to be, so its tree is not carried along. An action is
  a whole call: a record goes in first and is taken out again when its key turns
  out to be there (`AddRecord`), which may take out the older one instead. `SetConfig`
  of `File.h` is the client that asks before it writes; it asks with the whole
  record for a key (`File.h:101`) and looks only at the size of what it is given, not
  at what it is. `Scan` is the iterator
  from its start to its end. The history `stray` plays the part that `lost` has
  in `QueueRecordTable`. Should the index name a page without the key, `Query` reads the
  record before the first (`WithIndexTable.h:75-76`), and the model replies `Failed`;
  `RecordsIndexed` says that this needs `stray`.
* **IndexPart**, **PriorityQueue**, **SortedTable** - a record is a sequence of
  words, a part of it a range of them; `SamePart` compares sizes only, as
  `definition.h:85` does. The heap is the array the code has, its root at place 1,
  sifted up and down as there; a sort makes runs with one heap and merges them
  with another.
* **QueryIterators** - the nine operators of `Query/`. A query is a tree of
  records and an iterator another, so that any operator can stand over any other,
  as `Iterable&` allows. Each `Next()` is an operator that moves the inputs in the
  order of the code. A call that throws or goes through a null pointer gives an
  iterator of kind `thrown`, and every operator over it is dead as well. `Group`
  compares each record with a key that it reads through a pointer into a temporary
  that is gone (`Group.h:72`, `79`). What is there is up to the build, and a field of
  the query, `memory`, says which: `"kept"`, the key still, or `"overwritten"`, by
  the temporary of the same loop, so that the comparison is of a value with itself.
  g++ 12.2 does the first at -O0 and the second from -O1 on. What the pointer gives
  when the group's record is copied is `Unknown`. Other contents of the dead
  temporary are not modelled.
* **DQLEngine** - the execution stack and the bookkeeping of columns: names to
  places, `where` to filters, the cut of a record into items.
  A sort by a column that does not exist goes through `end()` (`DQLEngine.h:248`);
  no query of the runs asks for one.
* **Query** - one query run to its end, `Get()` and `Next()` a step. For a
  question by column names the stack is built first. `given` remembers what the
  inputs give by themselves, to judge the output by.
* **Catalog** - files with their configuration, by what its keys lead to, and the
  operations of `DDLEngine.h`. Entries are found by the bytes that are kept of
  their name (`EntryKey`): a configuration key has 32 bytes, 5 of them `file_`.
  `Columns` is what a table's configuration says of its columns, which `DQLEngine`
  reads too.
* **Shell** - what the commands of the console do to files, path and open file. Commands
  that end the process (an exception nobody catches, a null pointer) or read
  past an empty path set `status`. A missing name makes a number of bytes nobody
  wrote: `stoi` refuses it, or any file's id comes of it; the history `astray`
  tells the latter. `Look` is any command that opens a file by name and prints of
  it: whether printing throws is left open.
* **Console** - the commands with their output: each is an action of `Shell`, or
  changes nothing of it, together with the screen, so that every behaviour of
  `Console` is one of `ShellSpec` with the screen left out. `select_table_test` runs
  through the modelled query operators. They are recursive and the provers cannot
  be given them, which is why `Shell` is a module of its own.

## Runs

| run | instance | what it shows |
|---|---|---|
| `cache` | hash map of 3 entries, 4 keys, 2 baskets; buffer of 3 slots, 4 pages | the hash table is a finite map of capacity 3; every chain ends and no entry is lost, although lists have stale tails. The buffer's table, list and pool agree; a miss evicts one page, only when full, and hands its slot on; until a hit finds its page at the tail, the page dropped is the least recently used one. A behaviour works on one of the two |
| `lru_order` (violation) | the same | the page evicted need not be the least recently used one, as `LRUBuffer.h:12` says |
| `page_store` | 2 frames, disk of 3 pages, 1 part, 2 contents | the file system implements `PageStore`, across crashes at any point and restarts that count the pages of the file, until a client uses or deletes a page it does not have; clean frames match the disk |
| `write_all_back` (violation) | the same | `WriteAllBack` returns OK with a written page not on the disk: it reads `change_flag` at a page number instead of a frame number |
| `record_queue` | 3 pages of 2 records, 2 records | the record table is a queue with an iterator, empty pages are given back once and only when unlinked, and an iterator stays on a record while others are inserted and empty pages dropped |
| `every_page_linked` (violation) | the same | after the last record is removed, the tail cell still names the emptied page, and the next record goes there: outside the chain |
| `b_plus_tree` | 12 keys, 12 pages, split at 4 entries | the index is a dictionary; leaves are equally deep, children know their places, occupancy and separator keys are right, and no page leaks, after every insertion and removal in every order |
| `leaf_chain` (violation) | the same | after a merge at the border of two parents the leaf chain leads to a deleted page |
| `indexed_table` | 4 pages of 2 records, 3 keys, 2 values | record table and index hold the same keys after every call, a refused insertion included; pages of indexed records are not given back; together they are a dictionary of records |
| `queries` | a heap of 16 words, tables of up to 7 records, some twenty thousand queries | a sort gives its input in order or throws, exactly when there are more runs than heap places; what each operator gives, alone and over others; what a question by column names is answered with; every `Next` leaves less to read, so that every iteration ends |
| `console` | 4 files, a path of 4, 4 names of which 2 collide | path, open file and directories agree whatever was made, entered and left before; the entries form a tree; the test query and `cat` give what was inserted |
| `as_described` (violation) | unions and joins of tables of up to 2 rows, two sorts over each other, groupings of up to 4 rows | union, join, sort and group do not give what the comments of their classes say (below) |

Why the bounds are enough. Three slots are the least for which a middle node,
a stale `prev` that is not the head, and a cyclic chain of more than one node
exist; four pages are one more than fit. Two baskets with keys 0, 1, 2, 4 have
both collisions and free baskets and one key more than there are entries. Two
frames over three pages keep at least one page out of memory, so every page is
evicted, reloaded, recycled and written back in every order. `Bound` cuts a
`page_store` behaviour at the first use of a page number the disk does not have
(after it nothing is promised), at the first `Delete` of a page not in use
(likewise), at the first restart that leaks free pages
(after it the disk of three pages has one less to offer), at more than two pages
on the free stack, and at more than one while `WriteAllBack` is under way (it
does not look at the stack).

`LEVELS` bounds the levels of a tree: `Insert` is taken only while there are fewer
(`Room`), so that the steps of `SetParentIndex` and of `Adjust` always come to
their end, and only with a free page for each level and one for a root, since a
`New` that fails in the middle of a split is the file system's throw. With twelve
pages and keys the trees of the run have three levels of the four allowed.

Three pages of two records have a head and two empty pages in a row behind it,
or an empty page in the middle, with full and half-full pages at either end.
`Bound` stops where a record is lost. A page that splits at four entries holds
two or three, the least for which a page can both lend and be at its minimum.
Twelve keys and pages give trees of three levels in which inner pages too are
split, lend, borrow and merge. Odd and even keys have different values, so that
an entry torn apart shows. `Shape` is a view: two states whose trees differ only
in page numbers and in `Next` are explored once. Page numbers are only compared
with `NULL_ID`, `Next` is only copied, and parents and places are fixed by
`TreeShape`, used pages by `NoPageLost`, whose values are part of the view, as is
the history `map`. `leaf_chain`, about `Next`, runs without the view.

Four pages for three keys leave a free page in every state of `indexed_table`,
so that an insertion never stops for want of one; two records to a page put old
and new record of a refused insertion on one page and on two. `Bound` stops where
a record went to a page that had been given back. With a heap of 16 words a run
holds 3 records of 4 words and a merge takes 2 runs, so that 6 records are the
most and 7 throw; of 2-word records 7 make a run, and the small tables of the
other operators need one run. Tables of three and two rows over two values have
every pattern of equal keys up to three and two, which is where join, intersection,
difference and grouping go their ways. `console` has 64 words of heap, enough for
its five students. Four files and a path of four let a name be entered, be taken
over by a later file and be entered again below itself. `Bound` there stops after
an id made of uninitialized bytes, after which only `FilesFormTree` is claimed (and
proved).

Fairness is assumed nowhere, and no liveness is checked. That the iteration of a
query (`Iterable.h:32-37`) ends follows from two safety facts of `queries`: every
`Next` that returns leaves fewer records to read below (`NextAdvances`), and the
search for deadlocks finds no query that stops short of `done` or `thrown`. The other
loops of the modelled code are inside one action; that those of the hash map end is
the invariant `SearchesEnd`. `WriteAllBack` may follow a cyclic chain for ever
(`FlushHangs` is reached), so that nothing promises that it returns. `console` may
stop, when the process has ended: its run does not look for deadlocks.

Where the operators differ from their comments. `OperatorsAsDescribed` is the
conjunction of five statements, each taken from the comment at the head of a class;
TLC finds each of them false when it is named alone in `AsDescribed.cfg`, and
`as_described` stops at the first it meets:

* `UnionConcatenates` (`Union.h:11`): a union gives nothing when its second input is
  empty (`Union.h:42`);
* `JoinGivesAllPairs` (`Join.h:12`): a join loses pairs as soon as a key comes more
  than once on a side (`Join.h:73-75`);
* `SortFollowsRule` (`Sort.h:12`): a sort by a part as long as the one its input is
  sorted by is skipped, wherever the parts begin (`definition.h:85`, `Sort.h:47`);
* `EveryGroupGiven` (`Group.h:11`): a grouping never gives its last group
  (`Group.h:47`);
* `StopsAtClassEnd` (`Group.h:11`): where the build has overwritten the key, no
  group ends before the input, and none is given (`Group.h:72`, `79`).

The properties of `queries` claim of these operators what holds nevertheless and
leave open what the comments contradict: a union gives nothing that the
concatenation has not, and all of it if there is a second table; a join
gives only true pairs, none too often, and of each key at least about twice as many
as the side with fewer has rows, unless an input is not in the order it claims;
the groups given are the first ones, with the right totals.

What the runs assert that a reader of the source might not expect:

* a refused insertion may have replaced the old record (`WithIndexTable.h:92`);
* a text column after an integer one makes the answer throw, since its text is cut
  from a string made of the whole record (`DQLEngine.h:102`);
* a condition on text is a null filter (`DQLEngine.h:174`);
* names are told apart by 27 bytes; making a name that exists leaves the old file
  without an entry (`DDLEngine.h:65`);
* `cd ..` at the root reads the back of an empty vector (`Console.h:54-59`);
* `select_table_test` prints "gender = 1" and selects gender 0 (`Console.h:176`).

## Proofs

Proved for every value of the constants: any number of frames and disk pages, any
sets of pages, parts, keys and values, any number of baskets, of pages of a table
and of records on a page.

* **Iteration** - what a recursive function computes is usually proved by
  induction, whose theorems take an operator as a parameter that the provers here
  cannot instantiate. `UpTo` and `LeastNat` replace them: a set of naturals that
  holds 0 and is closed under the next one up to n holds all of them, since
  otherwise it would miss a least one. `Iterated` gives the values of a function
  defined step by step, as the chains of pages are.
* **ListProofs** - lemmas on the pool (`TakenOK`, `ReleasedOK` ...), on each list
  operation, on chains (what a list's chain is after each pointer write), and on
  `Get`. `BufferGetOK` is the one most cited: a well-formed buffer stays well
  formed, and what its four results are.
* **CacheProofs**, on `HashMap` - `SearchesAlwaysEnd`, `EntriesKept` and `MapImplemented`. The
  inductive invariant says of each basket that the nodes reached from its head
  are a sequence without repetition, each the `prev` of the one after it, and hold
  distinct keys that hash to this basket; that the slots the shared memory takes
  as held are the ones some basket reaches; and that a key just found is at the
  head of its basket. Tails and the head's `prev` do not occur in it, as the code
  lets them go stale. The last part is why `Remove` right after a `Find` is safe:
  it unlinks the head, and reads neither.
* **CacheProofs**, on `ReplacementOrder` - types, page table, frames in use, victims,
  one-for-one eviction, and `ExactReplacement`: until a hit finds its page at the
  tail, the victim is the least recently used page. For the first five the
  invariant is the conjunction of `TypeOK`, `TableOK`, `LinksOK` and `PoolOK`: the
  pool alone is not inductive (a popped tail must be a slot in use, which `LinksOK`
  says), nor are the links without the table (a released slot must lose its only
  page). For the last it adds, as long as `exact` holds, that the list is in order
  of use: what was used since a page is what stands before it, the tail is the
  last, and only the head's `prev` may be stale. That the forward chain stays in order even after
  that is false: with four slots TLC finds a counterexample.
* **FileSystemProofs**, on `BufferFileSystem` - `TypeCorrect`, `BufferCorrect`, `CleanCorrect`,
  and `StoreImplemented`: BufferFileSystem implements
  PageStore. The inductive invariant has three parts that depend on each other
  only downwards: `FrameInv` (types, the buffer, clean frames), `FreeInv` (the
  pages handed out are those of the file, and as long as no client has broken the
  rules, no page in use is on the free stack and none is there twice) and `FlushInv` (where the two loops of `WriteAllBack` are: the pointer
  stands on a slot in use, and what has been listed is cached, because a hit
  changes no mapping). For the refinement `FetchEffect` is the heart: `Get` of a
  page brings its content into the frame, and of all other pages at most the
  victim changes, by being written back or, if `New` had blanked it and nobody
  wrote since, by showing its old content again. Each action then maps to one of
  the store's, a throw and the listing steps of `WriteAllBack` to `Forget` or to a
  stutter. The clean-frame part of `FrameInv` is what makes a victim that is not
  written back harmless, `FlushInv` what makes the pages written by
  `WriteAllBack` the ones that are shown.
* **FileSystemProofs**, on `Shell` - `FilesTree` and `PathLeads`, for any names and
  any number of files. That the files are a tree is inductive once the open file is
  known to be one of them: a command adds one file and one entry, of the open file,
  for it (`Adds`), and takes over at most that entry (`TreeGrows`). Nothing is asked of
  how the open file was come by, so it holds after `astray` as well. That the path
  leads there is not inductive: an entry on it could be taken over if the open file
  were on the path twice. The invariant adds that ids ascend along the path, which
  the tree gives (an entry leads to a later file), so that the entries that change
  are those of the last file only (`PathKept`).
* **RecordPagesProofs** - what each method of the record table does to its pages,
  from the invariant `PagesOK`: pages outside use are empty, links of pages in use
  stay within use, no two pages have the same successor, the pages can be ranked
  so that every link rises (there is no ring, and the loop of `Next` ends), and
  the head, when there is one, has records, so that reading it between two calls
  changes nothing. Within a call the last part fails, which is why `Loose` is stated
  without it.
* **QueueRecordTableProofs** - `TypeCorrect`, `FreeCorrect`, `IteratorCorrect` and
  `QueueImplemented`. The chain is the least set that holds the head and the
  successors of its members (`ChainSteps`, `ChainLeast`): this is how a page is
  shown to be in the chain after a call, or not. The invariant adds to `PagesOK`
  that the iterator is at its end or on a record of the chain; all of it is
  claimed until `lost`. For the refinement `Laid(t, q, off)` says that the sequence
  q lies in the chain of t, the records of page p behind the first `off[p]` of it.
  There is one such q for a table (`LaidOnce`), it is the sequence of its records
  (`QueueLaid`), and `AddedLaid`, `BegunLaid`, `UpdateLaid`, `TakenLaid`,
  `SkippedLaid` and `HeadLaid` say which one there is after a call. The offsets are
  also where the iterator is, so that its moves from page to page, past the empty
  ones that are dropped at that moment, are the queue's steps of one.
* **BPlusTreeProofs** - `TypeCorrect`, `Balanced`, `PagesFilled`, `Ordering`,
  `PagesPaired`, `QueryCorrect` and `Refinement`: the tree implements `Dictionary`.
  None of the properties is inductive, nor are they together, since they speak of
  the pages reached from the root and a call moves entries between pages that are
  just not reached. The invariant, `Sound`, speaks of the pages in use instead: they can
  be given heights h, falling by one from page to child and 0 in the leaves, and
  bounds lo and hi of the keys they are about, so that each page but the root
  hangs at the place it says it has (`Links`), each inner key is the last key of
  its child (`Tops`), and the entries of a page are about ranges that follow each
  other within its own (`Ordered`). `LevelsAre` and `PagesAre` then say that what
  is reached from the root at depth d are the pages in use of height h[root] - d.
  Within a call some of it fails in known places: R is the set of pages that hang
  nowhere yet, X the places whose child has been told of another parent.
  `InsertAt`, `RemoveAt`, `New` and `Delete` are shown once under these
  (`CanInsert`/`HasInserted` and so on), a moved entry from both (`CanMove`), a
  loop of moves by an invariant on the number moved (`LastLoop`, `FirstLoop`). Each case
  of `Adjust` then ends with a sound tree or leaves a parent that has one entry too
  many or too few (`Off`, `Turning`), and since the parent is higher it ends within
  `LEVELS` steps (`Adjusted`); what the leaves hold is the same throughout
  (`SameHas`). A split moves the bound between two pages, a loan too: the bounds
  are not in the program and are chosen anew each time. For the searches they are
  drawn tight (`Tightening`: hi is the last key), and the descent keeps the key
  within the bounds of its page (`CoveredPath`), so that a leaf that has it is the
  one found (`LookupFinds`). An insertion of a key outside them first widens the bounds
  of the pages on its path (`Widening`).
* **WithIndexTableProofs** - `TypeCorrect`, `RecordsCorrect`, `PagesCorrect` and
  `DictionaryImplemented`, with the same `PagesOK`. The invariant, `Holds`, relates
  both parts to a contents: each page has the records of the keys that the index
  places on it, each once, and no others. A refused insertion is the
  interesting case: the new record may be taken out again, or the old one if it
  lies before it on the same page. All of it is claimed until `stray`.

The assumptions are those of the modules: at least one slot, one disk page, one
page of a table and one record on a page; page numbers are naturals and include
the disk's; there is a basket, and hashed keys are naturals; neither `NULL_ID` nor
`Nothing` is a value; the keys of an index can be listed in order; keys of the
tree are integers, a tree page splits at four entries or more (six in
`definition.cpp`; with fewer an inner page could have a single child, which would
have no neighbour to borrow from or to join), and a tree may have at least one level.

`WithIndexTableProofs` takes the index for a dictionary, which is what `Refinement`
shows of the tree as long as it finds pages and levels (`Room`).

Only model-checked: the sort and the query operators, and what the console prints
of a table (`SelectAnswers`).
`SortedTable`, `QueryIterators` and what is built on them descend trees and run
loops of unknown length by recursive operators, which the provers cannot be given;
what such an operator computes for every input would need induction over data.
That iterations end is model-checked for the same reason. The violated statements
(`lru_order`, `write_all_back`, `every_page_linked`, `leaf_chain`, `as_described`)
are what TLC found false.

## Not modelled

The SQL front end builds a tree that nothing executes; the stub headers have no
behaviour; logging is output. `SimpleBuffer` is built into nothing and
`TransactionFileSystem` is an empty shell. The memory file system has a `Delete`
that does nothing and no eviction: what it does is `PageStore` without crashes and
without reuse. I/O faults of the medium are left out.

Of the modelled parts: the pages of a sort's runs, which nobody gives back, since
`DropTable` is empty; a second `Init` of an iterator, which no code in the
repository calls; the dangling key of a group that is read by another operator
(it is `Unknown` only where the group's records go to the client), and what a build
might leave there other than the key or the next one; what a question with an unknown
operator is answered with (every type of filter is explored, nothing is claimed); the
value that `QueueRecordTable::Remove` can be asked to compare, which no caller gives
it; ids made of uninitialized bytes that are no file's (`File.h:109-113`); the
parsing of command lines; the pages under a file's configuration, whose table is
`WithIndexTable`; the index iterator as state of its own, between two of whose
steps the tree changes.

## Plan

1. Done: allocator, list, hash map, LRU buffer, disks, buffered file system.
2. Done: `QueueRecordTable` against `RecordQueue`.
3. Done: `BPlusTree` against `Dictionary`. Open: its iterator as state of its own.
4. Done: `WithIndexTable` over the record pages and the index dictionary against
   `RecordDictionary`.
5. Done: `PriorityQueue` and `SortedTable`: a sorted permutation, or a throw.
6. Done: query operators, each against its relation, and the query engine.
7. Done: catalog, shell and console.

Proofs: done for the hash map, the buffer, the file system, the record table, the
B+ tree and the indexed table, the refinements of their abstract specifications
included, and for the tree of files. Next would be the leaf chain as far as it
holds: before the first merge at the border of two parents.
