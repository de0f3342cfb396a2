---------------------------- MODULE WithIndexTable -----------------------------
(***************************************************************************)
(* WithIndexTable.h: a record table (RecordPages) and an index that maps   *)
(* the key of each record to the page it is on.  The index is the          *)
(* dictionary that BPlusTree.tla is shown to be.  The place of a record on *)
(* its page is not indexed: the page is searched for the key each time.    *)
(* KVTable.h, the table of a file's configuration, is one of these, and    *)
(* SetConfig of File.h is its client.                                      *)
(* stray is history: a record went to a page that had been given back, as  *)
(* the tail cell of RecordPages comes to name one.                         *)
(***************************************************************************)
EXTENDS RecordPages

CONSTANTS Key, Value, Nothing, Done, Exists,
          Failed,      \* ERROR_NULL_POINTER: the index names a page without the key
          Ascending    \* the keys in the order of the index

ASSUME AscendingAssumption ==
  Ascending \in Seq(Key) /\ Seqs!ToSet(Ascending) = Key /\ Seqs!IsInjective(Ascending)
ASSUME NothingAssumption == Nothing \notin Value

VARIABLES table, index, reply, stray

vars == <<table, index, reply, stray>>

Record == [key : Key, value : Value]

(* Slip: any record matches, as with a key of no bytes. *)
GetByIndexAny(t, p, k) == IF Size(t, p) = 0 THEN NULL_ID ELSE 1

(* GetByIndex: the first record on page p whose key is k, or NULL_ID.      *)
GetByIndex(t, p, k) ==
  LET places == {i \in 1 .. Size(t, p) : t.list[p].records[i].key = k}
  IN IF places = {} THEN NULL_ID ELSE CHOOSE i \in places : \A j \in places : i <= j

(* Whether the index has key k, and where on its page the record is.       *)
Has(k)   == index[k] # NULL_ID
Place(k) == GetByIndex(table, index[k], k)
Found(k) == table.list[index[k]].records[Place(k)]
Lost(k)  == Has(k) /\ Place(k) = NULL_ID

Init ==
  /\ table = NewTable /\ index = [k \in Key |-> NULL_ID]
  /\ reply = Done /\ stray = FALSE

Query(k) ==
  /\ reply' = IF Lost(k) THEN Failed ELSE IF Has(k) THEN Found(k).value ELSE Nothing
  /\ UNCHANGED <<table, index, stray>>

(* The record goes into the table first.  If the index has the key         *)
(* already, the first record with that key on the page it went to is       *)
(* removed: the new one, or the old one if that is on the same page.       *)
AddRecord(r) ==
  LET loc == InsertPage(table)
      t   == Inserted(table, r)
  IN /\ TailFull(table) => CanNew(table)
     /\ IF Has(r.key)
        THEN /\ table' = Removed(t, loc, GetByIndex(t, loc, r.key))
             /\ index' = index /\ reply' = Exists
        ELSE /\ table' = t
             /\ index' = [index EXCEPT ![r.key] = loc] /\ reply' = Done
     /\ stray' = (stray \/ (~TailFull(table) /\ loc \in Given(table)))

Insert(r) == AddRecord(r)

ChangeRecord(r) ==
  /\ table' = IF ~Has(r.key) \/ Lost(r.key) THEN table
              ELSE Updated(table, index[r.key], Place(r.key), r)
  /\ reply' = IF Lost(r.key) THEN Failed ELSE Done
  /\ UNCHANGED <<index, stray>>

Update(r) == ChangeRecord(r)

(* Slip: the entry of the index is kept. *)
RemoveRecordOnly(k) ==
  /\ table' = IF ~Has(k) \/ Lost(k) THEN table ELSE Removed(table, index[k], Place(k))
  /\ reply' = IF Lost(k) THEN Failed ELSE Done
  /\ UNCHANGED <<index, stray>>

(* The record is removed and then its key; a key that is not there is fine. *)
Remove(k) ==
  /\ table' = IF ~Has(k) \/ Lost(k) THEN table ELSE Removed(table, index[k], Place(k))
  /\ index' = IF Lost(k) THEN index ELSE [index EXCEPT ![k] = NULL_ID]
  /\ reply' = IF Lost(k) THEN Failed ELSE Done
  /\ UNCHANGED stray

(* File::SetConfig: Query, and then Update or Insert. *)
SetConfig(r) == IF Has(r.key) THEN ChangeRecord(r) ELSE AddRecord(r)

(* The keys of K, in the order of the index. *)
KeysIn(K) ==
  LET first[n \in 0 .. Len(Ascending)] ==
        IF n = 0 THEN <<>>
        ELSE IF Ascending[n] \in K THEN Append(first[n - 1], Ascending[n]) ELSE first[n - 1]
  IN first[Len(Ascending)]

(* The iterator, from its start to its end: the keys in the order of the   *)
(* index, each looked up again.                                            *)
Scan ==
  LET present == KeysIn({k \in Key : Has(k)})
  IN /\ reply' = [i \in DOMAIN present |-> Found(present[i])]
     /\ UNCHANGED <<table, index, stray>>

Next ==
  \/ \E k \in Key : Query(k) \/ Remove(k)
  \/ \E r \in Record : Insert(r) \/ Update(r) \/ SetConfig(r)
  \/ Scan

Spec == Init /\ [][Next]_vars

-----------------------------------------------------------------------------
Cell == PageId \cup {NULL_ID}

(* Like the other invariants it is claimed until a record strays: such a   *)
(* page may be handed out again, and what it links to is anybody's.        *)
TypeOK ==
  ~stray =>
    /\ table.head \in Cell /\ table.tail \in Cell /\ table.size \in 0 .. PAGES
    /\ \A p \in PageId : /\ table.list[p].next \in Cell
                         /\ Size(table, p) <= MAX_RECORDS
                         /\ \A i \in 1 .. Size(table, p) : table.list[p].records[i] \in Record
    /\ index \in [Key -> Cell]

(* Where the records with key k are, on the pages not given back. *)
Places(k) ==
  {w \in (PageId \ Given(table)) \X (1 .. MAX_RECORDS) :
     w[2] <= Size(table, w[1]) /\ table.list[w[1]].records[w[2]].key = k}

(* Record table and index hold the same keys: each key of the index has    *)
(* exactly one record, on the page the index names, and no page that is in *)
(* use has a record besides (WithIndexTable.h:87-110, two structures       *)
(* changed one after the other, and a refused insertion undone).           *)
RecordsIndexed ==
  ~stray =>
    \A k \in Key : IF Has(k) THEN \E i \in 1 .. MAX_RECORDS : Places(k) = {<<index[k], i>>}
                   ELSE Places(k) = {}

(* No page that has a key's record has been given back, and none has been  *)
(* given back twice (list_page.h:44-57), though removals empty pages in    *)
(* any order and refused insertions empty the page they have just added.   *)
IndexedPagesKept ==
  ~stray => /\ \A k \in Key : index[k] \notin Given(table)
            /\ Seqs!IsInjective(table.e_s)

(* A table with index is a dictionary of records (WithIndexTable.h:15), as *)
(* long as no record goes to a page that has been given back; a call never *)
(* finds an index entry without its record.                                *)
Contents ==
  INSTANCE RecordDictionary
    WITH contents <- [k \in Key |-> IF stray \/ ~Has(k) THEN Nothing ELSE Found(k).value],
         broken <- stray
RefinesRecordDictionary == Contents!Spec
==============================================================================
