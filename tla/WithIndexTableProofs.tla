-------------------------- MODULE WithIndexTableProofs --------------------------
(***************************************************************************)
(* The invariants of WithIndexTable, and that it implements                *)
(* RecordDictionary, for any number of pages and of records to a page, any *)
(* keys and any values.                                                    *)
(***************************************************************************)
EXTENDS WithIndexTable, RecordPagesProofs

(* A page with the records of M, each key once. *)
Keyed(s, M) ==
  /\ s \in Seq(Record)
  /\ \A i, j \in 1 .. Len(s) : s[i].key = s[j].key => i = j
  /\ {s[i] : i \in 1 .. Len(s)} = M

(* The records of contents c that index x places on page p. *)
Entry(c, k)  == [key |-> k, value |-> c[k]]
On(x, c, p)  == {Entry(c, k) : k \in {j \in Key : x[j] = p}}

(* Table t and index x hold the contents c: each page has the records of   *)
(* the keys that the index places on it, each once, and no others.         *)
Holds(t, x, c) ==
  /\ PagesOK(t, Record)
  /\ x \in [Key -> Links]
  /\ c \in [Key -> Value \cup {Nothing}]
  /\ \A k \in Key : x[k] = NULL_ID <=> c[k] = Nothing
  /\ \A p \in PageId : Keyed(t.list[p].records, On(x, c, p))

-----------------------------------------------------------------------------
(* What the calls do to the records of a page. *)
LEMMA AppendKeyed ==
  ASSUME NEW s, NEW M, Keyed(s, M), NEW r \in Record, \A m \in M : m.key # r.key
  PROVE  Keyed(Append(s, r), M \cup {r})
PROOF
<1> DEFINE n == Len(s)
           a == Append(s, r)
<1>1. s \in Seq(Record) /\ n \in Nat /\ M = {s[i] : i \in 1 .. n}
      /\ \A i, j \in 1 .. n : s[i].key = s[j].key => i = j
  BY DEF Keyed
<1>2. a \in Seq(Record) /\ Len(a) = n + 1 /\ a[n + 1] = r /\ \A i \in 1 .. n : a[i] = s[i]
  BY <1>1
<1> HIDE DEF a, n
<1>3. \A i \in 1 .. n + 1 : i = n + 1 \/ (i # n + 1 /\ i \in 1 .. n)
  BY <1>1
<1>4. \A i \in 1 .. n : i \in 1 .. n + 1 /\ s[i] \in M
  BY <1>1
<1>5. {a[i] : i \in 1 .. n + 1} = M \cup {r}
  <2>1. n + 1 \in 1 .. n + 1
    BY <1>1
  <2> QED BY <2>1, <1>1, <1>2, <1>3, <1>4
<1>6. \A i, j \in 1 .. n + 1 : a[i].key = a[j].key => i = j
  BY <1>1, <1>2, <1>3, <1>4
<1> QED BY <1>2, <1>5, <1>6 DEF Keyed, a, n

LEMMA RemoveKeyed ==
  ASSUME NEW s, NEW M, Keyed(s, M), NEW i \in 1 .. Len(s)
  PROVE  Keyed(Seqs!RemoveAt(s, i), M \ {s[i]})
PROOF
<1> DEFINE n == Len(s)
           a == Seqs!RemoveAt(s, i)
<1>1. s \in Seq(Record) /\ n \in Nat /\ M = {s[m] : m \in 1 .. n}
      /\ \A m, j \in 1 .. n : s[m].key = s[j].key => m = j
  BY DEF Keyed
<1>2. /\ a \in Seq(Record) /\ Len(a) = n - 1
      /\ \A j \in 1 .. n - 1 : a[j] = IF j < i THEN s[j] ELSE s[j + 1]
  BY <1>1, RemovedAt
<1>3. i \in 1 .. n /\ n \in Nat
  BY <1>1
<1> HIDE DEF a, n
<1> DEFINE from(j) == IF j < i THEN j ELSE j + 1
<1>4. \A j \in 1 .. n - 1 : from(j) \in 1 .. n /\ from(j) # i /\ a[j] = s[from(j)]
  BY <1>2, <1>3
<1>5. \A j, m \in 1 .. n - 1 : from(j) = from(m) => j = m
  BY <1>3
<1>6. \A m \in 1 .. n : m # i => \E j \in 1 .. n - 1 : from(j) = m
  <2> SUFFICES ASSUME NEW m \in 1 .. n, m # i PROVE \E j \in 1 .. n - 1 : from(j) = m
    OBVIOUS
  <2>1. CASE m < i
    <3>1. m \in 1 .. n - 1 /\ from(m) = m
      BY <2>1, <1>3
    <3> QED BY <3>1
  <2>2. CASE ~(m < i)
    <3>1. m - 1 \in 1 .. n - 1 /\ from(m - 1) = m
      BY <2>2, <1>3
    <3> QED BY <3>1
  <2> QED BY <2>1, <2>2
<1> HIDE DEF from
<1>7. \A j, m \in 1 .. n - 1 : a[j].key = a[m].key => j = m
  BY <1>1, <1>4, <1>5
<1>8. {a[j] : j \in 1 .. n - 1} = M \ {s[i]}
  <2>1. ASSUME NEW j \in 1 .. n - 1 PROVE a[j] \in M /\ a[j] # s[i]
    BY <1>1, <1>3, <1>4
  <2>2. ASSUME NEW y \in M \ {s[i]} PROVE \E j \in 1 .. n - 1 : y = a[j]
    <3>1. PICK m \in 1 .. n : y = s[m]
      BY <1>1
    <3>2. m # i
      BY <3>1
    <3>3. PICK j \in 1 .. n - 1 : from(j) = m
      BY <3>2, <1>6
    <3> QED BY <3>1, <3>3, <1>4
  <2> QED BY <2>1, <2>2
<1> QED BY <1>2, <1>7, <1>8 DEF Keyed, a, n

LEMMA UpdateKeyed ==
  ASSUME NEW s, NEW M, Keyed(s, M), NEW i \in 1 .. Len(s), NEW r \in Record, r.key = s[i].key
  PROVE  Keyed([s EXCEPT ![i] = r], (M \ {s[i]}) \cup {r})
PROOF
<1> DEFINE n == Len(s)
           a == [s EXCEPT ![i] = r]
<1>1. s \in Seq(Record) /\ n \in Nat /\ M = {s[m] : m \in 1 .. n}
      /\ \A m, j \in 1 .. n : s[m].key = s[j].key => m = j
  BY DEF Keyed
<1>2. a \in Seq(Record) /\ Len(a) = n /\ \A j \in 1 .. n : a[j] = IF j = i THEN r ELSE s[j]
  BY <1>1
<1>3. i \in 1 .. n
  BY <1>1
<1> HIDE DEF a, n
<1>4. \A j, m \in 1 .. n : a[j].key = a[m].key => j = m
  BY <1>1, <1>2, <1>3
<1>5. {a[j] : j \in 1 .. n} = (M \ {s[i]}) \cup {r}
  <2>1. ASSUME NEW j \in 1 .. n PROVE a[j] = r \/ (a[j] \in M /\ a[j] # s[i])
    BY <1>1, <1>2, <1>3
  <2>2. ASSUME NEW y \in M \ {s[i]} PROVE \E j \in 1 .. n : y = a[j]
    BY <1>1, <1>2
  <2>3. r = a[i]
    BY <1>2, <1>3
  <2> QED BY <2>1, <2>2, <2>3, <1>3
<1> QED BY <1>2, <1>4, <1>5 DEF Keyed, a, n

(* The record appended is the one removed again, or it stays for the one   *)
(* that is removed.                                                        *)
LEMMA AppendedRemoved ==
  ASSUME NEW s \in Seq(Record), NEW r \in Record
  PROVE  /\ Seqs!RemoveAt(Append(s, r), Len(s) + 1) = s
         /\ \A i \in 1 .. Len(s) :
              Seqs!RemoveAt(Append(s, r), i) = Append(Seqs!RemoveAt(s, i), r)
PROOF
<1> DEFINE n == Len(s)
           a == Append(s, r)
<1>1. n \in Nat /\ a \in Seq(Record) /\ Len(a) = n + 1 /\ a[n + 1] = r
      /\ \A i \in 1 .. n : a[i] = s[i]
  OBVIOUS
<1> HIDE DEF a, n
<1>2. ASSUME NEW i \in 1 .. n + 1
      PROVE  /\ Seqs!RemoveAt(a, i) \in Seq(Record) /\ Len(Seqs!RemoveAt(a, i)) = n
             /\ \A j \in 1 .. n : Seqs!RemoveAt(a, i)[j] = IF j < i THEN a[j] ELSE a[j + 1]
  <2>1. i \in 1 .. Len(a) /\ Len(a) - 1 = n
    BY <1>1
  <2> QED BY <2>1, <1>1, RemovedAt
<1>3. Seqs!RemoveAt(a, n + 1) = s
  <2> DEFINE b == Seqs!RemoveAt(a, n + 1)
  <2>1. n + 1 \in 1 .. n + 1 /\ \A j \in 1 .. n : j < n + 1
    BY <1>1
  <2>2. b \in Seq(Record) /\ Len(b) = n /\ \A j \in 1 .. n : b[j] = s[j]
    BY <1>1, <1>2, <2>1
  <2> HIDE DEF b
  <2>3. b = s
    BY <2>2 DEF n
  <2> QED BY <2>3 DEF b
<1>4. ASSUME NEW i \in 1 .. n PROVE Seqs!RemoveAt(a, i) = Append(Seqs!RemoveAt(s, i), r)
  <2> DEFINE b == Seqs!RemoveAt(a, i)
             d == Seqs!RemoveAt(s, i)
             e == Append(d, r)
  <2>1. b \in Seq(Record) /\ Len(b) = n /\ \A j \in 1 .. n : b[j] = IF j < i THEN a[j] ELSE a[j + 1]
    <3>1. i \in 1 .. n + 1
      BY <1>1
    <3> QED BY <3>1, <1>2
  <2>2. d \in Seq(Record) /\ Len(d) = n - 1 /\ \A j \in 1 .. n - 1 : d[j] = IF j < i THEN s[j] ELSE s[j + 1]
    BY <1>4, RemovedAt DEF n
  <2> HIDE DEF b, d
  <2>3. n - 1 \in Nat /\ (n - 1) + 1 = n /\ \A j \in 1 .. n : j = n \/ j \in 1 .. n - 1
    BY <1>1, <1>4
  <2>4. e \in Seq(Record) /\ Len(e) = n /\ e[n] = r /\ \A j \in 1 .. n - 1 : e[j] = d[j]
    BY <2>2, <2>3
  <2> HIDE DEF e
  <2>5. ASSUME NEW j \in 1 .. n PROVE b[j] = e[j]
    <3>1. CASE j = n
      BY <3>1, <1>1, <1>4, <2>1, <2>4
    <3>2. CASE j \in 1 .. n - 1
      BY <3>2, <1>1, <2>1, <2>2, <2>4
    <3> QED BY <3>1, <3>2, <2>3
  <2>6. b = e
    BY <2>1, <2>4, <2>5
  <2> QED BY <2>6 DEF b, d, e
<1> QED BY <1>3, <1>4 DEF a, n


-----------------------------------------------------------------------------
(* GetByIndex finds the first of the records with a key. *)
LEMMA FirstPlace ==
  ASSUME NEW t, NEW p, NEW k, Size(t, p) \in Nat,
         \E i \in 1 .. Size(t, p) : t.list[p].records[i].key = k
  PROVE  LET g == GetByIndex(t, p, k)
         IN /\ g \in 1 .. Size(t, p) /\ t.list[p].records[g].key = k
            /\ \A j \in 1 .. Size(t, p) : t.list[p].records[j].key = k => g <= j
PROOF
<1> DEFINE places == {i \in 1 .. Size(t, p) : t.list[p].records[i].key = k}
<1>1. places \subseteq Nat /\ places # {}
  OBVIOUS
<1>2. \E i \in places : \A j \in places : i <= j
  <2> HIDE DEF places
  <2> QED BY <1>1, LeastNat
<1>3. GetByIndex(t, p, k) = CHOOSE i \in places : \A j \in places : i <= j
  BY <1>1 DEF GetByIndex
<1>4. GetByIndex(t, p, k) \in places /\ \A j \in places : GetByIndex(t, p, k) <= j
  <2> HIDE DEF places
  <2> QED BY <1>2, <1>3
<1> QED BY <1>4

(* The parts of Holds that the proofs take up one by one. *)
LEMMA HoldsParts ==
  ASSUME NEW t, NEW x, NEW c, Holds(t, x, c)
  PROVE  /\ \A p \in PageId : /\ Size(t, p) \in Nat /\ t.list[p].records \in Seq(Record)
                              /\ Size(t, p) = Len(t.list[p].records)
         /\ \A k \in Key : x[k] \in Links /\ (x[k] # NULL_ID => x[k] \in PageId /\ c[k] \in Value)
         /\ InUse(t) \subseteq PageId /\ NULL_ID \notin PageId
         /\ \A p \in PageId \ InUse(t) : t.list[p].records = <<>>
PROOF
<1>1. Loose(t, Record) /\ NULL_ID \notin PageId
  <2>1. PAGES \in Nat
    BY TableAssumption
  <2> QED BY <2>1 DEF Holds, PagesOK, PageId, NULL_ID
<1>2. \A p \in PageId : t.list[p].records \in Seq(Record)
  BY DEF Holds, Keyed
<1>3. \A p \in PageId : Size(t, p) \in Nat /\ Size(t, p) = Len(t.list[p].records)
  BY <1>2 DEF Size
<1>4. \A k \in Key : x[k] \in Links /\ (x[k] # NULL_ID => x[k] \in PageId /\ c[k] \in Value)
  BY DEF Holds, Links
<1>5. InUse(t) \subseteq PageId
  BY <1>1, LooseParts
<1>6. \A p \in PageId \ InUse(t) : t.list[p].records = <<>>
  BY <1>1 DEF Loose
<1> QED BY <1>1, <1>2, <1>3, <1>4, <1>5, <1>6

(* A key of the index has its record on the page the index names, which is *)
(* in use, and GetByIndex finds it there.                                  *)
LEMMA PlaceOK ==
  ASSUME NEW t, NEW x, NEW c, Holds(t, x, c), NEW k \in Key, x[k] # NULL_ID
  PROVE  LET g == GetByIndex(t, x[k], k)
         IN /\ x[k] \in PageId /\ x[k] \in InUse(t)
            /\ g \in 1 .. Size(t, x[k]) /\ g # NULL_ID
            /\ t.list[x[k]].records[g] = Entry(c, k)
            /\ \A j \in 1 .. Size(t, x[k]) : t.list[x[k]].records[j].key = k => j = g
PROOF
<1> DEFINE p == x[k]
           s == t.list[p].records
           g == GetByIndex(t, p, k)
<1>1. /\ p \in PageId /\ Size(t, p) \in Nat /\ Size(t, p) = Len(s) /\ s \in Seq(Record)
      /\ c[k] \in Value
      /\ \A q \in PageId \ InUse(t) : t.list[q].records = <<>>
  BY HoldsParts
<1>2. /\ \A i, j \in 1 .. Len(s) : s[i].key = s[j].key => i = j
      /\ {s[i] : i \in 1 .. Len(s)} = On(x, c, p)
  BY <1>1 DEF Holds, Keyed
<1>3. Entry(c, k) \in On(x, c, p) /\ Entry(c, k).key = k
  BY DEF On, Entry
<1>4. PICK i \in 1 .. Len(s) : s[i] = Entry(c, k)
  BY <1>2, <1>3
<1>5. /\ g \in 1 .. Size(t, p) /\ t.list[p].records[g].key = k
  <2>1. \E j \in 1 .. Size(t, p) : t.list[p].records[j].key = k
    BY <1>1, <1>3, <1>4
  <2> QED BY <1>1, <2>1, FirstPlace
<1> HIDE DEF g, p
<1>6. g = i /\ \A j \in 1 .. Size(t, p) : t.list[p].records[j].key = k => j = g
  BY <1>1, <1>2, <1>3, <1>4, <1>5
<1>7. p \in InUse(t)
  <2> SUFFICES ASSUME p \notin InUse(t) PROVE FALSE
    OBVIOUS
  <2>1. s = <<>>
    BY <1>1
  <2>2. Len(s) = 0
    BY <2>1
  <2> QED BY <1>4, <2>2
<1>8. g # NULL_ID
  BY <1>1, <1>5 DEF NULL_ID
<1> QED BY <1>1, <1>4, <1>5, <1>6, <1>7, <1>8 DEF g, p

(* Index x and contents c become y and d: key k goes to page l, with v. *)
Moved(x, c, k, l, v, y, d) ==
  /\ x \in [Key -> Links] /\ c \in [Key -> Value \cup {Nothing}] /\ k \in Key
  /\ y = [x EXCEPT ![k] = l] /\ d = [c EXCEPT ![k] = v]

(* The records on a page when one key's entry changes. *)
LEMMA OnChanged ==
  ASSUME NEW x, NEW c, NEW k, NEW l, NEW v, NEW y, NEW d, Moved(x, c, k, l, v, y, d)
  PROVE  \A p \in PageId :
           /\ x[k] # p /\ l # p => On(y, d, p) = On(x, c, p)
           /\ x[k] # p /\ l = p => On(y, d, p) = On(x, c, p) \cup {[key |-> k, value |-> v]}
           /\ x[k] = p /\ l # p => On(y, d, p) = On(x, c, p) \ {Entry(c, k)}
           /\ x[k] = p /\ l = p
                => On(y, d, p) = (On(x, c, p) \ {Entry(c, k)}) \cup {[key |-> k, value |-> v]}
PROOF
<1> DEFINE new == [key |-> k, value |-> v]
<1>1. /\ \A j \in Key : j # k => y[j] = x[j] /\ d[j] = c[j]
      /\ y[k] = l /\ d[k] = v /\ k \in Key
  BY DEF Moved
<1>2. Entry(d, k) = new /\ \A j \in Key : j # k => Entry(d, j) = Entry(c, j) /\ Entry(c, j) # Entry(c, k)
                                                   /\ Entry(c, j) # new
  <2>1. \A j \in Key : Entry(c, j).key = j
    BY DEF Entry
  <2>2. new.key = k
    OBVIOUS
  <2> QED BY <1>1, <2>1, <2>2 DEF Entry
<1> SUFFICES ASSUME NEW p \in PageId
             PROVE /\ x[k] # p /\ l # p => On(y, d, p) = On(x, c, p)
                   /\ x[k] # p /\ l = p => On(y, d, p) = On(x, c, p) \cup {new}
                   /\ x[k] = p /\ l # p => On(y, d, p) = On(x, c, p) \ {Entry(c, k)}
                   /\ x[k] = p /\ l = p => On(y, d, p) = (On(x, c, p) \ {Entry(c, k)}) \cup {new}
  OBVIOUS
<1> DEFINE rest == {Entry(c, j) : j \in {j \in Key : x[j] = p /\ j # k}}
<1> HIDE DEF new
<1>3. On(x, c, p) = IF x[k] = p THEN rest \cup {Entry(c, k)} ELSE rest
  <2>1. \A m : m \in On(x, c, p) <=> \E j \in Key : x[j] = p /\ m = Entry(c, j)
    BY DEF On
  <2>2. \A m : m \in rest <=> \E j \in Key : x[j] = p /\ j # k /\ m = Entry(c, j)
    OBVIOUS
  <2> HIDE DEF rest
  <2> QED BY <1>1, <2>1, <2>2
<1>4. On(y, d, p) = IF l = p THEN rest \cup {new} ELSE rest
  <2>1. \A m : m \in On(y, d, p) <=> \E j \in Key : y[j] = p /\ m = Entry(d, j)
    BY DEF On
  <2>2. \A m : m \in rest <=> \E j \in Key : x[j] = p /\ j # k /\ m = Entry(c, j)
    OBVIOUS
  <2> HIDE DEF rest
  <2> QED BY <1>1, <1>2, <2>1, <2>2
<1>5. Entry(c, k) \notin rest
  BY <1>2
<1> HIDE DEF rest
<1>6. (rest \cup {Entry(c, k)}) \ {Entry(c, k)} = rest
  BY <1>5
<1> QED BY <1>3, <1>4, <1>6


LEMMA RecordIs ==
  ASSUME NEW r \in Record
  PROVE  /\ r.key \in Key /\ r.value \in Value /\ r = [key |-> r.key, value |-> r.value]
         /\ r.value # Nothing
PROOF
BY NothingAssumption DEF Record

(* A table is empty before anything is inserted. *)
LEMMA EmptyHolds == Holds(NewTable, [k \in Key |-> NULL_ID], [k \in Key |-> Nothing])
PROOF
<1> DEFINE x == [k \in Key |-> NULL_ID]
           c == [k \in Key |-> Nothing]
<1>1. PagesOK(NewTable, Record)
  BY NewTableOK
<1>2. NULL_ID \notin PageId
  <2>1. PAGES \in Nat
    BY TableAssumption
  <2> QED BY <2>1 DEF PageId, NULL_ID
<1>3. x \in [Key -> Links] /\ c \in [Key -> Value \cup {Nothing}]
      /\ \A k \in Key : x[k] = NULL_ID /\ c[k] = Nothing
  BY DEF Links
<1> HIDE DEF x, c
<1>4. ASSUME NEW p \in PageId PROVE Keyed(NewTable.list[p].records, On(x, c, p))
  <2>1. NewTable.list[p].records = <<>>
    BY DEF NewTable
  <2>2. On(x, c, p) = {}
    BY <1>2, <1>3 DEF On
  <2>3. Keyed(<<>>, {})
    BY DEF Keyed
  <2> QED BY <2>1, <2>2, <2>3
<1> QED BY <1>1, <1>3, <1>4 DEF Holds, x, c

(* Insert of a key that the index does not have. *)
LEMMA AddedOK ==
  ASSUME NEW t, NEW x, NEW c, Holds(t, x, c), NEW r \in Record, x[r.key] = NULL_ID,
         TailFull(t) => CanNew(t), ~TailFull(t) => t.tail \notin Given(t)
  PROVE  Holds(Inserted(t, r), [x EXCEPT ![r.key] = InsertPage(t)],
               [c EXCEPT ![r.key] = r.value])
PROOF
<1> DEFINE k == r.key
           u == Inserted(t, r)
           l == InsertPage(t)
           y == [x EXCEPT ![k] = l]
           d == [c EXCEPT ![k] = r.value]
<1>0. /\ PagesOK(t, Record) /\ x \in [Key -> Links] /\ c \in [Key -> Value \cup {Nothing}]
      /\ \A j \in Key : x[j] = NULL_ID <=> c[j] = Nothing
      /\ \A p \in PageId : Keyed(t.list[p].records, On(x, c, p))
  BY DEF Holds
<1>1. /\ k \in Key /\ r.value \in Value /\ r = [key |-> k, value |-> r.value] /\ r.value # Nothing
  BY RecordIs
<1>2. /\ PagesOK(u, Record)
      /\ l \in PageId
      /\ u.list[l].records = Append(t.list[l].records, r) \/ TailFull(t)
      /\ TailFull(t) => l \notin InUse(t) /\ u.list[l].records = <<r>>
      /\ \A q \in PageId \ {l} : u.list[q].records = t.list[q].records
  BY <1>0, InsertedOK
<1>3. \A p \in PageId \ InUse(t) : t.list[p].records = <<>>
  BY HoldsParts
<1>4. NULL_ID \notin PageId
  BY HoldsParts
<1> HIDE DEF u, l, k
<1>5. u.list[l].records = Append(t.list[l].records, r)
  <2>1. <<r>> = Append(<<>>, r)
    OBVIOUS
  <2> QED BY <2>1, <1>2, <1>3
<1>6. l \in Links
  BY <1>2 DEF Links
<1>7. \A p \in PageId : On(y, d, p) = IF p = l THEN On(x, c, p) \cup {r} ELSE On(x, c, p)
  <2>1. \A p \in PageId : x[k] # p
    BY <1>4 DEF k
  <2>2. \A p \in PageId :
          /\ x[k] # p /\ l # p => On(y, d, p) = On(x, c, p)
          /\ x[k] # p /\ l = p => On(y, d, p) = On(x, c, p) \cup {[key |-> k, value |-> r.value]}
    <3>1. Moved(x, c, k, l, r.value, y, d)
      BY <1>0, <1>1 DEF Moved
    <3> HIDE DEF y, d
    <3> QED BY <3>1, OnChanged
  <2> HIDE DEF y, d
  <2> QED BY <2>1, <2>2, <1>1
<1>8. ASSUME NEW p \in PageId PROVE Keyed(u.list[p].records, On(y, d, p))
  <2>1. CASE p # l
    BY <2>1, <1>0, <1>2, <1>7
  <2>2. CASE p = l
    <3>1. \A m \in On(x, c, p) : m.key # r.key
      <4> SUFFICES ASSUME NEW j \in Key, x[j] = p PROVE Entry(c, j).key # r.key
        BY DEF On
      <4>1. Entry(c, j).key = j
        BY DEF Entry
      <4> QED BY <4>1, <1>4
    <3>2. Keyed(Append(t.list[p].records, r), On(x, c, p) \cup {r})
      BY <1>0, <3>1, AppendKeyed
    <3> QED BY <2>2, <3>2, <1>5, <1>7
  <2> QED BY <2>1, <2>2
<1>9. y \in [Key -> Links] /\ d \in [Key -> Value \cup {Nothing}]
      /\ \A j \in Key : y[j] = NULL_ID <=> d[j] = Nothing
  BY <1>0, <1>1, <1>2, <1>4, <1>6
<1> HIDE DEF y, d
<1> QED BY <1>2, <1>8, <1>9 DEF Holds, u, l, y, d, k

(* Remove takes the record and the key. *)
LEMMA TakenOK ==
  ASSUME NEW t, NEW x, NEW c, Holds(t, x, c), NEW k \in Key, x[k] # NULL_ID
  PROVE  Holds(Removed(t, x[k], GetByIndex(t, x[k], k)), [x EXCEPT ![k] = NULL_ID],
               [c EXCEPT ![k] = Nothing])
PROOF
<1> DEFINE p == x[k]
           g == GetByIndex(t, p, k)
           u == Removed(t, p, g)
           y == [x EXCEPT ![k] = NULL_ID]
           d == [c EXCEPT ![k] = Nothing]
<1>0. /\ PagesOK(t, Record) /\ x \in [Key -> Links] /\ c \in [Key -> Value \cup {Nothing}]
      /\ \A j \in Key : x[j] = NULL_ID <=> c[j] = Nothing
      /\ \A q \in PageId : Keyed(t.list[q].records, On(x, c, q))
  BY DEF Holds
<1>1. /\ p \in PageId /\ p \in InUse(t) /\ g \in 1 .. Size(t, p)
      /\ t.list[p].records[g] = Entry(c, k)
  BY PlaceOK
<1>2. Size(t, p) = Len(t.list[p].records) /\ NULL_ID \notin PageId
  BY <1>1, HoldsParts
<1> HIDE DEF g, p
<1>3. /\ PagesOK(u, Record)
      /\ \A q \in PageId :
           u.list[q].records = IF q = p THEN Seqs!RemoveAt(t.list[p].records, g)
                               ELSE t.list[q].records
  BY <1>0, <1>1, RemovedOK
<1> HIDE DEF u
<1>4. \A q \in PageId : On(y, d, q) = IF q = p THEN On(x, c, q) \ {Entry(c, k)} ELSE On(x, c, q)
  <2>2. \A q \in PageId :
          /\ x[k] # q /\ NULL_ID # q => On(y, d, q) = On(x, c, q)
          /\ x[k] = q /\ NULL_ID # q => On(y, d, q) = On(x, c, q) \ {Entry(c, k)}
    <3>1. Moved(x, c, k, NULL_ID, Nothing, y, d)
      BY <1>0 DEF Moved
    <3> HIDE DEF y, d
    <3> QED BY <3>1, OnChanged
  <2> HIDE DEF y, d
  <2> QED BY <2>2, <1>2 DEF p
<1>5. ASSUME NEW q \in PageId PROVE Keyed(u.list[q].records, On(y, d, q))
  <2>1. CASE q # p
    BY <2>1, <1>0, <1>3, <1>4
  <2>2. CASE q = p
    <3>1. Keyed(Seqs!RemoveAt(t.list[p].records, g), On(x, c, p) \ {t.list[p].records[g]})
      BY <1>0, <1>1, <1>2, RemoveKeyed
    <3> QED BY <2>2, <3>1, <1>1, <1>3, <1>4
  <2> QED BY <2>1, <2>2
<1>6. y \in [Key -> Links] /\ d \in [Key -> Value \cup {Nothing}]
      /\ \A j \in Key : y[j] = NULL_ID <=> d[j] = Nothing
  BY <1>0 DEF Links
<1> HIDE DEF y, d
<1> QED BY <1>3, <1>5, <1>6 DEF Holds, u, g, p, y, d

(* Update puts the new record in the place of the old one. *)
LEMMA ChangedOK ==
  ASSUME NEW t, NEW x, NEW c, Holds(t, x, c), NEW r \in Record, x[r.key] # NULL_ID
  PROVE  Holds(Updated(t, x[r.key], GetByIndex(t, x[r.key], r.key), r), x,
               [c EXCEPT ![r.key] = r.value])
PROOF
<1> DEFINE k == r.key
           p == x[k]
           g == GetByIndex(t, p, k)
           u == Updated(t, p, g, r)
           d == [c EXCEPT ![k] = r.value]
<1>0. /\ PagesOK(t, Record) /\ x \in [Key -> Links] /\ c \in [Key -> Value \cup {Nothing}]
      /\ \A j \in Key : x[j] = NULL_ID <=> c[j] = Nothing
      /\ \A q \in PageId : Keyed(t.list[q].records, On(x, c, q))
  BY DEF Holds
<1>1. /\ k \in Key /\ r.value \in Value /\ r = [key |-> k, value |-> r.value] /\ r.value # Nothing
  BY RecordIs
<1>2. /\ p \in PageId /\ p \in InUse(t) /\ g \in 1 .. Size(t, p)
      /\ t.list[p].records[g] = Entry(c, k)
  BY <1>1, PlaceOK
<1>3. Size(t, p) = Len(t.list[p].records)
  BY <1>2, HoldsParts
<1>4. Entry(c, k).key = k
  BY DEF Entry
<1> HIDE DEF g, p
<1>5. /\ PagesOK(u, Record)
      /\ \A q \in PageId :
           u.list[q].records = IF q = p THEN [t.list[p].records EXCEPT ![g] = r]
                               ELSE t.list[q].records
  BY <1>0, <1>2, UpdatedOK
<1> HIDE DEF u, k
<1>6. \A q \in PageId : On(x, d, q) = IF q = p THEN (On(x, c, q) \ {Entry(c, k)}) \cup {r}
                                      ELSE On(x, c, q)
  <2>1. x = [x EXCEPT ![k] = p]
    BY <1>0, <1>1 DEF p
  <2>2. \A q \in PageId :
          /\ x[k] # q /\ p # q => On(x, d, q) = On(x, c, q)
          /\ x[k] = q /\ p = q
               => On(x, d, q) = (On(x, c, q) \ {Entry(c, k)}) \cup {[key |-> k, value |-> r.value]}
    <3>1. Moved(x, c, k, p, r.value, x, d)
      BY <1>0, <1>1, <2>1 DEF Moved
    <3> HIDE DEF d
    <3> QED BY <3>1, OnChanged
  <2> HIDE DEF d
  <2> QED BY <2>1, <2>2, <1>1 DEF p
<1>7. ASSUME NEW q \in PageId PROVE Keyed(u.list[q].records, On(x, d, q))
  <2>1. CASE q # p
    BY <2>1, <1>0, <1>5, <1>6
  <2>2. CASE q = p
    <3>1. r.key = t.list[p].records[g].key
      BY <1>2, <1>4 DEF k
    <3>2. Keyed([t.list[p].records EXCEPT ![g] = r],
                (On(x, c, p) \ {t.list[p].records[g]}) \cup {r})
      BY <1>0, <1>2, <1>3, <3>1, UpdateKeyed
    <3> QED BY <2>2, <3>2, <1>2, <1>5, <1>6
  <2> QED BY <2>1, <2>2
<1>8. d \in [Key -> Value \cup {Nothing}] /\ \A j \in Key : x[j] = NULL_ID <=> d[j] = Nothing
  BY <1>0, <1>1 DEF k
<1> HIDE DEF d
<1> QED BY <1>0, <1>5, <1>7, <1>8 DEF Holds, u, g, p, k, d


(* Insert of a key that the index has leaves one of the two records, the   *)
(* old one, or the new one if both were on the page it went to             *)
(* (WithIndexTable.h:92-101).                                              *)
LEMMA RefusedOK ==
  ASSUME NEW t, NEW x, NEW c, Holds(t, x, c), NEW r \in Record, x[r.key] # NULL_ID,
         TailFull(t) => CanNew(t), ~TailFull(t) => t.tail \notin Given(t)
  PROVE  LET u == Inserted(t, r)
             l == InsertPage(t)
             w == Removed(u, l, GetByIndex(u, l, r.key))
         IN Holds(w, x, c) \/ Holds(w, x, [c EXCEPT ![r.key] = r.value])
PROOF
<1> DEFINE k == r.key
           u == Inserted(t, r)
           l == InsertPage(t)
           s == t.list[l].records
           g == GetByIndex(u, l, k)
           w == Removed(u, l, g)
           d == [c EXCEPT ![k] = r.value]
<1>0. /\ PagesOK(t, Record) /\ x \in [Key -> Links] /\ c \in [Key -> Value \cup {Nothing}]
      /\ \A j \in Key : x[j] = NULL_ID <=> c[j] = Nothing
      /\ \A p \in PageId : Keyed(t.list[p].records, On(x, c, p))
  BY DEF Holds
<1>1. /\ k \in Key /\ r.value \in Value /\ r = [key |-> k, value |-> r.value] /\ r.value # Nothing
  BY RecordIs
<1>2. /\ PagesOK(u, Record)
      /\ l \in PageId /\ l \in InUse(u)
      /\ u.list[l].records = Append(t.list[l].records, r) \/ TailFull(t)
      /\ TailFull(t) => l \notin InUse(t) /\ u.list[l].records = <<r>>
      /\ \A q \in PageId \ {l} : u.list[q].records = t.list[q].records
  BY <1>0, InsertedOK
<1>3. /\ \A p \in PageId \ InUse(t) : t.list[p].records = <<>>
      /\ NULL_ID \notin PageId
      /\ \A p \in PageId : t.list[p].records \in Seq(Record) /\ Size(t, p) = Len(t.list[p].records)
  BY HoldsParts
<1>4. /\ x[k] \in PageId
      /\ \A j \in 1 .. Size(t, x[k]) :
           t.list[x[k]].records[j].key = k => t.list[x[k]].records[j] = Entry(c, k)
  <2>1. /\ x[k] \in PageId
        /\ t.list[x[k]].records[GetByIndex(t, x[k], k)] = Entry(c, k)
        /\ \A j \in 1 .. Size(t, x[k]) : t.list[x[k]].records[j].key = k => j = GetByIndex(t, x[k], k)
    BY <1>1, PlaceOK
  <2> QED BY <2>1
<1>5. s \in Seq(Record) /\ Len(s) \in Nat /\ Keyed(s, On(x, c, l))
  BY <1>0, <1>2, <1>3
<1> HIDE DEF u, l
<1>6. u.list[l].records = Append(s, r)
  <2>1. <<r>> = Append(<<>>, r)
    OBVIOUS
  <2> QED BY <2>1, <1>2, <1>3
<1> HIDE DEF k, s
<1>7. /\ Append(s, r) \in Seq(Record) /\ Len(Append(s, r)) = Len(s) + 1 /\ Append(s, r)[Len(s) + 1] = r
      /\ \A i \in 1 .. Len(s) : Append(s, r)[i] = s[i]
      /\ Size(u, l) = Len(s) + 1
  BY <1>5, <1>6 DEF Size
<1>8. /\ g \in 1 .. Len(s) + 1 /\ Append(s, r)[g].key = k
      /\ \A j \in 1 .. Len(s) + 1 : Append(s, r)[j].key = k => g <= j
  <2>1. Size(u, l) \in Nat /\ \E i \in 1 .. Size(u, l) : u.list[l].records[i].key = k
    <3>1. Len(s) + 1 \in 1 .. Len(s) + 1 /\ Len(s) + 1 \in Nat
      BY <1>5
    <3> QED BY <3>1, <1>6, <1>7 DEF k
  <2>2. /\ g \in 1 .. Size(u, l) /\ u.list[l].records[g].key = k
        /\ \A j \in 1 .. Size(u, l) : u.list[l].records[j].key = k => g <= j
    BY <2>1, FirstPlace
  <2> HIDE DEF g
  <2> QED BY <2>2, <1>6, <1>7
<1> HIDE DEF g
<1>9. /\ PagesOK(w, Record)
      /\ \A q \in PageId :
           w.list[q].records = IF q = l THEN Seqs!RemoveAt(Append(s, r), g)
                               ELSE t.list[q].records
  <2>1. g \in 1 .. Size(u, l)
    BY <1>7, <1>8
  <2>2. /\ PagesOK(w, Record)
        /\ \A q \in PageId :
             w.list[q].records = IF q = l THEN Seqs!RemoveAt(u.list[l].records, g)
                                 ELSE u.list[q].records
    BY <1>2, <2>1, RemovedOK
  <2> HIDE DEF w
  <2> QED BY <2>2, <1>2, <1>6
<1> HIDE DEF w
<1>10. CASE x[k] # l
  <2>1. ASSUME NEW i \in 1 .. Len(s) PROVE s[i].key # k
    <3>1. s[i] \in On(x, c, l)
      BY <1>5 DEF Keyed
    <3>2. PICK j \in Key : x[j] = l /\ s[i] = Entry(c, j)
      BY <3>1 DEF On
    <3> QED BY <3>2, <1>10 DEF Entry
  <2>2. g = Len(s) + 1
    BY <2>1, <1>5, <1>7, <1>8
  <2>3. Seqs!RemoveAt(Append(s, r), g) = s
    BY <2>2, <1>5, AppendedRemoved
  <2>4. \A q \in PageId : w.list[q].records = t.list[q].records
    BY <1>9, <2>3 DEF s
  <2>5. Holds(w, x, c)
    BY <1>0, <1>9, <2>4 DEF Holds
  <2> QED BY <2>5 DEF w, g, u, l, k
<1>11. CASE x[k] = l
  <2>1. Entry(c, k) \in On(x, c, l) /\ Entry(c, k).key = k
    BY <1>1, <1>11 DEF On, Entry
  <2>2. PICK i \in 1 .. Len(s) : s[i] = Entry(c, k)
    BY <1>5, <2>1 DEF Keyed
  <2>3. g \in 1 .. Len(s) /\ s[g].key = k
    <3>1. i \in 1 .. Len(s) + 1 /\ Append(s, r)[i].key = k
      BY <1>5, <1>7, <2>1, <2>2
    <3>2. g <= i
      BY <1>8, <3>1
    <3>3. g \in 1 .. Len(s)
      BY <3>2, <1>5, <1>8
    <3> QED BY <3>3, <1>7, <1>8
  <2>4. s[g] = Entry(c, k)
    BY <1>5, <2>1, <2>2, <2>3 DEF Keyed
  <2>5. Seqs!RemoveAt(Append(s, r), g) = Append(Seqs!RemoveAt(s, g), r)
    BY <2>3, <1>5, AppendedRemoved
  <2> DEFINE rest == On(x, c, l) \ {Entry(c, k)}
  <2>6. Keyed(Seqs!RemoveAt(s, g), rest)
    <3>1. Keyed(Seqs!RemoveAt(s, g), On(x, c, l) \ {s[g]})
      BY <1>5, <2>3, RemoveKeyed
    <3> QED BY <3>1, <2>4
  <2>7. \A m \in rest : m.key # r.key
    <3> SUFFICES ASSUME NEW j \in Key, Entry(c, j) # Entry(c, k) PROVE Entry(c, j).key # k
      BY DEF On, k
    <3>1. Entry(c, j).key = j
      BY DEF Entry
    <3> QED BY <3>1
  <2>8. Keyed(Append(Seqs!RemoveAt(s, g), r), rest \cup {r})
    <3> HIDE DEF rest
    <3> QED BY <2>6, <2>7, AppendKeyed
  <2>9. \A q \in PageId : On(x, d, q) = IF q = l THEN rest \cup {r} ELSE On(x, c, q)
    <3>1. x = [x EXCEPT ![k] = l]
      BY <1>0, <1>1, <1>11
    <3>2. Moved(x, c, k, l, r.value, x, d)
      BY <3>1, <1>0, <1>1 DEF Moved
    <3> HIDE DEF d
    <3>3. \A q \in PageId :
            /\ x[k] # q /\ l # q => On(x, d, q) = On(x, c, q)
            /\ x[k] = q /\ l = q
                 => On(x, d, q) = (On(x, c, q) \ {Entry(c, k)}) \cup {[key |-> k, value |-> r.value]}
      BY <3>2, OnChanged
    <3> QED BY <3>3, <1>1, <1>11
  <2> HIDE DEF rest
  <2>10. \A q \in PageId : Keyed(w.list[q].records, On(x, d, q))
    BY <1>0, <1>9, <2>5, <2>8, <2>9
  <2>11. d \in [Key -> Value \cup {Nothing}] /\ \A j \in Key : x[j] = NULL_ID <=> d[j] = Nothing
    BY <1>0, <1>1, <1>3, <1>4
  <2> HIDE DEF d
  <2>12. Holds(w, x, d)
    BY <1>0, <1>9, <2>10, <2>11 DEF Holds
  <2> QED BY <2>12 DEF w, g, u, l, k, d
<1> QED BY <1>10, <1>11


-----------------------------------------------------------------------------
(* The contents are what the calls find. *)
LEMMA ContentsAre ==
  ASSUME NEW t, NEW x, NEW c, Holds(t, x, c)
  PROVE  c = [k \in Key |-> IF x[k] = NULL_ID THEN Nothing
                            ELSE t.list[x[k]].records[GetByIndex(t, x[k], k)].value]
PROOF
<1>1. c \in [Key -> Value \cup {Nothing}] /\ \A k \in Key : x[k] = NULL_ID <=> c[k] = Nothing
  BY DEF Holds
<1>2. ASSUME NEW k \in Key, x[k] # NULL_ID
      PROVE  t.list[x[k]].records[GetByIndex(t, x[k], k)].value = c[k]
  <2>1. t.list[x[k]].records[GetByIndex(t, x[k], k)] = Entry(c, k)
    BY <1>2, PlaceOK
  <2> QED BY <2>1 DEF Entry
<1> QED BY <1>1, <1>2

(* The iterator goes over keys of the index only. *)
LEMMA KeysInSeq ==
  ASSUME NEW K \in SUBSET Key
  PROVE  KeysIn(K) \in Seq(K)
PROOF
<1> DEFINE N == Len(Ascending)
           Step(m) == [s \in Seq(K) |-> IF Ascending[m] \in K THEN Append(s, Ascending[m]) ELSE s]
           G == [m \in 1 .. N |-> Step(m)]
           first[n \in 0 .. N] ==
             IF n = 0 THEN <<>>
             ELSE IF Ascending[n] \in K THEN Append(first[n - 1], Ascending[n]) ELSE first[n - 1]
<1>1. N \in Nat
  BY AscendingAssumption
<1>2. /\ \A m \in 1 .. N : Step(m) \in [Seq(K) -> Seq(K)]
      /\ \A m \in 1 .. N, s \in Seq(K) :
           Step(m)[s] = IF Ascending[m] \in K THEN Append(s, Ascending[m]) ELSE s
  OBVIOUS
<1> HIDE DEF Step
<1>3. G \in [1 .. N -> [Seq(K) -> Seq(K)]] /\ \A m \in 1 .. N : G[m] = Step(m)
  BY <1>2
<1>4. <<>> \in Seq(K)
  OBVIOUS
<1> HIDE DEF G, N
<1>5. PICK f \in [0 .. N -> Seq(K)] : f[0] = <<>> /\ \A m \in 1 .. N : f[m] = G[m][f[m - 1]]
  <2> DEFINE e == <<>>
  <2>1. e \in Seq(K)
    BY <1>4
  <2> HIDE DEF e
  <2>2. Iterations(Seq(K), N, G, e) # {}
    BY <1>1, <1>3, <2>1, Iterated
  <2> QED BY <2>2 DEF Iterations, e
<1>6. \A m \in 1 .. N : f[m - 1] \in Seq(K)
  <2>1. \A m \in 1 .. N : m - 1 \in 0 .. N
    BY <1>1
  <2> QED BY <2>1
<1>7. \A n \in 0 .. N : n # 0 => n \in 1 .. N
  BY <1>1
<1>8. f = [n \in 0 .. N |-> IF n = 0 THEN <<>>
                            ELSE IF Ascending[n] \in K THEN Append(f[n - 1], Ascending[n])
                            ELSE f[n - 1]]
  <2>1. \A m \in 1 .. N : f[m] = IF Ascending[m] \in K THEN Append(f[m - 1], Ascending[m]) ELSE f[m - 1]
    BY <1>2, <1>3, <1>5, <1>6
  <2> QED BY <2>1, <1>5, <1>7
<1>9. first = CHOOSE h : h = [n \in 0 .. N |-> IF n = 0 THEN <<>>
                            ELSE IF Ascending[n] \in K THEN Append(h[n - 1], Ascending[n])
                            ELSE h[n - 1]]
  OBVIOUS
<1>10. KeysIn(K) = first[N]
  BY DEF KeysIn, N
<1> HIDE DEF first
<1>11. first = [n \in 0 .. N |-> IF n = 0 THEN <<>>
                            ELSE IF Ascending[n] \in K THEN Append(first[n - 1], Ascending[n])
                            ELSE first[n - 1]]
  BY <1>8, <1>9
<1>12. \A n \in 0 .. N : first[n] \in Seq(K)
  <2> DEFINE T == {n \in 0 .. N : first[n] \in Seq(K)}
  <2>1. 0 \in T
    BY <1>1, <1>4, <1>11
  <2>2. ASSUME NEW n \in 0 .. N - 1, n \in T PROVE n + 1 \in T
    <3>1. n + 1 \in 0 .. N /\ n + 1 # 0 /\ (n + 1) - 1 = n
      BY <1>1
    <3>2. first[n + 1] = IF Ascending[n + 1] \in K THEN Append(first[n], Ascending[n + 1]) ELSE first[n]
      BY <3>1, <1>11
    <3>3. first[n] \in Seq(K)
      BY <2>2
    <3>4. first[n + 1] \in Seq(K)
      <4>1. CASE Ascending[n + 1] \in K
        <5>1. Append(first[n], Ascending[n + 1]) \in Seq(K)
          BY <3>3, <4>1
        <5> QED BY <3>2, <4>1, <5>1
      <4>2. CASE Ascending[n + 1] \notin K
        BY <3>2, <3>3, <4>2
      <4> QED BY <4>1, <4>2
    <3> QED BY <3>1, <3>4
  <2> HIDE DEF T
  <2>3. \A n \in 0 .. N : n \in T
    BY <1>1, <2>1, <2>2, UpTo
  <2> QED BY <2>3 DEF T
<1> QED BY <1>1, <1>10, <1>12

-----------------------------------------------------------------------------
(* The inductive invariant: until a record strays, table and index hold    *)
(* some contents together.                                                 *)
Inv == stray \in BOOLEAN /\ (~stray => \E c : Holds(table, index, c))

(* What the calls find in a state, as the refinement has it. *)
Now == [k \in Key |-> IF stray \/ ~Has(k) THEN Nothing ELSE Found(k).value]

LEMMA NowHolds == ASSUME Inv, ~stray PROVE Holds(table, index, Now)
PROOF
<1>1. PICK c : Holds(table, index, c)
  BY DEF Inv
<1>2. c = [k \in Key |-> IF index[k] = NULL_ID THEN Nothing
                         ELSE table.list[index[k]].records[GetByIndex(table, index[k], k)].value]
  BY <1>1, ContentsAre
<1>3. Now = c
  BY <1>2 DEF Now, Has, Found, Place
<1> QED BY <1>1, <1>3

(* The same of the next state, for the contents that a step comes to. *)
LEMMA ThenHolds ==
  ASSUME NEW c, Holds(table', index', c), stray' = FALSE
  PROVE  Now' = c /\ Inv'
PROOF
<1>1. c = [k \in Key |-> IF index'[k] = NULL_ID THEN Nothing
                         ELSE table'.list[index'[k]].records[GetByIndex(table', index'[k], k)].value]
  BY ContentsAre
<1>2. Now' = [k \in Key |-> IF stray' \/ ~(index'[k] # NULL_ID) THEN Nothing
                            ELSE table'.list[index'[k]].records[GetByIndex(table', index'[k], k)].value]
  BY DEF Now, Has, Found, Place
<1>3. Now' = c
  BY <1>1, <1>2
<1> QED BY <1>3 DEF Inv


(* What an entry of the index stands for while no record has strayed. *)
LEMMA FoundNow ==
  ASSUME Inv, ~stray, NEW k \in Key
  PROVE  /\ Has(k) <=> Now[k] # Nothing
         /\ Has(k) => ~Lost(k) /\ Found(k) = [key |-> k, value |-> Now[k]]
         /\ Now \in [Key -> Value \cup {Nothing}]
PROOF
<1>1. Holds(table, index, Now)
  BY NowHolds
<1>2. index[k] = NULL_ID <=> Now[k] = Nothing
  BY <1>1 DEF Holds
<1>3. ASSUME index[k] # NULL_ID
      PROVE  /\ GetByIndex(table, index[k], k) # NULL_ID
             /\ table.list[index[k]].records[GetByIndex(table, index[k], k)] = Entry(Now, k)
  BY <1>1, <1>3, PlaceOK
<1>4. Now \in [Key -> Value \cup {Nothing}]
  BY <1>1 DEF Holds
<1> HIDE DEF Now
<1> QED BY <1>2, <1>3, <1>4 DEF Has, Lost, Found, Place, Entry

LEMMA QuietStep ==
  ASSUME Inv, ~stray, UNCHANGED <<table, index, stray>>
  PROVE  Now' = Now /\ Inv'
PROOF
<1>1. Holds(table, index, Now)
  BY NowHolds
<1> DEFINE c == Now
<1> HIDE DEF c
<1>2. Holds(table', index', c) /\ stray' = FALSE
  BY <1>1 DEF c, Inv
<1>3. Now' = c /\ Inv'
  BY <1>2, ThenHolds
<1> QED BY <1>3 DEF c

LEMMA QueryStep ==
  ASSUME Inv, ~stray, NEW k \in Key, Query(k)
  PROVE  Inv' /\ reply' = Now[k] /\ Now' = Now
PROOF
<1>1. Inv' /\ Now' = Now
  BY QuietStep DEF Query
<1>2. Has(k) <=> Now[k] # Nothing
  BY FoundNow
<1>3. Has(k) => ~Lost(k) /\ Found(k) = [key |-> k, value |-> Now[k]]
  BY FoundNow
<1>4. reply' = IF Lost(k) THEN Failed ELSE IF Has(k) THEN Found(k).value ELSE Nothing
  BY DEF Query
<1>5. ~Has(k) => ~Lost(k)
  BY DEF Lost
<1> HIDE DEF Now
<1> QED BY <1>1, <1>2, <1>3, <1>4, <1>5

LEMMA AddStep ==
  ASSUME Inv, NEW r \in Record, AddRecord(r), ~stray'
  PROVE  /\ Inv'
         /\ \/ Now[r.key] = Nothing /\ Now' = [Now EXCEPT ![r.key] = r.value] /\ reply' = Done
            \/ /\ Now[r.key] # Nothing /\ reply' = Exists
               /\ Now' = [Now EXCEPT ![r.key] = r.value] \/ Now' = Now
PROOF
<1>1. /\ TailFull(table) => CanNew(table)
      /\ ~stray /\ ~TailFull(table) => InsertPage(table) \notin Given(table)
      /\ stray' = (stray \/ (~TailFull(table) /\ InsertPage(table) \in Given(table)))
  BY DEF AddRecord
<1>2. ~stray /\ stray' = FALSE
  BY <1>1
<1>3. ~TailFull(table) => table.tail \notin Given(table)
  BY <1>1, <1>2 DEF InsertPage
<1>4. Holds(table, index, Now) /\ r.key \in Key
  BY <1>2, NowHolds, RecordIs
<1>5. Has(r.key) <=> Now[r.key] # Nothing
  BY <1>2, <1>4, FoundNow
<1> DEFINE c == Now
           d == [c EXCEPT ![r.key] = r.value]
<1> HIDE DEF c
<1>6. CASE ~Has(r.key)
  <2>1. /\ table' = Inserted(table, r) /\ reply' = Done
        /\ index' = [index EXCEPT ![r.key] = InsertPage(table)]
    BY <1>6 DEF AddRecord
  <2>2. Holds(Inserted(table, r), [index EXCEPT ![r.key] = InsertPage(table)], d)
    <3>1. index[r.key] = NULL_ID /\ Holds(table, index, c)
      BY <1>4, <1>6 DEF Has, c
    <3> QED BY <1>1, <1>3, <3>1, AddedOK
  <2> HIDE DEF d
  <2>3. Now' = d /\ Inv'
    BY <1>2, <2>1, <2>2, ThenHolds
  <2> QED BY <1>5, <1>6, <2>1, <2>3 DEF c, d
<1>7. CASE Has(r.key)
  <2> DEFINE u == Inserted(table, r)
             l == InsertPage(table)
             w == Removed(u, l, GetByIndex(u, l, r.key))
  <2>1. table' = w /\ index' = index /\ reply' = Exists
    BY <1>7 DEF AddRecord
  <2>2. Holds(w, index, c) \/ Holds(w, index, d)
    <3>1. index[r.key] # NULL_ID /\ Holds(table, index, c)
      BY <1>4, <1>7 DEF Has, c
    <3> QED BY <1>1, <1>3, <3>1, RefusedOK
  <2> HIDE DEF w, d
  <2>3. CASE Holds(w, index, c)
    <3>1. Now' = c /\ Inv'
      BY <1>2, <2>1, <2>3, ThenHolds
    <3> QED BY <1>5, <1>7, <2>1, <3>1 DEF c
  <2>4. CASE Holds(w, index, d)
    <3>1. Now' = d /\ Inv'
      BY <1>2, <2>1, <2>4, ThenHolds
    <3> QED BY <1>5, <1>7, <2>1, <3>1 DEF c, d
  <2> QED BY <2>2, <2>3, <2>4
<1> QED BY <1>6, <1>7

LEMMA ChangeStep ==
  ASSUME Inv, ~stray, NEW r \in Record, ChangeRecord(r)
  PROVE  /\ Inv' /\ reply' = Done
         /\ Now' = IF Now[r.key] = Nothing THEN Now ELSE [Now EXCEPT ![r.key] = r.value]
PROOF
<1>1. Holds(table, index, Now) /\ r.key \in Key
  BY NowHolds, RecordIs
<1>2. /\ Has(r.key) <=> Now[r.key] # Nothing
      /\ ~Lost(r.key)
  BY <1>1, FoundNow DEF Lost
<1>3. index' = index /\ stray' = stray /\ stray' = FALSE /\ reply' = Done
  BY <1>2 DEF ChangeRecord, Inv
<1> DEFINE c == Now
           d == [c EXCEPT ![r.key] = r.value]
<1> HIDE DEF c
<1>4. CASE ~Has(r.key)
  <2>1. table' = table
    BY <1>4 DEF ChangeRecord
  <2>2. Now' = Now /\ Inv'
    BY <2>1, <1>3, QuietStep
  <2> QED BY <1>2, <1>3, <1>4, <2>2
<1>5. CASE Has(r.key)
  <2>1. table' = Updated(table, index[r.key], GetByIndex(table, index[r.key], r.key), r)
    BY <1>2, <1>5 DEF ChangeRecord, Place
  <2>2. Holds(Updated(table, index[r.key], GetByIndex(table, index[r.key], r.key), r), index, d)
    <3>1. index[r.key] # NULL_ID /\ Holds(table, index, c)
      BY <1>1, <1>5 DEF Has, c
    <3> QED BY <3>1, ChangedOK
  <2> HIDE DEF d
  <2>3. Now' = d /\ Inv'
    BY <1>3, <2>1, <2>2, ThenHolds
  <2> QED BY <1>2, <1>3, <1>5, <2>3 DEF c, d
<1> QED BY <1>4, <1>5

LEMMA RemoveStep ==
  ASSUME Inv, ~stray, NEW k \in Key, Remove(k)
  PROVE  Inv' /\ reply' = Done /\ Now' = [Now EXCEPT ![k] = Nothing]
PROOF
<1>1. Holds(table, index, Now)
  BY NowHolds
<1>2. /\ Has(k) <=> Now[k] # Nothing
      /\ ~Lost(k)
  BY FoundNow DEF Lost
<1>3. index' = [index EXCEPT ![k] = NULL_ID] /\ stray' = stray /\ stray' = FALSE /\ reply' = Done
  BY <1>2 DEF Remove, Inv
<1>4. index \in [Key -> Links] /\ Now \in [Key -> Value \cup {Nothing}]
  BY <1>1 DEF Holds
<1> DEFINE c == Now
           d == [c EXCEPT ![k] = Nothing]
<1> HIDE DEF c
<1>5. CASE ~Has(k)
  <2>1. table' = table
    BY <1>5 DEF Remove
  <2>2. index' = index
    BY <1>3, <1>4, <1>5 DEF Has
  <2>3. Now' = Now /\ Inv'
    BY <1>3, <2>1, <2>2, QuietStep
  <2>4. [c EXCEPT ![k] = Nothing] = c
    BY <1>2, <1>4, <1>5 DEF c
  <2> QED BY <1>3, <2>3, <2>4 DEF c
<1>6. CASE Has(k)
  <2>1. table' = Removed(table, index[k], GetByIndex(table, index[k], k))
    BY <1>2, <1>6 DEF Remove, Place
  <2>2. Holds(Removed(table, index[k], GetByIndex(table, index[k], k)),
              [index EXCEPT ![k] = NULL_ID], d)
    <3>1. index[k] # NULL_ID /\ Holds(table, index, c)
      BY <1>1, <1>6 DEF Has, c
    <3> QED BY <3>1, TakenOK
  <2> HIDE DEF d
  <2>3. Now' = d /\ Inv'
    BY <1>3, <2>1, <2>2, ThenHolds
  <2> QED BY <1>3, <2>3 DEF c, d
<1> QED BY <1>5, <1>6

LEMMA ScanStep ==
  ASSUME Inv, ~stray, Scan
  PROVE  /\ Inv' /\ Now' = Now
         /\ LET present == KeysIn({k \in Key : Now[k] # Nothing})
            IN reply' = [i \in DOMAIN present |-> [key |-> present[i], value |-> Now[present[i]]]]
PROOF
<1> DEFINE K == {k \in Key : Has(k)}
           present == KeysIn(K)
<1>1. Inv' /\ Now' = Now
  BY QuietStep DEF Scan
<1>2. reply' = [i \in DOMAIN present |-> Found(present[i])]
  BY DEF Scan
<1>3. K = {k \in Key : Now[k] # Nothing}
  BY FoundNow
<1>4. present \in Seq(K)
  <2> HIDE DEF K
  <2>1. K \in SUBSET Key
    BY DEF K
  <2> QED BY <2>1, KeysInSeq
<1>5. ASSUME NEW i \in DOMAIN present
      PROVE  Found(present[i]) = [key |-> present[i], value |-> Now[present[i]]]
  <2>1. present[i] \in K
    <3> HIDE DEF present, K
    <3> QED BY <1>4
  <2>2. present[i] \in Key /\ Has(present[i])
    BY <2>1
  <2> HIDE DEF present
  <2> QED BY <2>2, FoundNow
<1> HIDE DEF present, K
<1>6. reply' = [i \in DOMAIN present |-> [key |-> present[i], value |-> Now[present[i]]]]
  BY <1>2, <1>5
<1>7. present = KeysIn({k \in Key : Now[k] # Nothing})
  BY <1>3 DEF present
<1> QED BY <1>1, <1>6, <1>7


-----------------------------------------------------------------------------
LEMMA InitInv == ASSUME Init PROVE Inv /\ ~stray /\ Now = [k \in Key |-> Nothing]
PROOF
<1>1. table = NewTable /\ index = [k \in Key |-> NULL_ID] /\ stray = FALSE
  BY DEF Init
<1>2. Holds(table, index, [k \in Key |-> Nothing])
  BY <1>1, EmptyHolds
<1> DEFINE c == [k \in Key |-> Nothing]
<1> HIDE DEF c
<1>3. c = [k \in Key |-> IF index[k] = NULL_ID THEN Nothing
                         ELSE table.list[index[k]].records[GetByIndex(table, index[k], k)].value]
  BY <1>2, ContentsAre DEF c
<1>4. Now = c
  BY <1>1, <1>3 DEF Now, Has, Found, Place
<1> QED BY <1>1, <1>2, <1>4 DEF Inv, c

LEMMA NextInv == Inv /\ [Next]_vars => Inv'
PROOF
<1> SUFFICES ASSUME Inv, [Next]_vars, ~stray' PROVE Inv'
  <2>1. Inv /\ [Next]_vars => stray' \in BOOLEAN
    BY DEF Inv, vars, Next, Query, Remove, Insert, Update, SetConfig, AddRecord, ChangeRecord, Scan
  <2> QED BY <2>1 DEF Inv
<1>1. CASE ~stray
  <2>1. ASSUME NEW k \in Key, Query(k) PROVE Inv'
    BY <1>1, <2>1, QueryStep
  <2>2. ASSUME NEW k \in Key, Remove(k) PROVE Inv'
    BY <1>1, <2>2, RemoveStep
  <2>3. ASSUME NEW r \in Record, AddRecord(r) PROVE Inv'
    BY <2>3, AddStep
  <2>4. ASSUME NEW r \in Record, ChangeRecord(r) PROVE Inv'
    BY <1>1, <2>4, ChangeStep
  <2>5. CASE Scan
    BY <1>1, <2>5, ScanStep
  <2>6. CASE UNCHANGED vars
    BY <1>1, <2>6, QuietStep DEF vars
  <2>7. ASSUME NEW r \in Record, Insert(r) \/ Update(r) \/ SetConfig(r) PROVE Inv'
    BY <2>3, <2>4, <2>7 DEF Insert, Update, SetConfig
  <2> QED BY <2>1, <2>2, <2>5, <2>6, <2>7 DEF Next
<1>2. CASE stray
  <2>1. Next => stray'
    BY <1>2 DEF Next, Query, Remove, Insert, Update, SetConfig, AddRecord, ChangeRecord, Scan
  <2> QED BY <1>2, <2>1 DEF vars
<1> QED BY <1>1, <1>2

LEMMA Invariance == Spec => []Inv
PROOF
<1>1. Init => Inv
  BY InitInv
<1> QED BY <1>1, NextInv, PTL DEF Spec

(* What the table and the index hold has its type, until a record strays.  *)
THEOREM TypeCorrect == Spec => []TypeOK
PROOF
<1>1. ASSUME Inv PROVE TypeOK
  <2> SUFFICES ASSUME ~stray
               PROVE  /\ table.head \in Cell /\ table.tail \in Cell /\ table.size \in 0 .. PAGES
                      /\ \A p \in PageId :
                           /\ table.list[p].next \in Cell
                           /\ Size(table, p) <= MAX_RECORDS
                           /\ \A i \in 1 .. Size(table, p) : table.list[p].records[i] \in Record
                      /\ index \in [Key -> Cell]
    BY DEF TypeOK
  <2>1. Holds(table, index, Now)
    BY <1>1, NowHolds
  <2>2. Loose(table, Record) /\ index \in [Key -> Links] /\ Links = Cell
    BY <2>1 DEF Holds, PagesOK, Links, Cell
  <2>3. table \in TableType(Record) /\ \A p \in PageId : Size(table, p) <= MAX_RECORDS
    BY <2>2 DEF Loose
  <2>4. table.head \in Cell /\ table.tail \in Cell /\ table.size \in 0 .. PAGES
    BY <2>2, <2>3 DEF TableType
  <2>5. \A p \in PageId : table.list[p].next \in Cell /\ table.list[p].records \in Seq(Record)
    BY <2>2, LooseParts
  <2>6. \A p \in PageId : \A i \in 1 .. Size(table, p) : table.list[p].records[i] \in Record
    BY <2>5 DEF Size
  <2> QED BY <2>2, <2>3, <2>4, <2>5, <2>6
<1> QED BY <1>1, Invariance, PTL

(* Each key of the index has exactly one record, on the page the index     *)
(* names, and no page in use has a record of another key                   *)
(* (WithIndexTable.h:87-110).                                              *)
THEOREM RecordsCorrect == Spec => []RecordsIndexed
PROOF
<1>1. ASSUME Inv PROVE RecordsIndexed
  <2> SUFFICES ASSUME ~stray, NEW k \in Key
               PROVE  IF Has(k) THEN \E i \in 1 .. MAX_RECORDS : Places(k) = {<<index[k], i>>}
                      ELSE Places(k) = {}
    BY DEF RecordsIndexed
  <2> DEFINE c == Now
  <2>1. Holds(table, index, c)
    BY <1>1, NowHolds
  <2> HIDE DEF c
  <2>2. /\ \A p \in PageId : /\ Size(table, p) \in Nat
                             /\ Size(table, p) = Len(table.list[p].records)
        /\ \A p \in PageId \ InUse(table) : table.list[p].records = <<>>
    BY <2>1, HoldsParts
  <2>3. ASSUME NEW p \in PageId, NEW i \in 1 .. Size(table, p), table.list[p].records[i].key = k
        PROVE  index[k] = p
    <3>1. table.list[p].records[i] \in On(index, c, p)
      BY <2>1, <2>2 DEF Holds, Keyed
    <3>2. PICK j \in Key : index[j] = p /\ table.list[p].records[i] = Entry(c, j)
      BY <3>1 DEF On
    <3> QED BY <2>3, <3>2 DEF Entry
  <2>4. ASSUME NEW w \in Places(k)
        PROVE  /\ w = <<w[1], w[2]>> /\ w[1] \in PageId /\ w[2] \in 1 .. Size(table, w[1])
               /\ table.list[w[1]].records[w[2]].key = k
    BY <2>2 DEF Places
  <2>5. NULL_ID \notin PageId
    BY <2>1, HoldsParts
  <2>6. CASE ~Has(k)
    BY <2>3, <2>4, <2>5, <2>6 DEF Has
  <2>7. CASE Has(k)
    <3> DEFINE g == GetByIndex(table, index[k], k)
    <3>1. /\ index[k] \in PageId /\ index[k] \in InUse(table)
          /\ g \in 1 .. Size(table, index[k])
          /\ table.list[index[k]].records[g] = Entry(c, k)
          /\ \A j \in 1 .. Size(table, index[k]) : table.list[index[k]].records[j].key = k => j = g
      BY <2>1, <2>7, PlaceOK DEF Has
    <3> HIDE DEF g
    <3>2. Size(table, index[k]) <= MAX_RECORDS /\ MAX_RECORDS \in Nat
      BY <2>1, <3>1, TableAssumption DEF Holds, PagesOK, Loose
    <3>3. g \in 1 .. MAX_RECORDS
      BY <2>2, <3>1, <3>2
    <3>4. <<index[k], g>> \in Places(k)
      BY <3>1, <3>3 DEF Places, InUse, Entry
    <3>5. \A w \in Places(k) : w = <<index[k], g>>
      BY <2>3, <2>4, <3>1
    <3> QED BY <2>7, <3>3, <3>4, <3>5
  <2> QED BY <2>6, <2>7
<1> QED BY <1>1, Invariance, PTL

(* No page with an indexed record has been given back, and no page has     *)
(* been given back twice (list_page.h:44-57).                              *)
THEOREM PagesCorrect == Spec => []IndexedPagesKept
PROOF
<1>1. ASSUME Inv PROVE IndexedPagesKept
  <2> SUFFICES ASSUME ~stray
               PROVE  /\ \A k \in Key : index[k] \notin Given(table)
                      /\ Seqs!IsInjective(table.e_s)
    BY DEF IndexedPagesKept
  <2> DEFINE c == Now
  <2>1. Holds(table, index, c)
    BY <1>1, NowHolds
  <2> HIDE DEF c
  <2>2. /\ Seqs!IsInjective(table.e_s) /\ table.e_s \in Seq(0 .. table.size - 1)
        /\ table \in TableType(Record)
    BY <2>1 DEF Holds, PagesOK, Loose
  <2>3. NULL_ID \notin Given(table)
    <3> DEFINE s == table.e_s
               X == 0 .. table.size - 1
    <3>0. s \in Seq(X)
      BY <2>2
    <3>1. \A i \in DOMAIN s : s[i] \in X
      <4> HIDE DEF s, X
      <4> QED BY <3>0
    <3>2. \A i \in DOMAIN table.e_s : table.e_s[i] # -1
      BY <3>1
    <3> QED BY <3>2 DEF Given, Seqs!ToSet, NULL_ID
  <2>4. ASSUME NEW k \in Key, index[k] # NULL_ID PROVE index[k] \notin Given(table)
    <3>1. index[k] \in InUse(table)
      BY <2>1, <2>4, PlaceOK
    <3> QED BY <3>1 DEF InUse
  <2> QED BY <2>2, <2>3, <2>4
<1> QED BY <1>1, Invariance, PTL

-----------------------------------------------------------------------------
LEMMA DictionaryInit == Init => Contents!Init
PROOF
BY InitInv DEF Init, Contents!Init, Now

LEMMA SameKeys == ASSUME NEW K PROVE Contents!KeysIn(K) = KeysIn(K)
PROOF
BY DEF Contents!KeysIn, KeysIn

LEMMA DictionaryStep == Inv /\ [Next]_vars => [Contents!Next]_(Contents!vars)
PROOF
<1> SUFFICES ASSUME Inv, [Next]_vars PROVE [Contents!Next]_(Contents!vars)
  OBVIOUS
<1>1. CASE stray'
  BY <1>1 DEF Contents!Next
<1>2. CASE ~stray' /\ stray
  <2>1. Next => stray'
    BY <1>2 DEF Next, Query, Remove, Insert, Update, SetConfig, AddRecord, ChangeRecord, Scan
  <2> QED BY <1>2, <2>1 DEF vars
<1>3. CASE ~stray' /\ ~stray
  <2>1. ASSUME NEW k \in Key, Query(k) PROVE Contents!Query(k)
    BY <1>3, <2>1, QueryStep DEF Contents!Query, Now
  <2>2. ASSUME NEW k \in Key, Remove(k) PROVE Contents!Remove(k)
    BY <1>3, <2>2, RemoveStep DEF Contents!Remove, Contents!Put, Now
  <2>3. ASSUME NEW r \in Record, AddRecord(r) PROVE Contents!Insert(r.key, r.value)
    BY <1>3, <2>3, AddStep DEF Contents!Insert, Contents!Put, Now
  <2>4. ASSUME NEW r \in Record, ChangeRecord(r) PROVE Contents!Update(r.key, r.value)
    BY <1>3, <2>4, ChangeStep DEF Contents!Update, Contents!Put, Now
  <2>5. ASSUME Scan PROVE Contents!Scan
    BY <1>3, <2>5, ScanStep, SameKeys DEF Contents!Scan, Now
  <2>6. CASE UNCHANGED vars
    BY <1>3, <2>6, QuietStep DEF vars, Contents!vars, Now
  <2>7. CASE Next
    <3>1. stray' = stray
      BY <1>3, <2>7 DEF Inv, Next, Query, Remove, Insert, Update, SetConfig, AddRecord, ChangeRecord, Scan
    <3> QED
      BY <2>1, <2>2, <2>3, <2>4, <2>5, <2>7, <3>1, RecordIs
         DEF Next, Insert, Update, SetConfig, Contents!Next
  <2> QED BY <2>6, <2>7
<1> QED BY <1>1, <1>2, <1>3

(* A table with index is a dictionary of records, as long as no record     *)
(* goes to a page given back (WithIndexTable.h:15).                        *)
THEOREM DictionaryImplemented == Spec => RefinesRecordDictionary
PROOF
<1>1. Inv /\ [Next]_vars => [Contents!Next]_(Contents!vars)
  BY DictionaryStep
<1> QED BY <1>1, DictionaryInit, Invariance, PTL DEF Spec, RefinesRecordDictionary, Contents!Spec
==============================================================================
