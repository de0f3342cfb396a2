-------------------------------- MODULE Catalog --------------------------------
(***************************************************************************)
(* File.h and DDLEngine.h: files and directories.  A file has a            *)
(* configuration, a KVTable of keys and values of 32 bytes each, and if it *)
(* is a table, records.  files is the sequence of all of them; a file's id *)
(* is its place, where the code has the number of its first page.          *)
(*   name, type   what the configuration says under these keys             *)
(*   entries      the ids under its "file_..." keys: a table may have such *)
(*                entries as well as a directory                           *)
(*   columns      of a table, the ColumnInfo of each column                *)
(*   rows         of a table, its records                                  *)
(***************************************************************************)
EXTENDS Columns

CONSTANTS Name,     \* names, as far as 32 bytes tell them apart
          EntryKey  \* of a name, the 32 bytes that are kept of "file_" and the name

ASSUME EntryAssumption == Name \subseteq DOMAIN EntryKey

NewDirectory(name) ==
  [name |-> name, type |-> "directory", entries |-> <<>>, columns |-> NoColumns,
   words |-> 0, rows |-> <<>>]

NewTable(name, columns) ==
  [name |-> name, entries |-> <<>>, columns |-> ColumnsOf(columns), rows |-> <<>>,
   type |-> IF \E i \in DOMAIN columns : columns[i].state = 1 THEN "with_index" ELSE "no_index",
   words |-> RecordWords(columns)]

With(entries, k, id) == [e \in DOMAIN entries \cup {k} |-> IF e = k THEN id ELSE entries[e]]

(* Slip: the number of the file made before is entered. *)
SetEntryBefore(files, dir, name, id) ==
  [files EXCEPT ![dir].entries = With(@, EntryKey[name], id - 1)]

(* SetConfig("file_" + name, id) of a directory: what was there is changed. *)
SetEntry(files, dir, name, id) == [files EXCEPT ![dir].entries = With(@, EntryKey[name], id)]

Mkdir(files, name, dir) ==
  SetEntry(Append(files, NewDirectory(name)), dir, name, Len(files) + 1)

Touch(files, name, columns, dir) ==
  SetEntry(Append(files, NewTable(name, columns)), dir, name, Len(files) + 1)

(* Slip: the 0xff bytes that the record began with stay. *)
TextWordUnfilled(text, i) == IF i <= Len(text) THEN text[i] ELSE 255

(* Word i of text that is filled up with NUL bytes. *)
TextWord(text, i) == IF i <= Len(text) THEN text[i] ELSE 0

(* File::Insert of items that name every column, one after the other.      *)
(* Their keys are new: what the table's Insert does else is                *)
(* WithIndexTable's.                                                       *)
ColumnAt(columns, w) ==
  CHOOSE c \in DOMAIN columns : w \in columns[c].begin .. columns[c].begin + columns[c].size - 1

RecordOf(file, item) ==
  [w \in 1 .. file.words |->
     LET c == ColumnAt(file.columns, w)
     IN IF file.columns[c].type = "int" THEN item[c]
        ELSE TextWord(item[c], w - file.columns[c].begin + 1)]

Insert(file, items) ==
  [file EXCEPT !.rows = @ \o [i \in DOMAIN items |-> RecordOf(file, items[i])]]

List(file) == DOMAIN file.entries

Pwd(files, path) == [i \in DOMAIN path |-> files[path[i]].name]

(* Cd: the id under the key of name.  If there is none, the bytes of a     *)
(* local variable are read: stoi throws, or makes a number of them, which  *)
(* may be the id of any file.                                              *)
NoNumber == 0
HasEntry(file, name) == EntryKey[name] \in DOMAIN file.entries
Cd(files, name, dir) ==
  IF HasEntry(files[dir], name) THEN {files[dir].entries[EntryKey[name]]}
  ELSE {NoNumber} \cup DOMAIN files

IsTable(file) == file.type \in {"with_index", "no_index"}
==============================================================================
