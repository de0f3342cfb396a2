-------------------------------- MODULE Shell --------------------------------
(***************************************************************************)
(* What the commands of Console.h do to the files, whatever they print.    *)
(*   path, currentDir   the files from the root to the current one, and    *)
(*                      the File object that is open                       *)
(*   status             "running"; "ended", by an exception nobody catches *)
(*                      or a null pointer; "undefined", when the back of   *)
(*                      an empty path was read                             *)
(*   astray             history: a number made of uninitialized bytes was  *)
(*                      taken for the id of a file                         *)
(***************************************************************************)
EXTENDS Catalog

CONSTANTS MAX_FILES, MAX_PATH,  \* bounds of the instance
          Student               \* the name that the tests use

VARIABLES files, path, currentDir, status, astray

shellVars == <<files, path, currentDir, status, astray>>

Root == "root"

ShellInit ==
  /\ files = <<NewDirectory(Root)>> /\ path = <<1>> /\ currentDir = 1
  /\ status = "running" /\ astray = FALSE

Running == status = "running"

(* Slip: the file that was open stays open. *)
CdUpStays ==
  /\ Running /\ path' = SubSeq(path, 1, Len(path) - 1)
  /\ status' = IF Len(path) = 1 THEN "undefined" ELSE status
  /\ UNCHANGED <<files, currentDir, astray>>

CdUp ==
  /\ Running /\ path' = SubSeq(path, 1, Len(path) - 1)
  /\ IF Len(path) = 1
     THEN status' = "undefined" /\ UNCHANGED currentDir
     ELSE currentDir' = path'[Len(path')] /\ UNCHANGED status
  /\ UNCHANGED <<files, astray>>

Strays(name) == astray' = (astray \/ ~HasEntry(files[currentDir], name))

CdTo(name) ==
  /\ Running /\ Len(path) < MAX_PATH
  /\ \E id \in Cd(files, name, currentDir) :
       IF id = NoNumber THEN status' = "ended" /\ UNCHANGED <<path, currentDir>>
       ELSE path' = Append(path, id) /\ currentDir' = id /\ UNCHANGED status
  /\ Strays(name) /\ UNCHANGED files

MkdirHere(name) ==
  /\ Running /\ Len(files) < MAX_FILES
  /\ files' = Mkdir(files, name, currentDir)
  /\ UNCHANGED <<path, currentDir, status, astray>>

(* The columns of the table: text of 16 bytes, two integers of 4 bytes and *)
(* one of a single byte, which has a word of its own here; and what is     *)
(* inserted.  Text is a number for every four letters: of equal order.     *)
StudentColumns ==
  <<Column("name", "varchar", 4, 0), Column("id", "int", 1, 1),
    Column("age", "int", 1, 0), Column("gender", "int", 1, 0)>>

Inserted(name, id, age, gender) == [name |-> name, id |-> id, age |-> age, gender |-> gender]
Girl        == <<103>>
AnotherGirl == <<100, 104, 103>>
Students ==
  <<Inserted(<<108, 1>>, 2019, 18, 1), Inserted(Girl, 2020, 18, 0), Inserted(AnotherGirl, 2021, 20, 0),
    Inserted(<<107, 101, 102>>, 2022, 20, 1), Inserted(<<105, 106, 104, 2>>, 2023, 17, 0)>>

InsertTableTest(fs, id) == [fs EXCEPT ![id] = Insert(@, Students)]

CreateTableTest ==
  /\ Running /\ Len(files) < MAX_FILES
  /\ files' = LET made == Touch(files, Student, StudentColumns, currentDir)
              IN InsertTableTest(made, made[currentDir].entries[EntryKey[Student]])
  /\ UNCHANGED <<path, currentDir, status, astray>>

(* A command that prints of the file id with this name: it ends the        *)
(* process if there is no such file or no table to iterate, which is a     *)
(* null pointer, or if what it prints throws.                              *)
Look(name, id, throws) ==
  /\ Running /\ id \in Cd(files, name, currentDir)
  /\ status' = IF id = NoNumber \/ ~IsTable(files[id]) \/ throws THEN "ended" ELSE status
  /\ Strays(name) /\ UNCHANGED <<files, path, currentDir>>

ShellNext ==
  \/ CdUp \/ CreateTableTest
  \/ \E name \in Name : CdTo(name) \/ MkdirHere(name)
  \/ \E name \in Name \cup {Student}, id \in {NoNumber} \cup DOMAIN files, throws \in BOOLEAN :
        Look(name, id, throws)

ShellSpec == ShellInit /\ [][ShellNext]_shellVars

-----------------------------------------------------------------------------
(* The open file is the last of the path, the path begins at the root, and *)
(* whoever changes from the root to one after the other of the names that  *)
(* pwd prints comes to the open file: although a name may have been given  *)
(* to another file since, and names that begin alike are one entry.        *)
PwdLeadsHere ==
  Running /\ ~astray =>
    /\ path # <<>> /\ path[1] = 1 /\ currentDir = path[Len(path)]
    /\ \A i \in 1 .. Len(path) - 1 :
          Cd(files, Pwd(files, path)[i + 1], path[i]) = {path[i + 1]}

(* The files are a tree: an entry leads to a file made later than the one  *)
(* it is in, whose name makes that entry, and no two entries lead to one   *)
(* file.  A file that no entry leads to had its entry taken by a later one *)
(* of the same entry (DDLEngine.h:65, File.h:133).                         *)
FilesFormTree ==
  /\ \A f \in DOMAIN files : \A k \in DOMAIN files[f].entries :
        LET g == files[f].entries[k]
        IN /\ g \in f + 1 .. Len(files) /\ EntryKey[files[g].name] = k
           /\ \A h \in DOMAIN files : \A l \in DOMAIN files[h].entries :
                 files[h].entries[l] = g => h = f /\ l = k
  /\ \A g \in 2 .. Len(files) :
        \E f \in DOMAIN files :
           LET k == EntryKey[files[g].name]
           IN k \in DOMAIN files[f].entries /\ files[f].entries[k] >= g
==============================================================================
