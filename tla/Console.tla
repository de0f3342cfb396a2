------------------------------- MODULE Console -------------------------------
(***************************************************************************)
(* Console.h over DDLEngine.h and DQLEngine.h: one action per command.     *)
(* What it does to the files is the action of Shell that it is built with, *)
(* or nothing; the rest is what it prints.                                 *)
(*   screen   what the last command printed: [cmd, out]                    *)
(***************************************************************************)
EXTENDS Shell, DQLEngine

VARIABLE screen

vars == <<files, path, currentDir, screen, status, astray>>

Nothing == [cmd |-> "none", out |-> <<>>]
Shows(cmd, out) == screen' = [cmd |-> cmd, out |-> out]

Init == ShellInit /\ screen = Nothing

(* The commands that print nothing. *)
Quiet ==
  /\ CdUp \/ CreateTableTest \/ \E name \in Name : CdTo(name) \/ MkdirHere(name)
  /\ screen' = Nothing

Ls      == Running /\ Shows("ls", List(files[currentDir])) /\ UNCHANGED shellVars
PwdHere == Running /\ Shows("pwd", Pwd(files, path)) /\ UNCHANGED shellVars

(* select name, age from student where age >= 18 and gender = 0 order by   *)
(* name: the execution stacks.                                             *)
Condition(name, op, value) == [name |-> name, op |-> op, value |-> value]
Stacks(file) ==
  LET s == GetFromFile(file.rows, file.words, file.columns)
  IN {Projection(<<"name", "age">>, Sort("name", Select(<<fa, fb>>, s))) :
        fa \in GetFilters(Condition("age", ">=", 18), Top(s)),
        fb \in GetFilters(Condition("gender", "=", 0), Top(s))}

(* The answer, unless reading one of its rows as an item throws. *)
SelectTableTest ==
  \E id \in Cd(files, Student, currentDir) :
    IF id = NoNumber \/ ~IsTable(files[id])
    THEN Look(Student, id, TRUE) /\ screen' = Nothing
    ELSE \E s \in Stacks(files[id]) : \E rows \in {Rows(GenerateIterator(Top(s).iterable))} :
           LET throws == \E i \in DOMAIN rows : ItemThrows(rows[i], Top(s).infos)
           IN /\ Look(Student, id, throws)
              /\ IF throws THEN screen' = Nothing
                 ELSE Shows("select", [i \in DOMAIN rows |-> Item(rows[i], Top(s).infos)])

(* Cat: every record of a table, text up to its first NUL byte. *)
CatItem(r, columns) ==
  [c \in DOMAIN columns |->
     LET field == GetIndex(r, Part(columns[c].begin, columns[c].size))
     IN IF columns[c].type = "int" THEN field[1] ELSE SubSeq(field, 1, TextLength(field))]
Cat(file) == [i \in DOMAIN file.rows |-> CatItem(file.rows[i], file.columns)]

CatOf(name) ==
  \E id \in Cd(files, name, currentDir) :
    /\ Look(name, id, FALSE)
    /\ IF status' = "ended" THEN screen' = Nothing ELSE Shows("cat", Cat(files[id]))

Next == Quiet \/ Ls \/ PwdHere \/ SelectTableTest \/ \E name \in Name : CatOf(name)

Spec == Init /\ [][Next]_vars

-----------------------------------------------------------------------------
(* Whatever was done before, select_table_test, if it prints an answer,    *)
(* prints the two of age 18 or more and gender 0, by name; and cat what    *)
(* was inserted, its text as far as its words are full.                    *)
SelectAnswers ==
  /\ screen.cmd = "select" /\ ~astray =>
       screen.out = <<[name |-> AnotherGirl, age |-> 20], [name |-> Girl, age |-> 18]>>
  /\ screen.cmd = "cat" /\ ~astray =>
       /\ Len(screen.out) = Len(Students)
       /\ \A i \in DOMAIN Students :
             /\ screen.out[i].id = Students[i].id /\ screen.out[i].age = Students[i].age
             /\ screen.out[i].gender = Students[i].gender
             /\ screen.out[i].name = SelectSeq(Students[i].name, LAMBDA w : w >= FULL_WORD)
==============================================================================
