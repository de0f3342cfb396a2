------------------------------- MODULE MCConsole -------------------------------
(***************************************************************************)
(* A console and up to three files besides the root; two names whose first *)
(* 27 bytes are the same, a name of its own, and that of the table.        *)
(***************************************************************************)
EXTENDS Console, TLC

MCKey == "short" :> "file_short" @@ "long1" :> "file_long" @@ "long2" :> "file_long"
           @@ "student" :> "file_student"

Bound == ~astray
==============================================================================
