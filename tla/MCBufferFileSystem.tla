-------------------------- MODULE MCBufferFileSystem --------------------------
(***************************************************************************)
(* BufferFileSystem.h with two frames and a disk of three pages, so that   *)
(* one page is always out of memory; a page number that the disk does not  *)
(* have yet can be used too.                                               *)
(***************************************************************************)
EXTENDS BufferFileSystem

MCPage == 0 .. 2

(* What follows a use of a page that does not exist, or the deletion of    *)
(* one that is not in use, is not explored, nor what follows a restart     *)
(* that leaks pages of the free stack, nor a third page on that stack.     *)
(* WriteAllBack neither reads nor changes the stack, so it is followed     *)
(* only over stacks of at most one page.                                   *)
Leaked == {i \in Known \ live : \A k \in 1 .. Len(e_s) : e_s[k] # i}
Bound  == ~broken /\ Leaked = {} /\ Len(e_s) <= IF mode = "idle" THEN 2 ELSE 1
==============================================================================
