--------------------------- MODULE MCWithIndexTable ---------------------------
(***************************************************************************)
(* WithIndexTable.h with two records to a page, three keys of two values.  *)
(* Four pages: more than the live records can take, so that a new page is  *)
(* there in every state.                                                   *)
(***************************************************************************)
EXTENDS WithIndexTable

MCAscending == <<1, 2, 3>>
MCKey == {1, 2, 3}

(* What follows a record in a page given back is not explored. *)
Bound == ~stray
==============================================================================
