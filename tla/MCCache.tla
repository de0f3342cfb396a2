------------------------------- MODULE MCCache --------------------------------
(***************************************************************************)
(* The two structures an LRUBuffer is made of, each under all its calls.   *)
(* A behaviour works on one of them and leaves the other as it began:      *)
(*   "map"     hash_map.h on three nodes, two baskets and four keys.  Three *)
(*             keys share basket 0, so its chain grows to three and every   *)
(*             order of them occurs; the fourth makes the memory run full   *)
(*             in the other basket's favour.                                *)
(*   "buffer"  LRUBuffer.h with three memory pages and four physical pages: *)
(*             one more than fit, so that a Get of the page left out always *)
(*             evicts.                                                      *)
(***************************************************************************)
EXTENDS HashMap, ReplacementOrder

MCKey == {0, 1, 2, 4}
MCPage == 0 .. 3

VARIABLE part   \* the structure at work

MCInit == MapInit /\ Init /\ part \in {"map", "buffer"}

MCNext == \/ part = "map" /\ MapNext /\ UNCHANGED <<part, vars>>
          \/ part = "buffer" /\ Next /\ UNCHANGED <<part, mapVars>>

MCSpec == MCInit /\ [][MCNext]_<<part, vars, mapVars>>
==============================================================================
