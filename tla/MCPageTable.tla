---------------------------- MODULE MCPageTable ----------------------------
(* One core maps while another looks up. Three levels with tables of two, one and two
   entries: a 4K page is one page, a larger one is two. *)
EXTENDS PageTable

CONSTANTS c1, c2

MCFan == [d \in 1 .. 3 |-> IF d = 2 THEN 1 ELSE 2]
=============================================================================
