------------------------------- MODULE MCHeap -------------------------------
(* A size whose nodes are only linked, and one that is a page of its own and *)
(* whose nodes have a stack of slots; the Vec of regions takes the second.   *)
(* One page table is missing, for whoever maps a page first.                 *)
EXTENDS Heap, TLC

CONSTANTS linked, page, table

MCBlocksPerPage == [k \in Classes |-> IF k = page THEN 1 ELSE 2]
MCTablesOf == [p \in 1 .. MaxPages |-> {table}]
MCMaxSlots == [k \in Classes |-> IF k = page THEN 1 ELSE 0]
=============================================================================
