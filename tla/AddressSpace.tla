---------------------------- MODULE AddressSpace ----------------------------
(***************************************************************************)
(* What a page table promises to the code that maps memory: a partial      *)
(* function from pages to frames. One entry gives consecutive frames to a  *)
(* block of pages that had none; it may be written again for the same      *)
(* frames with other rights; only the end of the whole address space takes *)
(* a mapping away.                                                         *)
(***************************************************************************)
EXTENDS Naturals

CONSTANTS Pages, Sizes, Nothing

VARIABLE mapping

Init == mapping = [p \in Pages |-> Nothing]

\* The pages that one step changes are one aligned block of a size the tables know.
Map(changed) ==
  \E p \in changed, size \in Sizes :
    /\ p % size = 0 /\ changed = p .. (p + size - 1)
    /\ \A q \in changed : mapping[q] = Nothing /\ mapping'[q] = mapping'[p] + (q - p)

Destroy == \A p \in Pages : mapping'[p] = Nothing

Next == LET changed == {p \in Pages : mapping'[p] # mapping[p]}
        IN Map(changed) \/ Destroy

Spec == Init /\ [][Next]_mapping
=============================================================================
