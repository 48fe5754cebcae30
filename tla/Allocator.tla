----------------------------- MODULE Allocator -----------------------------
(***************************************************************************)
(* What the memory managers promise to those who allocate: memory behind   *)
(* the address they get, that is behind nobody else's address and stays    *)
(* there until they give the address back.                                 *)
(***************************************************************************)

VARIABLE held    \* addresses that callers have, with the memory behind each

Init == held = {}

Allocate(e) ==
  /\ e.memory # {}
  /\ \A d \in held : d.at # e.at /\ d.memory \cap e.memory = {}
  /\ held' = held \cup {e}

Free(e) == held' = held \ {e}

Next ==
  \/ \E e \in held' \ held : Allocate(e)
  \/ \E e \in held \ held' : Free(e)

Spec == Init /\ [][Next]_held
=============================================================================
