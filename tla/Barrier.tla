------------------------------ MODULE Barrier ------------------------------
(***************************************************************************)
(* What a start-up rendezvous of the kernel promises: a core goes on only  *)
(* after every core has arrived, and nobody arrives or goes on twice.      *)
(***************************************************************************)
CONSTANT Cores

VARIABLES
  arrived,    \* the cores that have reached the rendezvous
  passed      \* the cores that have gone on

Init == arrived = {} /\ passed = {}

Arrive(c) ==
  /\ c \notin arrived
  /\ arrived' = arrived \cup {c}
  /\ UNCHANGED passed

Pass(c) ==
  /\ arrived = Cores
  /\ c \in Cores \ passed
  /\ passed' = passed \cup {c}
  /\ UNCHANGED arrived

Next == \E c \in Cores : Arrive(c) \/ Pass(c)

Spec == Init /\ [][Next]_<<arrived, passed>>
=============================================================================
