------------------------------- MODULE Mutex -------------------------------
(***************************************************************************)
(* What Lock<T, I> of libs/lock promises to safe code: at any time a lock  *)
(* has at most one owner, an owner gives the lock up before another gets   *)
(* it, and nobody but the owner gives it up.  An owner is a frame: one     *)
(* thread of control on one core (a core's thread, the interrupt handler   *)
(* that interrupted it, or its panic handler).                             *)
(***************************************************************************)
CONSTANTS Locks, Owners

VARIABLE owners    \* owners[l]: the set of frames that own lock l now

Init == owners = [l \in Locks |-> {}]

Acquire(l, o) ==
  /\ owners[l] = {}
  /\ owners' = [owners EXCEPT ![l] = {o}]

Release(l, o) ==
  /\ owners[l] = {o}
  /\ owners' = [owners EXCEPT ![l] = {}]

Next == \E l \in Locks, o \in Owners : Acquire(l, o) \/ Release(l, o)

Spec == Init /\ [][Next]_owners
=============================================================================
