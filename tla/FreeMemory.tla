----------------------------- MODULE FreeMemory -----------------------------
(***************************************************************************)
(* What a RangeSet promises the memory managers that keep their free       *)
(* memory in one: a set of addresses to which ranges are added and from    *)
(* which ranges are taken, and from which an aligned block can be carved.  *)
(* What a call may do is said in terms of the arguments it was made with.  *)
(***************************************************************************)
EXTENDS Integers

CONSTANTS
  Addresses,   \* all addresses
  Usable,      \* the largest one the processor can use in its current state
  PadLimit     \* so many addresses below a block, or more, are never taken with it

VARIABLES
  asked,       \* the call in progress with its arguments, or NoCall
  free,        \* the addresses in the set
  granted      \* what the last allocation returned, if it succeeded

NoCall == [call |-> "none"]
NoBlock == [start |-> 0, size |-> 0]

Init == asked = NoCall /\ free = {} /\ granted = NoBlock

(* A range joins the set, and a range leaves it. *)
Insert(a, b) ==
  /\ asked = NoCall
  /\ asked' = [call |-> "insert", start |-> a, end |-> b]
  /\ free' = free \cup (a .. b)
  /\ granted' = NoBlock

Remove(a, b) ==
  /\ asked = NoCall
  /\ asked' = [call |-> "remove", start |-> a, end |-> b]
  /\ free' = free \ (a .. b)
  /\ granted' = NoBlock

(* A block of size addresses is asked for, aligned to align, the last of    *)
(* them at most max. *)
Ask(size, align, max) ==
  /\ asked = NoCall
  /\ asked' = [call |-> "allocate", size |-> size, align |-> align, max |-> max]
  /\ granted' = NoBlock
  /\ UNCHANGED free

(* The block has the size, the alignment and the limit the call asked for.  *)
(* It leaves the set with less than PadLimit addresses in front of it, all  *)
(* of them free before. *)
Grant(start, pad) ==
  /\ asked.call = "allocate" /\ granted = NoBlock
  /\ granted' = [start |-> start, size |-> asked.size]
  /\ start % asked.align = 0
  /\ start + asked.size - 1 <= asked.max
  /\ start + asked.size - 1 <= Usable
  /\ pad < PadLimit
  /\ (start - pad) .. (start + asked.size - 1) \subseteq free
  /\ free' = free \ ((start - pad) .. (start + asked.size - 1))
  /\ UNCHANGED asked

(* The call returns; an allocation without a block has been refused. *)
Return == asked # NoCall /\ asked' = NoCall /\ UNCHANGED <<free, granted>>

(* RangeSet::clear, and a call whose arguments make no sense. *)
Clear == asked = NoCall /\ free' = {} /\ granted' = NoBlock /\ UNCHANGED asked
Refuse == asked = NoCall /\ granted' = NoBlock /\ UNCHANGED <<asked, free>>

Next ==
  \/ \E a, b \in Addresses : Insert(a, b) \/ Remove(a, b)
  \/ \E size, align \in Addresses \ {0}, max \in Addresses : Ask(size, align, max)
  \/ \E start \in Addresses, pad \in 0 .. PadLimit - 1 : Grant(start, pad)
  \/ Return
  \/ Clear
  \/ Refuse

Spec == Init /\ [][Next]_<<asked, free, granted>>
=============================================================================
