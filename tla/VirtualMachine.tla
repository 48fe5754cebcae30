--------------------------- MODULE VirtualMachine ---------------------------
(***************************************************************************)
(* What a virtual machine promises to the code that runs it, told of any   *)
(* one of its registers and of the event it is given. Only its owner       *)
(* changes the register between two runs and only the guest while it runs: *)
(* on the way in and on the way out nobody does, whichever core it runs    *)
(* on. There is at most one event, which the guest takes or the next exit  *)
(* reports. A guest that the processor refuses, or a failed assertion,     *)
(* ends the program.                                                       *)
(***************************************************************************)
CONSTANTS Values, Events, Nothing

VARIABLES
  mode,      \* "absent", "idle", "entering", "running", "leaving", "refused" or "failed"
  value,     \* of the register
  pending,   \* event that the guest is to take
  reported   \* event whose delivery the last exit interrupted

vars == <<mode, value, pending, reported>>

Init ==
  /\ mode = "absent" /\ value \in Values
  /\ pending = Nothing /\ reported = Nothing

Becomes(from, to) == mode = from /\ mode' = to

Create ==
  /\ Becomes("absent", "idle")
  /\ value' \in Values
  /\ pending' = Nothing /\ reported' = Nothing

(* The owner's calls. *)
Set(x) ==
  /\ mode = "idle" /\ value' = x
  /\ UNCHANGED <<mode, pending, reported>>

\* An event may come with a register, as a page fault does with CR2.
Inject(e, x) ==
  /\ mode = "idle"
  /\ pending' = e /\ value' = x
  /\ UNCHANGED <<mode, reported>>

Drop == Becomes("idle", "absent") /\ UNCHANGED <<value, pending, reported>>

(* A run: the guest starts with what the owner left, and the owner finds what the guest left. *)
Start == Becomes("idle", "entering") /\ UNCHANGED <<value, pending, reported>>
Enter == Becomes("entering", "running") /\ UNCHANGED <<value, pending, reported>>

Write(x) ==
  /\ mode = "running" /\ value' = x
  /\ UNCHANGED <<mode, pending, reported>>

Deliver ==
  /\ mode = "running" /\ pending # Nothing
  /\ pending' = Nothing
  /\ UNCHANGED <<mode, value, reported>>

Exit ==
  /\ Becomes("running", "leaving")
  /\ reported' = pending /\ pending' = Nothing
  /\ UNCHANGED value

Return == Becomes("leaving", "idle") /\ UNCHANGED <<value, pending, reported>>

(* The processor does not enter the guest. *)
Refuse == Becomes("entering", "refused") /\ UNCHANGED <<value, pending, reported>>

(* The program stops: nobody reads the register any more. *)
Fail ==
  /\ mode \in {"idle", "leaving", "refused"} /\ mode' = "failed"
  /\ value' \in Values
  /\ UNCHANGED <<pending, reported>>

Next ==
  \/ Create \/ Drop \/ Start \/ Enter \/ Deliver \/ Exit \/ Return \/ Refuse \/ Fail
  \/ \E x \in Values : Set(x) \/ Write(x) \/ \E e \in Events : Inject(e, x)

Spec == Init /\ [][Next]_vars
=============================================================================
