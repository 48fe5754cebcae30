--------------------------- MODULE MCKernelPanic ---------------------------
(* Three cores.  With consecutive APIC ids from 0 the core ids are the same  *)
(* numbers; with a gap core 3 gets the core id that is the APIC id of core 2. *)
EXTENDS KernelPanic

ConsecutiveCores == {0, 1, 2}
SparseCores == {0, 2, 3}
MCFrames == 0..10
MCBootFrames == {11}
=============================================================================
