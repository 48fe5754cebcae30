--------------------------- MODULE MCBootProcess ---------------------------
(* The BSP is not the core with the lowest APIC id and the ids have a gap.   *)
EXTENDS BootProcess

MCCores == {0, 2, 3, 5}
MCFrames == 0..12 \cup {14}
MCBootFrames == {13}
=============================================================================
