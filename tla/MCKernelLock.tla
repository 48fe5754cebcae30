---------------------------- MODULE MCKernelLock ----------------------------
(* Two cores, one preemptible lock (a heap free list, the page table, ...)   *)
(* and the non-preemptible framebuffer lock; the cores are interchangeable.  *)
EXTENDS KernelLock, TLC

CONSTANTS c1, c2, preemptible, framebuffer

MCCores == {c1, c2}
MCLocks == {preemptible, framebuffer}
MCNonPreemptible == {framebuffer}
Symmetry == Permutations(MCCores)
=============================================================================
