-------------------------- MODULE KernelLockProofs --------------------------
(***************************************************************************)
(* Theorems about KernelLock for any number of cores and locks.            *)
(*                                                                         *)
(* Ownership: whoever owns a lock has set its locked flag, so a successful *)
(* compare_exchange finds nobody owning it, and the store that clears the  *)
(* flag ends the only ownership there is.  The typing of everything but    *)
(* the depth counters is enough for that; the counters need the accounting *)
(* of the guards that raised them, in the second half of the module.       *)
(***************************************************************************)
EXTENDS KernelLock, FiniteSetTheorems, TLAPS

(* The typing of the variables that decide ownership. *)
LockTypes ==
  /\ locked \in [Locks -> BOOLEAN]
  /\ lock_core \in [Locks -> Cores \cup {NoCore}]
  /\ running \in [Cores -> Frames \cup {"halted"}]
  /\ pc \in [Cores -> [Frames -> Points]]
  /\ target \in [Cores -> [Frames -> Locks \cup {NoLock}]]
  /\ guards \in [Cores -> [Frames -> SUBSET Locks]]
  /\ panicking_core \in Cores \cup {NoCore}

(* A frame inside a lock operation has a lock to operate on. *)
TargetIsALock ==
  \A c \in Cores, f \in Frames : pc[c][f] # "run" => target[c][f] \in Locks

(* An owned lock is marked locked. *)
OwnedIsLocked ==
  \A c \in Cores, f \in Frames, l \in Locks : Owns(c, f, l) => locked[l]

(* Between the two steps of an acquisition or a release the frame has no    *)
(* guard of that lock. *)
InFlightHasNoGuard ==
  \A c \in Cores, f \in Frames :
    pc[c][f] \in {"claim", "unlock"} => target[c][f] \notin guards[c][f]

OwnershipInv ==
  /\ LockTypes
  /\ TargetIsALock
  /\ OwnedIsLocked
  /\ InFlightHasNoGuard
  /\ MutualExclusion

-----------------------------------------------------------------------------
(* At boot every lock is free and no frame is inside a lock operation.        *)
LEMMA InitOwnership == Init => OwnershipInv
  BY DEF Init, OwnershipInv, LockTypes, TargetIsALock, OwnedIsLocked,
         InFlightHasNoGuard, MutualExclusion, Owns, Points, Frames

(* Every step outside lock() and drop() leaves the lock and the frames'     *)
(* lock operations alone. *)
LEMMA CoreStepKeepsLocks ==
  ASSUME NEW c \in Cores, CoreStep(c), LockTypes
  PROVE  /\ UNCHANGED <<lockVars, frameVars>>
         /\ running' \in [Cores -> Frames \cup {"halted"}]
         /\ panicking_core' \in Cores \cup {NoCore}
  BY DEF CoreStep, LockTypes, initial_enable, enter_interrupt, exit_interrupt,
         exception, halt, begin_panic, vars, lockVars, frameVars, bootVars, Frames

(* A step of lock(), drop() or panic!() keeps the typing, and never enters a  *)
(* lock operation without a lock. *)
LEMMA LockStepKeepsTypes ==
  ASSUME NEW c \in Cores, NEW f \in Frames, LockStep(c, f), LockTypes, TargetIsALock
  PROVE  LockTypes' /\ TargetIsALock'
<1> USE DEF LockTypes, TargetIsALock, At, Executing, Goto, Return, Points,
            lockVars, frameVars, bootVars
<1>1. ASSUME NEW l \in Locks, pre_lock_mask(c, f, l) PROVE LockTypes' /\ TargetIsALock'
  BY <1>1 DEF pre_lock_mask
<1>2. ASSUME NEW l \in Locks, pre_lock_preemptible(c, f, l) PROVE LockTypes' /\ TargetIsALock'
  BY <1>2 DEF pre_lock_preemptible
<1>3. ASSUME NEW l \in Locks, pre_lock_refused(c, f, l) PROVE LockTypes' /\ TargetIsALock'
  BY <1>3 DEF pre_lock_refused, begin_panic, Frames
<1>4. ASSUME NEW l \in Locks, try_lock_unsafe(c, f, l) PROVE LockTypes' /\ TargetIsALock'
  BY <1>4 DEF try_lock_unsafe
<1>5. ASSUME NEW l \in Locks, drop_guard(c, f, l) PROVE LockTypes' /\ TargetIsALock'
  BY <1>5 DEF drop_guard
<1>6. CASE check_deadlock(c, f)
  BY <1>6 DEF check_deadlock
<1>7. CASE deadlock_detected(c, f)
  BY <1>7 DEF deadlock_detected, begin_panic, Frames
<1>8. CASE take(c, f)
  BY <1>8 DEF take
<1>9. CASE claim(c, f)
  BY <1>9 DEF claim
<1>10. CASE unlock(c, f)
  <2> DEFINE l == target[c][f]
  <2>1. /\ l \in Locks
        /\ locked' = [locked EXCEPT ![l] = FALSE]
        /\ UNCHANGED <<lock_core, running, guards, panicking_core>>
        /\ \/ Goto(c, f, "post_lock", l)
           \/ Goto(c, f, "run", NoLock)
    BY <1>10 DEF unlock
  <2>2. CASE Goto(c, f, "post_lock", l)
    BY <2>1, <2>2
  <2>3. CASE Goto(c, f, "run", NoLock)
    BY <2>1, <2>3
  <2> QED
    BY <2>1, <2>2, <2>3
<1>11. CASE post_lock(c, f)
  BY <1>11 DEF post_lock
<1>12. CASE panic(c, f)
  BY <1>12 DEF panic, begin_panic, Frames
<1> QED
  BY <1>1, <1>2, <1>3, <1>4, <1>5, <1>6, <1>7, <1>8, <1>9, <1>10, <1>11, <1>12 DEF LockStep

(* What a step does to the ownership of the locks: nothing, or frame f of    *)
(* core c gets a lock nobody owned, or gives up one that it alone owned.     *)
KeepsOwners ==
  /\ \A d \in Cores, g \in Frames, k \in Locks : Owns(d, g, k)' <=> Owns(d, g, k)
  /\ UNCHANGED locked

Gains(c, f, l) ==
  /\ \A d \in Cores, g \in Frames : ~Owns(d, g, l)
  /\ \A d \in Cores, g \in Frames, k \in Locks :
       Owns(d, g, k)' <=> Owns(d, g, k) \/ <<d, g, k>> = <<c, f, l>>
  /\ locked' = [locked EXCEPT ![l] = TRUE]

Loses(c, f, l) ==
  /\ Owns(c, f, l)
  /\ \A d \in Cores, g \in Frames : Owns(d, g, l) => d = c /\ g = f
  /\ \A d \in Cores, g \in Frames, k \in Locks :
       Owns(d, g, k)' <=> Owns(d, g, k) /\ k # l
  /\ locked' = [locked EXCEPT ![l] = FALSE]

Moves(c, f) ==
  \/ KeepsOwners
  \/ \E l \in Locks : Gains(c, f, l) \/ Loses(c, f, l)

(* Every step of lock(), try_lock_unsafe() or drop() is one of those, and     *)
(* keeps guards apart from operations in flight. *)
LEMMA LockStepMovesOwnership ==
  ASSUME NEW c \in Cores, NEW f \in Frames, LockStep(c, f), OwnershipInv
  PROVE  Moves(c, f) /\ InFlightHasNoGuard'
<1> USE DEF OwnershipInv, At, Executing, Goto, Return, lockVars, frameVars
(* Steps between the ends of an operation: the parts of Owns do not change.  *)
<1>1. CASE /\ UNCHANGED <<locked, guards>>
           /\ \/ UNCHANGED <<pc, target>>
              \/ \E p \in Points \ {"claim", "unlock"}, l \in Locks \cup {NoLock} :
                   pc[c][f] \notin {"claim", "unlock"} /\ Goto(c, f, p, l)
  <2>1. CASE UNCHANGED <<pc, target>>
    BY <1>1, <2>1 DEF Owns, Moves, KeepsOwners, InFlightHasNoGuard
  <2>2. ASSUME NEW p \in Points \ {"claim", "unlock"}, NEW l \in Locks \cup {NoLock},
               pc[c][f] \notin {"claim", "unlock"}, Goto(c, f, p, l)
        PROVE  KeepsOwners /\ InFlightHasNoGuard'
    <3>1. KeepsOwners
      BY <1>1, <2>2 DEF Owns, LockTypes, KeepsOwners
    <3>2. InFlightHasNoGuard'
      BY <1>1, <2>2 DEF LockTypes, InFlightHasNoGuard
    <3> QED
      BY <3>1, <3>2
  <2> QED
    BY <1>1, <2>1, <2>2 DEF Moves
(* A successful compare_exchange: nobody owned the lock, now c, f does. *)
<1>2. ASSUME NEW l \in Locks, ~locked[l], locked' = [locked EXCEPT ![l] = TRUE],
             pc[c][f] \notin {"claim", "unlock"}, Goto(c, f, "claim", l), UNCHANGED guards
      PROVE  Moves(c, f) /\ InFlightHasNoGuard'
  <2>1. \A d \in Cores, g \in Frames : ~Owns(d, g, l)
    BY <1>2 DEF OwnedIsLocked
  <2>2. \A d \in Cores, g \in Frames, k \in Locks :
          Owns(d, g, k)' <=> Owns(d, g, k) \/ <<d, g, k>> = <<c, f, l>>
    BY <1>2 DEF Owns, LockTypes
  <2>3. InFlightHasNoGuard'
    BY <1>2, <2>1 DEF InFlightHasNoGuard, LockTypes, Owns
  <2> QED
    BY <1>2, <2>1, <2>2, <2>3 DEF Moves, Gains
(* The guard takes over from the step in flight, and the other way round. *)
<1>3. CASE claim(c, f)
  <2>1. target[c][f] \in Locks
    BY <1>3 DEF claim, TargetIsALock
  <2>2. KeepsOwners
    BY <1>3, <2>1 DEF claim, Owns, LockTypes, KeepsOwners
  <2>3. InFlightHasNoGuard'
    BY <1>3 DEF claim, InFlightHasNoGuard, LockTypes
  <2> QED
    BY <2>2, <2>3 DEF Moves
<1>4. ASSUME NEW l \in Locks, drop_guard(c, f, l)
      PROVE  Moves(c, f) /\ InFlightHasNoGuard'
  <2>1. KeepsOwners
    BY <1>4 DEF drop_guard, Owns, LockTypes, KeepsOwners
  <2>2. InFlightHasNoGuard'
    BY <1>4 DEF drop_guard, InFlightHasNoGuard, LockTypes
  <2> QED
    BY <2>1, <2>2 DEF Moves
(* The store that clears locked ends the only ownership there is. *)
<1>5. CASE unlock(c, f)
  <2> DEFINE l == target[c][f]
  <2>1. l \in Locks /\ Owns(c, f, l) /\ l \notin guards[c][f]
    BY <1>5 DEF unlock, TargetIsALock, Owns, InFlightHasNoGuard
  <2>2. \A d \in Cores, g \in Frames : Owns(d, g, l) => d = c /\ g = f
    BY <2>1 DEF MutualExclusion
  <2>3. /\ locked' = [locked EXCEPT ![l] = FALSE] /\ UNCHANGED guards
        /\ pc[c][f] = "unlock"
        /\ \E p \in {"run", "post_lock"}, k \in Locks \cup {NoLock} : Goto(c, f, p, k)
    BY <1>5, <2>1 DEF unlock
  <2>4. \A d \in Cores, g \in Frames, k \in Locks :
          Owns(d, g, k)' <=> Owns(d, g, k) /\ k # l
    BY <2>1, <2>2, <2>3 DEF Owns, LockTypes
  <2>5. InFlightHasNoGuard'
    BY <2>3 DEF InFlightHasNoGuard, LockTypes
  <2>6. Loses(c, f, l)
    BY <2>1, <2>2, <2>3, <2>4 DEF Loses
  <2> QED
    BY <2>1, <2>5, <2>6 DEF Moves
<1>6. ASSUME NEW l \in Locks, try_lock_unsafe(c, f, l)
      PROVE  Moves(c, f) /\ InFlightHasNoGuard'
  BY <1>2, <1>6 DEF try_lock_unsafe
<1>7. CASE take(c, f)
  BY <1>2, <1>7 DEF take, TargetIsALock
<1> QED
  BY <1>1, <1>3, <1>4, <1>5, <1>6, <1>7 DEF LockStep, pre_lock_mask, pre_lock_preemptible,
     pre_lock_refused, check_deadlock, deadlock_detected, post_lock, panic, TargetIsALock,
     Points

(* The only way a step of the system reaches the lock and the frames. *)
LEMMA StepMovesOwnership ==
  ASSUME OwnershipInv, [Next]_vars
  PROVE  /\ OwnershipInv'
         /\ KeepsOwners \/ \E c \in Cores, f \in Frames : Moves(c, f)
<1>1. ASSUME UNCHANGED <<locked, lock_core, pc, target, guards>>,
             running' \in [Cores -> Frames \cup {"halted"}],
             panicking_core' \in Cores \cup {NoCore}
      PROVE  OwnershipInv' /\ KeepsOwners
  BY <1>1 DEF OwnershipInv, LockTypes, TargetIsALock, OwnedIsLocked,
     InFlightHasNoGuard, MutualExclusion, Owns, KeepsOwners
<1>2. ASSUME NEW c \in Cores, CoreStep(c) PROVE OwnershipInv' /\ KeepsOwners
  BY <1>1, <1>2, CoreStepKeepsLocks DEF OwnershipInv, lockVars, frameVars
<1>3. ASSUME NEW c \in Cores, NEW f \in Frames, LockStep(c, f)
      PROVE  OwnershipInv' /\ Moves(c, f)
  <2>1. LockTypes' /\ TargetIsALock' /\ InFlightHasNoGuard' /\ Moves(c, f)
    BY <1>3, LockStepKeepsTypes, LockStepMovesOwnership DEF OwnershipInv
  <2>2. OwnedIsLocked'
    BY <2>1 DEF OwnershipInv, LockTypes, OwnedIsLocked, Moves, KeepsOwners, Gains, Loses
  <2>3. MutualExclusion'
    BY <2>1 DEF OwnershipInv, MutualExclusion, Moves, KeepsOwners, Gains, Loses
  <2> QED
    BY <2>1, <2>2, <2>3 DEF OwnershipInv
<1>4. CASE UNCHANGED vars
  BY <1>1, <1>4 DEF vars, lockVars, frameVars, bootVars, OwnershipInv, LockTypes
<1> QED
  BY <1>2, <1>3, <1>4 DEF Next

(* OwnershipInv is inductive, so it holds in every state of the system.       *)
LEMMA OwnershipInvariant == Spec => []OwnershipInv
<1>1. OwnershipInv /\ [Next]_vars => OwnershipInv'
  BY StepMovesOwnership
<1> QED
  BY <1>1, InitOwnership, PTL DEF Spec

(* A Lock never has two owners, for any number of cores and locks, whatever *)
(* interrupts, faults and panics come between the steps of lock() and drop(). *)
THEOREM MutualExclusionHolds == Spec => []MutualExclusion
<1>1. OwnershipInv => MutualExclusion
  BY DEF OwnershipInv
<1> QED
  BY <1>1, OwnershipInvariant, PTL

(* The lock implements the abstract mutex: every step of the code is an     *)
(* Acquire, a Release or a stutter of Mutex. *)
THEOREM LockImplementsMutex == Spec => ImplementsMutex
<1>1. Init => Abstract!Init
  BY DEF Init, Abstract!Init, LockOwners, Owns, Frames
<1>2. ASSUME OwnershipInv, [Next]_vars PROVE [Abstract!Next]_LockOwners
  <2>1. CASE KeepsOwners
    BY <2>1 DEF KeepsOwners, LockOwners
  <2>2. ASSUME NEW c \in Cores, NEW f \in Frames, NEW l \in Locks, Gains(c, f, l)
        PROVE  Abstract!Acquire(l, <<c, f>>)
    <3>1. LockOwners[l] = {}
      BY <2>2 DEF Gains, LockOwners
    <3>2. \A k \in Locks : LockOwners'[k] = IF k = l THEN {<<c, f>>} ELSE LockOwners[k]
      BY <2>2 DEF Gains, LockOwners
    <3> QED
      BY <3>1, <3>2 DEF Abstract!Acquire, LockOwners
  <2>3. ASSUME NEW c \in Cores, NEW f \in Frames, NEW l \in Locks, Loses(c, f, l)
        PROVE  Abstract!Release(l, <<c, f>>)
    <3>1. LockOwners[l] = {<<c, f>>}
      BY <2>3 DEF Loses, LockOwners
    <3>2. \A k \in Locks : LockOwners'[k] = IF k = l THEN {} ELSE LockOwners[k]
      BY <2>3 DEF Loses, LockOwners
    <3> QED
      BY <3>1, <3>2 DEF Abstract!Release, LockOwners
  <2> QED
    BY <1>2, <2>1, <2>2, <2>3, StepMovesOwnership DEF Moves, Abstract!Next
<1> QED
  BY <1>1, <1>2, OwnershipInvariant, PTL DEF Spec, ImplementsMutex, Abstract!Spec
-----------------------------------------------------------------------------
(***************************************************************************)
(* The depth counters: a core's interrupts_disable is the number of        *)
(* non-preemptible locks its frame holds or is busy with, plus one until   *)
(* initial_enable.  With the order in which frames nest that decides the   *)
(* interrupt flag, and with lock_core it rules out a core that waits for   *)
(* itself.                                                                 *)
(***************************************************************************)

(* How many disable_interrupts of the frame's locks are not undone yet, and *)
(* the one every core starts with. *)
InFlight(c, f) == pc[c][f] # "run" /\ target[c][f] \in NonPreemptible

Masks(c, f) ==
  Cardinality(guards[c][f] \cap NonPreemptible) + IF InFlight(c, f) THEN 1 ELSE 0

BootMask(c) == IF initial_enabled[c] THEN 0 ELSE 1

Idle(c, f) == pc[c][f] = "run" /\ guards[c][f] = {}

CounterTypes ==
  /\ interrupt_flag \in [Cores -> BOOLEAN]
  /\ interrupts_disable \in [Cores -> Nat]
  /\ in_interrupt \in [Cores -> Nat]
  /\ in_exception \in [Cores -> Nat]
  /\ initial_enabled \in [Cores -> BOOLEAN]

(* Frames nest: what runs below the handler masks nothing, a handler works  *)
(* with non-preemptible locks only, the panic handler never spins.           *)
Nesting(c) ==
  /\ running[c] \in {"thread", "interrupt"} => Idle(c, "panic")
  /\ running[c] = "thread" => Idle(c, "interrupt")
  /\ running[c] = "interrupt" => Masks(c, "thread") = 0 /\ initial_enabled[c]
  /\ guards[c]["interrupt"] \subseteq NonPreemptible
  /\ pc[c]["interrupt"] # "run" => target[c]["interrupt"] \in NonPreemptible
  /\ pc[c]["panic"] \in {"run", "claim", "unlock"}
  /\ \A f \in Frames : pc[c][f] = "post_lock" => target[c][f] \in NonPreemptible

(* The counters account for the frame that runs. *)
Accounting(c) ==
  /\ running[c] \in {"thread", "interrupt"} =>
       /\ interrupts_disable[c] = Masks(c, running[c]) + BootMask(c)
       /\ in_exception[c] = 0
       /\ in_interrupt[c] = IF running[c] = "thread" THEN 0 ELSE 1
  /\ running[c] = "panic" => interrupts_disable[c] > 0
  /\ interrupt_flag[c] <=> running[c] = "thread" /\ interrupts_disable[c] = 0

CoreInv == \A c \in Cores : Nesting(c) /\ Accounting(c)

(* lock_core names the core of every guard, and a frame that has passed the *)
(* deadlock assertion has no guard of the lock it spins on.                 *)
GuardsNameTheirCore ==
  \A c \in Cores, f \in Frames : \A l \in guards[c][f] : lock_core[l] = c

SpinsWithoutGuard ==
  \A c \in Cores, f \in Frames : pc[c][f] = "spin" => target[c][f] \notin guards[c][f]

MaskingInv ==
  /\ OwnershipInv
  /\ CounterTypes
  /\ CoreInv
  /\ GuardsNameTheirCore
  /\ SpinsWithoutGuard
  /\ LockCoreNamesAGuard

-----------------------------------------------------------------------------
(* Counting guards of non-preemptible locks. *)
LEMMA MaskCount ==
  ASSUME NEW S \in SUBSET Locks
  PROVE  /\ Cardinality(S \cap NonPreemptible) \in Nat
         /\ Cardinality(S \cap NonPreemptible) = 0 <=> S \cap NonPreemptible = {}
         /\ \A l \in Locks :
              /\ l \in NonPreemptible /\ l \notin S =>
                   Cardinality((S \cup {l}) \cap NonPreemptible) = Cardinality(S \cap NonPreemptible) + 1
              /\ l \in NonPreemptible /\ l \in S =>
                   Cardinality((S \ {l}) \cap NonPreemptible) = Cardinality(S \cap NonPreemptible) - 1
              /\ l \notin NonPreemptible =>
                   /\ (S \cup {l}) \cap NonPreemptible = S \cap NonPreemptible
                   /\ (S \ {l}) \cap NonPreemptible = S \cap NonPreemptible
<1> DEFINE N == S \cap NonPreemptible
<1>1. IsFiniteSet(N)
  BY FS_Subset, LockAssumption
<1>2. Cardinality(N) \in Nat /\ (Cardinality(N) = 0 <=> N = {})
  BY <1>1, FS_CardinalityType, FS_EmptySet
<1>3. ASSUME NEW l \in NonPreemptible, l \notin S
      PROVE  Cardinality((S \cup {l}) \cap NonPreemptible) = Cardinality(N) + 1
  <2>1. (S \cup {l}) \cap NonPreemptible = N \cup {l}
    BY <1>3
  <2> QED
    BY <1>1, <1>3, <2>1, FS_AddElement
<1>4. ASSUME NEW l \in NonPreemptible, l \in S
      PROVE  Cardinality((S \ {l}) \cap NonPreemptible) = Cardinality(N) - 1
  <2>1. (S \ {l}) \cap NonPreemptible = N \ {l}
    BY <1>4
  <2> QED
    BY <1>1, <1>4, <2>1, FS_RemoveElement
<1> QED
  BY <1>2, <1>3, <1>4

(* The masks of a frame are a number, and none when the frame is idle. *)
LEMMA MasksOfFrame ==
  ASSUME LockTypes, NEW c \in Cores, NEW f \in Frames
  PROVE  Masks(c, f) \in Nat /\ (Idle(c, f) => Masks(c, f) = 0)
<1>1. guards[c][f] \in SUBSET Locks
  BY DEF LockTypes
<1>2. Cardinality(guards[c][f] \cap NonPreemptible) \in Nat
  BY <1>1, MaskCount
<1>3. Idle(c, f) => Cardinality(guards[c][f] \cap NonPreemptible) = 0
  BY FS_EmptySet DEF Idle
<1> QED
  BY <1>2, <1>3 DEF Masks, InFlight, Idle

(* What CoreInv says of a core depends on that core's own state only. *)
View(d) ==
  <<running[d], pc[d], target[d], guards[d], interrupt_flag[d], interrupts_disable[d],
    in_interrupt[d], in_exception[d], initial_enabled[d]>>

(* A step that leaves a core's view alone keeps both parts of its CoreInv.  *)
LEMMA SameView ==
  ASSUME NEW d \in Cores, UNCHANGED View(d), Nesting(d), Accounting(d)
  PROVE  Nesting(d)' /\ Accounting(d)'
  BY DEF View, Nesting, Accounting, Masks, InFlight, BootMask, Idle

-----------------------------------------------------------------------------
(* A core starts with interrupts disabled once and no guard. *)
LEMMA InitMasking == Init => MaskingInv
<1> SUFFICES ASSUME Init PROVE MaskingInv
  OBVIOUS
<1>1. \A c \in Cores : Masks(c, "thread") = 0
  BY FS_EmptySet DEF Init, Masks, InFlight, Frames
<1>2. CoreInv
  BY <1>1 DEF Init, CoreInv, Nesting, Accounting, BootMask, Idle, Frames
<1>3. CounterTypes /\ GuardsNameTheirCore /\ SpinsWithoutGuard /\ LockCoreNamesAGuard
  BY DEF Init, CounterTypes, GuardsNameTheirCore, SpinsWithoutGuard, LockCoreNamesAGuard
<1> QED
  BY <1>2, <1>3, InitOwnership DEF MaskingInv

(* A panic masks interrupts for good, whatever frame it comes from. *)
LEMMA PanicKeepsCoreInv ==
  ASSUME NEW c \in Cores, begin_panic(c), LockTypes, CounterTypes, Nesting(c),
         UNCHANGED <<frameVars, in_interrupt, initial_enabled>>,
         in_exception' \in [Cores -> Nat]
  PROVE  CounterTypes' /\ Nesting(c)' /\ Accounting(c)'
<1>1. /\ running'[c] \in {"panic", "halted"}
      /\ ~interrupt_flag'[c]
      /\ interrupts_disable'[c] > 0
      /\ CounterTypes'
  BY DEF begin_panic, disable_interrupts, LockTypes, CounterTypes
<1>2. Nesting(c)'
  BY <1>1 DEF Nesting, Idle, frameVars
<1>3. Accounting(c)'
  BY <1>1 DEF Accounting
<1> QED
  BY <1>1, <1>2, <1>3

(* initial_enable, the entry to and return from a handler, a fault and halt   *)
(* keep the accounting of their core. *)
LEMMA CoreStepKeepsCoreInv ==
  ASSUME NEW c \in Cores, CoreStep(c), LockTypes, CounterTypes, Nesting(c), Accounting(c)
  PROVE  CounterTypes' /\ Nesting(c)' /\ Accounting(c)'
<1> USE DEF LockTypes, CounterTypes
<1>1. CASE initial_enable(c)
  <2>1. /\ running[c] = "thread" /\ ~initial_enabled[c]
        /\ UNCHANGED <<running, frameVars, in_interrupt, in_exception>>
        /\ initial_enabled'[c]
        /\ interrupts_disable'[c] = interrupts_disable[c] - 1
        /\ interrupt_flag'[c] = (interrupt_flag[c] \/ (interrupts_disable[c] = 1 /\ in_interrupt[c] = 0 /\ in_exception[c] = 0))
    BY <1>1 DEF initial_enable, enable_interrupts, At, Executing
  <2>2. Masks(c, "thread") \in Nat
    BY MasksOfFrame DEF Frames
  <2>3. interrupts_disable[c] = Masks(c, "thread") + 1
    BY <2>1, <2>2 DEF Accounting, BootMask
  <2>4. CounterTypes'
    BY <1>1, <2>2, <2>3 DEF initial_enable, enable_interrupts
  <2>5. Nesting(c)'
    BY <2>1 DEF Nesting, Idle, frameVars
  <2>6. Masks(c, "thread")' = Masks(c, "thread")
    BY <2>1 DEF Masks, InFlight, frameVars
  <2>7. Accounting(c)'
    BY <2>1, <2>2, <2>3, <2>4, <2>6 DEF Accounting, BootMask
  <2> QED
    BY <2>4, <2>5, <2>7
<1>2. CASE enter_interrupt(c)
  <2>1. /\ running[c] = "thread" /\ interrupt_flag[c]
        /\ running'[c] = "interrupt" /\ ~interrupt_flag'[c]
        /\ in_interrupt'[c] = in_interrupt[c] + 1
        /\ UNCHANGED <<frameVars, interrupts_disable, in_exception, initial_enabled>>
    BY <1>2 DEF enter_interrupt, bootVars
  <2>2. Masks(c, "thread") \in Nat
    BY MasksOfFrame DEF Frames
  <2>3. Masks(c, "thread") = 0 /\ initial_enabled[c] /\ interrupts_disable[c] = 0
    BY <2>1, <2>2 DEF Accounting, BootMask
  <2>4. Masks(c, "interrupt") = 0
    BY <2>1, MasksOfFrame DEF Nesting, Frames
  <2>5. CounterTypes'
    BY <1>2 DEF enter_interrupt, bootVars
  <2>6. Masks(c, "thread")' = 0 /\ Masks(c, "interrupt")' = 0
    BY <2>1, <2>3, <2>4 DEF Masks, InFlight, frameVars
  <2>7. Nesting(c)'
    BY <2>1, <2>3, <2>6 DEF Nesting, Idle, frameVars
  <2>8. Accounting(c)'
    BY <2>1, <2>3, <2>6 DEF Accounting, BootMask
  <2> QED
    BY <2>5, <2>7, <2>8
<1>3. CASE exit_interrupt(c)
  <2>1. /\ running[c] = "interrupt" /\ Idle(c, "interrupt")
        /\ running'[c] = "thread" /\ interrupt_flag'[c]
        /\ in_interrupt'[c] = in_interrupt[c] - 1
        /\ UNCHANGED <<frameVars, interrupts_disable, in_exception, initial_enabled>>
    BY <1>3 DEF exit_interrupt, At, Executing, Idle, bootVars
  <2>2. Masks(c, "interrupt") = 0
    BY <2>1, MasksOfFrame DEF Frames
  <2>3. Masks(c, "thread") = 0 /\ initial_enabled[c]
    BY <2>1 DEF Nesting
  <2>4. interrupts_disable[c] = 0 /\ in_interrupt[c] = 1 /\ in_exception[c] = 0
    BY <2>1, <2>2, <2>3 DEF Accounting, BootMask
  <2>5. CounterTypes'
    BY <1>3, <2>4 DEF exit_interrupt, bootVars
  <2>6. Nesting(c)'
    BY <2>1 DEF Nesting, Idle, frameVars
  <2>7. Masks(c, "thread")' = 0
    BY <2>1, <2>3 DEF Masks, InFlight, frameVars
  <2>8. Accounting(c)'
    BY <2>1, <2>3, <2>4, <2>7 DEF Accounting, BootMask
  <2> QED
    BY <2>5, <2>6, <2>8
<1>4. CASE exception(c)
  <2>1. /\ begin_panic(c) /\ in_exception' \in [Cores -> Nat]
        /\ UNCHANGED <<frameVars, in_interrupt, initial_enabled>>
    BY <1>4 DEF exception
  <2> QED
    BY <2>1, PanicKeepsCoreInv
<1>5. CASE halt(c)
  BY <1>5 DEF halt, Nesting, Accounting, Idle, frameVars, bootVars
<1> QED
  BY <1>1, <1>2, <1>3, <1>4, <1>5 DEF CoreStep

(* A step of a lock operation on frame f keeps the accounting if the counter *)
(* moves with the masks of the frame. *)
LEMMA FrameStepKeepsCoreInv ==
  ASSUME NEW c \in Cores, NEW f \in Frames, LockTypes, Nesting(c), Accounting(c),
         Executing(c, f),
         UNCHANGED <<running, initial_enabled, in_interrupt, in_exception>>,
         \A g \in Frames \ {f} : /\ pc'[c][g] = pc[c][g]
                                 /\ target'[c][g] = target[c][g]
                                 /\ guards'[c][g] = guards[c][g],
         f = "interrupt" => /\ guards'[c][f] \subseteq NonPreemptible
                            /\ pc'[c][f] # "run" => target'[c][f] \in NonPreemptible,
         f = "panic" => /\ pc'[c][f] \in {"run", "claim", "unlock"}
                        /\ interrupts_disable'[c] = interrupts_disable[c],
         pc'[c][f] = "post_lock" => target'[c][f] \in NonPreemptible,
         f # "panic" => interrupts_disable'[c] - Masks(c, f)' = interrupts_disable[c] - Masks(c, f),
         interrupts_disable[c] \in Nat, interrupts_disable'[c] \in Nat,
         f # "panic" => Masks(c, f) \in Nat /\ Masks(c, f)' \in Nat,
         interrupt_flag'[c] <=> f = "thread" /\ interrupts_disable'[c] = 0
  PROVE  Nesting(c)' /\ Accounting(c)'
<1>1. running[c] = f /\ running'[c] = f
  BY DEF Executing
<1>2. f # "thread" => Masks(c, "thread")' = Masks(c, "thread")
  BY DEF Masks, InFlight, Frames
<1>3. Nesting(c)'
  BY <1>1, <1>2 DEF Nesting, Idle, Frames
<1>4. Accounting(c)'
  BY <1>1 DEF Accounting, BootMask, Frames
<1> QED
  BY <1>3, <1>4

(* ... and if the counter and the masks of the frame both stay.             *)
LEMMA QuietStepKeepsCoreInv ==
  ASSUME NEW c \in Cores, NEW f \in Frames, LockTypes, CounterTypes, Nesting(c),
         Accounting(c), Executing(c, f),
         UNCHANGED <<running, coreVars, initial_enabled>>,
         \A g \in Frames \ {f} : /\ pc'[c][g] = pc[c][g]
                                 /\ target'[c][g] = target[c][g]
                                 /\ guards'[c][g] = guards[c][g],
         f = "interrupt" => /\ guards'[c][f] \subseteq NonPreemptible
                            /\ pc'[c][f] # "run" => target'[c][f] \in NonPreemptible,
         f = "panic" => pc'[c][f] \in {"run", "claim", "unlock"},
         pc'[c][f] = "post_lock" => target'[c][f] \in NonPreemptible,
         f # "panic" => Masks(c, f)' = Masks(c, f)
  PROVE  CounterTypes' /\ Nesting(c)' /\ Accounting(c)'
<1>1. Masks(c, f) \in Nat
  BY MasksOfFrame
<1>2. UNCHANGED <<interrupt_flag, interrupts_disable, in_interrupt, in_exception>>
  BY DEF coreVars
<1>3. CounterTypes' /\ interrupts_disable[c] \in Nat
  BY <1>2 DEF CounterTypes
<1>4. interrupt_flag'[c] <=> f = "thread" /\ interrupts_disable'[c] = 0
  BY <1>2 DEF Accounting, Executing
<1>5. f # "panic" => interrupts_disable'[c] - Masks(c, f)' = interrupts_disable[c] - Masks(c, f)
  BY <1>2
<1>6. Nesting(c)' /\ Accounting(c)'
  BY <1>1, <1>2, <1>3, <1>4, <1>5, FrameStepKeepsCoreInv
<1> QED
  BY <1>3, <1>6

(* Every step of lock(), drop() and panic!() keeps the accounting: guards and  *)
(* operations in flight take over each other's mask.                        *)
LEMMA LockStepKeepsCoreInv ==
  ASSUME NEW c \in Cores, NEW f \in Frames, LockStep(c, f), LockTypes, TargetIsALock,
         InFlightHasNoGuard, CounterTypes, Nesting(c), Accounting(c)
  PROVE  CounterTypes' /\ Nesting(c)' /\ Accounting(c)'
<1> DEFINE Goal == CounterTypes' /\ Nesting(c)' /\ Accounting(c)'
           l == target[c][f]
           Count == Cardinality(guards[c][f] \cap NonPreemptible)
           CountWith(k) == Cardinality((guards[c][f] \cup {k}) \cap NonPreemptible)
           CountWithout(k) == Cardinality((guards[c][f] \ {k}) \cap NonPreemptible)
           Quiet == /\ Executing(c, f)
                    /\ UNCHANGED <<running, coreVars, initial_enabled>>
                    /\ \A g \in Frames \ {f} : /\ pc'[c][g] = pc[c][g]
                                               /\ target'[c][g] = target[c][g]
                                               /\ guards'[c][g] = guards[c][g]
<1>1. /\ Masks(c, f) \in Nat /\ Count \in Nat
      /\ \A k \in Locks :
           /\ k \in NonPreemptible /\ k \notin guards[c][f] => CountWith(k) = Count + 1
           /\ k \in NonPreemptible /\ k \in guards[c][f] => CountWithout(k) = Count - 1
           /\ k \notin NonPreemptible => CountWith(k) = Count /\ CountWithout(k) = Count
  <2>1. guards[c][f] \in SUBSET Locks
    BY DEF LockTypes
  <2>2. Masks(c, f) \in Nat
    BY MasksOfFrame
  <2> QED
    BY <2>1, <2>2, MaskCount
<1>2. Executing(c, f) => running[c] = f
  BY DEF Executing
<1>3. ASSUME NEW k \in Locks, pre_lock_preemptible(c, f, k) PROVE Goal
  <2>1. Quiet
    BY <1>3 DEF pre_lock_preemptible, bootVars, LockTypes, At, Goto, Return
  <2>2. f = "thread"
    BY <1>2, <1>3 DEF pre_lock_preemptible, Accounting, Frames, LockTypes, At, Goto, Return
  <2>3. pc[c][f] = "run" /\ pc'[c][f] = "check" /\ target'[c][f] = k /\ guards'[c][f] = guards[c][f]
    BY <1>3 DEF pre_lock_preemptible, LockTypes, At, Goto, Return
  <2>4. Masks(c, f)' = Masks(c, f)
    BY <1>3, <2>3 DEF pre_lock_preemptible, Masks, InFlight, LockTypes, Goto
  <2> QED
    BY <2>1, <2>2, <2>3, <2>4, QuietStepKeepsCoreInv
<1>4. CASE check_deadlock(c, f) \/ take(c, f)
  <2>1. Quiet
    BY <1>4 DEF check_deadlock, take, bootVars, LockTypes, At, Goto, Return
  <2>2. /\ pc[c][f] \in {"check", "spin"} /\ pc'[c][f] \in {"spin", "claim"}
        /\ target'[c][f] = l /\ guards'[c][f] = guards[c][f]
    BY <1>4 DEF check_deadlock, take, LockTypes, At, Goto, Return
  <2>3. Masks(c, f)' = Masks(c, f)
    BY <2>2 DEF Masks, InFlight
  <2>4. f = "interrupt" => guards'[c][f] \subseteq NonPreemptible /\ target'[c][f] \in NonPreemptible
    BY <2>2 DEF Nesting
  <2>5. f # "panic"
    BY <2>2 DEF Nesting
  <2> QED
    BY <2>1, <2>2, <2>3, <2>4, <2>5, QuietStepKeepsCoreInv
<1>5. ASSUME NEW k \in Locks, try_lock_unsafe(c, f, k) PROVE Goal
  <2>1. Quiet
    BY <1>5 DEF try_lock_unsafe, bootVars, LockTypes, At, Goto, Return
  <2>2. f = "panic" /\ pc'[c][f] = "claim"
    BY <1>5 DEF try_lock_unsafe, LockTypes, At, Goto, Return
  <2> QED
    BY <2>1, <2>2, QuietStepKeepsCoreInv
<1>6. CASE claim(c, f)
  <2>1. Quiet
    BY <1>6 DEF claim, bootVars, LockTypes, At, Goto, Return
  <2>2. /\ pc[c][f] = "claim" /\ pc'[c][f] = "run"
        /\ l \in Locks /\ l \notin guards[c][f]
        /\ guards'[c][f] = guards[c][f] \cup {l}
    BY <1>6 DEF claim, TargetIsALock, InFlightHasNoGuard, LockTypes, At, Goto, Return
  <2>3. Masks(c, f)' = Masks(c, f)
    <3>1. InFlight(c, f) <=> l \in NonPreemptible
      BY <2>2 DEF InFlight
    <3>2. ~InFlight(c, f)'
      BY <2>2 DEF InFlight
    <3> Count' = CountWith(l)
      BY <2>2
    <3>3. CASE l \in NonPreemptible
      <4>1. Count' = Count + 1
        BY <1>1, <2>2, <3>3
      <4> QED
        BY <1>1, <3>1, <3>2, <3>3, <4>1 DEF Masks
    <3>4. CASE l \notin NonPreemptible
      <4>1. Count' = Count
        BY <1>1, <2>2, <3>4
      <4> QED
        BY <1>1, <3>1, <3>2, <3>4, <4>1 DEF Masks
    <3> QED
      BY <3>3, <3>4
  <2>4. f = "interrupt" => guards'[c][f] \subseteq NonPreemptible
    BY <2>2 DEF Nesting
  <2> QED
    BY <2>1, <2>2, <2>3, <2>4, QuietStepKeepsCoreInv
<1>7. ASSUME NEW k \in Locks, drop_guard(c, f, k) PROVE Goal
  <2>1. Quiet
    BY <1>7 DEF drop_guard, bootVars, LockTypes, At, Goto, Return
  <2>2. /\ pc[c][f] = "run" /\ pc'[c][f] = "unlock" /\ target'[c][f] = k
        /\ k \in guards[c][f] /\ guards'[c][f] = guards[c][f] \ {k}
    BY <1>7 DEF drop_guard, LockTypes, At, Goto, Return
  <2>3. Masks(c, f)' = Masks(c, f)
    <3>1. ~InFlight(c, f)
      BY <2>2 DEF InFlight
    <3>2. InFlight(c, f)' <=> k \in NonPreemptible
      BY <2>2 DEF InFlight
    <3> Count' = CountWithout(k)
      BY <2>2
    <3>3. CASE k \in NonPreemptible
      <4>1. Count' = Count - 1
        BY <1>1, <2>2, <3>3
      <4> QED
        BY <1>1, <3>1, <3>2, <3>3, <4>1 DEF Masks
    <3>4. CASE k \notin NonPreemptible
      <4>1. Count' = Count
        BY <1>1, <2>2, <3>4
      <4> QED
        BY <1>1, <3>1, <3>2, <3>4, <4>1 DEF Masks
    <3> QED
      BY <3>3, <3>4
  <2>4. f = "interrupt" => guards'[c][f] \subseteq NonPreemptible /\ k \in NonPreemptible
    BY <2>2 DEF Nesting
  <2> QED
    BY <2>1, <2>2, <2>3, <2>4, QuietStepKeepsCoreInv
<1>8. CASE unlock(c, f)
  <2>1. Quiet
    BY <1>8 DEF unlock, bootVars, LockTypes, At, Goto, Return
  <2>2. /\ pc[c][f] = "unlock" /\ guards'[c][f] = guards[c][f]
        /\ IF f # "panic" /\ l \in NonPreemptible
              THEN pc'[c][f] = "post_lock" /\ target'[c][f] = l
              ELSE pc'[c][f] = "run"
    BY <1>8 DEF unlock, LockTypes, At, Goto, Return
  <2>3. f # "panic" => Masks(c, f)' = Masks(c, f)
    BY <2>2 DEF Masks, InFlight
  <2>4. f = "interrupt" => guards'[c][f] \subseteq NonPreemptible
    BY <2>2 DEF Nesting
  <2> QED
    BY <2>1, <2>2, <2>3, <2>4, QuietStepKeepsCoreInv
<1>9. ASSUME NEW k \in Locks, pre_lock_mask(c, f, k) PROVE Goal
  <2>1. /\ Executing(c, f) /\ f # "panic" /\ k \in NonPreemptible
        /\ pc[c][f] = "run" /\ pc'[c][f] = "check" /\ target'[c][f] = k
        /\ UNCHANGED <<running, initial_enabled, in_interrupt, in_exception, guards>>
        /\ ~interrupt_flag'[c] /\ interrupts_disable'[c] = interrupts_disable[c] + 1
        /\ CounterTypes'
    BY <1>9 DEF pre_lock_mask, disable_interrupts, CounterTypes, bootVars, LockTypes, At, Goto, Return
  <2>2. Masks(c, f)' = Masks(c, f) + 1
    <3>1. ~InFlight(c, f) /\ InFlight(c, f)'
      BY <2>1 DEF InFlight
    <3> QED
      BY <1>1, <2>1, <3>1 DEF Masks
  <2>3. interrupts_disable[c] \in Nat
    BY DEF CounterTypes
  <2>4. \A g \in Frames \ {f} : /\ pc'[c][g] = pc[c][g]
                               /\ target'[c][g] = target[c][g]
                               /\ guards'[c][g] = guards[c][g]
    BY <1>9, <2>1 DEF pre_lock_mask, LockTypes, At, Goto, Return
  <2>5. f = "interrupt" => guards'[c][f] \subseteq NonPreemptible
    BY <2>1 DEF Nesting
  <2>6. /\ interrupts_disable'[c] \in Nat /\ interrupts_disable'[c] # 0
        /\ Masks(c, f)' \in Nat
        /\ interrupts_disable'[c] - Masks(c, f)' = interrupts_disable[c] - Masks(c, f)
    BY <1>1, <2>1, <2>2, <2>3
  <2>7. Nesting(c)' /\ Accounting(c)'
    BY <1>1, <2>1, <2>3, <2>4, <2>5, <2>6, FrameStepKeepsCoreInv
  <2> QED
    BY <2>1, <2>7
<1>10. CASE post_lock(c, f)
  <2>1. /\ Executing(c, f) /\ pc[c][f] = "post_lock" /\ pc'[c][f] = "run"
        /\ UNCHANGED <<running, initial_enabled, in_interrupt, in_exception, guards>>
        /\ interrupts_disable'[c] = interrupts_disable[c] - 1
        /\ interrupt_flag'[c] <=> (interrupt_flag[c] \/ (interrupts_disable[c] = 1 /\ in_interrupt[c] = 0 /\ in_exception[c] = 0))
    BY <1>10 DEF post_lock, enable_interrupts, CounterTypes, bootVars, LockTypes, At, Goto, Return
  <2>2. l \in NonPreemptible /\ f # "panic" /\ running[c] = f
    BY <1>2, <2>1 DEF Nesting
  <2>3. Masks(c, f) = Masks(c, f)' + 1 /\ Masks(c, f)' \in Nat
    <3>1. InFlight(c, f) /\ ~InFlight(c, f)'
      BY <2>1, <2>2 DEF InFlight
    <3> QED
      BY <1>1, <2>1, <3>1 DEF Masks
  <2>4. /\ interrupts_disable[c] \in Nat /\ interrupts_disable[c] > 0
        /\ interrupt_flag[c] \in BOOLEAN
        /\ ~interrupt_flag[c]
        /\ in_exception[c] = 0 /\ in_interrupt[c] = IF f = "thread" THEN 0 ELSE 1
    BY <2>2, <2>3 DEF Accounting, BootMask, CounterTypes, Frames
  <2>5. CounterTypes'
    BY <1>10, <2>4 DEF post_lock, enable_interrupts, CounterTypes, bootVars, LockTypes, At, Goto, Return
  <2>6. \A g \in Frames \ {f} : /\ pc'[c][g] = pc[c][g]
                               /\ target'[c][g] = target[c][g]
                               /\ guards'[c][g] = guards[c][g]
    BY <1>10, <2>1 DEF post_lock, LockTypes, At, Goto, Return
  <2>7. interrupt_flag'[c] <=> f = "thread" /\ interrupts_disable'[c] = 0
    BY <2>1, <2>2, <2>4 DEF Frames
  <2>8. f = "interrupt" => guards'[c][f] \subseteq NonPreemptible
    BY <2>1 DEF Nesting
  <2>9. interrupts_disable'[c] - Masks(c, f)' = interrupts_disable[c] - Masks(c, f)
    BY <2>1, <2>3, <2>4
  <2>10. interrupts_disable'[c] \in Nat
    BY <2>1, <2>4
  <2>11. Nesting(c)' /\ Accounting(c)'
    BY <1>1, <2>1, <2>2, <2>3, <2>4, <2>6, <2>7, <2>8, <2>9, <2>10, FrameStepKeepsCoreInv
  <2> QED
    BY <2>5, <2>11
<1>11. CASE panic(c, f) \/ deadlock_detected(c, f) \/ \E k \in Locks : pre_lock_refused(c, f, k)
  <2>1. /\ begin_panic(c) /\ in_exception' \in [Cores -> Nat]
        /\ UNCHANGED <<frameVars, in_interrupt, initial_enabled>>
    BY <1>11 DEF panic, deadlock_detected, pre_lock_refused, CounterTypes
  <2> QED
    BY <2>1, PanicKeepsCoreInv
<1> QED
  BY <1>3, <1>4, <1>5, <1>6, <1>7, <1>8, <1>9, <1>10, <1>11 DEF LockStep

-----------------------------------------------------------------------------
(* lock_core is stored when a guard comes into being and cleared when it goes. *)
LEMMA LockStepKeepsLockCore ==
  ASSUME NEW c \in Cores, NEW f \in Frames, LockStep(c, f), MaskingInv
  PROVE  GuardsNameTheirCore' /\ SpinsWithoutGuard' /\ LockCoreNamesAGuard'
<1> DEFINE Goal == GuardsNameTheirCore' /\ SpinsWithoutGuard' /\ LockCoreNamesAGuard'
<1> USE DEF MaskingInv, OwnershipInv
(* Steps that keep lock_core and the guards and do not start to spin. *)
<1>1. ASSUME UNCHANGED <<lock_core, guards>>,
             \/ UNCHANGED <<pc, target>>
             \/ \E p \in Points \ {"spin"}, l \in Locks \cup {NoLock} : Goto(c, f, p, l)
      PROVE  Goal
  <2>1. SpinsWithoutGuard'
    <3>1. CASE UNCHANGED <<pc, target>>
      BY <1>1, <3>1 DEF SpinsWithoutGuard
    <3>2. ASSUME NEW p \in Points \ {"spin"}, NEW l \in Locks \cup {NoLock}, Goto(c, f, p, l)
          PROVE  SpinsWithoutGuard'
      BY <1>1, <3>2 DEF SpinsWithoutGuard, LockTypes, Goto
    <3> QED
      BY <1>1, <3>1, <3>2
  <2> QED
    BY <1>1, <2>1 DEF GuardsNameTheirCore, LockCoreNamesAGuard
<1>2. CASE check_deadlock(c, f)
  <2>1. target[c][f] \notin guards[c][f]
    BY <1>2 DEF check_deadlock, GuardsNameTheirCore
  <2>2. SpinsWithoutGuard'
    BY <1>2, <2>1 DEF check_deadlock, SpinsWithoutGuard, LockTypes, Goto
  <2> QED
    BY <1>2, <2>2 DEF check_deadlock, GuardsNameTheirCore, LockCoreNamesAGuard, lockVars
<1>3. CASE claim(c, f)
  <2> DEFINE l == target[c][f]
  <2>1. /\ l \in Locks /\ pc[c][f] = "claim"
        /\ lock_core' = [lock_core EXCEPT ![l] = c]
        /\ guards' = [guards EXCEPT ![c][f] = @ \cup {l}]
        /\ Goto(c, f, "run", NoLock)
    BY <1>3 DEF claim, TargetIsALock, At, Return
  <2>2. \A d \in Cores, g \in Frames : l \in guards[d][g] => d = c
    BY <2>1 DEF MutualExclusion, Owns
  <2>3. GuardsNameTheirCore'
    BY <2>1, <2>2 DEF GuardsNameTheirCore, LockTypes
  <2>4. SpinsWithoutGuard'
    BY <2>1 DEF SpinsWithoutGuard, LockTypes, Goto
  <2>5. LockCoreNamesAGuard'
    BY <2>1 DEF LockCoreNamesAGuard, LockTypes
  <2> QED
    BY <2>3, <2>4, <2>5
<1>4. ASSUME NEW l \in Locks, drop_guard(c, f, l) PROVE Goal
  <2>1. /\ l \in guards[c][f]
        /\ lock_core' = [lock_core EXCEPT ![l] = NoCore]
        /\ guards' = [guards EXCEPT ![c][f] = @ \ {l}]
        /\ Goto(c, f, "unlock", l)
    BY <1>4 DEF drop_guard
  <2>2. \A d \in Cores, g \in Frames : l \in guards[d][g] => d = c /\ g = f
    BY <2>1 DEF MutualExclusion, Owns
  <2>3. GuardsNameTheirCore'
    BY <2>1, <2>2 DEF GuardsNameTheirCore, LockTypes
  <2>4. SpinsWithoutGuard'
    BY <2>1 DEF SpinsWithoutGuard, LockTypes, Goto
  <2>5. LockCoreNamesAGuard'
    BY <2>1 DEF LockCoreNamesAGuard, LockTypes
  <2> QED
    BY <2>3, <2>4, <2>5
<1>5. CASE take(c, f) \/ unlock(c, f)
  <2>1. /\ target[c][f] \in Locks
        /\ UNCHANGED <<lock_core, guards>>
    BY <1>5 DEF take, unlock, TargetIsALock, At
  <2>2. \E p \in {"claim", "run", "post_lock"}, l \in Locks \cup {NoLock} : Goto(c, f, p, l)
    BY <1>5, <2>1 DEF take, unlock, Return
  <2> QED
    BY <1>1, <2>1, <2>2 DEF Points
<1>6. CASE \E l \in Locks : pre_lock_mask(c, f, l) \/ pre_lock_preemptible(c, f, l) \/ try_lock_unsafe(c, f, l)
  <2>1. /\ UNCHANGED <<lock_core, guards>>
        /\ \E p \in {"check", "claim"}, l \in Locks : Goto(c, f, p, l)
    BY <1>6 DEF pre_lock_mask, pre_lock_preemptible, try_lock_unsafe, lockVars
  <2> QED
    BY <1>1, <2>1 DEF Points
<1>7. CASE post_lock(c, f)
  BY <1>1, <1>7 DEF post_lock, Return, Points, lockVars
<1>8. CASE panic(c, f) \/ deadlock_detected(c, f) \/ \E l \in Locks : pre_lock_refused(c, f, l)
  BY <1>1, <1>8 DEF panic, deadlock_detected, pre_lock_refused, lockVars, frameVars
<1> QED
  BY <1>2, <1>3, <1>4, <1>5, <1>6, <1>7, <1>8 DEF LockStep

(* A step of one core leaves the view every other core has of itself alone. *)
LEMMA OthersKeepTheirView ==
  ASSUME NEW c \in Cores, LockTypes, CounterTypes,
         CoreStep(c) \/ \E f \in Frames : LockStep(c, f)
  PROVE  \A d \in Cores \ {c} : UNCHANGED View(d)
<1> USE DEF LockTypes, CounterTypes, View, lockVars, frameVars, coreVars, bootVars
<1>1. ASSUME CoreStep(c), NEW d \in Cores \ {c} PROVE UNCHANGED View(d)
  BY <1>1 DEF CoreStep, initial_enable, enter_interrupt, exit_interrupt, exception, halt,
     begin_panic, disable_interrupts, enable_interrupts
<1>2. ASSUME NEW f \in Frames, LockStep(c, f), NEW d \in Cores \ {c} PROVE UNCHANGED View(d)
  BY <1>2 DEF LockStep, pre_lock_mask, pre_lock_preemptible, pre_lock_refused,
     check_deadlock, deadlock_detected, take, try_lock_unsafe, claim, drop_guard, unlock,
     post_lock, panic, begin_panic, disable_interrupts, enable_interrupts, Goto, Return
<1> QED
  BY <1>1, <1>2

(* MaskingInv is inductive. *)
LEMMA StepKeepsMasking ==
  ASSUME MaskingInv, [Next]_vars
  PROVE  MaskingInv'
<1> USE DEF MaskingInv, OwnershipInv
<1>1. OwnershipInv'
  BY StepMovesOwnership
<1>2. ASSUME NEW c \in Cores, CounterTypes', Nesting(c)', Accounting(c)',
             CoreStep(c) \/ \E f \in Frames : LockStep(c, f)
      PROVE  CounterTypes' /\ CoreInv'
  BY <1>2, OthersKeepTheirView, SameView DEF CoreInv
<1>3. ASSUME NEW c \in Cores, CoreStep(c) PROVE MaskingInv'
  <2>1. CounterTypes' /\ CoreInv'
    BY <1>2, <1>3, CoreStepKeepsCoreInv DEF CoreInv
  <2>2. UNCHANGED <<lock_core, pc, target, guards>>
    BY <1>3, CoreStepKeepsLocks DEF lockVars, frameVars
  <2>3. GuardsNameTheirCore' /\ SpinsWithoutGuard' /\ LockCoreNamesAGuard'
    BY <2>2 DEF GuardsNameTheirCore, SpinsWithoutGuard, LockCoreNamesAGuard
  <2> QED
    BY <1>1, <2>1, <2>3
<1>4. ASSUME NEW c \in Cores, NEW f \in Frames, LockStep(c, f) PROVE MaskingInv'
  <2>1. CounterTypes' /\ CoreInv'
    BY <1>2, <1>4, LockStepKeepsCoreInv DEF CoreInv
  <2> QED
    BY <1>1, <1>4, <2>1, LockStepKeepsLockCore
<1>5. CASE UNCHANGED vars
  <2>1. UNCHANGED <<lock_core, pc, target, guards, running, interrupt_flag,
                    interrupts_disable, in_interrupt, in_exception, initial_enabled>>
    BY <1>5 DEF vars, lockVars, frameVars, coreVars, bootVars
  <2>2. CoreInv'
    BY <2>1, SameView DEF CoreInv, View
  <2>3. CounterTypes' /\ GuardsNameTheirCore' /\ SpinsWithoutGuard' /\ LockCoreNamesAGuard'
    BY <2>1 DEF CounterTypes, GuardsNameTheirCore, SpinsWithoutGuard, LockCoreNamesAGuard
  <2> QED
    BY <1>1, <2>2, <2>3
<1> QED
  BY <1>3, <1>4, <1>5 DEF Next

(* ... and so holds in every state of the system. *)
LEMMA MaskingInvariant == Spec => []MaskingInv
<1>1. MaskingInv /\ [Next]_vars => MaskingInv'
  BY StepKeepsMasking
<1> QED
  BY <1>1, InitMasking, PTL DEF Spec

-----------------------------------------------------------------------------
(* Every variable has its type; in particular no depth counter is decremented *)
(* below zero, the underflow DepthCounter::exit panics on. *)
THEOREM TypesHold == Spec => []TypeOK
<1>1. MaskingInv => TypeOK
  BY DEF MaskingInv, OwnershipInv, LockTypes, CounterTypes, TypeOK
<1> QED
  BY <1>1, MaskingInvariant, PTL

(* The deadlock assertion of pre_lock raises no false alarm. *)
THEOREM DeadlockAssertionIsRight == Spec => []LockCoreNamesAGuard
<1>1. MaskingInv => LockCoreNamesAGuard
  BY DEF MaskingInv
<1> QED
  BY <1>1, MaskingInvariant, PTL

(* ... and misses no deadlock of a core with itself: a frame that spins has  *)
(* no guard of the lock, a handler spins only on non-preemptible locks, and   *)
(* the frame below it is then inside none of those.                          *)
THEOREM NoCoreWaitsForItself == Spec => []NoSilentSelfDeadlock
<1>1. MaskingInv => NoSilentSelfDeadlock
  <2> SUFFICES ASSUME MaskingInv, NEW c \in Cores, NEW f \in Frames, NEW g \in Frames,
                      At(c, f, "spin"), Owns(c, g, target[c][f])
               PROVE  FALSE
    BY DEF NoSilentSelfDeadlock
  <2> DEFINE l == target[c][f]
  <2>1. Nesting(c) /\ running[c] = f /\ pc[c][f] = "spin" /\ f # "panic" /\ l \in Locks
    BY DEF MaskingInv, OwnershipInv, CoreInv, Nesting, At, Executing, TargetIsALock
  <2>2. g # f
    BY <2>1 DEF MaskingInv, SpinsWithoutGuard, Owns
  <2>3. f = "interrupt" /\ g = "thread"
    BY <2>1, <2>2 DEF Nesting, Idle, Owns, Frames
  <2>4. l \in NonPreemptible
    BY <2>1, <2>3 DEF Nesting
  <2>5. Masks(c, "thread") = 0
    BY <2>1, <2>3 DEF Nesting
  <2>6. Cardinality(guards[c]["thread"] \cap NonPreemptible) \in Nat
    <3>1. guards[c]["thread"] \in SUBSET Locks
      BY DEF MaskingInv, OwnershipInv, LockTypes, Frames
    <3> QED
      BY <3>1, MaskCount
  <2>7. ~InFlight(c, "thread") /\ Cardinality(guards[c]["thread"] \cap NonPreemptible) = 0
    BY <2>5, <2>6 DEF Masks
  <2>8. guards[c]["thread"] \cap NonPreemptible = {}
    <3>1. guards[c]["thread"] \in SUBSET Locks
      BY DEF MaskingInv, OwnershipInv, LockTypes, Frames
    <3> QED
      BY <2>7, <3>1, MaskCount
  <2> QED
    BY <2>3, <2>4, <2>7, <2>8 DEF Owns, InFlight
<1> QED
  BY <1>1, MaskingInvariant, PTL

(* While a frame masks anything its core takes no interrupt. *)
LEMMA MaskedFrame ==
  ASSUME MaskingInv, NEW c \in Cores, NEW f \in {"thread", "interrupt"},
         guards[c][f] \cap NonPreemptible # {} \/ InFlight(c, f)
  PROVE  ~interrupt_flag[c]
<1>1. Nesting(c) /\ Accounting(c) /\ LockTypes /\ f \in Frames
  BY DEF MaskingInv, OwnershipInv, CoreInv, Frames
<1>2. guards[c][f] \in SUBSET Locks
  BY <1>1 DEF LockTypes
<1>3. Masks(c, f) # 0 /\ Masks(c, f) \in Nat
  BY <1>2, MaskCount DEF Masks
<1>4. ASSUME running[c] = "thread" PROVE f = "thread"
  <2>1. Idle(c, "interrupt")
    BY <1>1, <1>4 DEF Nesting
  <2> QED
    BY <2>1 DEF Idle, InFlight
<1> QED
  BY <1>1, <1>3, <1>4 DEF Accounting, BootMask

(* A core takes no interrupt while it is busy with a non-preemptible lock. *)
THEOREM NonPreemptibleLocksMask == Spec => []NonPreemptibleMasks
<1>1. MaskingInv => NonPreemptibleMasks
  BY MaskedFrame DEF NonPreemptibleMasks, InFlight
<1> QED
  BY <1>1, MaskingInvariant, PTL

(* The assertion of CoreLocals::interrupts_enabled holds in every state of a *)
(* core that runs. *)
THEOREM InterruptFlagIsAccountedFor == Spec => []InterruptFlagAgrees
<1>1. MaskingInv => InterruptFlagAgrees
  <2> SUFFICES ASSUME MaskingInv, NEW c \in Cores, running[c] # "halted"
               PROVE  interrupt_flag[c] <=> /\ in_interrupt[c] = 0
                                            /\ in_exception[c] = 0
                                            /\ interrupts_disable[c] = 0
    BY DEF InterruptFlagAgrees
  <2>1. Accounting(c) /\ running[c] \in Frames /\ interrupts_disable[c] \in Nat
    BY DEF MaskingInv, OwnershipInv, CoreInv, LockTypes, CounterTypes
  <2> QED
    BY <2>1 DEF Accounting, Frames
<1> QED
  BY <1>1, MaskingInvariant, PTL

(* A core that panics or has halted never takes an interrupt again. *)
THEOREM StoppedCoresStayMaskedHolds == Spec => StoppedCoresStayMasked
<1>1. ASSUME MaskingInv, MaskingInv', [Next]_vars, NEW c \in Cores,
             running[c] \in {"panic", "halted"}
      PROVE  ~interrupt_flag'[c]
  <2>1. ASSUME NEW d \in Cores, CoreStep(d) \/ \E f \in Frames : LockStep(d, f)
        PROVE  running'[c] # "thread"
    <3>1. CASE d # c
      BY <1>1, <2>1, <3>1, OthersKeepTheirView DEF MaskingInv, OwnershipInv, View
    <3>2. CASE CoreStep(c)
      BY <1>1, <3>2 DEF CoreStep, MaskingInv, OwnershipInv, LockTypes, initial_enable,
         enter_interrupt, exit_interrupt, exception, halt, begin_panic, At, Executing
    <3>3. ASSUME NEW f \in Frames, LockStep(c, f) PROVE running'[c] # "thread"
      BY <1>1, <3>3 DEF LockStep, MaskingInv, OwnershipInv, LockTypes, begin_panic,
         pre_lock_mask, pre_lock_preemptible, pre_lock_refused, check_deadlock,
         deadlock_detected, take, try_lock_unsafe, claim, drop_guard, unlock, post_lock, panic
    <3> QED
      BY <2>1, <3>1, <3>2, <3>3
  <2>2. running'[c] # "thread"
    BY <1>1, <2>1 DEF Next, vars
  <2> QED
    BY <1>1, <2>2 DEF MaskingInv, CoreInv, Accounting
<1>2. MaskingInv /\ MaskingInv' /\ [Next]_vars =>
        [\A c \in Cores : running[c] \in {"panic", "halted"} => ~interrupt_flag'[c]]_vars
  BY <1>1
<1> QED
  BY <1>2, MaskingInvariant, PTL DEF Spec, StoppedCoresStayMasked
=============================================================================
