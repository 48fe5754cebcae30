----------------------------- MODULE KernelLock -----------------------------
(***************************************************************************)
(* The kernel's spin lock (libs/lock) together with the per-core state it  *)
(* drives: the interrupt-disable, interrupt and exception depth counters   *)
(* of CoreLocals (kernel/src/core_locals.rs), the processor's interrupt    *)
(* flag, entry to and return from the interrupt handlers                   *)
(* (kernel/src/interrupts.rs) and the part of the panic path that touches  *)
(* locks (kernel/src/panic.rs).                                            *)
(*                                                                         *)
(* A core runs one frame at a time: its thread, the interrupt handler      *)
(* above it, or the panic handler above both.  Each memory access another  *)
(* core or an interrupt handler can observe is a step of its own.  Steps   *)
(* on the counters of a core are merged with the cli or before the sti     *)
(* they go with: only code of the same core reads them, and while the flag *)
(* is clear nothing but a fault (which never returns) can come between.    *)
(***************************************************************************)
EXTENDS Integers, FiniteSets

CONSTANTS
  Cores,             \* processors running the kernel
  Locks,             \* all locks of the kernel
  NonPreemptible,    \* those built with Lock::new_non_preemptible
  NoCore,            \* the value !0 of lock_core
  NoLock,            \* target of a frame that has started no lock operation
  MaxGuards          \* bound: live guards on one frame

ASSUME LockAssumption ==
  /\ NonPreemptible \subseteq Locks
  /\ NoCore \notin Cores
  /\ NoLock \notin Locks
  /\ IsFiniteSet(Locks)
  /\ MaxGuards \in Nat \ {0}

VARIABLES
  locked,              \* Lock::locked
  lock_core,           \* Lock::lock_core
  running,             \* the frame the core executes, or "halted"
  pc,                  \* where in a lock operation each frame is
  target,              \* the lock of that operation
  guards,              \* locks whose LockGuard is alive on the frame
  interrupt_flag,      \* RFLAGS.IF
  interrupts_disable,  \* CoreLocals::interrupts_disable
  in_interrupt,        \* CoreLocals::in_interrupt
  in_exception,        \* CoreLocals::in_exception
  initial_enabled,     \* has the core called interrupts::initial_enable?
  panicking_core       \* IS_PANICKING, and which core set it

lockVars  == <<locked, lock_core>>
frameVars == <<pc, target, guards>>
coreVars  == <<interrupt_flag, interrupts_disable, in_interrupt, in_exception>>
bootVars  == <<initial_enabled, panicking_core>>
vars == <<lockVars, running, frameVars, coreVars, bootVars>>

Frames == {"thread", "interrupt", "panic"}

(* "run": outside any lock operation.  lock() goes through "check" (the    *)
(* deadlock assertion), "spin" and "claim" (CAS won, lock_core not yet     *)
(* stored); dropping a guard goes through "unlock" (lock_core cleared) and *)
(* "post_lock".                                                            *)
Points == {"run", "check", "spin", "claim", "unlock", "post_lock"}

Init ==
  /\ locked = [l \in Locks |-> FALSE]
  /\ lock_core = [l \in Locks |-> NoCore]
  /\ running = [c \in Cores |-> "thread"]
  /\ pc = [c \in Cores |-> [f \in Frames |-> "run"]]
  /\ target = [c \in Cores |-> [f \in Frames |-> NoLock]]
  /\ guards = [c \in Cores |-> [f \in Frames |-> {}]]
  /\ interrupt_flag = [c \in Cores |-> FALSE]
  /\ interrupts_disable = [c \in Cores |-> 1]
  /\ in_interrupt = [c \in Cores |-> 0]
  /\ in_exception = [c \in Cores |-> 0]
  /\ initial_enabled = [c \in Cores |-> FALSE]
  /\ panicking_core = NoCore

-----------------------------------------------------------------------------
(* CoreLocals::disable_interrupts and enable_interrupts: cli, then the      *)
(* depth goes up; the depth goes down and sti follows only when it reached  *)
(* zero outside every handler.                                             *)
disable_interrupts(c) ==
  /\ interrupt_flag' = [interrupt_flag EXCEPT ![c] = FALSE]
  /\ interrupts_disable' = [interrupts_disable EXCEPT ![c] = @ + 1]

enable_interrupts_in_handlers(c) ==          \* mutant: sti also in a handler
  /\ interrupts_disable' = [interrupts_disable EXCEPT ![c] = @ - 1]
  /\ interrupt_flag' = [interrupt_flag EXCEPT ![c] = @ \/ interrupts_disable[c] = 1]

enable_interrupts(c) ==
  /\ interrupts_disable' = [interrupts_disable EXCEPT ![c] = @ - 1]
  /\ interrupt_flag' = [interrupt_flag EXCEPT ![c] =
       @ \/ /\ interrupts_disable[c] = 1
            /\ in_interrupt[c] = 0
            /\ in_exception[c] = 0]

(* begin_panic once the core's APIC is there: the first core to set        *)
(* IS_PANICKING goes on to write the report, any other panic (also a       *)
(* second one on the same core) goes to halt.                              *)
begin_panic(c) ==
  /\ disable_interrupts(c)
  /\ running' = [running EXCEPT ![c] =
                   IF panicking_core = NoCore THEN "panic" ELSE "halted"]
  /\ panicking_core' = IF panicking_core = NoCore THEN c ELSE panicking_core

Executing(c, f) == running[c] = f /\ f \in Frames

At(c, f, p) == Executing(c, f) /\ pc[c][f] = p

(* The frame f goes on at p with its lock operation on l. *)
Goto(c, f, p, l) ==
  /\ pc' = [pc EXCEPT ![c][f] = p]
  /\ target' = [target EXCEPT ![c][f] = l]

Return(c, f) == Goto(c, f, "run", NoLock)

-----------------------------------------------------------------------------
(* Lock::lock, first half of pre_lock. *)
pre_lock_mask(c, f, l) ==
  /\ At(c, f, "run") /\ f # "panic"
  /\ l \in NonPreemptible
  /\ Cardinality(guards[c][f]) < MaxGuards
  /\ disable_interrupts(c)
  /\ Goto(c, f, "check", l)
  /\ UNCHANGED <<lockVars, running, guards, in_interrupt, in_exception, bootVars>>

pre_lock_unasserted(c, f, l) ==              \* mutant: no in_interrupt assertion
  /\ At(c, f, "run") /\ f # "panic"
  /\ l \in Locks \ NonPreemptible
  /\ Cardinality(guards[c][f]) < MaxGuards
  /\ Goto(c, f, "check", l)
  /\ UNCHANGED <<lockVars, running, guards, coreVars, bootVars>>

pre_lock_preemptible(c, f, l) ==
  /\ At(c, f, "run") /\ f # "panic"
  /\ l \in Locks \ NonPreemptible
  /\ in_interrupt[c] = 0
  /\ Cardinality(guards[c][f]) < MaxGuards
  /\ Goto(c, f, "check", l)
  /\ UNCHANGED <<lockVars, running, guards, coreVars, bootVars>>

(* "Tried to take preemptible lock in the interrupt handler." *)
pre_lock_refused(c, f, l) ==
  /\ At(c, f, "run") /\ f # "panic"
  /\ l \in Locks \ NonPreemptible
  /\ in_interrupt[c] > 0
  /\ begin_panic(c)
  /\ UNCHANGED <<lockVars, frameVars, in_interrupt, in_exception, initial_enabled>>

(* The deadlock assertion of pre_lock, passed and failed. *)
check_deadlock(c, f) ==
  /\ At(c, f, "check")
  /\ lock_core[target[c][f]] # c
  /\ Goto(c, f, "spin", target[c][f])
  /\ UNCHANGED <<lockVars, running, guards, coreVars, bootVars>>

deadlock_detected(c, f) ==
  /\ At(c, f, "check")
  /\ lock_core[target[c][f]] = c
  /\ begin_panic(c)
  /\ UNCHANGED <<lockVars, frameVars, in_interrupt, in_exception, initial_enabled>>

take_when_unnamed(c, f) ==                   \* mutant: tests lock_core, not locked
  /\ At(c, f, "spin")
  /\ lock_core[target[c][f]] = NoCore
  /\ locked' = [locked EXCEPT ![target[c][f]] = TRUE]
  /\ Goto(c, f, "claim", target[c][f])
  /\ UNCHANGED <<lock_core, running, guards, coreVars, bootVars>>

(* The compare_exchange_weak that succeeds; every failed one is a stutter. *)
take(c, f) ==
  /\ At(c, f, "spin")
  /\ ~locked[target[c][f]]
  /\ locked' = [locked EXCEPT ![target[c][f]] = TRUE]
  /\ Goto(c, f, "claim", target[c][f])
  /\ UNCHANGED <<lock_core, running, guards, coreVars, bootVars>>

(* Lock::try_lock_unsafe, only called on the panic path; failing changes    *)
(* nothing and is tried again.                                             *)
try_lock_unsafe(c, f, l) ==
  /\ At(c, f, "run") /\ f = "panic"
  /\ ~locked[l]
  /\ Cardinality(guards[c][f]) < MaxGuards
  /\ locked' = [locked EXCEPT ![l] = TRUE]
  /\ Goto(c, f, "claim", l)
  /\ UNCHANGED <<lock_core, running, guards, coreVars, bootVars>>

(* lock_core.store, after which the LockGuard exists. *)
claim(c, f) ==
  /\ At(c, f, "claim")
  /\ lock_core' = [lock_core EXCEPT ![target[c][f]] = c]
  /\ guards' = [guards EXCEPT ![c][f] = @ \cup {target[c][f]}]
  /\ Return(c, f)
  /\ UNCHANGED <<locked, running, coreVars, bootVars>>

drop_keeping_lock_core(c, f, l) ==           \* mutant: lock_core is not cleared
  /\ At(c, f, "run")
  /\ l \in guards[c][f]
  /\ guards' = [guards EXCEPT ![c][f] = @ \ {l}]
  /\ Goto(c, f, "unlock", l)
  /\ UNCHANGED <<lockVars, running, coreVars, bootVars>>

(* LockGuard::drop: lock_core, then locked, then post_lock for the guards  *)
(* that lock() returned. *)
drop_guard(c, f, l) ==
  /\ At(c, f, "run")
  /\ l \in guards[c][f]
  /\ lock_core' = [lock_core EXCEPT ![l] = NoCore]
  /\ guards' = [guards EXCEPT ![c][f] = @ \ {l}]
  /\ Goto(c, f, "unlock", l)
  /\ UNCHANGED <<locked, running, coreVars, bootVars>>

unlock_then_always_post(c, f) ==             \* mutant: non_preemptible not tested
  /\ At(c, f, "unlock")
  /\ locked' = [locked EXCEPT ![target[c][f]] = FALSE]
  /\ Goto(c, f, "post_lock", target[c][f])
  /\ UNCHANGED <<lock_core, running, guards, coreVars, bootVars>>

unlock_ignoring_unsafe(c, f) ==              \* mutant: unsafe_locked not tested
  /\ At(c, f, "unlock")
  /\ locked' = [locked EXCEPT ![target[c][f]] = FALSE]
  /\ IF target[c][f] \in NonPreemptible
       THEN Goto(c, f, "post_lock", target[c][f])
       ELSE Return(c, f)
  /\ UNCHANGED <<lock_core, running, guards, coreVars, bootVars>>

unlock(c, f) ==
  /\ At(c, f, "unlock")
  /\ locked' = [locked EXCEPT ![target[c][f]] = FALSE]
  /\ IF f # "panic" /\ target[c][f] \in NonPreemptible
       THEN Goto(c, f, "post_lock", target[c][f])
       ELSE Return(c, f)
  /\ UNCHANGED <<lock_core, running, guards, coreVars, bootVars>>

post_lock(c, f) ==
  /\ At(c, f, "post_lock")
  /\ enable_interrupts(c)
  /\ Return(c, f)
  /\ UNCHANGED <<lockVars, running, guards, in_interrupt, in_exception, bootVars>>

-----------------------------------------------------------------------------
(* interrupts::initial_enable, called once by _start with no guard alive.  *)
initial_enable(c) ==
  /\ At(c, "thread", "run")
  /\ guards[c]["thread"] = {}
  /\ ~initial_enabled[c]
  /\ initial_enabled' = [initial_enabled EXCEPT ![c] = TRUE]
  /\ enable_interrupts(c)
  /\ UNCHANGED <<lockVars, running, frameVars, in_interrupt, in_exception, panicking_core>>

(* An external interrupt: the interrupt gate clears IF and handle_interrupt *)
(* counts it; on return the count goes down and iret restores IF.          *)
enter_interrupt(c) ==
  /\ running[c] = "thread"
  /\ interrupt_flag[c]
  /\ running' = [running EXCEPT ![c] = "interrupt"]
  /\ interrupt_flag' = [interrupt_flag EXCEPT ![c] = FALSE]
  /\ in_interrupt' = [in_interrupt EXCEPT ![c] = @ + 1]
  /\ UNCHANGED <<lockVars, frameVars, interrupts_disable, in_exception, bootVars>>

exit_interrupt(c) ==
  /\ At(c, "interrupt", "run")
  /\ guards[c]["interrupt"] = {}
  /\ running' = [running EXCEPT ![c] = "thread"]
  /\ in_interrupt' = [in_interrupt EXCEPT ![c] = @ - 1]
  /\ interrupt_flag' = [interrupt_flag EXCEPT ![c] = TRUE]
  /\ UNCHANGED <<lockVars, frameVars, interrupts_disable, in_exception, bootVars>>

(* A processor exception, at any instruction: no handler handles one, so   *)
(* handle_interrupt counts it and panics. *)
exception(c) ==
  /\ running[c] \in Frames
  /\ in_exception' = [in_exception EXCEPT ![c] = @ + 1]
  /\ begin_panic(c)
  /\ UNCHANGED <<lockVars, frameVars, in_interrupt, initial_enabled>>

(* A panic! in kernel code outside a lock operation. *)
panic(c, f) ==
  /\ At(c, f, "run")
  /\ begin_panic(c)
  /\ UNCHANGED <<lockVars, frameVars, in_interrupt, in_exception, initial_enabled>>

(* panic::halt: on the NMI the panicking core sends, at any instruction of  *)
(* another core, or at the end of the panic handler. *)
halt(c) ==
  /\ running[c] \in Frames
  /\ panicking_core # NoCore
  /\ c = panicking_core => At(c, "panic", "run") /\ guards[c]["panic"] = {}
  /\ running' = [running EXCEPT ![c] = "halted"]
  /\ interrupt_flag' = [interrupt_flag EXCEPT ![c] = FALSE]
  /\ UNCHANGED <<lockVars, frameVars, interrupts_disable, in_interrupt, in_exception, bootVars>>

-----------------------------------------------------------------------------
LockStep(c, f) ==
  \/ \E l \in Locks : \/ pre_lock_mask(c, f, l)
                      \/ pre_lock_preemptible(c, f, l)
                      \/ pre_lock_refused(c, f, l)
                      \/ try_lock_unsafe(c, f, l)
                      \/ drop_guard(c, f, l)
  \/ check_deadlock(c, f)
  \/ deadlock_detected(c, f)
  \/ take(c, f)
  \/ claim(c, f)
  \/ unlock(c, f)
  \/ post_lock(c, f)
  \/ panic(c, f)

CoreStep(c) ==
  \/ initial_enable(c)
  \/ enter_interrupt(c)
  \/ exit_interrupt(c)
  \/ exception(c)
  \/ halt(c)

Next == \E c \in Cores : CoreStep(c) \/ \E f \in Frames : LockStep(c, f)

Spec == Init /\ [][Next]_vars

-----------------------------------------------------------------------------
(* A frame owns a lock from its successful compare_exchange until the store *)
(* that clears locked. *)
Owns(c, f, l) ==
  \/ l \in guards[c][f]
  \/ pc[c][f] \in {"claim", "unlock"} /\ target[c][f] = l

TypeOK ==
  /\ locked \in [Locks -> BOOLEAN]
  /\ lock_core \in [Locks -> Cores \cup {NoCore}]
  /\ running \in [Cores -> Frames \cup {"halted"}]
  /\ pc \in [Cores -> [Frames -> Points]]
  /\ target \in [Cores -> [Frames -> Locks \cup {NoLock}]]
  /\ guards \in [Cores -> [Frames -> SUBSET Locks]]
  /\ interrupt_flag \in [Cores -> BOOLEAN]
  /\ interrupts_disable \in [Cores -> Nat]
  /\ in_interrupt \in [Cores -> Nat]
  /\ in_exception \in [Cores -> Nat]
  /\ initial_enabled \in [Cores -> BOOLEAN]
  /\ panicking_core \in Cores \cup {NoCore}

(* No two frames, of one core or of two, own the same lock: the data under  *)
(* a Lock is reached by one LockGuard at a time, whatever interrupts,       *)
(* faults and panics come between the steps of lock() and drop().           *)
MutualExclusion ==
  \A l \in Locks, c, d \in Cores, f, g \in Frames :
    Owns(c, f, l) /\ Owns(d, g, l) => c = d /\ f = g

(* The deadlock assertion of pre_lock raises no false alarm: lock_core      *)
(* names a core only while a guard of that very core is alive.              *)
LockCoreNamesAGuard ==
  \A l \in Locks : lock_core[l] # NoCore =>
    \E f \in Frames : l \in guards[lock_core[l]][f]

(* ... and misses none: a core never spins on a lock that it owns itself,   *)
(* in the same frame or in the one it interrupted, where nobody could ever  *)
(* release it.                                                             *)
NoSilentSelfDeadlock ==
  \A c \in Cores, f, g \in Frames :
    At(c, f, "spin") => ~Owns(c, g, target[c][f])

(* While a thread or a handler holds, waits for or gives back a             *)
(* non-preemptible lock its core takes no interrupt.                        *)
NonPreemptibleMasks ==
  \A c \in Cores, f \in {"thread", "interrupt"} :
    \/ guards[c][f] \cap NonPreemptible # {}
    \/ pc[c][f] # "run" /\ target[c][f] \in NonPreemptible
    => ~interrupt_flag[c]

(* The assertion of CoreLocals::interrupts_enabled, in every state of a     *)
(* core that has not halted: the flag is set exactly when the three         *)
(* counters are zero. *)
InterruptFlagAgrees ==
  \A c \in Cores : running[c] # "halted" =>
    (interrupt_flag[c] <=> /\ in_interrupt[c] = 0
                           /\ in_exception[c] = 0
                           /\ interrupts_disable[c] = 0)

(* A core that panics or has halted never takes an interrupt again, though  *)
(* its panic handler goes on taking and dropping guards.                    *)
StoppedCoresStayMasked ==
  [][\A c \in Cores : running[c] \in {"panic", "halted"} => ~interrupt_flag'[c]]_vars

(* The lock implements the abstract mutex. *)
LockOwners == [l \in Locks |-> {o \in Cores \X Frames : Owns(o[1], o[2], l)}]

Abstract == INSTANCE Mutex WITH Owners <- Cores \X Frames, owners <- LockOwners

ImplementsMutex == Abstract!Spec
=============================================================================
