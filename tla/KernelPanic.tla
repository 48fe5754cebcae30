---------------------------- MODULE KernelPanic ----------------------------
(***************************************************************************)
(* The kernel's panic path (kernel/src/panic.rs) on top of the boot        *)
(* process: any core may panic at any point of its kernel code, also       *)
(* several at once and again while it writes its report.  A panic halts    *)
(* the other cores by NMI (kernel/src/interrupts.rs:handle_interrupt), a   *)
(* core that is still being launched halts itself when it registers, and   *)
(* one core at a time writes.                                              *)
(*                                                                         *)
(* The serial port and framebuffer locks the writer takes by force, and    *)
(* the depth counters, are the business of KernelLock.                     *)
(***************************************************************************)
EXTENDS BootProcess

CONSTANT MaxPanics      \* bound: panics of all cores together

ASSUME PanicAssumption == MaxPanics \in Nat \ {0}

CORE_UNLOCKED == -1
CORE_UNKNOWN  == -2

VARIABLES
  panic_pc,                \* where in panic() a core is
  panics,                  \* how often cores have panicked
  panicked_with,           \* what the core had when it first did
  nmi_target,              \* the APIC id the loop of begin_panic is at
  nmi_pending,             \* an NMI was sent to the core and not yet handled
  EMERGENCY_WRITING_CORE

panicVars == <<panic_pc, panics, panicked_with, nmi_target, nmi_pending,
               EMERGENCY_WRITING_CORE>>
panicSystem == <<vars, panicVars>>

NotPanicked == "none"

PanicInit ==
  /\ Init
  /\ panic_pc = [c \in Cores |-> NotPanicked]
  /\ panics = 0
  /\ panicked_with = [c \in Cores |-> NotPanicked]
  /\ nmi_target = [c \in Cores |-> NoCore]
  /\ nmi_pending = [c \in Cores |-> FALSE]
  /\ EMERGENCY_WRITING_CORE = CORE_UNLOCKED

-----------------------------------------------------------------------------
otherThanBoot == <<countVars, TOTAL_CORES, CORES_ONLINE, READY_CORES, nmis_enabled,
                   localVars, blockVars, memVars, tlbVars>>

has_core_locals(c) == panicked_with[c] # "nothing"

PanicAt(c, p) == pc[c] = "panic" /\ panic_pc[c] = p

PanicGoto(c, to) == panic_pc' = [panic_pc EXCEPT ![c] = to]

(* An assertion fails, or an exception nobody handles: the panic handler     *)
(* starts, on top of what the core was doing.  A failed assertion of the     *)
(* boot path is such a panic.                                               *)
KernelPoints == Points \ (BootloaderPoints \cup {"off", "halted"})

panic(c) ==
  /\ panics < MaxPanics
  /\ \/ pc[c] \in KernelPoints
     \/ PanicAt(c, "writing")
  /\ pc' = [pc EXCEPT ![c] = "panic"]
  /\ PanicGoto(c, "begin")
  /\ panics' = panics + 1
  /\ panicked_with' = [panicked_with EXCEPT ![c] =
       IF @ # NotPanicked THEN @
       ELSE IF pc[c] \in EarlyPoints THEN "nothing"
       ELSE IF apic_initialized[c] THEN "locals_and_apic" ELSE "locals"]
  /\ UNCHANGED <<core_states, is_panicking, nmi_target, nmi_pending,
                 EMERGENCY_WRITING_CORE, otherThanBoot>>

(* begin_panic up to its loop: without core locals or without an APIC the    *)
(* core goes on alone, otherwise the first core to set IS_PANICKING goes on  *)
(* and every later panic is sent to halt.                                   *)
begin_panic(c) ==
  /\ PanicAt(c, "begin")
  /\ PanicGoto(c, IF ~(has_core_locals(c) /\ apic_initialized[c]) THEN "acquire"
                  ELSE IF is_panicking THEN "halt" ELSE "scan")
  /\ is_panicking' = (is_panicking \/ (has_core_locals(c) /\ apic_initialized[c]))
  /\ UNCHANGED <<pc, core_states, panics, panicked_with, nmi_target, nmi_pending,
                 EMERGENCY_WRITING_CORE, otherThanBoot>>

(* The loop over the APIC ids, in ascending order.  Only online cores are    *)
(* sent an NMI; the wait for the core to halt may time out; then the core    *)
(* counts as halted.                                                        *)
Remaining(c) == {a \in Cores \ {c} : a > nmi_target[c]}

skip_core(c) ==
  /\ PanicAt(c, "scan")
  /\ Remaining(c) # {}
  /\ core_states[Min(Remaining(c))] # "Online"
  /\ nmi_target' = [nmi_target EXCEPT ![c] = Min(Remaining(c))]
  /\ UNCHANGED <<pc, panic_pc, core_states, is_panicking, panics, panicked_with,
                 nmi_pending, EMERGENCY_WRITING_CORE, otherThanBoot>>

send_nmi_to_launched(c) ==      \* mutant: also to cores that are on their way
  /\ PanicAt(c, "scan")
  /\ Remaining(c) # {}
  /\ core_states[Min(Remaining(c))] \in {"Online", "Launched"}
  /\ nmi_target' = [nmi_target EXCEPT ![c] = Min(Remaining(c))]
  /\ nmi_pending' = [nmi_pending EXCEPT ![Min(Remaining(c))] = TRUE]
  /\ PanicGoto(c, "nmi_wait")
  /\ UNCHANGED <<pc, core_states, is_panicking, panics, panicked_with,
                 EMERGENCY_WRITING_CORE, otherThanBoot>>

send_nmi(c) ==
  /\ PanicAt(c, "scan")
  /\ Remaining(c) # {}
  /\ core_states[Min(Remaining(c))] = "Online"
  /\ nmi_target' = [nmi_target EXCEPT ![c] = Min(Remaining(c))]
  /\ nmi_pending' = [nmi_pending EXCEPT ![Min(Remaining(c))] = TRUE]
  /\ PanicGoto(c, "nmi_wait")
  /\ UNCHANGED <<pc, core_states, is_panicking, panics, panicked_with,
                 EMERGENCY_WRITING_CORE, otherThanBoot>>

(* Halted within 200 ms or not: set_core_state follows in both cases. *)
stop_waiting(c) ==
  /\ PanicAt(c, "nmi_wait")
  /\ core_states' = [core_states EXCEPT ![nmi_target[c]] = "Halted"]
  /\ PanicGoto(c, "scan")
  /\ UNCHANGED <<pc, is_panicking, panics, panicked_with, nmi_target, nmi_pending,
                 EMERGENCY_WRITING_CORE, otherThanBoot>>

finish_scan(c) ==
  /\ PanicAt(c, "scan")
  /\ Remaining(c) = {}
  /\ PanicGoto(c, "acquire")
  /\ UNCHANGED <<pc, core_states, is_panicking, panics, panicked_with, nmi_target,
                 nmi_pending, EMERGENCY_WRITING_CORE, otherThanBoot>>

-----------------------------------------------------------------------------
(* EmergencyWriter::new and Drop.                                           *)
emergency_id(c) ==
  IF ~has_core_locals(c) THEN CORE_UNKNOWN
  ELSE IF apic_initialized[c] THEN c
  ELSE core_id[c]

acquire_writer_of_offline(c) ==      \* mutant: any core that is not online loses it
  /\ PanicAt(c, "acquire")
  /\ \/ EMERGENCY_WRITING_CORE \in {CORE_UNLOCKED, emergency_id(c)}
     \/ /\ EMERGENCY_WRITING_CORE \in Cores
        /\ core_states[EMERGENCY_WRITING_CORE] # "Online"
  /\ EMERGENCY_WRITING_CORE' = emergency_id(c)
  /\ PanicGoto(c, "writing")
  /\ UNCHANGED <<pc, core_states, is_panicking, panics, panicked_with, nmi_target,
                 nmi_pending, otherThanBoot>>

(* One round of the loop that ends it: the writer is free, is this core's    *)
(* already (a nested panic), or belongs to a core that has halted.           *)
acquire_writer(c) ==
  /\ PanicAt(c, "acquire")
  /\ \/ EMERGENCY_WRITING_CORE \in {CORE_UNLOCKED, emergency_id(c)}
     \/ /\ EMERGENCY_WRITING_CORE \in Cores
        /\ core_states[EMERGENCY_WRITING_CORE] = "Halted"
  /\ EMERGENCY_WRITING_CORE' = emergency_id(c)
  /\ PanicGoto(c, "writing")
  /\ UNCHANGED <<pc, core_states, is_panicking, panics, panicked_with, nmi_target,
                 nmi_pending, otherThanBoot>>

drop_nothing(c) ==      \* mutant: EmergencyWriter without its Drop
  /\ PanicAt(c, "writing")
  /\ UNCHANGED EMERGENCY_WRITING_CORE
  /\ PanicGoto(c, "halt")
  /\ UNCHANGED <<pc, core_states, is_panicking, panics, panicked_with, nmi_target,
                 nmi_pending, otherThanBoot>>

(* The report is complete: the writer is dropped. *)
drop_writer(c) ==
  /\ PanicAt(c, "writing")
  /\ EMERGENCY_WRITING_CORE' = CORE_UNLOCKED
  /\ PanicGoto(c, "halt")
  /\ UNCHANGED <<pc, core_states, is_panicking, panics, panicked_with, nmi_target,
                 nmi_pending, otherThanBoot>>

(* panic::halt: the APIC id is known once the APIC is initialised. *)
halt(c) ==
  /\ pc' = [pc EXCEPT ![c] = "halted"]
  /\ core_states' = [core_states EXCEPT ![c] = IF apic_initialized[c] THEN "Halted" ELSE @]
  /\ UNCHANGED <<panic_pc, is_panicking, panics, panicked_with, nmi_target,
                 EMERGENCY_WRITING_CORE, otherThanBoot>>

halt_after_panic(c) == PanicAt(c, "halt") /\ halt(c) /\ UNCHANGED nmi_pending

(* The NMI arrives; without an IDT the processor would triple fault. *)
handle_nmi(c) ==
  /\ nmi_pending[c] /\ pc[c] # "halted"
  /\ is_panicking /\ idt_loaded[c]
  /\ nmi_pending' = [nmi_pending EXCEPT ![c] = FALSE]
  /\ halt(c)

PanicStep(c) ==
  \/ begin_panic(c) \/ skip_core(c) \/ send_nmi(c) \/ stop_waiting(c) \/ finish_scan(c)
  \/ acquire_writer(c) \/ drop_writer(c) \/ halt_after_panic(c)

BootStep(c) == CoreStep(c) /\ UNCHANGED panicVars

(* A core that waits for ever in hlt stays where it is. *)
halted(c) == pc[c] = "halted" /\ UNCHANGED panicSystem

PanicNext ==
  \E c \in Cores : BootStep(c) \/ panic(c) \/ PanicStep(c) \/ handle_nmi(c) \/ halted(c)

(* Cores keep executing and NMIs are delivered; nobody has to panic. *)
PanicSpec ==
  /\ PanicInit /\ [][PanicNext]_panicSystem
  /\ \A c \in Cores : /\ WF_panicSystem(BootStep(c) \/ PanicStep(c))
                      /\ WF_panicSystem(handle_nmi(c))

-----------------------------------------------------------------------------
PanicPoints == {NotPanicked, "begin", "scan", "nmi_wait", "acquire", "writing", "halt"}

(* The boot's variables keep their ranges (a core that panics leaves the     *)
(* boot), the panic's have theirs, and no core sends an NMI to itself.       *)
PanicTypeOK ==
  /\ pc \in [Cores -> Points \cup {"panic"}]
  /\ core_states \in [Cores -> CoreStates]
  /\ panic_pc \in [Cores -> PanicPoints]
  /\ panics \in 0..MaxPanics
  /\ panicked_with \in [Cores -> {NotPanicked, "nothing", "locals", "locals_and_apic"}]
  /\ \A c \in Cores : nmi_target[c] \in (Cores \ {c}) \cup {NoCore}
  /\ nmi_pending \in [Cores -> BOOLEAN]
  /\ EMERGENCY_WRITING_CORE \in Nat \cup {CORE_UNLOCKED, CORE_UNKNOWN}

(* "Acquire critical section so there can be only one emergency writer at a  *)
(* time" (EmergencyWriter::new): no two cores are between the acquisition of *)
(* the writer and its drop, whatever forced, stolen or nested acquisitions.  *)
OneEmergencyWriter ==
  \A c, d \in Cores : PanicAt(c, "writing") /\ PanicAt(d, "writing") => c = d

(* An NMI is only ever sent to a core that can handle it: with the IDT of    *)
(* _start still zeroed it would reset the machine and lose the report; and   *)
(* never to the sender itself, which is part of the types.                   *)
NmiFindsHandler ==
  PanicTypeOK /\ \A c \in Cores : nmi_pending[c] => idt_loaded[c]

(* "We have panicked very early and cannot NMI other cores. That's fine, all *)
(* of them should be waiting for us" (begin_panic): while a core that        *)
(* panicked before it had an APIC writes and halts, no other core gets       *)
(* beyond the rendezvous, and none is in the bootloader or the kernel's      *)
(* start-up code.                                                           *)
EarlyPanicFindsOthersWaiting ==
  \A c \in Cores : panicked_with[c] \in {"nothing", "locals"} =>
    \A d \in Cores \ {c} :
      pc[d] \in {"off", "launch_wait", "panic", "halted"} \cup RendezvousPoints

(* "On kernel panic NMI is sent to all cores on the system to halt            *)
(* execution" (handle_interrupt): once a core has set IS_PANICKING every core *)
(* that runs stops for good, also the one that was being launched meanwhile   *)
(* and missed the NMI, and no further core is started.                        *)
EveryCoreHalts ==
  is_panicking ~> [](\A c \in Cores : pc[c] \in {"off", "halted"})

(* A panicking core does not wait for ever for the emergency writer: not for  *)
(* a core that halted while it had it, and not for its own earlier panic.     *)
WriterIsNeverStuck ==
  \A c \in Cores : PanicAt(c, "acquire") ~> (PanicAt(c, "writing") \/ pc[c] = "halted")
=============================================================================
