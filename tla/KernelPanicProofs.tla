-------------------------- MODULE KernelPanicProofs --------------------------
(***************************************************************************)
(* Proofs about KernelPanic for any set of cores and any number of panics: *)
(* no NMI reaches a core that cannot handle it, a core that panics before  *)
(* it has an APIC finds the others waiting, and, when the APIC ids are     *)
(* those that core ids count up to, there is one emergency writer at a     *)
(* time.                                                                   *)
(***************************************************************************)
EXTENDS KernelPanic, BootProcessProofs

(* Points of the kernel at which a core has its APIC, those before it is    *)
(* counted, and those a core does not leave by itself.                      *)
UpPoints == {"processors", "notify"} \cup LaunchPoints \cup OnlinePoints
UncountedPoints == {"processors", "notify", "check_panicking", "count_online"} \cup LaunchPoints
Stopped == {"panic", "halted"}

PanicTypes ==
  /\ PanicTypeOK
  /\ apic_initialized \in [Cores -> BOOLEAN] /\ idt_loaded \in [Cores -> BOOLEAN]
  /\ is_panicking \in BOOLEAN /\ CORES_ONLINE \in Nat /\ nmi_target \in [Cores -> Int]

(* Only the BSP is where core id 0 leads, and nobody waits for a lock that is its own. *)
Where == \A c \in Cores : pc[c] # "deadlock" /\ (pc[c] \in BspPoints => c = BSP)

(* What a core has by then: an APIC, an IDT, and a state that says so. *)
Started ==
  \A c \in Cores :
    /\ pc[c] \in {"off"} \cup StartPoints => ~apic_initialized[c]
    /\ pc[c] \in UpPoints \cup {"assert_failed"} => apic_initialized[c]
    /\ pc[c] = "apic" \/ apic_initialized[c] => idt_loaded[c]
    /\ core_states[c] \in {"Online", "Halted"} => apic_initialized[c]
    /\ nmi_pending[c] => apic_initialized[c]
    /\ PanicAt(c, "nmi_wait") => nmi_target[c] \in Cores /\ core_states[nmi_target[c]] \in {"Online", "Halted"}

(* The BSP launches one AP after the other; one that never arrives holds it up for ever. *)
Launching ==
  /\ ~apic_initialized[BSP] => \A a \in APs : core_states[a] = "None"
  /\ pc[BSP] = "ipi" => \E a \in APs : core_states[a] = "Launched" /\ pc[a] = "off"
  /\ \A a \in APs :
       /\ core_states[a] = "None" => pc[a] = "off" /\ \A b \in APs : core_states[b] # "None" => b < a
       /\ core_states[a] = "Launched" =>
            /\ pc[BSP] \in {"ipi", "launch_wait"} \cup Stopped
            /\ pc[BSP] = "launch_wait" => pc[a] # "off"
            /\ \A b \in APs \ {a} : core_states[b] # "None" => b < a /\ core_states[b] # "Launched"
       /\ pc[a] \in StartPoints \cup {"notify"} => core_states[a] = "Launched"
       /\ pc[a] # "off" /\ ~apic_initialized[a] => core_states[a] = "Launched"

(* No more cores are counted than have come to the rendezvous. *)
Counted == {c \in Cores : apic_initialized[c] /\ pc[c] \notin UncountedPoints}

AllCame(c) == pc[c] \in PassedOnline \/ (c \in APs /\ pc[c] = "assert_failed")

Counts ==
  /\ pc[BSP] \in UpPoints \ {"processors"} => TOTAL_CORES = Cardinality(Cores)
  /\ \A a \in APs : core_states[a] # "None" => TOTAL_CORES = Cardinality(Cores)
  /\ CORES_ONLINE <= Cardinality(Counted)
  /\ \A c \in Cores : AllCame(c) => \A d \in Cores : apic_initialized[d]

(* The page table lock of a core that died with it is not asked for again. *)
LockLost ==
  \/ page_table_lock = NoOne
  \/ /\ page_table_lock.core \in Cores
     /\ pc[page_table_lock.core] \in MapPoints \cup Stopped
     /\ \/ ~apic_initialized[page_table_lock.core]
        \/ page_table_lock.core = BSP /\ \A d \in Cores : apic_initialized[d]

CoreIds ==
  /\ core_id \in [Cores -> Int] /\ NEXT_FREE_CORE_ID \in Nat
  /\ IF core_id[BSP] = NoCore THEN NEXT_FREE_CORE_ID = 0 ELSE NEXT_FREE_CORE_ID > 0
  /\ \A c \in Cores :
       /\ pc[c] \in NoIdPoints => core_id[c] = NoCore
       /\ pc[c] \notin NoIdPoints \cup Stopped => core_id[c] # NoCore
       /\ apic_initialized[c] => core_id[c] # NoCore
       /\ core_id[c] # NoCore => core_id[c] \in Nat /\ (core_id[c] = 0 <=> c = BSP)
       /\ panicked_with[c] \in {"locals", "locals_and_apic"} => core_id[c] # NoCore

(* The core that set IS_PANICKING goes on to write, every later one halts. *)
Wins(c) == pc[c] = "panic" /\ apic_initialized[c] /\ panic_pc[c] \in {"scan", "nmi_wait", "acquire", "writing"}

Reports ==
  /\ \A c \in Cores :
       /\ pc[c] = "panic" => panicked_with[c] # NotPanicked
       /\ panicked_with[c] \in {"nothing", "locals"} => ~apic_initialized[c] /\ pc[c] \in Stopped
       /\ pc[c] = "panic" /\ panic_pc[c] \in {"scan", "nmi_wait"} => apic_initialized[c]
       /\ Wins(c) => is_panicking /\ core_states[c] # "Halted"
       /\ PanicAt(c, "halt") /\ apic_initialized[c] => is_panicking
       /\ core_states[c] = "Halted" => is_panicking
  /\ \A c, d \in Cores : Wins(c) /\ Wins(d) => c = d

PanicInv == PanicTypes /\ Where /\ Started /\ Launching /\ Counts /\ LockLost /\ CoreIds /\ Reports

(* With APIC ids 0, 1, ... core ids are APIC ids, and a writer's id is its own. *)
ConsecutiveIds == BSP = 0 /\ \A c \in Cores : 0 .. c \subseteq Cores

SameIdsAsApics ==
  \A c \in Cores : /\ core_id[c] \in {NoCore, c}
                   /\ core_id[c] # NoCore <=> c < NEXT_FREE_CORE_ID

WriterIsOne ==
  /\ OneEmergencyWriter
  /\ \A c \in Cores : PanicAt(c, "writing") => EMERGENCY_WRITING_CORE = emergency_id(c)

ConsecutiveInv == PanicInv /\ SameIdsAsApics /\ WriterIsOne

-----------------------------------------------------------------------------
(* The steps, as far as the invariant is concerned. *)
Quiet(c, to) ==
  /\ pc' = [pc EXCEPT ![c] = to]
  /\ UNCHANGED <<core_states, apic_initialized, idt_loaded, core_id, NEXT_FREE_CORE_ID, TOTAL_CORES, CORES_ONLINE,
                 is_panicking>>
  /\ \/ page_table_lock' = page_table_lock /\ pc[c] \notin MapPoints
     \/ page_table_lock' = NoOne
     \/ page_table_lock'.core = c /\ to \in MapPoints

EarlyMove(c) ==
  \E to \in StartPoints : /\ pc[c] \in StartPoints /\ to # "apic"
                          /\ (to \in NoIdPoints <=> pc[c] \in NoIdPoints)
                          /\ Quiet(c, to)

LateMove(c) ==
  \E to \in PassedOnline \cup {"assert_failed"} :
    pc[c] \in PassedOnline /\ (to \in BspPoints => c = BSP) /\ Quiet(c, to)

(* Steps of a panic that neither move nor halt a core. *)
ReportStep(c) ==
  begin_panic(c) \/ skip_core(c) \/ send_nmi(c) \/ finish_scan(c) \/ acquire_writer(c) \/ drop_writer(c)

HaltStep(c) == halt_after_panic(c) \/ handle_nmi(c)

LEMMA LastLaunchedIs ==
  ASSUME NEW last \in APs, core_states[last] # "None", \A b \in APs \ {last} : core_states[b] # "None" => b < last
  PROVE  LastLaunched(BSP) = last
<1> DEFINE S == {a \in Cores \ {BSP} : core_states[a] # "None"}
<1>1. S \subseteq Nat /\ last \in S /\ \A a \in S : last >= a
  <2>1. S \subseteq Nat /\ last \in S
    BY BootAssumption DEF APs
  <2>2. \A a \in S : a = last \/ a < last
    BY DEF APs
  <2> QED
    BY <2>1, <2>2
<1>2. \A x \in S : (\A y \in S : x >= y) => x = last
  BY <1>1
<1> HIDE DEF S
<1>3. Max(S) = last
  BY <1>1, <1>2 DEF Max
<1> QED
  BY <1>3 DEF LastLaunched, S

(* A core that asks for the page table lock finds it free: those that died with the *)
(* lock hold up everybody who could ask.                                            *)
LEMMA LockIsFree ==
  ASSUME PanicInv, NEW c \in Cores, pc[c] \in LockPoints
  PROVE  page_table_lock = NoOne
<1> SUFFICES ASSUME page_table_lock # NoOne PROVE FALSE
  OBVIOUS
<1> DEFINE h == page_table_lock.core
<1>1. h \in Cores /\ pc[h] \in MapPoints \cup Stopped /\ (~apic_initialized[h] \/ (h = BSP /\ \A d \in Cores : apic_initialized[d]))
  BY DEF PanicInv, LockLost
<1> HIDE DEF h
<1>2. h # c
  BY <1>1 DEF LockPoints, MapPoints, Stopped
<1>3. CASE pc[c] \in {"block_lock", "vm_lock"}
  <2>1. c = BSP /\ \A d \in Cores : apic_initialized[d]
    BY <1>3 DEF PanicInv, Where, Counts, AllCame, BspPoints, PassedOnline, ArrivedReady, PassedReady
  <2> QED
    BY <1>1, <1>2, <2>1
<1>4. CASE pc[c] \in {"stack_lock", "locals_lock", "heap_lock"}
  <2>1. pc[c] \in StartPoints /\ ~apic_initialized[c] /\ ~apic_initialized[h]
    BY <1>1, <1>4 DEF PanicInv, Started, StartPoints, BootloaderPoints, EarlyPoints, KernelStartPoints
  <2>2. h \in APs => core_states[h] = "Launched"
    BY <1>1, <2>1 DEF PanicInv, Launching, MapPoints, Stopped
  <2>3. c \in APs => core_states[c] = "Launched"
    BY <2>1 DEF PanicInv, Launching
  <2>4. apic_initialized[BSP]
    <3>1. \E a \in APs : core_states[a] = "Launched"
      BY <1>1, <1>2, <2>2, <2>3 DEF APs
    <3> QED
      BY <3>1 DEF PanicInv, Launching
  <2>5. h \in APs /\ c \in APs
    BY <1>1, <2>1, <2>4 DEF APs
  <2> QED
    BY <1>2, <2>2, <2>3, <2>5 DEF PanicInv, Launching
<1> QED
  BY <1>3, <1>4 DEF LockPoints

LEMMA IdOfBsp ==
  ASSUME PanicInv, NEW c \in Cores, pc[c] \notin NoIdPoints \cup Stopped
  PROVE  core_id[c] = 0 <=> c = BSP
  BY DEF PanicInv, CoreIds

LEMMA BootMoves ==
  ASSUME PanicInv, NEW c \in Cores, CoreStep(c)
  PROVE  \/ EarlyMove(c) \/ LateMove(c) \/ claim_core_id(c) \/ interrupts_initialize(c) \/ apic_initialize(c)
         \/ LaunchStep(c) \/ OnlineStep(c) \/ UNCHANGED vars
<1> USE DEF Quiet, Goto, countVars, onlineVars, localVars, blockVars, memVars, tlbVars, otherThanBlock, otherThanOnline
<1>1. CASE LockStep(c)
  <2>1. pc[c] \in LockPoints
    BY <1>1 DEF LockStep, lock_page_table, LockPoints
  <2>2. page_table_lock = NoOne
    BY <2>1, LockIsFree
  <2>3. LockMove(c) /\ page_table_lock'.core = c
        /\ UNCHANGED <<countVars, onlineVars, localVars, blockVars, owned, tlbVars, is_panicking>>
    BY <1>1, <2>2 DEF LockStep, lock_page_table, LockMove
  <2>4. CASE pc[c] \in {"stack_lock", "locals_lock", "heap_lock"}
    BY <2>3, <2>4 DEF LockMove, EarlyMove, StartPoints, BootloaderPoints, EarlyPoints, KernelStartPoints, MapPoints,
       NoIdPoints
  <2>5. CASE pc[c] \in {"block_lock", "vm_lock"}
    <3>1. c = BSP
      BY <2>5 DEF PanicInv, Where, BspPoints
    <3> QED
      BY <2>3, <2>5, <3>1 DEF LockMove, LateMove, PassedOnline, ArrivedReady, PassedReady, MapPoints
  <2> QED
    BY <2>1, <2>4, <2>5 DEF LockPoints
<1>2. CASE MapStep(c)
  <2>1. MapMove(c) /\ page_table_lock' = NoOne /\ UNCHANGED <<countVars, onlineVars, localVars, tlbVars, is_panicking>>
    BY <1>2 DEF MapStep, map_pages, alloc_phys, MapMove
  <2>2. CASE pc[c] \in {"stack_map", "locals_map", "heap_map"}
    BY <2>1, <2>2 DEF MapMove, EarlyMove, StartPoints, BootloaderPoints, EarlyPoints, KernelStartPoints, NoIdPoints
  <2>3. CASE pc[c] \in {"block_map", "vm_map"}
    <3>1. c = BSP
      BY <2>3 DEF PanicInv, Where, BspPoints
    <3> QED
      BY <2>1, <2>3, <3>1 DEF MapMove, LateMove, PassedOnline, ArrivedReady, PassedReady
  <2> QED
    BY <2>1, <2>2, <2>3 DEF MapMove
<1>3. CASE enter_bootloader(c)
  BY <1>3 DEF enter_bootloader, EarlyMove, StartPoints, BootloaderPoints, NoIdPoints, MapPoints
<1> DEFINE MayDiffer == \/ become_ready(c) \/ switch_boot_block(c) \/ flush_tlb(c)
<1>4. CASE MayDiffer
  <2>1. pc[c] \in {"ready", "switch", "flush"}
    BY <1>4 DEF become_ready, switch_boot_block, flush_tlb
  <2>2. core_id[c] = 0 <=> c = BSP
    BY <2>1, IdOfBsp DEF NoIdPoints, BootloaderPoints, Stopped
  <2> QED
    BY <1>4, <2>2
    DEF become_ready, switch_boot_block, flush_tlb, LateMove, PassedOnline, ArrivedReady, PassedReady, BspPoints,
        MapPoints
<1>5. CASE await_ready(c) \/ read_boot_block(c) \/ write_boot_block(c) \/ publish_boot_block(c) \/ await_boot_block(c)
           \/ clear_ap_entrypoint(c) \/ enable_nx_on_physical_region(c) \/ reclaim_boot_memory(c)
  <2>1. pc[c] \in BspPoints => c = BSP
    BY DEF PanicInv, Where
  <2> QED
    BY <1>5, <2>1
    DEF await_ready, read_boot_block, write_boot_block, publish_boot_block, await_boot_block, clear_ap_entrypoint,
        enable_nx_on_physical_region, reclaim_boot_memory, LateMove, PassedOnline, ArrivedReady, PassedReady,
        BspPoints, MapPoints
<1>6. CASE idle(c)
  BY <1>6 DEF idle
<1> QED
  BY <1>1, <1>2, <1>3, <1>4, <1>5, <1>6, Steps

LEMMA PanicSteps ==
  ASSUME PanicInv, [PanicNext]_panicSystem
  PROVE  \/ UNCHANGED panicSystem
         \/ \E c \in Cores : \/ BootStep(c)
                             \/ panic(c) \/ ReportStep(c) \/ stop_waiting(c) \/ HaltStep(c)
  BY DEF PanicNext, PanicStep, ReportStep, HaltStep, halted

LEMMA Reporting ==
  ASSUME NEW c \in Cores, ReportStep(c)
  PROVE  UNCHANGED <<pc, core_states, panicked_with, panics, otherThanBoot>>
  BY DEF ReportStep, begin_panic, skip_core, send_nmi, finish_scan, acquire_writer, drop_writer

(* A core that halts was running the kernel. *)
LEMMA Halting ==
  ASSUME PanicInv, NEW c \in Cores, HaltStep(c)
  PROVE  /\ halt(c)
         /\ pc[c] = "panic" \/ (apic_initialized[c] /\ is_panicking)
         /\ pc[c] = "panic" /\ apic_initialized[c] => is_panicking
         /\ pc[c] # "off" /\ \A d \in Cores : nmi_pending'[d] => nmi_pending[d]
<1>1. CASE halt_after_panic(c)
  BY <1>1 DEF halt_after_panic, PanicAt, PanicInv, Reports
<1>2. CASE handle_nmi(c)
  <2>1. nmi_pending \in [Cores -> BOOLEAN]
    BY DEF PanicInv, PanicTypes, PanicTypeOK
  <2> QED
    BY <1>2, <2>1 DEF handle_nmi, PanicInv, Started
<1> QED
  BY <1>1, <1>2 DEF HaltStep

-----------------------------------------------------------------------------
(* Every step keeps the parts of the invariant.  Where the cores are, *)
LEMMA WhereKept ==
  ASSUME PanicInv, [PanicNext]_panicSystem
  PROVE  Where'
<1> USE DEF Where, Goto, UpPoints, Stopped, NoIdPoints, StartPoints, LaunchPoints, OnlinePoints, BootloaderPoints,
     EarlyPoints, KernelStartPoints, RendezvousPoints, BspPoints, PassedReady, ArrivedReady, PassedOnline
<1>1. Where /\ pc \in [Cores -> Points \cup {"panic"}]
  BY DEF PanicInv, PanicTypes, PanicTypeOK
<1>2. ASSUME NEW c \in Cores, CoreStep(c) PROVE Where'
  <2>1. CASE EarlyMove(c) \/ LateMove(c)
    BY <1>1, <2>1 DEF EarlyMove, LateMove, Quiet
  <2>2. CASE claim_core_id(c) \/ interrupts_initialize(c)
    BY <1>1, <2>2 DEF claim_core_id, interrupts_initialize
  <2>3. CASE apic_initialize(c)
    <3>1. core_id[c] = 0 <=> c = BSP
      BY <2>3, IdOfBsp DEF apic_initialize
    <3> QED
      BY <1>1, <2>3, <3>1 DEF apic_initialize
  <2>4. CASE LaunchStep(c)
    BY <1>1, <2>4 DEF LaunchStep, processors_initialize, mark_launched, send_init_sipi_sipi, await_launched
  <2>5. CASE OnlineStep(c)
    BY <1>1, <2>5 DEF OnlineStep, register_online, check_panicking, count_online, await_online
  <2>6. CASE UNCHANGED vars
    BY <1>1, <2>6 DEF vars
  <2> QED
    BY <1>2, <2>1, <2>2, <2>3, <2>4, <2>5, <2>6, BootMoves
<1>3. ASSUME NEW c \in Cores, panic(c) \/ stop_waiting(c) PROVE Where'
  BY <1>1, <1>3 DEF panic, stop_waiting
<1>4. ASSUME NEW c \in Cores, ReportStep(c) PROVE Where'
  BY <1>1, <1>4, Reporting
<1>5. ASSUME NEW c \in Cores, HaltStep(c) PROVE Where'
  BY <1>1, <1>5, Halting DEF halt
<1>6. CASE UNCHANGED panicSystem
  BY <1>1, <1>6 DEF panicSystem, vars
<1> QED
  BY <1>2, <1>3, <1>4, <1>5, <1>6, PanicSteps DEF BootStep

(* what they have by then, *)
LEMMA StartedKept ==
  ASSUME PanicInv, [PanicNext]_panicSystem
  PROVE  Started'
<1> USE DEF Started, PanicAt, PanicGoto, Goto, UpPoints, Stopped, NoIdPoints, StartPoints, LaunchPoints, OnlinePoints,
     BootloaderPoints, EarlyPoints, KernelStartPoints, RendezvousPoints, PassedReady, ArrivedReady, PassedOnline,
     countVars, onlineVars, localVars, blockVars, memVars, tlbVars, otherThanOnline, otherThanBoot, panicVars
<1>1. /\ Started /\ pc \in [Cores -> Points \cup {"panic"}] /\ core_states \in [Cores -> CoreStates]
      /\ panic_pc \in [Cores -> PanicPoints] /\ nmi_pending \in [Cores -> BOOLEAN]
      /\ apic_initialized \in [Cores -> BOOLEAN] /\ idt_loaded \in [Cores -> BOOLEAN]
      /\ nmi_target \in [Cores -> Int]
  BY DEF PanicInv, PanicTypes, PanicTypeOK
<1>2. ASSUME NEW c \in Cores, BootStep(c) PROVE Started'
  <2>1. UNCHANGED <<panic_pc, nmi_target, nmi_pending>> /\ CoreStep(c)
    BY <1>2 DEF BootStep
  <2>2. CASE EarlyMove(c) \/ LateMove(c)
    BY <1>1, <2>1, <2>2 DEF EarlyMove, LateMove, Quiet
  <2>3. CASE claim_core_id(c)
    BY <1>1, <2>1, <2>3 DEF claim_core_id
  <2>4. CASE interrupts_initialize(c)
    BY <1>1, <2>1, <2>4 DEF interrupts_initialize
  <2>5. CASE apic_initialize(c)
    BY <1>1, <2>1, <2>5 DEF apic_initialize
  <2>6. CASE processors_initialize(c)
    BY <1>1, <2>1, <2>6 DEF processors_initialize
  <2>7. CASE mark_launched(c)
    <3>1. /\ pc[c] = "launch" /\ UNCHANGED <<apic_initialized, idt_loaded>>
          /\ pc' = [pc EXCEPT ![c] = "notify"] \/ pc' = [pc EXCEPT ![c] = "ipi"]
      BY <2>7 DEF mark_launched
    <3>2. \A d \in Cores : core_states'[d] = core_states[d] \/ (core_states[d] = "None" /\ core_states'[d] = "Launched")
      <4>1. Unlaunched(c) # {} => Min(Unlaunched(c)) \in Unlaunched(c)
        <5>1. Unlaunched(c) \in SUBSET Nat
          BY BootAssumption DEF Unlaunched
        <5> QED
          BY <5>1, Lowest
      <4> QED
        BY <1>1, <2>7, <4>1 DEF mark_launched, Unlaunched
    <3> QED
      BY <1>1, <2>1, <3>1, <3>2
  <2>8. CASE send_init_sipi_sipi(c)
    <3>1. c = BSP /\ pc[BSP] = "ipi"
      BY <2>8 DEF send_init_sipi_sipi, PanicInv, Where, BspPoints
    <3>2. PICK a \in APs : core_states[a] = "Launched" /\ pc[a] = "off"
      BY <3>1 DEF PanicInv, Launching
    <3>3. LastLaunched(BSP) = a
      BY <3>2, LastLaunchedIs DEF PanicInv, Launching
    <3>4. pc' = [pc EXCEPT ![BSP] = "launch_wait", ![a] = "bootloader"] /\ UNCHANGED <<core_states, localVars>>
      BY <2>8, <3>1, <3>3 DEF send_init_sipi_sipi
    <3> QED
      BY <1>1, <2>1, <3>1, <3>2, <3>4 DEF APs
  <2>9. CASE await_launched(c)
    BY <1>1, <2>1, <2>9 DEF await_launched
  <2>10. CASE register_online(c)
    BY <1>1, <2>1, <2>10 DEF register_online
  <2>11. CASE check_panicking(c) \/ count_online(c) \/ await_online(c)
    BY <1>1, <2>1, <2>11 DEF check_panicking, count_online, await_online
  <2>12. CASE UNCHANGED vars
    BY <1>1, <2>1, <2>12 DEF vars
  <2> QED
    BY <2>1, <2>2, <2>3, <2>4, <2>5, <2>6, <2>7, <2>8, <2>9, <2>10, <2>11, <2>12, BootMoves DEF LaunchStep, OnlineStep
<1>3. ASSUME NEW c \in Cores, panic(c) PROVE Started'
  BY <1>1, <1>3 DEF panic
<1>4. ASSUME NEW c \in Cores, ReportStep(c) PROVE Started'
  <2>1. UNCHANGED <<pc, core_states, apic_initialized, idt_loaded>>
    BY <1>4, Reporting
  <2>2. CASE send_nmi(c)
    <3>1. Min(Remaining(c)) \in Cores
      <4>1. Remaining(c) \in SUBSET Nat
        BY BootAssumption DEF Remaining
      <4> QED
        BY <2>2, <4>1, Lowest DEF send_nmi, Remaining
    <3> QED
      BY <1>1, <2>1, <2>2, <3>1 DEF send_nmi
  <2>3. CASE begin_panic(c) \/ finish_scan(c) \/ acquire_writer(c) \/ drop_writer(c) \/ skip_core(c)
    <3>1. \A d \in Cores : PanicAt(d, "nmi_wait")' => PanicAt(d, "nmi_wait") /\ nmi_target'[d] = nmi_target[d]
      BY <1>1, <2>1, <2>3 DEF begin_panic, finish_scan, acquire_writer, drop_writer, skip_core
    <3>2. UNCHANGED nmi_pending
      BY <2>3 DEF begin_panic, finish_scan, acquire_writer, drop_writer, skip_core
    <3> QED
      BY <1>1, <2>1, <3>1, <3>2
  <2> QED
    BY <1>4, <2>2, <2>3 DEF ReportStep
<1>5. ASSUME NEW c \in Cores, stop_waiting(c) PROVE Started'
  BY <1>1, <1>5 DEF stop_waiting
<1>6. ASSUME NEW c \in Cores, HaltStep(c) PROVE Started'
  <2>1. halt(c) /\ \A d \in Cores : nmi_pending'[d] => nmi_pending[d]
    BY <1>6, Halting
  <2> QED
    BY <1>1, <2>1 DEF halt
<1>7. CASE UNCHANGED panicSystem
  BY <1>1, <1>7 DEF panicSystem, vars
<1> QED
  BY <1>2, <1>3, <1>4, <1>5, <1>6, <1>7, PanicSteps

(* and how far the launch has come. *)
LEMMA MarkingNext ==
  ASSUME PanicInv, NEW c \in Cores, mark_launched(c)
  PROVE  /\ c = BSP /\ pc[BSP] = "launch" /\ UNCHANGED <<TOTAL_CORES, CORES_ONLINE, READY_CORES, nmis_enabled, otherThanOnline>>
         /\ \/ pc' = [pc EXCEPT ![BSP] = "notify"] /\ UNCHANGED core_states
            \/ \E m \in APs : /\ core_states[m] = "None"
                              /\ \A a \in APs : core_states[a] = "None" => m <= a
                              /\ pc' = [pc EXCEPT ![BSP] = "ipi"]
                              /\ core_states' = [core_states EXCEPT ![m] = "Launched"]
<1>1. c = BSP /\ pc[BSP] = "launch"
  BY DEF mark_launched, PanicInv, Where, BspPoints
<1>2. Unlaunched(c) = {a \in APs : core_states[a] = "None"}
  BY <1>1 DEF Unlaunched, APs
<1>3. Unlaunched(c) # {} =>
        Min(Unlaunched(c)) \in Unlaunched(c) /\ \A a \in Unlaunched(c) : Min(Unlaunched(c)) <= a
  <2>1. Unlaunched(c) \in SUBSET Nat
    BY <1>2, BootAssumption DEF APs
  <2> QED
    BY <2>1, Lowest
<1> QED
  BY <1>1, <1>2, <1>3 DEF mark_launched

LEMMA SendingNext ==
  ASSUME PanicInv, NEW c \in Cores, send_init_sipi_sipi(c)
  PROVE  /\ c = BSP /\ pc[BSP] = "ipi" /\ UNCHANGED <<onlineVars, otherThanOnline>>
         /\ \E a \in APs : /\ core_states[a] = "Launched" /\ pc[a] = "off"
                           /\ pc' = [pc EXCEPT ![BSP] = "launch_wait", ![a] = "bootloader"]
<1>1. c = BSP /\ pc[BSP] = "ipi"
  BY DEF send_init_sipi_sipi, PanicInv, Where, BspPoints
<1>2. PICK a \in APs : core_states[a] = "Launched" /\ pc[a] = "off"
  BY <1>1 DEF PanicInv, Launching
<1>3. LastLaunched(BSP) = a
  BY <1>2, LastLaunchedIs DEF PanicInv, Launching
<1> QED
  BY <1>1, <1>2, <1>3 DEF send_init_sipi_sipi

LEMMA AwaitingNext ==
  ASSUME PanicInv, NEW c \in Cores, await_launched(c)
  PROVE  c = BSP /\ Goto(BSP, "launch_wait", "launch") /\ \A a \in APs : core_states[a] # "Launched"
<1>1. c = BSP
  BY DEF await_launched, Goto, PanicInv, Where, BspPoints
<1>2. ASSUME NEW a \in APs, core_states[a] = "Launched" PROVE FALSE
  <2>1. LastLaunched(BSP) = a
    BY <1>2, LastLaunchedIs DEF PanicInv, Launching
  <2> QED
    BY <1>1, <1>2, <2>1 DEF await_launched
<1> QED
  BY <1>1, <1>2 DEF await_launched

(* A step that takes nobody out of the firmware. *)
Same(d) == pc'[d] = pc[d] /\ core_states'[d] = core_states[d] /\ apic_initialized'[d] = apic_initialized[d]

LEMMA LaunchingKept ==
  ASSUME PanicInv, [PanicNext]_panicSystem
  PROVE  Launching'
<1> USE DEF PanicAt, PanicGoto, Goto, Stopped, StartPoints, BootloaderPoints, EarlyPoints, KernelStartPoints, Same,
     countVars, onlineVars, localVars, blockVars, memVars, tlbVars, otherThanOnline, otherThanBoot
<1>1. /\ Launching /\ pc \in [Cores -> Points \cup {"panic"}] /\ core_states \in [Cores -> CoreStates]
      /\ apic_initialized \in [Cores -> BOOLEAN]
  BY DEF PanicInv, PanicTypes, PanicTypeOK
<1>2. /\ BSP \in Cores /\ APs \subseteq Cores /\ BSP \notin APs /\ \A c \in Cores : c = BSP \/ c \in APs
  BY BootAssumption DEF APs
<1>3. ASSUME NEW c \in Cores, CoreStep(c) PROVE Launching'
  <2>1. CASE EarlyMove(c)
    <3>1. /\ \A d \in Cores \ {c} : Same(d)
          /\ pc[c] \in StartPoints /\ pc'[c] \in StartPoints /\ core_states'[c] = core_states[c]
          /\ apic_initialized'[c] = apic_initialized[c]
      BY <1>1, <2>1 DEF EarlyMove, Quiet
    <3>2. CASE c = BSP
      BY <1>1, <1>2, <3>1, <3>2 DEF Launching
    <3>3. CASE c \in APs
      BY <1>1, <1>2, <3>1, <3>3 DEF Launching
    <3> QED
      BY <1>2, <3>2, <3>3
  <2>2. CASE LateMove(c)
    <3>1. /\ \A d \in Cores \ {c} : Same(d)
          /\ pc[c] \in PassedOnline /\ pc'[c] \in PassedOnline \cup {"assert_failed"}
          /\ core_states'[c] = core_states[c] /\ apic_initialized'[c] = apic_initialized[c]
      BY <1>1, <2>2 DEF LateMove, Quiet
    <3>2. apic_initialized[c] = TRUE /\ apic_initialized'[c] = TRUE
      BY <1>1, <3>1 DEF PanicInv, Counts, AllCame
    <3>3. /\ pc[c] \notin {"off", "ipi", "launch_wait", "notify"} \cup StartPoints \cup Stopped
          /\ pc'[c] \notin {"off", "ipi", "launch_wait", "notify"} \cup StartPoints \cup Stopped
      BY <3>1 DEF PassedOnline, ArrivedReady, PassedReady
    <3>4. core_states'[c] = core_states[c]
      BY <3>1
    <3>5. CASE c = BSP
      <4>1. \A a \in APs : Same(a)
        BY <1>2, <3>1, <3>5
      <4>2. \A a \in APs : core_states[a] # "Launched"
        BY <1>1, <3>3, <3>5 DEF Launching
      <4> QED
        BY <1>1, <1>2, <3>2, <3>3, <3>4, <3>5, <4>1, <4>2 DEF Launching
    <3>6. CASE c \in APs
      <4>1. /\ \A a \in APs : core_states'[a] = core_states[a] /\ apic_initialized'[a] = apic_initialized[a]
            /\ \A a \in APs \ {c} : pc'[a] = pc[a]
            /\ Same(BSP)
        BY <1>2, <3>1, <3>2, <3>4, <3>6
      <4> QED
        BY <1>1, <1>2, <3>2, <3>3, <3>4, <3>6, <4>1 DEF Launching
    <3> QED
      BY <1>2, <3>5, <3>6
  <2>3. CASE claim_core_id(c) \/ interrupts_initialize(c)
    <3>1. /\ \A d \in Cores \ {c} : Same(d)
          /\ pc[c] \in StartPoints /\ pc'[c] \in StartPoints /\ core_states'[c] = core_states[c]
          /\ apic_initialized'[c] = apic_initialized[c]
      BY <1>1, <2>3 DEF claim_core_id, interrupts_initialize
    <3>2. CASE c = BSP
      BY <1>1, <1>2, <3>1, <3>2 DEF Launching
    <3>3. CASE c \in APs
      BY <1>1, <1>2, <3>1, <3>3 DEF Launching
    <3> QED
      BY <1>2, <3>2, <3>3
  <2>4. CASE apic_initialize(c)
    <3>1. core_id[c] = 0 <=> c = BSP
      BY <2>4, IdOfBsp DEF apic_initialize, NoIdPoints
    <3>2. /\ \A d \in Cores \ {c} : Same(d)
          /\ pc[c] = "apic" /\ pc'[c] = IF c = BSP THEN "processors" ELSE "notify"
          /\ core_states'[c] = core_states[c] /\ apic_initialized'[c] = TRUE
      BY <1>1, <2>4, <3>1 DEF apic_initialize
    <3>3. CASE c = BSP
      BY <1>1, <1>2, <3>2, <3>3 DEF Launching
    <3>4. CASE c \in APs
      BY <1>1, <1>2, <3>2, <3>4 DEF Launching
    <3> QED
      BY <1>2, <3>3, <3>4
  <2>5. CASE processors_initialize(c)
    <3>1. c = BSP
      BY <2>5 DEF processors_initialize, PanicInv, Where, BspPoints
    <3>2. pc[BSP] = "processors" /\ pc' = [pc EXCEPT ![BSP] = "launch"] /\ (\A a \in APs : core_states'[a] = core_states[a])
          /\ UNCHANGED apic_initialized
      BY <1>1, <1>2, <2>5, <3>1 DEF processors_initialize
    <3> QED
      BY <1>1, <1>2, <3>2 DEF Launching
  <2>6. CASE mark_launched(c)
    <3>1. pc[BSP] = "launch" /\ UNCHANGED apic_initialized /\ \A a \in APs : core_states[a] # "Launched"
      BY <1>1, <2>6, MarkingNext DEF Launching
    <3>2. CASE pc' = [pc EXCEPT ![BSP] = "notify"] /\ UNCHANGED core_states
      BY <1>1, <1>2, <3>1, <3>2 DEF Launching
    <3>3. ASSUME NEW m \in APs, core_states[m] = "None", \A a \in APs : core_states[a] = "None" => m <= a,
                 pc' = [pc EXCEPT ![BSP] = "ipi"], core_states' = [core_states EXCEPT ![m] = "Launched"]
          PROVE  Launching'
      <4>1. /\ core_states'[m] = "Launched" /\ \A a \in APs \ {m} : core_states'[a] = core_states[a]
            /\ pc'[BSP] = "ipi" /\ \A a \in APs : pc'[a] = pc[a]
        BY <1>1, <1>2, <3>3
      <4>2. pc[m] = "off" /\ \A b \in APs : core_states[b] # "None" => b < m
        BY <1>1, <3>3 DEF Launching
      <4>3. \A a \in APs \ {m} : core_states[a] = "None" => m < a
        BY <1>2, <3>3, BootAssumption
      <4>4. apic_initialized[BSP] = TRUE
        BY <1>1, <1>2, <3>1 DEF PanicInv, Started, UpPoints, LaunchPoints
      <4> QED
        BY <1>1, <1>2, <3>1, <4>1, <4>2, <4>3, <4>4 DEF Launching
    <3> QED
      BY <2>6, <3>2, <3>3, MarkingNext
  <2>7. CASE send_init_sipi_sipi(c)
    <3>1. PICK a \in APs : /\ core_states[a] = "Launched" /\ pc[a] = "off"
                           /\ pc' = [pc EXCEPT ![BSP] = "launch_wait", ![a] = "bootloader"]
      BY <2>7, SendingNext
    <3>2. pc[BSP] = "ipi" /\ UNCHANGED <<core_states, apic_initialized>>
      BY <2>7, SendingNext
    <3>3. pc'[BSP] = "launch_wait" /\ pc'[a] = "bootloader" /\ \A b \in APs \ {a} : pc'[b] = pc[b]
      BY <1>1, <1>2, <3>1
    <3> QED
      BY <1>1, <1>2, <3>1, <3>2, <3>3 DEF Launching
  <2>8. CASE await_launched(c)
    <3>1. /\ pc' = [pc EXCEPT ![BSP] = "launch"] /\ UNCHANGED <<core_states, apic_initialized>>
          /\ \A a \in APs : core_states[a] # "Launched"
      BY <2>8, AwaitingNext DEF await_launched
    <3> QED
      BY <1>1, <1>2, <3>1 DEF Launching
  <2>9. CASE OnlineStep(c)
    <3>1. /\ \A d \in Cores \ {c} : Same(d)
          /\ pc[c] \in {"notify"} \cup RendezvousPoints
          /\ pc'[c] \in RendezvousPoints \cup {"ready", "halted", "assert_failed"}
          /\ core_states'[c] # "Launched" \/ (core_states'[c] = core_states[c] /\ pc[c] # "notify")
          /\ core_states'[c] = "None" => core_states[c] = "None"
          /\ apic_initialized'[c] = apic_initialized[c]
      <4> USE DEF RendezvousPoints, CoreStates
      <4>1. CASE register_online(c)
        BY <1>1, <4>1 DEF register_online
      <4>2. CASE check_panicking(c)
        BY <1>1, <4>2 DEF check_panicking
      <4>3. CASE count_online(c)
        BY <1>1, <4>3 DEF count_online
      <4>4. CASE await_online(c)
        BY <1>1, <4>4 DEF await_online
      <4> QED
        BY <2>9, <4>1, <4>2, <4>3, <4>4 DEF OnlineStep
    <3>2. apic_initialized[c] = TRUE /\ apic_initialized'[c] = TRUE
      BY <1>1, <3>1 DEF PanicInv, Started, UpPoints, OnlinePoints, RendezvousPoints
    <3>3. /\ pc[c] \notin {"off", "ipi", "launch_wait"} \cup StartPoints \cup Stopped
          /\ pc'[c] \notin {"off", "ipi", "launch_wait", "notify"} \cup StartPoints
      BY <3>1 DEF RendezvousPoints
    <3>4. CASE c = BSP
      <4>1. \A a \in APs : Same(a)
        BY <1>2, <3>1, <3>4
      <4>2. \A a \in APs : core_states[a] # "Launched"
        BY <1>1, <3>3, <3>4 DEF Launching
      <4> QED
        BY <1>1, <1>2, <3>2, <3>3, <3>4, <4>1, <4>2 DEF Launching
    <3>5. CASE c \in APs
      <4>1. /\ \A a \in APs : apic_initialized'[a] = apic_initialized[a]
            /\ \A a \in APs \ {c} : pc'[a] = pc[a] /\ core_states'[a] = core_states[a]
            /\ Same(BSP)
        BY <1>2, <3>1, <3>2, <3>5
      <4>2. pc[c] # "off" /\ core_states[c] # "None" /\ core_states'[c] # "None"
        BY <1>1, <3>1, <3>3, <3>5 DEF Launching
      <4>3. core_states'[c] = "Launched" => core_states[c] = "Launched" /\ pc[c] # "notify"
        BY <3>1
      <4>4. \A a \in APs : pc'[a] = "off" <=> pc[a] = "off"
        BY <1>1, <3>3, <4>1, <4>2
      <4> QED
        BY <1>1, <1>2, <3>2, <3>3, <3>5, <4>1, <4>2, <4>3, <4>4 DEF Launching
    <3> QED
      BY <1>2, <3>4, <3>5
  <2>10. CASE UNCHANGED vars
    BY <1>1, <2>10 DEF vars, Launching
  <2> QED
    BY <1>3, <2>1, <2>2, <2>3, <2>4, <2>5, <2>6, <2>7, <2>8, <2>9, <2>10, BootMoves DEF LaunchStep
<1>4. ASSUME NEW c \in Cores, panic(c) \/ HaltStep(c) PROVE Launching'
  <2>1. /\ \A d \in Cores \ {c} : Same(d)
        /\ pc[c] # "off" /\ pc'[c] \in Stopped /\ apic_initialized'[c] = apic_initialized[c]
        /\ core_states'[c] = core_states[c] \/ (core_states'[c] = "Halted" /\ apic_initialized[c])
    <3>1. CASE panic(c)
      BY <1>1, <3>1 DEF panic, KernelPoints
    <3>2. CASE HaltStep(c)
      BY <1>1, <3>2, Halting DEF halt
    <3> QED
      BY <1>4, <3>1, <3>2
  <2>2. CASE c = BSP
    BY <1>1, <1>2, <2>1, <2>2 DEF Launching
  <2>3. CASE c \in APs
    BY <1>1, <1>2, <2>1, <2>3 DEF Launching
  <2> QED
    BY <1>2, <2>2, <2>3
<1>5. ASSUME NEW c \in Cores, ReportStep(c) PROVE Launching'
  BY <1>1, <1>5, Reporting DEF Launching
<1>6. ASSUME NEW c \in Cores, stop_waiting(c) PROVE Launching'
  <2>1. PICK t \in Cores : core_states[t] \in {"Online", "Halted"} /\ core_states' = [core_states EXCEPT ![t] = "Halted"]
    BY <1>6 DEF stop_waiting, PanicInv, Started
  <2>2. UNCHANGED <<pc, apic_initialized>>
    BY <1>6 DEF stop_waiting
  <2>3. \A a \in Cores : \/ core_states'[a] = core_states[a]
                         \/ core_states'[a] = "Halted" /\ core_states[a] \notin {"None", "Launched"}
    BY <1>1, <2>1
  <2> QED
    BY <1>1, <1>2, <2>2, <2>3 DEF Launching
<1>7. CASE UNCHANGED panicSystem
  BY <1>1, <1>7 DEF panicSystem, vars, Launching
<1> QED
  BY <1>3, <1>4, <1>5, <1>6, <1>7, PanicSteps DEF BootStep

(* How the counters go on: no core that counts stops to, and one that adds itself to *)
(* CORES_ONLINE counts from then on.                                                 *)
CountMove ==
  /\ \A d \in Cores : apic_initialized[d] => apic_initialized'[d]
  /\ \A d \in Counted : d \in Counted'
  /\ \/ CORES_ONLINE' = CORES_ONLINE
     \/ CORES_ONLINE' = CORES_ONLINE + 1 /\ \E c \in Counted' : c \notin Counted
  /\ TOTAL_CORES' = TOTAL_CORES \/ TOTAL_CORES' = Cardinality(Cores)
  /\ pc'[BSP] \in UpPoints \ {"processors"} =>
       pc[BSP] \in UpPoints \ {"processors"} \/ TOTAL_CORES' = Cardinality(Cores)
  /\ \A a \in APs : core_states'[a] # "None" => core_states[a] # "None" \/ pc[BSP] = "launch"
  /\ \A c \in Cores : AllCame(c)' => AllCame(c) \/ \A d \in Cores : apic_initialized[d]

LEMMA CountersGoOn ==
  ASSUME PanicInv, CountMove, CORES_ONLINE \in Nat
  PROVE  Counts'
<1>1. Counts
  BY DEF PanicInv
<1>2. CORES_ONLINE' <= Cardinality(Counted')
  <2>1. IsFiniteSet(Cores) /\ IsFiniteSet(Counted) /\ IsFiniteSet(Counted')
    <3>1. IsFiniteSet(Cores) /\ Counted \subseteq Cores /\ Counted' \subseteq Cores
      BY BootAssumption DEF Counted
    <3> QED
      BY <3>1, FS_Subset
  <2>2. Cardinality(Counted) \in Nat /\ Cardinality(Counted') \in Nat
    BY <2>1, FS_CardinalityType
  <2>3. Counted \subseteq Counted'
    BY DEF CountMove
  <2>4. CASE CORES_ONLINE' = CORES_ONLINE
    <3>1. Cardinality(Counted) <= Cardinality(Counted')
      BY <2>1, <2>3, FS_Subset
    <3> QED
      BY <1>1, <2>2, <2>4, <3>1 DEF Counts
  <2>5. ASSUME CORES_ONLINE' = CORES_ONLINE + 1, NEW c \in Counted', c \notin Counted
        PROVE  CORES_ONLINE' <= Cardinality(Counted')
    <3>1. Cardinality(Counted \cup {c}) = Cardinality(Counted) + 1 /\ IsFiniteSet(Counted \cup {c})
      BY <2>1, <2>5, FS_AddElement
    <3>2. Counted \cup {c} \subseteq Counted'
      BY <2>3
    <3>3. Cardinality(Counted \cup {c}) <= Cardinality(Counted')
      BY <2>1, <3>2, FS_Subset
    <3> QED
      BY <1>1, <2>2, <2>5, <3>1, <3>3 DEF Counts
  <2> QED
    BY <2>4, <2>5 DEF CountMove
<1>3. pc[BSP] = "launch" => TOTAL_CORES = Cardinality(Cores)
  BY <1>1 DEF Counts, UpPoints, LaunchPoints
<1>4. /\ pc'[BSP] \in UpPoints \ {"processors"} => TOTAL_CORES' = Cardinality(Cores)
      /\ \A a \in APs : core_states'[a] # "None" => TOTAL_CORES' = Cardinality(Cores)
  BY <1>1, <1>3 DEF Counts, CountMove
<1>5. \A c \in Cores : AllCame(c)' => \A d \in Cores : apic_initialized'[d]
  BY <1>1 DEF Counts, CountMove
<1> QED
  BY <1>2, <1>4, <1>5 DEF Counts

(* A core passes the rendezvous when every core has been counted. *)
LEMMA EveryoneCounted ==
  ASSUME PanicInv, NEW c \in Cores, await_online(c)
  PROVE  \A d \in Cores : apic_initialized[d]
<1>1. pc[c] = "wait_online" /\ CORES_ONLINE = TOTAL_CORES
  BY DEF await_online, Goto
<1>2. TOTAL_CORES = Cardinality(Cores)
  <2>1. CASE c = BSP
    BY <1>1, <2>1 DEF PanicInv, Counts, UpPoints, OnlinePoints, RendezvousPoints
  <2>2. CASE c \in APs
    <3>1. core_states[c] # "None"
      BY <1>1, <2>2 DEF PanicInv, Launching
    <3> QED
      BY <2>2, <3>1 DEF PanicInv, Counts
  <2> QED
    BY <2>1, <2>2 DEF APs
<1>3. Counted \subseteq Cores /\ IsFiniteSet(Cores)
  BY BootAssumption DEF Counted
<1>4. Cardinality(Counted) <= Cardinality(Cores) /\ Cardinality(Cores) \in Nat /\ Cardinality(Counted) \in Nat
  BY <1>3, FS_Subset, FS_CardinalityType
<1>5. Cardinality(Cores) <= Cardinality(Counted)
  BY <1>1, <1>2 DEF PanicInv, Counts
<1>6. Counted = Cores
  BY <1>3, <1>4, <1>5, FS_Subset
<1> QED
  BY <1>6 DEF Counted

LEMMA CountsKept ==
  ASSUME PanicInv, [PanicNext]_panicSystem
  PROVE  Counts'
<1> USE DEF CountMove, Counted, AllCame, UncountedPoints, PanicAt, PanicGoto, Goto, UpPoints, Stopped, StartPoints,
     LaunchPoints, OnlinePoints, BootloaderPoints, EarlyPoints, KernelStartPoints, RendezvousPoints, PassedReady,
     ArrivedReady, PassedOnline, countVars, onlineVars, localVars, blockVars, memVars, tlbVars, otherThanOnline,
     otherThanBoot, panicVars
<1>1. /\ pc \in [Cores -> Points \cup {"panic"}] /\ core_states \in [Cores -> CoreStates]
      /\ apic_initialized \in [Cores -> BOOLEAN] /\ CORES_ONLINE \in Nat
  BY DEF PanicInv, PanicTypes, PanicTypeOK
<1>2. /\ BSP \in Cores /\ APs \subseteq Cores /\ BSP \notin APs /\ \A c \in Cores : c = BSP \/ c \in APs
  BY BootAssumption DEF APs
<1>3. \A d \in Cores : pc[d] \in {"off"} \cup StartPoints => ~apic_initialized[d]
  BY DEF PanicInv, Started
<1>4. ASSUME NEW c \in Cores, CoreStep(c) PROVE CountMove
  <2>1. CASE EarlyMove(c)
    BY <1>1, <1>2, <1>3, <2>1 DEF EarlyMove, Quiet
  <2>2. CASE LateMove(c)
    BY <1>1, <1>2, <2>2 DEF LateMove, Quiet
  <2>3. CASE claim_core_id(c)
    BY <1>1, <1>2, <1>3, <2>3 DEF claim_core_id
  <2>4. CASE interrupts_initialize(c)
    BY <1>1, <1>2, <1>3, <2>4 DEF interrupts_initialize
  <2>5. CASE apic_initialize(c)
    <3>1. core_id[c] = 0 <=> c = BSP
      BY <2>5, IdOfBsp DEF apic_initialize, NoIdPoints
    <3> QED
      BY <1>1, <1>2, <1>3, <2>5, <3>1 DEF apic_initialize
  <2>6. CASE processors_initialize(c)
    <3>1. c = BSP
      BY <2>6 DEF processors_initialize, PanicInv, Where, BspPoints
    <3> QED
      BY <1>1, <1>2, <2>6, <3>1 DEF processors_initialize
  <2>7. CASE mark_launched(c)
    BY <1>1, <1>2, <2>7, MarkingNext
  <2>8. CASE send_init_sipi_sipi(c)
    <3>1. PICK a \in APs : /\ core_states[a] = "Launched" /\ pc[a] = "off"
                           /\ pc' = [pc EXCEPT ![BSP] = "launch_wait", ![a] = "bootloader"]
      BY <2>8, SendingNext
    <3>2. pc[BSP] = "ipi" /\ UNCHANGED <<onlineVars, apic_initialized>>
      BY <2>8, SendingNext
    <3> QED
      BY <1>1, <1>2, <1>3, <3>1, <3>2
  <2>9. CASE await_launched(c)
    <3>1. pc' = [pc EXCEPT ![BSP] = "launch"] /\ pc[BSP] = "launch_wait" /\ UNCHANGED <<onlineVars, apic_initialized>>
      BY <2>9, AwaitingNext DEF await_launched
    <3> QED
      BY <1>1, <1>2, <3>1
  <2>10. CASE register_online(c)
    <3>1. c \in APs => core_states[c] = "Launched" /\ core_id[c] # 0
      BY <2>10, IdOfBsp DEF register_online, PanicInv, Launching, NoIdPoints, APs
    <3>2. /\ pc[c] = "notify" /\ \A d \in Cores \ {c} : pc'[d] = pc[d]
          /\ c = BSP => pc'[c] \in {"check_panicking", "assert_failed"}
          /\ c \in APs => pc'[c] = "check_panicking"
      BY <1>1, <1>2, <2>10, <3>1 DEF register_online
    <3>3. UNCHANGED <<TOTAL_CORES, CORES_ONLINE, apic_initialized>>
          /\ \A a \in APs : core_states'[a] # "None" => core_states[a] # "None"
      BY <1>1, <1>2, <2>10 DEF register_online
    <3> QED
      BY <1>2, <3>2, <3>3
  <2>11. CASE check_panicking(c)
    <3>1. core_states[c] # "None" \/ c = BSP
      BY <1>2, <2>11 DEF check_panicking, PanicInv, Launching
    <3> QED
      BY <1>1, <1>2, <2>11, <3>1 DEF check_panicking
  <2>12. CASE count_online(c)
    <3>1. apic_initialized[c]
      BY <2>12 DEF count_online, PanicInv, Started
    <3>2. pc[c] = "count_online" /\ pc' = [pc EXCEPT ![c] = "wait_online"] /\ CORES_ONLINE' = CORES_ONLINE + 1
          /\ UNCHANGED <<core_states, TOTAL_CORES, apic_initialized>>
      BY <2>12 DEF count_online
    <3>3. c \in Counted' /\ c \notin Counted
      BY <1>1, <3>1, <3>2
    <3> QED
      BY <1>1, <1>2, <3>1, <3>2, <3>3
  <2>13. CASE await_online(c)
    <3>1. \A d \in Cores : apic_initialized[d]
      BY <2>13, EveryoneCounted
    <3> QED
      BY <1>1, <1>2, <2>13, <3>1 DEF await_online
  <2>14. CASE UNCHANGED vars
    BY <1>1, <1>2, <2>14 DEF vars
  <2> QED
    BY <1>4, <2>1, <2>2, <2>3, <2>4, <2>5, <2>6, <2>7, <2>8, <2>9, <2>10, <2>11, <2>12, <2>13, <2>14, BootMoves
    DEF LaunchStep, OnlineStep
<1>5. ASSUME NEW c \in Cores, panic(c) PROVE CountMove
  <2>1. /\ pc' = [pc EXCEPT ![c] = "panic"]
        /\ UNCHANGED <<core_states, TOTAL_CORES, CORES_ONLINE, apic_initialized>>
    BY <1>5 DEF panic
  <2> QED
    BY <1>1, <1>2, <2>1
<1>6. ASSUME NEW c \in Cores, ReportStep(c) \/ stop_waiting(c) PROVE CountMove
  <2>1. UNCHANGED <<pc, TOTAL_CORES, CORES_ONLINE, apic_initialized>>
    BY <1>6, Reporting DEF stop_waiting
  <2>2. \A a \in APs : core_states'[a] # "None" => core_states[a] # "None"
    <3>1. CASE ReportStep(c)
      BY <3>1, Reporting
    <3>2. CASE stop_waiting(c)
      <4>1. nmi_target[c] \in Cores /\ core_states[nmi_target[c]] # "None"
        BY <3>2 DEF stop_waiting, PanicInv, Started
      <4> QED
        BY <1>1, <1>2, <3>2, <4>1 DEF stop_waiting
    <3> QED
      BY <1>6, <3>1, <3>2
  <2> QED
    BY <2>1, <2>2
<1>7. ASSUME NEW c \in Cores, HaltStep(c) PROVE CountMove
  <2>1. halt(c) /\ pc[c] # "off"
    BY <1>7, Halting
  <2>2. core_states[c] # "None" \/ c = BSP
    BY <1>2, <2>1 DEF PanicInv, Launching
  <2> QED
    BY <1>1, <1>2, <2>1, <2>2 DEF halt
<1>8. ASSUME UNCHANGED panicSystem PROVE CountMove
  BY <1>1, <1>8 DEF panicSystem, vars
<1> HIDE DEF CountMove, Counted, AllCame
<1>9. CountMove
  BY <1>4, <1>5, <1>6, <1>7, <1>8, PanicSteps DEF BootStep
<1> QED
  BY <1>1, <1>9, CountersGoOn

(* A step that neither takes nor gives back the page table lock, nor frees its holder. *)
LockStays ==
  /\ page_table_lock' = page_table_lock
  /\ \A d \in Cores : apic_initialized[d] => apic_initialized'[d]
  /\ \A d \in Cores : pc[d] \in MapPoints \cup Stopped =>
       pc'[d] \in MapPoints \cup Stopped /\ apic_initialized'[d] = apic_initialized[d]

LEMMA LockLostKept ==
  ASSUME PanicInv, [PanicNext]_panicSystem
  PROVE  LockLost'
<1> USE DEF LockStays, PanicAt, PanicGoto, Goto, MapPoints, Stopped, StartPoints, LaunchPoints, OnlinePoints,
     BootloaderPoints, EarlyPoints, KernelStartPoints, RendezvousPoints, PassedReady, ArrivedReady, PassedOnline,
     countVars, onlineVars, localVars, blockVars, memVars, tlbVars, otherThanOnline, otherThanBoot, panicVars
<1>1. /\ pc \in [Cores -> Points \cup {"panic"}] /\ apic_initialized \in [Cores -> BOOLEAN]
  BY DEF PanicInv, PanicTypes, PanicTypeOK
<1>2. ASSUME LockStays PROVE LockLost'
  BY <1>2 DEF PanicInv, LockLost
<1>3. /\ BSP \in Cores /\ APs \subseteq Cores /\ BSP \notin APs /\ \A c \in Cores : c = BSP \/ c \in APs
  BY BootAssumption DEF APs
<1>4. ASSUME NEW c \in Cores, CoreStep(c) PROVE LockLost'
  <2>1. CASE EarlyMove(c)
    <3>1. PICK to \in StartPoints : pc[c] \in StartPoints /\ Quiet(c, to)
      BY <2>1 DEF EarlyMove
    <3>2. ~apic_initialized[c] /\ ~apic_initialized'[c] /\ pc'[c] = to
      BY <1>1, <3>1 DEF Quiet, PanicInv, Started
    <3>3. CASE page_table_lock' = page_table_lock /\ pc[c] \notin MapPoints
      <4>1. LockStays
        BY <1>1, <3>1, <3>3 DEF Quiet
      <4> QED
        BY <1>2, <4>1
    <3>4. CASE page_table_lock' = NoOne
      BY <3>4 DEF LockLost
    <3>5. CASE page_table_lock'.core = c /\ to \in MapPoints
      BY <3>2, <3>5 DEF LockLost
    <3> QED
      BY <3>1, <3>3, <3>4, <3>5 DEF Quiet
  <2>2. CASE LateMove(c)
    <3>1. PICK to : pc[c] \in PassedOnline /\ (to \in BspPoints => c = BSP) /\ Quiet(c, to)
      BY <2>2 DEF LateMove
    <3>2. (\A d \in Cores : apic_initialized[d]) /\ apic_initialized' = apic_initialized /\ pc'[c] = to
      BY <1>1, <3>1 DEF Quiet, PanicInv, Counts, AllCame
    <3>3. CASE page_table_lock' = page_table_lock /\ pc[c] \notin MapPoints
      <4>1. LockStays
        BY <1>1, <3>1, <3>3 DEF Quiet
      <4> QED
        BY <1>2, <4>1
    <3>4. CASE page_table_lock' = NoOne
      BY <3>4 DEF LockLost
    <3>5. CASE page_table_lock'.core = c /\ to \in MapPoints
      <4>1. pc[c] \in PassedOnline /\ pc'[c] \in MapPoints
        BY <3>1, <3>2, <3>5
      <4>2. c = BSP
        <5>1. to \in {"block_map", "vm_map"} => c = BSP
          BY <3>1 DEF BspPoints
        <5>2. ASSUME to \in {"stack_map", "locals_map", "heap_map"} PROVE FALSE
          BY <1>1, <2>2, <3>2, <5>2 DEF LateMove, Quiet
        <5> QED
          BY <3>5, <5>1, <5>2
      <4> QED
        BY <3>2, <3>5, <4>1, <4>2 DEF LockLost
    <3> QED
      BY <3>1, <3>3, <3>4, <3>5 DEF Quiet
  <2>3. CASE claim_core_id(c)
    BY <1>1, <1>2, <2>3 DEF claim_core_id
  <2>4. CASE interrupts_initialize(c)
    BY <1>1, <1>2, <2>4 DEF interrupts_initialize
  <2>5. CASE apic_initialize(c)
    <3>1. LockStays
      BY <1>1, <2>5 DEF apic_initialize
    <3> QED
      BY <1>2, <3>1
  <2>6. CASE processors_initialize(c)
    BY <1>1, <1>2, <2>6 DEF processors_initialize
  <2>7. CASE mark_launched(c)
    BY <1>1, <1>2, <1>3, <2>7, MarkingNext
  <2>8. CASE send_init_sipi_sipi(c)
    <3>1. PICK a \in APs : /\ core_states[a] = "Launched" /\ pc[a] = "off"
                           /\ pc' = [pc EXCEPT ![BSP] = "launch_wait", ![a] = "bootloader"]
      BY <2>8, SendingNext
    <3>2. pc[BSP] = "ipi" /\ UNCHANGED <<apic_initialized, page_table_lock>>
      BY <2>8, SendingNext
    <3>3. LockStays
      BY <1>1, <1>3, <3>1, <3>2
    <3> QED
      BY <1>2, <3>3
  <2>9. CASE await_launched(c)
    BY <1>1, <1>2, <2>9 DEF await_launched
  <2>10. CASE OnlineStep(c)
    <3>1. LockStays
      <4>1. CASE register_online(c)
        BY <1>1, <4>1 DEF register_online
      <4>2. CASE check_panicking(c)
        BY <1>1, <4>2 DEF check_panicking
      <4>3. CASE count_online(c) \/ await_online(c)
        BY <1>1, <4>3 DEF count_online, await_online
      <4> QED
        BY <2>10, <4>1, <4>2, <4>3 DEF OnlineStep
    <3> QED
      BY <1>2, <3>1
  <2>11. CASE UNCHANGED vars
    BY <1>1, <1>2, <2>11 DEF vars
  <2> QED
    BY <1>4, <2>1, <2>2, <2>3, <2>4, <2>5, <2>6, <2>7, <2>8, <2>9, <2>10, <2>11, BootMoves DEF LaunchStep
<1>5. ASSUME NEW c \in Cores, panic(c) \/ ReportStep(c) \/ stop_waiting(c) PROVE LockLost'
  <2>1. (pc' = [pc EXCEPT ![c] = "panic"] \/ UNCHANGED pc) /\ UNCHANGED <<page_table_lock, apic_initialized>>
    BY <1>5, Reporting DEF panic, stop_waiting
  <2> QED
    BY <1>1, <1>2, <2>1
<1>6. ASSUME NEW c \in Cores, HaltStep(c) PROVE LockLost'
  <2>1. pc' = [pc EXCEPT ![c] = "halted"] /\ UNCHANGED <<page_table_lock, apic_initialized>>
    BY <1>6, Halting DEF halt
  <2> QED
    BY <1>1, <1>2, <2>1
<1>7. CASE UNCHANGED panicSystem
  BY <1>1, <1>2, <1>7 DEF panicSystem, vars
<1> QED
  BY <1>4, <1>5, <1>6, <1>7, PanicSteps DEF BootStep

(* A step that gives nobody a core id, and brings nobody to a point that needs one. *)
SameCoreIds ==
  /\ core_id' = core_id /\ NEXT_FREE_CORE_ID' = NEXT_FREE_CORE_ID
  /\ \A d \in Cores :
       /\ pc'[d] \in NoIdPoints => pc[d] \in NoIdPoints
       /\ pc'[d] \notin NoIdPoints \cup Stopped => pc[d] \notin NoIdPoints \cup Stopped
       /\ apic_initialized'[d] => apic_initialized[d] \/ pc[d] = "apic"
       /\ panicked_with'[d] \in {"locals", "locals_and_apic"} =>
            panicked_with[d] \in {"locals", "locals_and_apic"} \/ pc[d] \notin NoIdPoints \cup Stopped

LEMMA CoreIdsKept ==
  ASSUME PanicInv, [PanicNext]_panicSystem
  PROVE  CoreIds'
<1> USE DEF SameCoreIds, PanicAt, PanicGoto, Goto, NoIdPoints, Stopped, StartPoints, LaunchPoints, OnlinePoints,
     BootloaderPoints, EarlyPoints, KernelStartPoints, RendezvousPoints, PassedReady, ArrivedReady, PassedOnline,
     countVars, onlineVars, localVars, blockVars, memVars, tlbVars, otherThanOnline, otherThanBoot, panicVars
<1>1. /\ pc \in [Cores -> Points \cup {"panic"}] /\ apic_initialized \in [Cores -> BOOLEAN] /\ CoreIds
      /\ panicked_with \in [Cores -> {NotPanicked, "nothing", "locals", "locals_and_apic"}]
  BY DEF PanicInv, PanicTypes, PanicTypeOK
<1>2. ASSUME SameCoreIds PROVE CoreIds'
  BY <1>1, <1>2 DEF CoreIds
<1>3. /\ BSP \in Cores /\ APs \subseteq Cores /\ BSP \notin APs /\ \A c \in Cores : c = BSP \/ c \in APs
  BY BootAssumption DEF APs
<1>4. ASSUME NEW c \in Cores, CoreStep(c), UNCHANGED panicVars PROVE CoreIds'
  <2>1. CASE EarlyMove(c)
    BY <1>1, <1>2, <1>4, <2>1 DEF EarlyMove, Quiet
  <2>2. CASE LateMove(c)
    BY <1>1, <1>2, <1>4, <2>2 DEF LateMove, Quiet
  <2>3. CASE claim_core_id(c)
    <3>1. c \in APs => NEXT_FREE_CORE_ID > 0
      <4>1. c \in APs => core_states[c] = "Launched"
        BY <2>3 DEF claim_core_id, PanicInv, Launching
      <4>2. c \in APs => apic_initialized[BSP]
        BY <4>1 DEF PanicInv, Launching
      <4> QED
        BY <1>1, <1>3, <4>2 DEF CoreIds
    <3>2. core_id[c] = NoCore /\ NEXT_FREE_CORE_ID \in Nat /\ (c = BSP => NEXT_FREE_CORE_ID = 0)
      BY <1>1, <2>3 DEF CoreIds, claim_core_id
    <3>3. /\ core_id' = [core_id EXCEPT ![c] = NEXT_FREE_CORE_ID] /\ NEXT_FREE_CORE_ID' = NEXT_FREE_CORE_ID + 1
          /\ pc'[c] = "locals_lock" /\ (\A d \in Cores \ {c} : pc'[d] = pc[d])
          /\ UNCHANGED <<apic_initialized, panicked_with>>
      BY <1>1, <1>4, <2>3 DEF claim_core_id
    <3>4. core_id'[c] \in Nat /\ core_id'[c] # NoCore /\ (core_id'[c] = 0 <=> c = BSP)
      BY <1>1, <1>3, <3>1, <3>2, <3>3 DEF CoreIds, NoCore
    <3>5. IF core_id'[BSP] = NoCore THEN NEXT_FREE_CORE_ID' = 0 ELSE NEXT_FREE_CORE_ID' > 0
      BY <1>1, <1>3, <3>1, <3>2, <3>3, <3>4 DEF CoreIds
    <3>6. core_id' \in [Cores -> Int] /\ NEXT_FREE_CORE_ID' \in Nat /\ \A d \in Cores \ {c} : core_id'[d] = core_id[d]
      BY <1>1, <3>2, <3>3 DEF CoreIds
    <3> QED
      BY <1>1, <3>3, <3>4, <3>5, <3>6 DEF CoreIds
  <2>4. CASE interrupts_initialize(c)
    BY <1>1, <1>2, <1>4, <2>4 DEF interrupts_initialize
  <2>5. CASE apic_initialize(c)
    <3>1. SameCoreIds
      BY <1>1, <1>4, <2>5 DEF apic_initialize
    <3> QED
      BY <1>2, <3>1
  <2>6. CASE processors_initialize(c)
    BY <1>1, <1>2, <1>4, <2>6 DEF processors_initialize
  <2>7. CASE mark_launched(c)
    BY <1>1, <1>2, <1>3, <1>4, <2>7, MarkingNext
  <2>8. CASE send_init_sipi_sipi(c)
    <3>1. PICK a \in APs : /\ core_states[a] = "Launched" /\ pc[a] = "off"
                           /\ pc' = [pc EXCEPT ![BSP] = "launch_wait", ![a] = "bootloader"]
      BY <2>8, SendingNext
    <3>2. pc[BSP] = "ipi" /\ UNCHANGED <<apic_initialized, core_id, NEXT_FREE_CORE_ID>>
      BY <2>8, SendingNext
    <3>3. SameCoreIds
      BY <1>1, <1>3, <1>4, <3>1, <3>2
    <3> QED
      BY <1>2, <3>3
  <2>9. CASE await_launched(c)
    BY <1>1, <1>2, <1>4, <2>9 DEF await_launched
  <2>10. CASE OnlineStep(c)
    <3>1. SameCoreIds
      <4>1. CASE register_online(c)
        BY <1>1, <1>4, <4>1 DEF register_online
      <4>2. CASE check_panicking(c)
        BY <1>1, <1>4, <4>2 DEF check_panicking
      <4>3. CASE count_online(c) \/ await_online(c)
        BY <1>1, <1>4, <4>3 DEF count_online, await_online
      <4> QED
        BY <2>10, <4>1, <4>2, <4>3 DEF OnlineStep
    <3> QED
      BY <1>2, <3>1
  <2>11. CASE UNCHANGED vars
    BY <1>1, <1>2, <1>4, <2>11 DEF vars
  <2> QED
    BY <1>4, <2>1, <2>2, <2>3, <2>4, <2>5, <2>6, <2>7, <2>8, <2>9, <2>10, <2>11, BootMoves DEF LaunchStep
<1>5. ASSUME NEW c \in Cores, panic(c) PROVE CoreIds'
  <2>1. /\ pc' = [pc EXCEPT ![c] = "panic"] /\ UNCHANGED <<apic_initialized, core_id, NEXT_FREE_CORE_ID>>
        /\ pc[c] \in KernelPoints \/ pc[c] = "panic"
    BY <1>5 DEF panic
  <2>2. /\ \A d \in Cores \ {c} : panicked_with'[d] = panicked_with[d]
        /\ panicked_with'[c] = panicked_with[c] \/ (panicked_with[c] = NotPanicked /\ (pc[c] \notin EarlyPoints \/ panicked_with'[c] = "nothing"))
    BY <1>1, <1>5 DEF panic
  <2>3. pc[c] = "panic" => panicked_with[c] # NotPanicked
    BY DEF PanicInv, Reports
  <2>4. SameCoreIds
    BY <1>1, <2>1, <2>2, <2>3 DEF KernelPoints
  <2> QED
    BY <1>2, <2>4
<1>6. ASSUME NEW c \in Cores, ReportStep(c) \/ stop_waiting(c) PROVE CoreIds'
  <2>1. UNCHANGED <<pc, apic_initialized, core_id, NEXT_FREE_CORE_ID, panicked_with>>
    BY <1>6, Reporting DEF stop_waiting
  <2> QED
    BY <1>1, <1>2, <2>1
<1>7. ASSUME NEW c \in Cores, HaltStep(c) PROVE CoreIds'
  <2>1. pc' = [pc EXCEPT ![c] = "halted"] /\ UNCHANGED <<apic_initialized, core_id, NEXT_FREE_CORE_ID, panicked_with>>
    BY <1>7, Halting DEF halt
  <2> QED
    BY <1>1, <1>2, <2>1
<1>8. CASE UNCHANGED panicSystem
  BY <1>1, <1>2, <1>8 DEF panicSystem, vars
<1> QED
  BY <1>4, <1>5, <1>6, <1>7, <1>8, PanicSteps DEF BootStep

(* A step of a core that has not panicked. *)
NoReport ==
  /\ UNCHANGED <<panicVars, is_panicking>>
  /\ \A d \in Cores :
       /\ pc'[d] = "panic" => pc[d] = "panic"
       /\ pc[d] \in Stopped => /\ pc'[d] = pc[d] /\ core_states'[d] = core_states[d]
                               /\ apic_initialized'[d] = apic_initialized[d] /\ core_id'[d] = core_id[d]
       /\ core_states'[d] = "Halted" => core_states[d] = "Halted" \/ is_panicking

LEMMA BootReportsNothing ==
  ASSUME PanicInv, NEW c \in Cores, CoreStep(c), UNCHANGED panicVars
  PROVE  NoReport
<1> USE DEF NoReport, Goto, Stopped, StartPoints, LaunchPoints, OnlinePoints, BootloaderPoints, EarlyPoints,
     KernelStartPoints, RendezvousPoints, PassedReady, ArrivedReady, PassedOnline, countVars, onlineVars, localVars,
     blockVars, memVars, tlbVars, otherThanOnline, panicVars
<1>1. /\ pc \in [Cores -> Points \cup {"panic"}] /\ apic_initialized \in [Cores -> BOOLEAN]
      /\ core_states \in [Cores -> CoreStates] /\ core_id \in [Cores -> Int]
  BY DEF PanicInv, PanicTypes, PanicTypeOK, CoreIds
<1>2. /\ BSP \in Cores /\ APs \subseteq Cores /\ BSP \notin APs /\ \A d \in Cores : d = BSP \/ d \in APs
  BY BootAssumption DEF APs
<1>3. CASE EarlyMove(c)
  BY <1>1, <1>3 DEF EarlyMove, Quiet
<1>4. CASE LateMove(c)
  BY <1>1, <1>4 DEF LateMove, Quiet
<1>5. CASE claim_core_id(c)
  BY <1>1, <1>5 DEF claim_core_id
<1>6. CASE interrupts_initialize(c)
  BY <1>1, <1>6 DEF interrupts_initialize
<1>7. CASE apic_initialize(c)
  BY <1>1, <1>7 DEF apic_initialize
<1>8. CASE processors_initialize(c)
  BY <1>1, <1>8 DEF processors_initialize
<1>9. CASE mark_launched(c)
  <2>1. pc[BSP] = "launch" /\ UNCHANGED <<is_panicking, apic_initialized, core_id>>
    BY <1>9, MarkingNext
  <2>2. CASE pc' = [pc EXCEPT ![BSP] = "notify"] /\ UNCHANGED core_states
    BY <1>1, <2>1, <2>2
  <2>3. ASSUME NEW m \in APs, core_states[m] = "None", pc' = [pc EXCEPT ![BSP] = "ipi"],
               core_states' = [core_states EXCEPT ![m] = "Launched"]
        PROVE  NoReport
    <3>1. pc[m] = "off"
      BY <2>3 DEF PanicInv, Launching
    <3> QED
      BY <1>1, <1>2, <2>1, <2>3, <3>1
  <2> QED
    BY <1>9, <2>2, <2>3, MarkingNext
<1>10. CASE send_init_sipi_sipi(c)
  <2>1. PICK a \in APs : /\ core_states[a] = "Launched" /\ pc[a] = "off"
                         /\ pc' = [pc EXCEPT ![BSP] = "launch_wait", ![a] = "bootloader"]
    BY <1>10, SendingNext
  <2>2. pc[BSP] = "ipi" /\ UNCHANGED <<core_states, apic_initialized, is_panicking, core_id>>
    BY <1>10, SendingNext
  <2> QED
    BY <1>1, <1>2, <2>1, <2>2
<1>11. CASE await_launched(c)
  BY <1>1, <1>11 DEF await_launched
<1>12. CASE OnlineStep(c)
  <2>1. CASE register_online(c)
    BY <1>1, <2>1 DEF register_online
  <2>2. CASE check_panicking(c)
    BY <1>1, <2>2 DEF check_panicking
  <2>3. CASE count_online(c) \/ await_online(c)
    BY <1>1, <2>3 DEF count_online, await_online
  <2> QED
    BY <1>12, <2>1, <2>2, <2>3 DEF OnlineStep
<1>13. CASE UNCHANGED vars
  BY <1>1, <1>13 DEF vars
<1> QED
  BY <1>3, <1>4, <1>5, <1>6, <1>7, <1>8, <1>9, <1>10, <1>11, <1>12, <1>13, BootMoves DEF LaunchStep

LEMMA ReportsKept ==
  ASSUME PanicInv, [PanicNext]_panicSystem
  PROVE  Reports'
<1> USE DEF PanicAt, PanicGoto, Goto, Stopped, StartPoints, LaunchPoints, OnlinePoints, has_core_locals, NotPanicked,
     BootloaderPoints, EarlyPoints, KernelStartPoints, RendezvousPoints, PassedReady, ArrivedReady, PassedOnline,
     countVars, onlineVars, localVars, blockVars, memVars, tlbVars, otherThanOnline, otherThanBoot, panicVars
<1>1. /\ pc \in [Cores -> Points \cup {"panic"}] /\ apic_initialized \in [Cores -> BOOLEAN] /\ Reports
      /\ core_states \in [Cores -> CoreStates] /\ is_panicking \in BOOLEAN
      /\ panicked_with \in [Cores -> {NotPanicked, "nothing", "locals", "locals_and_apic"}]
      /\ panic_pc \in [Cores -> PanicPoints]
  BY DEF PanicInv, PanicTypes, PanicTypeOK
<1>2. ASSUME NoReport PROVE Reports'
  BY <1>1, <1>2 DEF NoReport, Reports, Wins
<1>3. /\ BSP \in Cores /\ APs \subseteq Cores /\ BSP \notin APs /\ \A c \in Cores : c = BSP \/ c \in APs
  BY BootAssumption DEF APs
<1>4. ASSUME NEW c \in Cores, CoreStep(c), UNCHANGED panicVars PROVE NoReport
  BY <1>4, BootReportsNothing
<1>5. ASSUME NEW c \in Cores, panic(c) PROVE Reports'
  <2>1. pc[c] \in EarlyPoints => ~apic_initialized[c]
    BY DEF PanicInv, Started
  <2> QED
    BY <1>1, <1>5, <2>1 DEF panic, Reports, Wins
<1>6. ASSUME NEW c \in Cores, ReportStep(c) PROVE Reports'
  <2>1. UNCHANGED <<pc, core_states, apic_initialized, panicked_with>>
    BY <1>6, Reporting
  <2>2. CASE begin_panic(c)
    <3>1. /\ pc[c] = "panic" /\ \A d \in Cores \ {c} : panic_pc'[d] = panic_pc[d]
          /\ panic_pc'[c] = IF ~(has_core_locals(c) /\ apic_initialized[c]) THEN "acquire"
                            ELSE IF is_panicking THEN "halt" ELSE "scan"
          /\ is_panicking' = (is_panicking \/ (has_core_locals(c) /\ apic_initialized[c]))
      BY <1>1, <2>2 DEF begin_panic
    <3>2. apic_initialized[c] => has_core_locals(c)
      BY <1>1 DEF Reports
    <3>3. CASE ~apic_initialized[c]
      BY <1>1, <2>1, <3>1, <3>3 DEF Reports, Wins
    <3>4. CASE apic_initialized[c] /\ is_panicking
      BY <1>1, <2>1, <3>1, <3>2, <3>4 DEF Reports, Wins
    <3>5. CASE apic_initialized[c] /\ ~is_panicking
      <4>1. \A d \in Cores : ~Wins(d) /\ core_states[d] # "Halted"
        BY <1>1, <3>5 DEF Reports
      <4> QED
        BY <1>1, <2>1, <3>1, <3>2, <3>5, <4>1 DEF Reports, Wins
    <3> QED
      BY <3>3, <3>4, <3>5
  <2>3. CASE skip_core(c) \/ send_nmi(c) \/ finish_scan(c) \/ acquire_writer(c)
    <3>1. /\ UNCHANGED is_panicking /\ \A d \in Cores \ {c} : panic_pc'[d] = panic_pc[d]
          /\ panic_pc[c] \in {"scan", "nmi_wait", "acquire", "writing"}
          /\ panic_pc'[c] \in {"scan", "nmi_wait", "acquire", "writing"}
          /\ pc[c] = "panic" /\ (panic_pc'[c] \in {"scan", "nmi_wait"} => panic_pc[c] \in {"scan", "nmi_wait"})
      BY <1>1, <2>3 DEF skip_core, send_nmi, finish_scan, acquire_writer
    <3> QED
      BY <1>1, <2>1, <3>1 DEF Reports, Wins
  <2>4. CASE drop_writer(c)
    <3>1. pc[c] = "panic" /\ panic_pc[c] = "writing" /\ UNCHANGED is_panicking /\ panic_pc' = [panic_pc EXCEPT ![c] = "halt"]
      BY <2>4 DEF drop_writer
    <3> QED
      BY <1>1, <2>1, <3>1 DEF Reports, Wins
  <2> QED
    BY <1>6, <2>2, <2>3, <2>4 DEF ReportStep
<1>7. ASSUME NEW c \in Cores, stop_waiting(c) PROVE Reports'
  <2>1. /\ PanicAt(c, "nmi_wait") /\ core_states' = [core_states EXCEPT ![nmi_target[c]] = "Halted"]
        /\ panic_pc' = [panic_pc EXCEPT ![c] = "scan"] /\ UNCHANGED <<pc, is_panicking, panicked_with, apic_initialized>>
    BY <1>7 DEF stop_waiting
  <2>2. nmi_target[c] \in Cores \ {c}
    <3>1. nmi_target[c] \in Cores /\ nmi_target[c] \in (Cores \ {c}) \cup {NoCore}
      BY <2>1 DEF PanicInv, Started, PanicTypes, PanicTypeOK
    <3> QED
      BY <3>1, BootAssumption DEF NoCore
  <2>3. Wins(c) /\ is_panicking
    BY <1>1, <2>1 DEF Reports, Wins
  <2>4. \A d \in Cores : Wins(d)' => Wins(d) /\ d = c
    BY <1>1, <2>1, <2>3 DEF Reports, Wins
  <2>5. core_states'[c] = core_states[c] /\ core_states[c] # "Halted"
    BY <1>1, <2>1, <2>2, <2>3 DEF Reports
  <2> QED
    BY <1>1, <2>1, <2>3, <2>4, <2>5 DEF Reports
<1>8. ASSUME NEW c \in Cores, HaltStep(c) PROVE Reports'
  <2>1. halt(c) /\ (apic_initialized[c] => is_panicking)
    BY <1>8, Halting
  <2> QED
    BY <1>1, <2>1 DEF halt, Reports, Wins
<1>9. CASE UNCHANGED panicSystem
  BY <1>1, <1>2, <1>9 DEF panicSystem, vars, NoReport
<1> QED
  BY <1>2, <1>4, <1>5, <1>6, <1>7, <1>8, <1>9, PanicSteps DEF BootStep

LEMMA PanicTypesKept ==
  ASSUME PanicInv, [PanicNext]_panicSystem
  PROVE  PanicTypes'
<1> USE DEF PanicAt, PanicGoto, Goto, Points, CoreStates, PanicPoints, StartPoints, BootloaderPoints, EarlyPoints,
     KernelStartPoints, RendezvousPoints, BspPoints, PassedReady, ArrivedReady, PassedOnline, FailurePoints, countVars,
     onlineVars, localVars, blockVars, memVars, tlbVars, otherThanOnline, otherThanBoot, panicVars
<1>1. PanicTypes /\ PanicTypeOK
  BY DEF PanicInv, PanicTypes
<1>2. /\ BSP \in Cores /\ APs \subseteq Cores /\ BSP \notin APs /\ \A c \in Cores : c = BSP \/ c \in APs
  BY BootAssumption DEF APs
<1>3. ASSUME NEW c \in Cores, CoreStep(c), UNCHANGED panicVars PROVE PanicTypes'
  <2>1. ASSUME pc' \in [Cores -> Points \cup {"panic"}], core_states' \in [Cores -> CoreStates],
               apic_initialized' \in [Cores -> BOOLEAN], idt_loaded' \in [Cores -> BOOLEAN],
               is_panicking' = is_panicking, CORES_ONLINE' \in Nat
        PROVE  PanicTypes'
    BY <1>1, <1>3, <2>1 DEF PanicTypes, PanicTypeOK
  <2>2. /\ pc \in [Cores -> Points \cup {"panic"}] /\ core_states \in [Cores -> CoreStates]
        /\ apic_initialized \in [Cores -> BOOLEAN] /\ idt_loaded \in [Cores -> BOOLEAN] /\ CORES_ONLINE \in Nat
    BY <1>1 DEF PanicTypes, PanicTypeOK
  <2>3. CASE EarlyMove(c)
    BY <2>1, <2>2, <2>3 DEF EarlyMove, Quiet
  <2>4. CASE LateMove(c)
    BY <2>1, <2>2, <2>4 DEF LateMove, Quiet
  <2>5. CASE claim_core_id(c)
    BY <2>1, <2>2, <2>5 DEF claim_core_id
  <2>6. CASE interrupts_initialize(c)
    BY <2>1, <2>2, <2>6 DEF interrupts_initialize
  <2>7. CASE apic_initialize(c)
    BY <2>1, <2>2, <2>7 DEF apic_initialize
  <2>8. CASE processors_initialize(c)
    BY <2>1, <2>2, <2>8 DEF processors_initialize
  <2>9. CASE mark_launched(c)
    BY <1>2, <2>1, <2>2, <2>9, MarkingNext
  <2>10. CASE send_init_sipi_sipi(c)
    BY <1>2, <2>1, <2>2, <2>10, SendingNext
  <2>11. CASE await_launched(c)
    BY <2>1, <2>2, <2>11 DEF await_launched
  <2>12. CASE register_online(c)
    BY <2>1, <2>2, <2>12 DEF register_online
  <2>13. CASE check_panicking(c)
    BY <2>1, <2>2, <2>13 DEF check_panicking
  <2>14. CASE count_online(c) \/ await_online(c)
    BY <2>1, <2>2, <2>14 DEF count_online, await_online
  <2>15. CASE UNCHANGED vars
    BY <2>1, <2>2, <2>15 DEF vars
  <2> QED
    BY <1>3, <2>3, <2>4, <2>5, <2>6, <2>7, <2>8, <2>9, <2>10, <2>11, <2>12, <2>13, <2>14, <2>15, BootMoves
    DEF LaunchStep, OnlineStep
<1>4. ASSUME NEW c \in Cores, panic(c) PROVE PanicTypes'
  <2>1. panics' \in 0 .. MaxPanics
    BY <1>1, <1>4, PanicAssumption DEF panic, PanicTypeOK
  <2>2. panicked_with' \in [Cores -> {NotPanicked, "nothing", "locals", "locals_and_apic"}]
    BY <1>1, <1>4 DEF panic, PanicTypeOK
  <2> QED
    BY <1>1, <1>4, <2>1, <2>2 DEF panic, PanicTypes, PanicTypeOK
<1>5. ASSUME NEW c \in Cores, ReportStep(c) PROVE PanicTypes'
  <2>1. UNCHANGED <<pc, core_states, panicked_with, panics, apic_initialized, idt_loaded, CORES_ONLINE>>
    BY <1>5, Reporting
  <2>2. ASSUME panic_pc' \in [Cores -> PanicPoints], nmi_pending' \in [Cores -> BOOLEAN], is_panicking' \in BOOLEAN,
               nmi_target' \in [Cores -> Int], \A d \in Cores : nmi_target'[d] \in (Cores \ {d}) \cup {NoCore},
               EMERGENCY_WRITING_CORE' \in Nat \cup {CORE_UNLOCKED, CORE_UNKNOWN}
        PROVE  PanicTypes'
    BY <1>1, <2>1, <2>2 DEF PanicTypes, PanicTypeOK
  <2>3. /\ panic_pc \in [Cores -> PanicPoints] /\ nmi_pending \in [Cores -> BOOLEAN] /\ is_panicking \in BOOLEAN
        /\ nmi_target \in [Cores -> Int] /\ \A d \in Cores : nmi_target[d] \in (Cores \ {d}) \cup {NoCore}
        /\ EMERGENCY_WRITING_CORE \in Nat \cup {CORE_UNLOCKED, CORE_UNKNOWN}
    BY <1>1 DEF PanicTypes, PanicTypeOK
  <2>4. CASE begin_panic(c)
    <3>1. /\ panic_pc' \in [Cores -> PanicPoints] /\ is_panicking' \in BOOLEAN
          /\ UNCHANGED <<nmi_pending, nmi_target, EMERGENCY_WRITING_CORE>>
      BY <1>1, <2>3, <2>4 DEF begin_panic, has_core_locals, PanicTypes
    <3> QED
      BY <2>2, <2>3, <3>1
  <2>5. CASE skip_core(c) \/ send_nmi(c)
    <3>1. Min(Remaining(c)) \in Cores \ {c} /\ Min(Remaining(c)) \in Nat
      <4>1. Remaining(c) \in SUBSET Nat
        BY BootAssumption DEF Remaining
      <4> QED
        BY <2>5, <4>1, Lowest DEF skip_core, send_nmi, Remaining
    <3>2. nmi_target' = [nmi_target EXCEPT ![c] = Min(Remaining(c))]
      BY <2>5 DEF skip_core, send_nmi
    <3> HIDE DEF Remaining
    <3>3. nmi_target' \in [Cores -> Int] /\ \A d \in Cores : nmi_target'[d] \in (Cores \ {d}) \cup {NoCore}
      BY <2>3, <3>1, <3>2
    <3>4. /\ panic_pc' \in [Cores -> PanicPoints] /\ nmi_pending' \in [Cores -> BOOLEAN]
          /\ UNCHANGED <<is_panicking, EMERGENCY_WRITING_CORE>>
      BY <2>3, <2>5, <3>1 DEF skip_core, send_nmi
    <3> QED
      BY <2>2, <2>3, <3>3, <3>4
  <2>6. CASE finish_scan(c) \/ drop_writer(c)
    BY <2>2, <2>3, <2>6 DEF finish_scan, drop_writer
  <2>7. CASE acquire_writer(c)
    <3>1. emergency_id(c) \in Nat \cup {CORE_UNLOCKED, CORE_UNKNOWN}
      <4>1. pc[c] = "panic"
        BY <2>7 DEF acquire_writer
      <4>2. panicked_with[c] # NotPanicked
        BY <4>1 DEF PanicInv, Reports
      <4>3. has_core_locals(c) => panicked_with[c] \in {"locals", "locals_and_apic"}
        BY <1>1, <4>2 DEF PanicTypeOK, has_core_locals
      <4>4. has_core_locals(c) => core_id[c] \in Nat
        BY <4>3 DEF PanicInv, CoreIds
      <4> QED
        BY <4>4, BootAssumption DEF emergency_id
    <3> QED
      BY <2>2, <2>3, <2>7, <3>1 DEF acquire_writer
  <2> QED
    BY <1>5, <2>4, <2>5, <2>6, <2>7 DEF ReportStep
<1>6. ASSUME NEW c \in Cores, stop_waiting(c) PROVE PanicTypes'
  BY <1>1, <1>6 DEF stop_waiting, PanicTypes, PanicTypeOK
<1>7. ASSUME NEW c \in Cores, HaltStep(c) PROVE PanicTypes'
  <2>1. halt(c) /\ nmi_pending' \in [Cores -> BOOLEAN]
    BY <1>1, <1>7, Halting DEF HaltStep, halt_after_panic, handle_nmi, PanicTypeOK
  <2> QED
    BY <1>1, <2>1 DEF halt, PanicTypes, PanicTypeOK
<1>8. CASE UNCHANGED panicSystem
  BY <1>1, <1>8 DEF panicSystem, vars, PanicTypes, PanicTypeOK
<1> QED
  BY <1>3, <1>4, <1>5, <1>6, <1>7, <1>8, PanicSteps DEF BootStep

-----------------------------------------------------------------------------
LEMMA PanicInvInit == PanicInit => PanicInv
<1> SUFFICES ASSUME PanicInit PROVE PanicInv
  OBVIOUS
<1> USE DEF Points, CoreStates, PanicPoints, StartPoints, BootloaderPoints, EarlyPoints, KernelStartPoints,
     RendezvousPoints, BspPoints, PassedReady, ArrivedReady, PassedOnline, FailurePoints, UpPoints, OnlinePoints,
     LaunchPoints, UncountedPoints, Stopped, NoIdPoints, PanicAt, NoCore, NotPanicked
<1>1. /\ \A c \in Cores : pc[c] = (IF c = BSP THEN "stack_lock" ELSE "off") /\ core_states[c] = "None"
      /\ \A c \in Cores : /\ apic_initialized[c] = FALSE /\ idt_loaded[c] = FALSE /\ core_id[c] = NoCore
                          /\ panic_pc[c] = NotPanicked /\ panicked_with[c] = NotPanicked /\ nmi_pending[c] = FALSE
                          /\ nmi_target[c] = NoCore
      /\ TOTAL_CORES = 0 /\ CORES_ONLINE = 0 /\ NEXT_FREE_CORE_ID = 0 /\ page_table_lock = NoOne
      /\ BSP \in Cores /\ APs \subseteq Cores /\ BSP \notin APs
  BY BootAssumption DEF PanicInit, Init, APs
<1>2. PanicTypes
  <2>1. /\ pc \in [Cores -> Points \cup {"panic"}] /\ core_states \in [Cores -> CoreStates]
        /\ apic_initialized \in [Cores -> BOOLEAN] /\ idt_loaded \in [Cores -> BOOLEAN]
        /\ is_panicking \in BOOLEAN /\ CORES_ONLINE \in Nat
    BY DEF PanicInit, Init
  <2>2. /\ panic_pc \in [Cores -> PanicPoints] /\ panics \in 0 .. MaxPanics
        /\ panicked_with \in [Cores -> {NotPanicked, "nothing", "locals", "locals_and_apic"}]
        /\ nmi_target \in [Cores -> Int] /\ nmi_pending \in [Cores -> BOOLEAN]
        /\ EMERGENCY_WRITING_CORE \in Nat \cup {CORE_UNLOCKED, CORE_UNKNOWN}
    BY PanicAssumption DEF PanicInit
  <2> QED
    BY <1>1, <2>1, <2>2 DEF PanicTypes, PanicTypeOK
<1>3. Where /\ Started /\ Launching
  BY <1>1 DEF Where, Started, Launching
<1>4. Counts
  <2>1. IsFiniteSet(Counted)
    BY BootAssumption, FS_Subset DEF Counted
  <2>2. Cardinality(Counted) \in Nat
    BY <2>1, FS_CardinalityType
  <2> QED
    BY <1>1, <2>2 DEF Counts, AllCame
<1>5. LockLost
  BY <1>1 DEF LockLost
<1>6. CoreIds
  <2>1. core_id \in [Cores -> Int]
    BY DEF PanicInit, Init
  <2> QED
    BY <1>1, <2>1 DEF CoreIds
<1>7. Reports
  BY <1>1 DEF Reports, Wins
<1> QED
  BY <1>2, <1>3, <1>4, <1>5, <1>6, <1>7 DEF PanicInv

LEMMA PanicInvStep == PanicInv /\ [PanicNext]_panicSystem => PanicInv'
  BY PanicTypesKept, WhereKept, StartedKept, LaunchingKept, CountsKept, LockLostKept, CoreIdsKept, ReportsKept
  DEF PanicInv

(* Where the cores are and what they have told each other, in every state   *)
(* of a start-up that panics may hit.                                       *)
THEOREM PanicInvHolds == PanicSpec => []PanicInv
<1>1. PanicInit => PanicInv
  BY PanicInvInit
<1>2. PanicInv /\ [PanicNext]_panicSystem => PanicInv'
  BY PanicInvStep
<1> QED
  BY <1>1, <1>2, PTL DEF PanicSpec

(* No NMI is pending on a core that has no IDT (start_panic sends them to   *)
(* cores whose state is Online, which notify_core_online sets after        *)
(* interrupts::initialize), and none is sent to the sender itself.          *)
THEOREM NmiIsHandled == PanicSpec => []NmiFindsHandler
<1>1. PanicInv => NmiFindsHandler
  BY DEF PanicInv, PanicTypes, Started, NmiFindsHandler
<1> QED
  BY <1>1, PanicInvHolds, PTL

(* A core that panicked before it had core locals or an APIC, and so cannot *)
(* send NMIs (begin_panic), is the only one that runs: every other core is   *)
(* off, waits for it, waits at the rendezvous, or has panicked or halted.    *)
THEOREM EarlyPanicIsAlone == PanicSpec => []EarlyPanicFindsOthersWaiting
<1>1. PanicInv => EarlyPanicFindsOthersWaiting
  <2> SUFFICES ASSUME PanicInv, NEW c \in Cores, panicked_with[c] \in {"nothing", "locals"}, NEW d \in Cores \ {c}
               PROVE  pc[d] \in {"off", "launch_wait", "panic", "halted"} \cup RendezvousPoints
    BY DEF EarlyPanicFindsOthersWaiting
  <2>1. /\ BSP \in Cores /\ APs \subseteq Cores /\ BSP \notin APs /\ \A a \in Cores : a = BSP \/ a \in APs
    BY BootAssumption DEF APs
  <2>2. ~apic_initialized[c] /\ pc[c] \in Stopped
    BY DEF PanicInv, Reports
  <2>3. ~AllCame(d)
    BY <2>2 DEF PanicInv, Counts
  <2>4. CASE c = BSP
    <3>1. d \in APs /\ core_states[d] = "None"
      BY <2>1, <2>2, <2>4 DEF PanicInv, Launching
    <3> QED
      BY <3>1 DEF PanicInv, Launching
  <2>5. CASE c \in APs
    <3>1. core_states[c] = "Launched"
      BY <2>2, <2>5 DEF PanicInv, Launching, Stopped
    <3>2. CASE d = BSP
      <4>1. pc[BSP] \in {"ipi", "launch_wait"} \cup Stopped
        BY <2>5, <3>1 DEF PanicInv, Launching
      <4>2. ASSUME pc[BSP] = "ipi" PROVE FALSE
        <5>1. PICK a \in APs : core_states[a] = "Launched" /\ pc[a] = "off"
          BY <4>2 DEF PanicInv, Launching
        <5>2. a = c
          BY <2>5, <3>1, <5>1 DEF PanicInv, Launching
        <5> QED
          BY <2>2, <5>1, <5>2 DEF Stopped
      <4> QED
        BY <3>2, <4>1, <4>2 DEF Stopped
    <3>3. CASE d \in APs
      <4>1. core_states[d] # "Launched"
        BY <2>5, <3>1, <3>3 DEF PanicInv, Launching
      <4>2. pc[d] \notin StartPoints \cup {"notify"}
        BY <3>3, <4>1 DEF PanicInv, Launching
      <4>3. pc[d] \notin BspPoints \cup {"deadlock"}
        BY <2>1, <3>3 DEF PanicInv, Where
      <4>4. pc[d] \notin PassedOnline \cup {"assert_failed"}
        BY <2>3, <3>3 DEF AllCame
      <4>5. pc[d] \in Points \cup {"panic"}
        BY DEF PanicInv, PanicTypes, PanicTypeOK
      <4> QED
        BY <4>2, <4>3, <4>4, <4>5 DEF Points, StartPoints, FailurePoints
    <3> QED
      BY <2>1, <3>2, <3>3
  <2> QED
    BY <2>1, <2>4, <2>5
<1> QED
  BY <1>1, PanicInvHolds, PTL

-----------------------------------------------------------------------------
(* With consecutive APIC ids the cores claim theirs in the order in which they are launched. *)
LEMMA OnlyClaimsCount ==
  ASSUME PanicInv, [PanicNext]_panicSystem
  PROVE  (core_id' = core_id /\ NEXT_FREE_CORE_ID' = NEXT_FREE_CORE_ID) \/ \E c \in Cores : claim_core_id(c)
<1> USE DEF countVars, otherThanOnline, otherThanBoot
<1>1. ASSUME NEW c \in Cores, CoreStep(c), ~claim_core_id(c)
      PROVE  core_id' = core_id /\ NEXT_FREE_CORE_ID' = NEXT_FREE_CORE_ID
  <2>1. CASE EarlyMove(c) \/ LateMove(c)
    BY <2>1 DEF EarlyMove, LateMove, Quiet
  <2>2. CASE interrupts_initialize(c) \/ apic_initialize(c) \/ UNCHANGED vars
    BY <2>2 DEF interrupts_initialize, apic_initialize, vars
  <2>3. CASE LaunchStep(c)
    BY <2>3 DEF LaunchStep, processors_initialize, mark_launched, send_init_sipi_sipi, await_launched
  <2>4. CASE OnlineStep(c)
    BY <2>4 DEF OnlineStep, register_online, check_panicking, count_online, await_online
  <2> QED
    BY <1>1, <2>1, <2>2, <2>3, <2>4, BootMoves
<1>2. ASSUME NEW c \in Cores, panic(c) \/ ReportStep(c) \/ stop_waiting(c) \/ HaltStep(c)
      PROVE  core_id' = core_id /\ NEXT_FREE_CORE_ID' = NEXT_FREE_CORE_ID
  BY <1>2, Reporting, Halting DEF panic, stop_waiting, halt
<1>3. CASE UNCHANGED panicSystem
  BY <1>3 DEF panicSystem, vars
<1> QED
  BY <1>1, <1>2, <1>3, PanicSteps DEF BootStep

LEMMA SameIdsKept ==
  ASSUME ConsecutiveIds, PanicInv, SameIdsAsApics, [PanicNext]_panicSystem
  PROVE  SameIdsAsApics'
<1>1. CASE core_id' = core_id /\ NEXT_FREE_CORE_ID' = NEXT_FREE_CORE_ID
  BY <1>1 DEF SameIdsAsApics
<1>2. ASSUME NEW c \in Cores, claim_core_id(c) PROVE SameIdsAsApics'
  <2>1. /\ pc[c] = "start" /\ core_id' = [core_id EXCEPT ![c] = NEXT_FREE_CORE_ID]
        /\ NEXT_FREE_CORE_ID' = NEXT_FREE_CORE_ID + 1
    BY <1>2 DEF claim_core_id, Goto
  <2>2. core_id \in [Cores -> Int] /\ NEXT_FREE_CORE_ID \in Nat /\ core_id[c] = NoCore /\ Cores \subseteq Nat
    BY <2>1, BootAssumption DEF PanicInv, CoreIds, NoIdPoints
  <2>3. \A b \in Cores : b < c => core_id[b] # NoCore
    <3> SUFFICES ASSUME NEW b \in Cores, b < c PROVE core_id[b] # NoCore
      OBVIOUS
    <3>1. c \in APs
      BY <2>2 DEF ConsecutiveIds, APs
    <3>2. core_states[c] = "Launched"
      BY <2>1, <3>1 DEF PanicInv, Launching, StartPoints, EarlyPoints
    <3>3. CASE b = BSP
      BY <3>1, <3>2, <3>3 DEF PanicInv, Launching, CoreIds
    <3>4. CASE b \in APs
      <4>1. core_states[b] # "None"
        <5>1. core_states[b] = "None" => c < b
          BY <3>1, <3>2, <3>4 DEF PanicInv, Launching
        <5> QED
          BY <2>2, <5>1
      <4>2. core_states[b] # "Launched"
        BY <2>2, <3>1, <3>2, <3>4 DEF PanicInv, Launching
      <4>3. core_states[b] \in {"Online", "Halted"}
        BY <4>1, <4>2 DEF PanicInv, PanicTypes, PanicTypeOK, CoreStates
      <4> QED
        BY <4>3 DEF PanicInv, Started, CoreIds
    <3> QED
      BY <3>3, <3>4 DEF APs
  <2>4. NEXT_FREE_CORE_ID = c
    <3>1. ~(c < NEXT_FREE_CORE_ID)
      BY <2>2 DEF SameIdsAsApics
    <3>2. ASSUME NEXT_FREE_CORE_ID < c PROVE FALSE
      <4>1. NEXT_FREE_CORE_ID \in Cores
        BY <2>2, <3>2 DEF ConsecutiveIds
      <4>2. NEXT_FREE_CORE_ID < NEXT_FREE_CORE_ID
        BY <2>3, <3>2, <4>1 DEF SameIdsAsApics
      <4> QED
        BY <2>2, <4>2
    <3> QED
      BY <2>2, <3>1, <3>2
  <2>5. core_id'[c] = c /\ \A d \in Cores \ {c} : core_id'[d] = core_id[d]
    BY <2>1, <2>2, <2>4
  <2>6. \A d \in Cores : (d < NEXT_FREE_CORE_ID' <=> (d < NEXT_FREE_CORE_ID \/ d = c))
    BY <2>1, <2>2, <2>4
  <2>7. c # NoCore
    BY <2>2 DEF NoCore
  <2> QED
    BY <2>5, <2>6, <2>7 DEF SameIdsAsApics
<1> QED
  BY <1>1, <1>2, OnlyClaimsCount

(* No two panicking cores have the same id for the writer. *)
LEMMA WritersDiffer ==
  ASSUME PanicInv, SameIdsAsApics, NEW c \in Cores, NEW d \in Cores, pc[c] = "panic", pc[d] = "panic",
         emergency_id(c) = emergency_id(d)
  PROVE  c = d
<1>1. \A e \in {c, d} : has_core_locals(e) => emergency_id(e) = e
  <2> SUFFICES ASSUME NEW e \in {c, d}, has_core_locals(e) PROVE emergency_id(e) = e
    OBVIOUS
  <2>1. panicked_with[e] \in {"locals", "locals_and_apic"}
    BY DEF PanicInv, PanicTypes, PanicTypeOK, Reports, has_core_locals
  <2> QED
    BY <2>1 DEF PanicInv, CoreIds, SameIdsAsApics, emergency_id
<1>2. \A e \in {c, d} : ~has_core_locals(e) => emergency_id(e) = CORE_UNKNOWN /\ ~apic_initialized[e]
  BY DEF PanicInv, Reports, has_core_locals, emergency_id
<1>3. c # CORE_UNKNOWN /\ d # CORE_UNKNOWN
  BY BootAssumption DEF CORE_UNKNOWN
<1>4. CASE has_core_locals(c) \/ has_core_locals(d)
  BY <1>1, <1>2, <1>3, <1>4
<1>5. CASE ~has_core_locals(c) /\ ~has_core_locals(d)
  <2>1. ~apic_initialized[c] /\ ~apic_initialized[d]
    BY <1>2, <1>5
  <2>2. \A e \in {c, d} : e \in APs => core_states[e] = "Launched" /\ apic_initialized[BSP]
    BY <2>1 DEF PanicInv, Launching
  <2>3. CASE c \in APs /\ d \in APs
    BY <2>2, <2>3 DEF PanicInv, Launching
  <2> QED
    BY <2>1, <2>2, <2>3 DEF APs
<1> QED
  BY <1>4, <1>5

LEMMA WriterIsOneKept ==
  ASSUME PanicInv, SameIdsAsApics, WriterIsOne, [PanicNext]_panicSystem
  PROVE  WriterIsOne'
<1> USE DEF PanicAt, PanicGoto, Stopped
<1>1. /\ pc \in [Cores -> Points \cup {"panic"}] /\ panic_pc \in [Cores -> PanicPoints]
      /\ panicked_with \in [Cores -> {NotPanicked, "nothing", "locals", "locals_and_apic"}]
  BY DEF PanicInv, PanicTypes, PanicTypeOK
<1>2. ASSUME UNCHANGED EMERGENCY_WRITING_CORE,
             \A d \in Cores : PanicAt(d, "writing")' => PanicAt(d, "writing") /\ emergency_id(d)' = emergency_id(d)
      PROVE  WriterIsOne'
  BY <1>2 DEF WriterIsOne, OneEmergencyWriter
<1>3. ASSUME NEW c \in Cores, BootStep(c) PROVE WriterIsOne'
  <2>1. NoReport
    BY <1>3, BootReportsNothing DEF BootStep
  <2>2. \A d \in Cores : pc'[d] = "panic" => pc[d] = "panic" /\ emergency_id(d)' = emergency_id(d)
    BY <2>1 DEF NoReport, panicVars, emergency_id, has_core_locals
  <2>3. UNCHANGED <<panic_pc, EMERGENCY_WRITING_CORE>>
    BY <1>3 DEF BootStep, panicVars
  <2> QED
    BY <1>2, <2>2, <2>3
<1>4. ASSUME NEW c \in Cores, panic(c) PROVE WriterIsOne'
  <2>1. /\ panic_pc' = [panic_pc EXCEPT ![c] = "begin"] /\ pc' = [pc EXCEPT ![c] = "panic"]
        /\ UNCHANGED <<EMERGENCY_WRITING_CORE, apic_initialized, core_id>>
        /\ \A d \in Cores \ {c} : panicked_with'[d] = panicked_with[d]
    BY <1>1, <1>4 DEF panic, otherThanBoot, countVars, localVars
  <2>2. \A d \in Cores : PanicAt(d, "writing")' => d # c /\ PanicAt(d, "writing")
    BY <1>1, <2>1
  <2>3. \A d \in Cores \ {c} : emergency_id(d)' = emergency_id(d)
    BY <2>1 DEF emergency_id, has_core_locals
  <2> QED
    BY <1>2, <2>1, <2>2, <2>3
<1>5. ASSUME NEW c \in Cores, ReportStep(c) PROVE WriterIsOne'
  <2>1. \A d \in Cores : pc'[d] = pc[d] /\ emergency_id(d)' = emergency_id(d)
    BY <1>5, Reporting DEF otherThanBoot, countVars, localVars, emergency_id, has_core_locals
  <2>2. CASE begin_panic(c) \/ skip_core(c) \/ send_nmi(c) \/ finish_scan(c)
    <3>1. UNCHANGED EMERGENCY_WRITING_CORE /\ \A d \in Cores : panic_pc'[d] = "writing" => panic_pc[d] = "writing"
      BY <1>1, <2>2 DEF begin_panic, skip_core, send_nmi, finish_scan
    <3> QED
      BY <1>2, <2>1, <3>1
  <2>3. CASE acquire_writer(c)
    <3>1. /\ pc[c] = "panic" /\ panic_pc[c] = "acquire" /\ panic_pc' = [panic_pc EXCEPT ![c] = "writing"]
          /\ EMERGENCY_WRITING_CORE' = emergency_id(c)
          /\ \/ EMERGENCY_WRITING_CORE \in {CORE_UNLOCKED, emergency_id(c)}
             \/ EMERGENCY_WRITING_CORE \in Cores /\ core_states[EMERGENCY_WRITING_CORE] = "Halted"
      BY <2>3 DEF acquire_writer
    <3>2. ASSUME NEW d \in Cores, PanicAt(d, "writing") PROVE FALSE
      <4>1. EMERGENCY_WRITING_CORE = emergency_id(d) /\ d # c
        BY <3>1, <3>2 DEF WriterIsOne
      <4>2. emergency_id(d) # emergency_id(c)
        BY <3>1, <3>2, <4>1, WritersDiffer
      <4>3. emergency_id(d) \in {d, CORE_UNKNOWN}
        <5>1. has_core_locals(d) => panicked_with[d] \in {"locals", "locals_and_apic"}
          BY <1>1, <3>2 DEF PanicInv, Reports, has_core_locals
        <5> QED
          BY <5>1 DEF PanicInv, CoreIds, SameIdsAsApics, emergency_id
      <4>4. CORE_UNKNOWN \notin Cores /\ CORE_UNLOCKED \notin Cores /\ CORE_UNLOCKED # CORE_UNKNOWN
        BY BootAssumption DEF CORE_UNKNOWN, CORE_UNLOCKED
      <4>5. emergency_id(d) = d /\ core_states[d] = "Halted"
        BY <3>1, <4>1, <4>2, <4>3, <4>4
      <4>6. Wins(d)
        BY <3>2, <4>5 DEF PanicInv, Started, Wins
      <4> QED
        BY <4>5, <4>6 DEF PanicInv, Reports
    <3>3. \A d \in Cores : PanicAt(d, "writing")' => d = c
      BY <1>1, <2>1, <3>1, <3>2
    <3> QED
      BY <2>1, <3>1, <3>3 DEF WriterIsOne, OneEmergencyWriter
  <2>4. CASE drop_writer(c)
    <3>1. PanicAt(c, "writing") /\ panic_pc' = [panic_pc EXCEPT ![c] = "halt"]
      BY <2>4 DEF drop_writer
    <3>2. \A d \in Cores : ~PanicAt(d, "writing")'
      BY <1>1, <2>1, <3>1 DEF WriterIsOne, OneEmergencyWriter
    <3> QED
      BY <3>2 DEF WriterIsOne, OneEmergencyWriter
  <2> QED
    BY <1>5, <2>2, <2>3, <2>4 DEF ReportStep
<1>6. ASSUME NEW c \in Cores, stop_waiting(c) \/ HaltStep(c) PROVE WriterIsOne'
  <2>1. /\ UNCHANGED <<EMERGENCY_WRITING_CORE, apic_initialized, core_id, panicked_with>>
        /\ \A d \in Cores : pc'[d] = "panic" => pc[d] = "panic"
        /\ \A d \in Cores : panic_pc'[d] = "writing" => panic_pc[d] = "writing"
    BY <1>1, <1>6, Halting DEF stop_waiting, halt, otherThanBoot, countVars, localVars
  <2>2. \A d \in Cores : emergency_id(d)' = emergency_id(d)
    BY <2>1 DEF emergency_id, has_core_locals
  <2> QED
    BY <1>2, <2>1, <2>2
<1>7. CASE UNCHANGED panicSystem
  BY <1>2, <1>7 DEF panicSystem, vars, panicVars, countVars, localVars, emergency_id, has_core_locals
<1> QED
  BY <1>3, <1>4, <1>5, <1>6, <1>7, PanicSteps

(* When the APIC ids are 0, 1, ... and the BSP's is 0, at most one core is   *)
(* between EmergencyWriter::new and its drop.                               *)
THEOREM OneWriter ==
  ASSUME ConsecutiveIds
  PROVE  PanicSpec => []OneEmergencyWriter
<1>1. PanicInit => ConsecutiveInv
  <2>1. PanicInit => SameIdsAsApics /\ WriterIsOne
    BY BootAssumption
    DEF PanicInit, Init, SameIdsAsApics, WriterIsOne, OneEmergencyWriter, PanicAt, NoCore, NotPanicked
  <2> QED
    BY <2>1, PanicInvInit DEF ConsecutiveInv
<1>2. ConsecutiveInv /\ [PanicNext]_panicSystem => ConsecutiveInv'
  BY PanicInvStep, SameIdsKept, WriterIsOneKept DEF ConsecutiveInv
<1>3. ConsecutiveInv => OneEmergencyWriter
  BY DEF ConsecutiveInv, WriterIsOne
<1> QED
  BY <1>1, <1>2, <1>3, PTL DEF PanicSpec
=============================================================================
