---------------------------- MODULE BootProcess ----------------------------
(***************************************************************************)
(* Bringing the system up: kernel/src/main.rs:_start on every core, the    *)
(* launch of the APs one by one and the rendezvous of all cores            *)
(* (kernel/src/processors.rs), and the switch from the boot block in       *)
(* bootloader memory to the kernel's own copy, after which that memory is  *)
(* reused (kernel/src/mm.rs:on_finished_boot_process).                     *)
(*                                                                         *)
(* A core is named by its APIC id.  A page frame is a number; of the many  *)
(* allocations of a core one stands for each group: its kernel stack, its  *)
(* CoreLocals, its start-up heap, and on the BSP the new boot block and    *)
(* the heap it uses once the system is up.  Each of them runs under the    *)
(* page table lock of the boot block.                                      *)
(***************************************************************************)
EXTENDS Integers, FiniteSets, FiniteSetsExt

CONSTANTS
  Cores,        \* APIC ids of the cores the MADT lists
  BSP,          \* the core the firmware starts
  Frames,       \* free_memory of the boot block when the kernel is entered
  BootFrames    \* boot_memory: bootloader image, AP entrypoint, old boot block

ASSUME BootAssumption ==
  /\ Cores \subseteq Nat /\ IsFiniteSet(Cores)
  /\ BSP \in Cores
  /\ Frames \subseteq Nat /\ BootFrames \subseteq Nat
  /\ Frames \cap BootFrames = {}

NoCore == -1                   \* also the core id of a core that has none
NoOne  == [core |-> NoCore, id |-> NoCore]
APs    == Cores \ {BSP}

VARIABLES
  pc,                 \* what each core is about to do
  CORE_ID,            \* the bootloader's counter of the same name
  NEXT_FREE_CORE_ID,
  core_id,            \* CoreLocals::id
  apic_initialized,   \* CoreLocals::apic is Some
  idt_loaded,         \* the core has a valid IDT
  core_states,        \* CORE_STATES
  TOTAL_CORES,
  CORES_ONLINE,
  READY_CORES,
  nmis_enabled,       \* bit 7 of port 0x70 is clear
  is_panicking,       \* IS_PANICKING
  page_table_lock,    \* who holds it, and the id it stored in lock_core
  boot_block,         \* CoreLocals::boot_block: "old" or "new"
  blocks,             \* contents of the two boot blocks
  block_copy,         \* the value ptr::read returned on the BSP
  NEW_BOOT_BLOCK,     \* is it non-zero?
  owned,              \* frames granted to each core
  nx_enabled,         \* the physical region is mapped non-executable
  tlb_executable      \* a core may hold an executable translation of it

countVars  == <<CORE_ID, NEXT_FREE_CORE_ID, core_id>>
onlineVars == <<core_states, TOTAL_CORES, CORES_ONLINE, READY_CORES, nmis_enabled>>
localVars  == <<apic_initialized, idt_loaded>>
blockVars  == <<boot_block, blocks, block_copy, NEW_BOOT_BLOCK>>
memVars    == <<page_table_lock, owned>>
tlbVars    == <<nx_enabled, tlb_executable>>
vars == <<pc, countVars, onlineVars, localVars, blockVars, memVars, tlbVars,
          is_panicking>>

NoBlock == [valid |-> FALSE, free |-> {}, boot |-> {}, entrypoint |-> FALSE]

Init ==
  /\ pc = [c \in Cores |-> IF c = BSP THEN "stack_lock" ELSE "off"]
  /\ CORE_ID = 0
  /\ NEXT_FREE_CORE_ID = 0
  /\ core_id = [c \in Cores |-> NoCore]
  /\ apic_initialized = [c \in Cores |-> FALSE]
  /\ idt_loaded = [c \in Cores |-> FALSE]
  /\ core_states = [c \in Cores |-> "None"]
  /\ TOTAL_CORES = 0
  /\ CORES_ONLINE = 0
  /\ READY_CORES = 0
  /\ nmis_enabled = FALSE
  /\ is_panicking = FALSE
  /\ page_table_lock = NoOne
  /\ boot_block = [c \in Cores |-> "old"]
  /\ blocks = [old |-> [valid |-> TRUE, free |-> Frames, boot |-> BootFrames,
                        entrypoint |-> TRUE],
               new |-> NoBlock]
  /\ block_copy = NoBlock
  /\ NEW_BOOT_BLOCK = FALSE
  /\ owned = [c \in Cores |-> {}]
  /\ nx_enabled = FALSE
  /\ tlb_executable = [c \in Cores |-> FALSE]

Goto(c, from, to) == pc[c] = from /\ pc' = [pc EXCEPT ![c] = to]

-----------------------------------------------------------------------------
(* Allocating memory.                                                       *)

(* Interrupts::core_id of the lock the core uses: the bootloader's, the      *)
(* early one of core_locals::initialize, and the kernel's.                  *)
lock_core_id(c) ==
  CASE pc[c] = "stack_lock"  -> CORE_ID
    [] pc[c] = "locals_lock" -> NEXT_FREE_CORE_ID - 1
    [] OTHER                 -> core_id[c]

(* Lock::lock on the page table, with its deadlock assertion. *)
lock_page_table(c, from, to) ==
  /\ pc[c] = from
  /\ page_table_lock = NoOne \/ page_table_lock.id = lock_core_id(c)
  /\ IF page_table_lock = NoOne
     THEN /\ page_table_lock' = [core |-> c, id |-> lock_core_id(c)]
          /\ pc' = [pc EXCEPT ![c] = to]
     ELSE /\ pc' = [pc EXCEPT ![c] = "deadlock"]
          /\ UNCHANGED page_table_lock
  /\ UNCHANGED <<countVars, onlineVars, localVars, blockVars, owned, tlbVars,
                 is_panicking>>

(* PageTable::map with alloc_phys: the frame leaves free_memory of the boot *)
(* block the core refers to (which one is up to the range set: here the     *)
(* lowest), and the guards are dropped.                                     *)
alloc_phys(c) ==
  LET block == blocks[boot_block[c]] IN
  /\ block.free # {}
  /\ blocks' = [blocks EXCEPT ![boot_block[c]].free = @ \ {Min(@)}]
  /\ owned' = [owned EXCEPT ![c] = @ \cup {Min(block.free)}]
  /\ page_table_lock' = NoOne
  /\ UNCHANGED <<boot_block, block_copy, NEW_BOOT_BLOCK>>

map_pages(c, from, to) ==
  /\ Goto(c, from, to)
  /\ alloc_phys(c)
  /\ UNCHANGED <<countVars, onlineVars, localVars, tlbVars, is_panicking>>

-----------------------------------------------------------------------------
(* The bootloader and the first part of _start.                             *)

(* efi_main and the BIOS _start when they run again, on an AP. *)
enter_bootloader(c) ==
  /\ Goto(c, "bootloader", "stack_lock")
  /\ CORE_ID' = CORE_ID + 1
  /\ UNCHANGED <<NEXT_FREE_CORE_ID, core_id, onlineVars, localVars, blockVars,
                 memVars, tlbVars, is_panicking>>

create_kernel_stack(c) ==
  \/ lock_page_table(c, "stack_lock", "stack_map")
  \/ map_pages(c, "stack_map", "start")

claim_core_id_without_add(c) ==        \* mutant: a load instead of the fetch_add
  /\ Goto(c, "start", "locals_lock")
  /\ core_id' = [core_id EXCEPT ![c] = NEXT_FREE_CORE_ID]
  /\ UNCHANGED <<CORE_ID, NEXT_FREE_CORE_ID, onlineVars, localVars, blockVars,
                 memVars, tlbVars, is_panicking>>

(* core_locals::initialize up to the fetch_add. *)
claim_core_id(c) ==
  /\ Goto(c, "start", "locals_lock")
  /\ core_id' = [core_id EXCEPT ![c] = NEXT_FREE_CORE_ID]
  /\ NEXT_FREE_CORE_ID' = NEXT_FREE_CORE_ID + 1
  /\ UNCHANGED <<CORE_ID, onlineVars, localVars, blockVars, memVars, tlbVars,
                 is_panicking>>

core_locals_initialize(c) ==
  \/ claim_core_id(c)
  \/ lock_page_table(c, "locals_lock", "locals_map")
  \/ map_pages(c, "locals_map", "heap_lock")

(* initialize_xsave, and every other heap allocation up to the rendezvous. *)
initialize_heap(c) ==
  \/ lock_page_table(c, "heap_lock", "heap_map")
  \/ map_pages(c, "heap_map", "interrupts")

interrupts_initialize(c) ==
  /\ Goto(c, "interrupts", "apic")
  /\ idt_loaded' = [idt_loaded EXCEPT ![c] = TRUE]
  /\ UNCHANGED <<countVars, onlineVars, apic_initialized, blockVars, memVars,
                 tlbVars, is_panicking>>

apic_initialize(c) ==
  /\ Goto(c, "apic", IF core_id[c] = 0 THEN "processors" ELSE "notify")
  /\ apic_initialized' = [apic_initialized EXCEPT ![c] = TRUE]
  /\ UNCHANGED <<countVars, onlineVars, idt_loaded, blockVars, memVars,
                 tlbVars, is_panicking>>

-----------------------------------------------------------------------------
(* Launching the APs (processors::initialize on the BSP).                   *)
otherThanOnline == <<countVars, localVars, blockVars, memVars, tlbVars,
                     is_panicking>>

processors_initialize_unmarked(c) ==   \* mutant: the BSP is not marked online
  /\ Goto(c, "processors", "launch")
  /\ TOTAL_CORES' = Cardinality(Cores)
  /\ UNCHANGED <<core_states, CORES_ONLINE, READY_CORES, nmis_enabled, otherThanOnline>>

processors_initialize_without_self(c) ==   \* mutant: the BSP is not counted
  /\ Goto(c, "processors", "launch")
  /\ TOTAL_CORES' = Cardinality(Cores) - 1
  /\ core_states' = [core_states EXCEPT ![c] = "Online"]
  /\ UNCHANGED <<CORES_ONLINE, READY_CORES, nmis_enabled, otherThanOnline>>

processors_initialize(c) ==
  /\ Goto(c, "processors", "launch")
  /\ TOTAL_CORES' = Cardinality(Cores)
  /\ core_states' = [core_states EXCEPT ![c] = "Online"]
  /\ UNCHANGED <<CORES_ONLINE, READY_CORES, nmis_enabled, otherThanOnline>>

(* The loop goes through the set of APIC ids in ascending order. *)
Unlaunched(c) == {a \in Cores \ {c} : core_states[a] = "None"}
LastLaunched(c) == Max({a \in Cores \ {c} : core_states[a] # "None"})

mark_launched(c) ==
  /\ pc[c] = "launch"
  /\ \/ /\ Unlaunched(c) = {}
        /\ pc' = [pc EXCEPT ![c] = "notify"]
        /\ UNCHANGED core_states
     \/ /\ Unlaunched(c) # {}
        /\ pc' = [pc EXCEPT ![c] = "ipi"]
        /\ core_states' = [core_states EXCEPT ![Min(Unlaunched(c))] = "Launched"]
  /\ UNCHANGED <<TOTAL_CORES, CORES_ONLINE, READY_CORES, nmis_enabled, otherThanOnline>>

send_init_sipi_sipi(c) ==
  /\ pc[c] = "ipi"
  /\ pc' = [pc EXCEPT ![c] = "launch_wait", ![LastLaunched(c)] = "bootloader"]
  /\ UNCHANGED <<onlineVars, otherThanOnline>>

launch_without_waiting(c) ==        \* mutant: all APs are started at once
  /\ Goto(c, "launch_wait", "launch")
  /\ UNCHANGED <<onlineVars, otherThanOnline>>

await_launched(c) ==
  /\ Goto(c, "launch_wait", "launch")
  /\ core_states[LastLaunched(c)] = "Online"
  /\ UNCHANGED <<onlineVars, otherThanOnline>>

-----------------------------------------------------------------------------
(* notify_core_online.                                                      *)

(* The compare_exchange and the assertions on what it returned. *)
register_online(c) ==
  /\ pc[c] = "notify"
  /\ core_states' = [core_states EXCEPT ![c] = IF @ = "Launched" THEN "Online" ELSE @]
  /\ pc' = [pc EXCEPT ![c] =
       IF core_states[c] = IF core_id[c] = 0 THEN "Online" ELSE "Launched"
       THEN "check_panicking" ELSE "assert_failed"]
  /\ UNCHANGED <<TOTAL_CORES, CORES_ONLINE, READY_CORES, nmis_enabled, otherThanOnline>>

check_nothing(c) ==        \* mutant: a missed NMI stays missed
  /\ Goto(c, "check_panicking", "count_online")
  /\ UNCHANGED <<onlineVars, otherThanOnline>>

(* is_panicking, then either halt or go on to the counter. *)
check_panicking(c) ==
  /\ pc[c] = "check_panicking"
  /\ pc' = [pc EXCEPT ![c] = IF is_panicking THEN "halted" ELSE "count_online"]
  /\ core_states' = [core_states EXCEPT ![c] = IF is_panicking THEN "Halted" ELSE @]
  /\ UNCHANGED <<TOTAL_CORES, CORES_ONLINE, READY_CORES, nmis_enabled, otherThanOnline>>

count_online(c) ==
  /\ Goto(c, "count_online", "wait_online")
  /\ CORES_ONLINE' = CORES_ONLINE + 1
  /\ UNCHANGED <<core_states, TOTAL_CORES, READY_CORES, nmis_enabled, otherThanOnline>>

await_states_online(c) ==        \* mutant: waits for CORE_STATES, not the counter
  /\ Goto(c, "wait_online", "ready")
  /\ \A a \in Cores : core_states[a] = "Online"
  /\ nmis_enabled' = (nmis_enabled \/ core_id[c] = 0)
  /\ UNCHANGED <<core_states, TOTAL_CORES, CORES_ONLINE, READY_CORES, otherThanOnline>>

await_online(c) ==
  /\ Goto(c, "wait_online", "ready")
  /\ CORES_ONLINE = TOTAL_CORES
  /\ nmis_enabled' = (nmis_enabled \/ core_id[c] = 0)
  /\ UNCHANGED <<core_states, TOTAL_CORES, CORES_ONLINE, READY_CORES, otherThanOnline>>

-----------------------------------------------------------------------------
(* mm::on_finished_boot_process.                                            *)
otherThanBlock == <<countVars, onlineVars, localVars, memVars, is_panicking>>

become_ready(c) ==
  /\ Goto(c, "ready", IF core_id[c] = 0 THEN "block_lock" ELSE "await_block")
  /\ READY_CORES' = READY_CORES + 1
  /\ UNCHANGED <<core_states, TOTAL_CORES, CORES_ONLINE, nmis_enabled, otherThanOnline>>

allocate_boot_block(c) ==
  \/ lock_page_table(c, "block_lock", "block_map")
  \/ map_pages(c, "block_map", "await_ready")

await_online_again(c) ==        \* mutant: waits for the counter that is full already
  /\ Goto(c, "await_ready", "read_block")
  /\ CORES_ONLINE = TOTAL_CORES
  /\ UNCHANGED <<blockVars, tlbVars, otherThanBlock>>

await_ready(c) ==
  /\ Goto(c, "await_ready", "read_block")
  /\ READY_CORES = TOTAL_CORES
  /\ UNCHANGED <<blockVars, tlbVars, otherThanBlock>>

read_boot_block_then_allocate(c) ==   \* mutant: the copy is made before the allocation
  /\ Goto(c, "read_block", "write_block")
  /\ block_copy' = blocks["old"]
  /\ blocks' = [blocks EXCEPT !["old"].free = @ \ {Min(@)}]
  /\ owned' = [owned EXCEPT ![c] = @ \cup {Min(blocks["old"].free)}]
  /\ UNCHANGED <<boot_block, NEW_BOOT_BLOCK, tlbVars, countVars, onlineVars,
                 localVars, page_table_lock, is_panicking>>

(* ptr::read, ptr::write and the store to NEW_BOOT_BLOCK. *)
read_boot_block(c) ==
  /\ Goto(c, "read_block", "write_block")
  /\ block_copy' = blocks["old"]
  /\ UNCHANGED <<boot_block, blocks, NEW_BOOT_BLOCK, tlbVars, otherThanBlock>>

write_boot_block(c) ==
  /\ Goto(c, "write_block", "publish")
  /\ blocks' = [blocks EXCEPT !["new"] = block_copy]
  /\ UNCHANGED <<boot_block, block_copy, NEW_BOOT_BLOCK, tlbVars, otherThanBlock>>

publish_boot_block(c) ==
  /\ Goto(c, "publish", "switch")
  /\ NEW_BOOT_BLOCK' = TRUE
  /\ UNCHANGED <<boot_block, blocks, block_copy, tlbVars, otherThanBlock>>

await_boot_block(c) ==
  /\ Goto(c, "await_block", "switch")
  /\ NEW_BOOT_BLOCK
  /\ UNCHANGED <<blockVars, tlbVars, otherThanBlock>>

switch_boot_block_on_bsp(c) ==        \* mutant: the APs keep their reference
  /\ Goto(c, "switch", IF core_id[c] = 0 THEN "clear_entrypoint" ELSE "flush")
  /\ boot_block' = [boot_block EXCEPT ![c] = IF c = BSP THEN "new" ELSE @]
  /\ UNCHANGED <<blocks, block_copy, NEW_BOOT_BLOCK, tlbVars, otherThanBlock>>

(* The switch, and the assertion on the size field of the new block. *)
switch_boot_block(c) ==
  /\ Goto(c, "switch", IF ~blocks["new"].valid THEN "assert_failed"
                       ELSE IF core_id[c] = 0 THEN "clear_entrypoint" ELSE "flush")
  /\ boot_block' = [boot_block EXCEPT ![c] = "new"]
  /\ UNCHANGED <<blocks, block_copy, NEW_BOOT_BLOCK, tlbVars, otherThanBlock>>

(* cleanup_bootloader: the AP entrypoint is cleared, the physical region is *)
(* remapped non-executable, boot memory becomes free memory.                *)
clear_ap_entrypoint(c) ==
  /\ Goto(c, "clear_entrypoint", "remap_nx")
  /\ blocks' = [blocks EXCEPT ![boot_block[c]].entrypoint = FALSE]
  /\ UNCHANGED <<boot_block, block_copy, NEW_BOOT_BLOCK, tlbVars, otherThanBlock>>

enable_nx_on_physical_region(c) ==
  /\ Goto(c, "remap_nx", "reclaim")
  /\ nx_enabled' = TRUE
  /\ UNCHANGED <<tlb_executable, blockVars, otherThanBlock>>

reclaim_boot_memory(c) ==
  /\ Goto(c, "reclaim", "flush")
  /\ blocks' = [blocks EXCEPT ![boot_block[c]].free = @ \cup blocks[boot_block[c]].boot]
  /\ UNCHANGED <<boot_block, block_copy, NEW_BOOT_BLOCK, tlbVars, otherThanBlock>>

flush_tlb(c) ==
  /\ Goto(c, "flush", IF core_id[c] = 0 THEN "vm_lock" ELSE "idle")
  /\ tlb_executable' = [tlb_executable EXCEPT ![c] = FALSE]
  /\ UNCHANGED <<nx_enabled, blockVars, otherThanBlock>>

-----------------------------------------------------------------------------
(* After the boot: the BSP runs vm::initialize, every core ends in          *)
(* time::idle.                                                              *)
use_heap(c) ==
  \/ lock_page_table(c, "vm_lock", "vm_map")
  \/ map_pages(c, "vm_map", "idle")

idle(c) == pc[c] = "idle" /\ UNCHANGED vars

(* A processor that runs on the kernel's page table may load a translation  *)
(* of the physical region at any time.                                      *)
load_translation(c) ==
  /\ pc[c] \notin {"off", "bootloader", "stack_lock", "stack_map", "halted"}
  /\ ~nx_enabled
  /\ tlb_executable' = [tlb_executable EXCEPT ![c] = TRUE]
  /\ UNCHANGED <<pc, nx_enabled, blockVars, otherThanBlock>>

StartStep(c) ==
  \/ enter_bootloader(c) \/ create_kernel_stack(c) \/ core_locals_initialize(c)
  \/ initialize_heap(c) \/ interrupts_initialize(c) \/ apic_initialize(c)

LaunchStep(c) ==
  \/ processors_initialize(c) \/ mark_launched(c) \/ send_init_sipi_sipi(c)
  \/ await_launched(c)

OnlineStep(c) ==
  \/ register_online(c) \/ check_panicking(c) \/ count_online(c) \/ await_online(c)

FinishStep(c) ==
  \/ become_ready(c) \/ allocate_boot_block(c) \/ await_ready(c)
  \/ read_boot_block(c) \/ write_boot_block(c) \/ publish_boot_block(c)
  \/ await_boot_block(c) \/ switch_boot_block(c) \/ clear_ap_entrypoint(c)
  \/ enable_nx_on_physical_region(c) \/ reclaim_boot_memory(c) \/ flush_tlb(c)

CoreStep(c) ==
  StartStep(c) \/ LaunchStep(c) \/ OnlineStep(c) \/ FinishStep(c) \/ use_heap(c)
  \/ idle(c)

Next == \E c \in Cores : CoreStep(c) \/ load_translation(c)

(* A core that has been started keeps executing instructions. *)
Spec == Init /\ [][Next]_vars /\ \A c \in Cores : WF_vars(CoreStep(c))

-----------------------------------------------------------------------------
(* Where a core is in its start-up.                                         *)
BootloaderPoints == {"bootloader", "stack_lock", "stack_map"}
EarlyPoints == {"start", "locals_lock", "locals_map"}
KernelStartPoints == {"heap_lock", "heap_map", "interrupts", "apic"}
RendezvousPoints == {"check_panicking", "count_online", "wait_online"}
BspPoints == {"processors", "launch", "ipi", "launch_wait", "block_lock", "block_map",
              "await_ready", "read_block", "write_block", "publish",
              "clear_entrypoint", "remap_nx", "reclaim", "vm_lock", "vm_map"}
PassedReady == {"read_block", "write_block", "publish", "switch", "clear_entrypoint",
                "remap_nx", "reclaim", "flush", "vm_lock", "vm_map", "idle"}
ArrivedReady == {"block_lock", "block_map", "await_ready", "await_block"} \cup PassedReady
PassedOnline == {"ready"} \cup ArrivedReady
ArrivedOnline == {"wait_online"} \cup PassedOnline
FailurePoints == {"deadlock", "assert_failed", "halted"}
Points == {"off", "notify"} \cup BootloaderPoints \cup EarlyPoints
          \cup KernelStartPoints \cup RendezvousPoints \cup BspPoints
          \cup PassedOnline \cup FailurePoints
CoreStates == {"None", "Launched", "Online", "Halted"}

AllFrames == Frames \cup BootFrames

BlockType == [valid : BOOLEAN, free : SUBSET AllFrames, boot : SUBSET AllFrames,
              entrypoint : BOOLEAN]

(* Every variable stays in its range; the counters of the rendezvous never  *)
(* exceed the number of cores, so waiting for equality cannot miss it.      *)
TypeOK ==
  /\ pc \in [Cores -> Points]
  /\ CORE_ID \in 0..Cardinality(Cores)
  /\ NEXT_FREE_CORE_ID \in 0..Cardinality(Cores)
  /\ core_id \in [Cores -> {NoCore} \cup 0..Cardinality(Cores)]
  /\ apic_initialized \in [Cores -> BOOLEAN]
  /\ idt_loaded \in [Cores -> BOOLEAN]
  /\ core_states \in [Cores -> CoreStates]
  /\ TOTAL_CORES \in 0..Cardinality(Cores)
  /\ CORES_ONLINE \in 0..Cardinality(Cores)
  /\ READY_CORES \in 0..Cardinality(Cores)
  /\ nmis_enabled \in BOOLEAN /\ is_panicking \in BOOLEAN
  /\ page_table_lock \in [core : Cores \cup {NoCore}, id : Int]
  /\ boot_block \in [Cores -> {"old", "new"}]
  /\ blocks \in [{"old", "new"} -> BlockType]
  /\ block_copy \in BlockType
  /\ NEW_BOOT_BLOCK \in BOOLEAN
  /\ owned \in [Cores -> SUBSET AllFrames]
  /\ nx_enabled \in BOOLEAN
  /\ tlb_executable \in [Cores -> BOOLEAN]

-----------------------------------------------------------------------------
(* Safety properties.                                                       *)

(* Core ids identify cores: the counters they come from stay in range, no    *)
(* two cores share one, so none believes another one's lock to be its own,   *)
(* and exactly the BSP has id 0, the id that selects the BSP's part of every *)
(* step of the boot.  Only the BSP's wait for each AP ("there can be only    *)
(* one launching AP at a time", processors.rs) makes it so.                  *)
CoreIdsIdentifyCores ==
  /\ TypeOK
  /\ \A c \in Cores : core_id[c] # NoCore =>
       /\ core_id[c] = 0 <=> c = BSP
       /\ \A d \in Cores \ {c} : core_id[d] # core_id[c]

(* No assertion of the boot path fails: the state notify_core_online found,  *)
(* the lock's deadlock check (whose core ids change three times on the way   *)
(* up), and the size check after the switch of the boot block.               *)
AssertionsHold == \A c \in Cores : pc[c] \notin {"deadlock", "assert_failed"}

(* Memory that was granted stays granted across the move of the boot block:  *)
(* the list of free memory in force never offers a frame some core owns, and *)
(* no two cores own the same frame.                                          *)
BlockInForce == IF NEW_BOOT_BLOCK THEN "new" ELSE "old"

GrantedOnce ==
  \A c \in Cores :
    /\ owned[c] \cap blocks[BlockInForce].free = {}
    /\ \A d \in Cores \ {c} : owned[c] \cap owned[d] = {}

(* Once boot memory has become free memory nobody needs it: no core runs the *)
(* bootloader or will enter it, and a core that still has a reference to the *)
(* old boot block does not use it before it switches to the new one.         *)
Reclaimed == BootFrames \cap (blocks["new"].free \cup UNION {owned[c] : c \in Cores}) # {}

ReclaimedMemoryUnused ==
  Reclaimed =>
    /\ ~blocks["new"].entrypoint
    /\ \A c \in Cores : /\ pc[c] \notin BootloaderPoints \cup {"off"}
                        /\ boot_block[c] = "old" => pc[c] \in {"await_block", "switch"}

(* Both rendezvous keep the promise of Barrier.  The one of                   *)
(* notify_core_online counts in CORES_ONLINE; the one of                      *)
(* on_finished_boot_process counts in READY_CORES, and the APs pass it on the *)
(* BSP's word.                                                               *)
OnlineRendezvous == INSTANCE Barrier WITH
  arrived <- {c \in Cores : pc[c] \in ArrivedOnline},
  passed  <- {c \in Cores : pc[c] \in PassedOnline}

ReadyRendezvous == INSTANCE Barrier WITH
  arrived <- {c \in Cores : pc[c] \in ArrivedReady},
  passed  <- {c \in Cores : pc[c] \in PassedReady}

OnlineBarrier == OnlineRendezvous!Spec
ReadyBarrier  == ReadyRendezvous!Spec

(* Without a panic every core gets through the boot: no core waits for ever  *)
(* for an AP, a counter, a lock or the new boot block.                        *)
EveryCoreBoots == <>[](\A c \in Cores : pc[c] = "idle")

(* "Make kernel physcial memory map non-executable", then "Flush whole TLB"  *)
(* (mm.rs): when every core has finished, none may hold an executable         *)
(* translation of the physical region.                                        *)
PhysicalMapNonExecutable ==
  (\A c \in Cores : pc[c] = "idle") => \A c \in Cores : ~tlb_executable[c]
=============================================================================
