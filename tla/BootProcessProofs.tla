-------------------------- MODULE BootProcessProofs --------------------------
(***************************************************************************)
(* Proofs about BootProcess for any set of cores, with any APIC ids, and   *)
(* any memory: core ids identify cores, no assertion of the boot path      *)
(* fails, both rendezvous are barriers, memory is granted once across the  *)
(* move of the boot block, and what is reclaimed is no longer in use.      *)
(***************************************************************************)
EXTENDS BootProcess, FiniteSetTheorems, NaturalsInduction, TLAPS

(* Points of the boot, by what has been done there. *)
StartPoints == BootloaderPoints \cup EarlyPoints \cup KernelStartPoints
NoIdPoints == {"off", "start"} \cup BootloaderPoints
UnlaunchedPoints == StartPoints \cup {"processors"}
LaunchPoints == {"launch", "ipi", "launch_wait"}
OnlinePoints == RendezvousPoints \cup PassedOnline
MapPoints == {"stack_map", "locals_map", "heap_map", "block_map", "vm_map"}
LockPoints == {"stack_lock", "locals_lock", "heap_lock", "block_lock", "vm_lock"}
ReclaimedPoints == {"flush", "vm_lock", "vm_map", "idle"}
ClearedPoints == {"remap_nx", "reclaim"} \cup ReclaimedPoints
NewBlockPoints == {"clear_entrypoint"} \cup ClearedPoints
PublishedPoints == {"switch"} \cup NewBlockPoints

(* The BSP and the APs take different ways through the boot, and none fails. *)
BspAt == {"processors", "notify", "ready", "switch", "flush", "idle"} \cup (StartPoints \ {"bootloader"})
         \cup BspPoints \cup RendezvousPoints
ApAt == {"off", "notify", "ready", "await_block", "switch", "flush", "idle"} \cup StartPoints \cup RendezvousPoints

Roles ==
  /\ pc \in [Cores -> Points]
  /\ pc[BSP] \in BspAt
  /\ \A c \in APs : pc[c] \in ApAt
  /\ is_panicking = FALSE

(* APs are launched in ascending order, the next one when the last one is online. *)
StatesFollow ==
  /\ core_states \in [Cores -> {"None", "Launched", "Online"}]
  /\ core_states[BSP] = IF pc[BSP] \in UnlaunchedPoints THEN "None" ELSE "Online"
  /\ \A c \in APs :
       /\ pc[c] \in OnlinePoints <=> core_states[c] = "Online"
       /\ pc[c] \notin OnlinePoints \cup {"off"} => core_states[c] = "Launched"
       /\ core_states[c] = "None" => \A d \in APs : core_states[d] # "None" => d < c

LastIs(last) ==
  /\ last \in APs /\ core_states[last] # "None"
  /\ \A d \in APs : core_states[d] # "None" => d <= last
  /\ \A d \in APs \ {last} : core_states[d] \in {"None", "Online"}
  /\ \A d \in APs \ {last} : core_states[d] = "None" => pc[d] = "off"
  /\ pc[BSP] = "ipi" => pc[last] = "off" /\ core_states[last] = "Launched"
  /\ pc[BSP] = "launch_wait" => pc[last] # "off"

OneAtATime ==
  /\ pc[BSP] \in UnlaunchedPoints => \A c \in APs : core_states[c] = "None" /\ pc[c] = "off"
  /\ pc[BSP] = "launch" => \A c \in APs : \/ core_states[c] = "None" /\ pc[c] = "off"
                                          \/ core_states[c] = "Online"
  /\ pc[BSP] \in {"ipi", "launch_wait"} => \E last \in APs : LastIs(last)
  /\ pc[BSP] \notin UnlaunchedPoints \cup LaunchPoints => \A c \in APs : core_states[c] = "Online"

(* Core ids are claimed one after the other, the BSP's first. *)
Numbered == {c \in Cores : core_id[c] # NoCore}
Entered == {c \in APs : pc[c] \notin {"off", "bootloader"}}

Ids ==
  /\ core_id \in [Cores -> Int]
  /\ \A c \in Cores : core_id[c] = NoCore <=> pc[c] \in NoIdPoints
  /\ NEXT_FREE_CORE_ID = Cardinality(Numbered)
  /\ CORE_ID = Cardinality(Entered)
  /\ \A c \in Numbered : core_id[c] \in 0 .. NEXT_FREE_CORE_ID - 1
  /\ \A c, d \in Numbered : core_id[c] = core_id[d] => c = d
  /\ \A c \in Numbered : core_id[c] = 0 <=> c = BSP
  /\ core_id[BSP] = NoCore => NEXT_FREE_CORE_ID = 0

(* The counters of the rendezvous count the cores that have arrived. *)
AtOnline == {c \in Cores : pc[c] \in ArrivedOnline}
AtReady == {c \in Cores : pc[c] \in ArrivedReady}

Counters ==
  /\ TOTAL_CORES = IF pc[BSP] \in UnlaunchedPoints THEN 0 ELSE Cardinality(Cores)
  /\ CORES_ONLINE = Cardinality(AtOnline)
  /\ READY_CORES = Cardinality(AtReady)
  /\ \A c \in Cores : pc[c] \in PassedOnline => AtOnline = Cores
  /\ \A c \in Cores : pc[c] \in PassedReady => AtReady = Cores

(* The page table lock belongs to a core that is about to map. *)
LockHeld ==
  /\ page_table_lock \in [core : Cores \cup {NoCore}, id : Int]
  /\ \/ page_table_lock = NoOne
     \/ page_table_lock.core \in Cores /\ pc[page_table_lock.core] \in MapPoints

(* The boot block in force, and the memory it offers. *)
Whole(block) == block.valid = TRUE /\ block.boot = BootFrames

Memory ==
  /\ blocks \in [{"old", "new"} -> BlockType] /\ block_copy \in BlockType
  /\ boot_block \in [Cores -> {"old", "new"}]
  /\ owned \in [Cores -> SUBSET AllFrames]
  /\ \A c \in Cores : boot_block[c] = "new" <=> pc[c] \in NewBlockPoints
  /\ (NEW_BOOT_BLOCK <=> pc[BSP] \in PublishedPoints)
  /\ \A c \in APs : pc[c] \in PublishedPoints => NEW_BOOT_BLOCK
  /\ Whole(blocks["old"]) /\ blocks["old"].free \subseteq Frames
  /\ pc[BSP] = "write_block" => block_copy = blocks["old"]
  /\ pc[BSP] = "publish" => blocks["new"] = blocks["old"]
  /\ pc[BSP] \in PublishedPoints => Whole(blocks["new"])
  /\ pc[BSP] \in ClearedPoints => blocks["new"].entrypoint = FALSE
  /\ pc[BSP] \notin ReclaimedPoints => blocks["new"].free \subseteq Frames /\ \A c \in Cores : owned[c] \subseteq Frames
  /\ \A c \in Cores : owned[c] \cap blocks[BlockInForce].free = {}
  /\ \A c, d \in Cores : c # d => owned[c] \cap owned[d] = {}

OtherTypes ==
  /\ apic_initialized \in [Cores -> BOOLEAN] /\ idt_loaded \in [Cores -> BOOLEAN]
  /\ nmis_enabled \in BOOLEAN /\ NEW_BOOT_BLOCK \in BOOLEAN
  /\ nx_enabled \in BOOLEAN /\ tlb_executable \in [Cores -> BOOLEAN]

Inv == Roles /\ StatesFollow /\ OneAtATime /\ Ids /\ Counters /\ LockHeld /\ Memory /\ OtherTypes

-----------------------------------------------------------------------------
(* The extremes of a set of numbers. *)
LEMMA Lowest ==
  ASSUME NEW S \in SUBSET Nat, S # {}
  PROVE  Min(S) \in S /\ \A x \in S : Min(S) <= x
<1>1. PICK x \in S : \A y \in S : <<y, x>> \notin OpToRel(<, Nat)
  BY WFMin, NatLessThanWellFounded
<1>2. \A y \in S : x <= y
  <2>1. ASSUME NEW y \in S, y < x PROVE FALSE
    BY <1>1, <2>1 DEF OpToRel
  <2> QED
    BY <2>1
<1> QED
  BY <1>2 DEF Min

LEMMA LastIsLatest ==
  ASSUME NEW last \in APs, LastIs(last), BSP \in Cores
  PROVE  LastLaunched(BSP) = last
<1> DEFINE S == {a \in Cores \ {BSP} : core_states[a] # "None"}
<1>1. last \in S /\ \A a \in S : last >= a
  BY BootAssumption DEF LastIs, APs
<1>2. S \subseteq Nat
  BY BootAssumption
<1>3. \A x \in S : (\A y \in S : x >= y) => x = last
  BY <1>1, <1>2
<1> HIDE DEF S
<1>4. Max(S) = last
  BY <1>1, <1>3 DEF Max
<1> QED
  BY <1>4 DEF LastLaunched, S

(* Which core may be on its way up, and where the BSP is then. *)
UserPoints == LockPoints \cup MapPoints

LEMMA Alone ==
  ASSUME Inv, NEW c \in APs, pc[c] \in StartPoints \cup {"notify"}
  PROVE  /\ pc[BSP] = "launch_wait" /\ LastIs(c) /\ core_states[c] = "Launched"
<1>1. core_states[c] = "Launched" /\ pc[c] # "off"
  BY DEF Inv, StatesFollow, StartPoints, OnlinePoints, RendezvousPoints, PassedOnline, ArrivedReady, PassedReady,
     BootloaderPoints, EarlyPoints, KernelStartPoints
<1>2. pc[BSP] \in {"ipi", "launch_wait"}
  BY <1>1 DEF Inv, OneAtATime, LaunchPoints
<1>3. PICK last \in APs : LastIs(last)
  BY <1>2 DEF Inv, OneAtATime
<1>4. last = c
  BY <1>1, <1>3 DEF LastIs
<1> QED
  BY <1>1, <1>2, <1>3, <1>4 DEF LastIs

(* The page table is used by one core at a time. *)
LEMMA OneUser ==
  ASSUME Inv, NEW c \in Cores, NEW d \in Cores, pc[c] \in UserPoints, pc[d] \in UserPoints
  PROVE  c = d
<1>1. ASSUME NEW a \in APs, pc[a] \in UserPoints
      PROVE  pc[a] \in StartPoints \cup {"notify"}
  BY <1>1 DEF Inv, Roles, ApAt, UserPoints, LockPoints, MapPoints, StartPoints, BootloaderPoints, EarlyPoints,
     KernelStartPoints, RendezvousPoints
<1>2. ASSUME NEW a \in APs, pc[a] \in UserPoints PROVE pc[BSP] \notin UserPoints
  BY <1>1, <1>2, Alone DEF UserPoints, LockPoints, MapPoints
<1>3. ASSUME NEW a \in APs, NEW b \in APs, pc[a] \in UserPoints, pc[b] \in UserPoints PROVE a = b
  <2>1. LastIs(a) /\ LastIs(b) /\ core_states[a] = "Launched"
    BY <1>1, <1>3, Alone
  <2> QED
    BY <2>1 DEF LastIs
<1> QED
  BY <1>2, <1>3 DEF APs

LEMMA LockFree ==
  ASSUME Inv, NEW c \in Cores, pc[c] \in LockPoints
  PROVE  page_table_lock = NoOne
<1>1. \A d \in Cores : pc[d] \notin MapPoints
  BY OneUser DEF UserPoints, LockPoints, MapPoints
<1> QED
  BY <1>1 DEF Inv, LockHeld

(* Sets of cores are finite. *)
LEMMA CountersFinite ==
  ASSUME Inv
  PROVE  /\ IsFiniteSet(Numbered) /\ IsFiniteSet(Entered) /\ IsFiniteSet(AtOnline) /\ IsFiniteSet(AtReady)
         /\ CORE_ID \in Nat /\ NEXT_FREE_CORE_ID \in Nat /\ CORES_ONLINE \in Nat /\ READY_CORES \in Nat
         /\ CORE_ID <= Cardinality(Cores) /\ NEXT_FREE_CORE_ID <= Cardinality(Cores)
         /\ CORES_ONLINE <= Cardinality(Cores) /\ READY_CORES <= Cardinality(Cores)
         /\ Cardinality(Cores) \in Nat
<1>1. Numbered \in SUBSET Cores /\ Entered \in SUBSET Cores /\ AtOnline \in SUBSET Cores /\ AtReady \in SUBSET Cores
  BY DEF Numbered, Entered, AtOnline, AtReady, APs
<1>2. IsFiniteSet(Cores)
  BY BootAssumption
<1>3. \A T \in SUBSET Cores : IsFiniteSet(T) /\ Cardinality(T) \in Nat /\ Cardinality(T) <= Cardinality(Cores)
  BY <1>2, FS_Subset, FS_CardinalityType
<1> QED
  BY <1>1, <1>2, <1>3, FS_CardinalityType DEF Inv, Ids, Counters

(* Whoever has an id knows whether it is the BSP. *)
LEMMA IdTells ==
  ASSUME Inv, NEW c \in Cores, pc[c] \notin NoIdPoints
  PROVE  core_id[c] \in Int /\ core_id[c] # NoCore /\ (core_id[c] = 0 <=> c = BSP)
  BY DEF Inv, Ids, Numbered

-----------------------------------------------------------------------------
(* The steps that lock the page table, and those that map. *)
LockStep(c) ==
  \/ lock_page_table(c, "stack_lock", "stack_map")
  \/ lock_page_table(c, "locals_lock", "locals_map")
  \/ lock_page_table(c, "heap_lock", "heap_map")
  \/ lock_page_table(c, "block_lock", "block_map")
  \/ lock_page_table(c, "vm_lock", "vm_map")

MapStep(c) ==
  \/ map_pages(c, "stack_map", "start")
  \/ map_pages(c, "locals_map", "heap_lock")
  \/ map_pages(c, "heap_map", "interrupts")
  \/ map_pages(c, "block_map", "await_ready")
  \/ map_pages(c, "vm_map", "idle")

LockMove(c) ==
  \/ Goto(c, "stack_lock", "stack_map") \/ Goto(c, "locals_lock", "locals_map") \/ Goto(c, "heap_lock", "heap_map")
  \/ Goto(c, "block_lock", "block_map") \/ Goto(c, "vm_lock", "vm_map")

MapMove(c) ==
  \/ Goto(c, "stack_map", "start") \/ Goto(c, "locals_map", "heap_lock") \/ Goto(c, "heap_map", "interrupts")
  \/ Goto(c, "block_map", "await_ready") \/ Goto(c, "vm_map", "idle")

LEMMA Locking ==
  ASSUME Inv, NEW c \in Cores, LockStep(c)
  PROVE  /\ LockMove(c)
         /\ page_table_lock' \in [core : Cores, id : Int] /\ page_table_lock'.core = c
         /\ UNCHANGED <<countVars, onlineVars, localVars, blockVars, owned, tlbVars, is_panicking>>
<1>1. pc[c] \in LockPoints
  BY DEF LockStep, lock_page_table, LockPoints
<1>2. page_table_lock = NoOne
  BY <1>1, LockFree
<1>3. lock_core_id(c) \in Int
  <2>1. core_id[c] \in Int
    BY DEF Inv, Ids
  <2>2. CORE_ID \in Nat /\ NEXT_FREE_CORE_ID \in Nat
    BY CountersFinite
  <2> QED
    BY <2>1, <2>2 DEF lock_core_id
<1>4. page_table_lock' = [core |-> c, id |-> lock_core_id(c)]
  BY <1>2 DEF LockStep, lock_page_table
<1> QED
  BY <1>1, <1>2, <1>3, <1>4 DEF LockStep, lock_page_table, LockMove, Goto

LEMMA MappingPages ==
  ASSUME Inv, NEW c \in Cores, MapStep(c)
  PROVE  /\ MapMove(c)
         /\ alloc_phys(c) /\ UNCHANGED <<countVars, onlineVars, localVars, tlbVars, is_panicking>>
  BY DEF MapStep, map_pages, MapMove

LEMMA Sending ==
  ASSUME Inv, NEW c \in Cores, send_init_sipi_sipi(c)
  PROVE  /\ c = BSP /\ pc[BSP] = "ipi"
         /\ \E last \in APs : /\ LastIs(last) /\ pc[last] = "off" /\ core_states[last] = "Launched"
                              /\ pc' = [pc EXCEPT ![BSP] = "launch_wait", ![last] = "bootloader"]
         /\ UNCHANGED <<onlineVars, otherThanOnline>>
<1>1. c = BSP /\ pc[BSP] = "ipi"
  BY DEF send_init_sipi_sipi, Inv, Roles, ApAt, StartPoints, RendezvousPoints, BootloaderPoints, EarlyPoints,
     KernelStartPoints, APs
<1>2. PICK last \in APs : LastIs(last)
  BY <1>1 DEF Inv, OneAtATime
<1>3. LastLaunched(BSP) = last
  BY <1>2, LastIsLatest, BootAssumption
<1> QED
  BY <1>1, <1>2, <1>3 DEF send_init_sipi_sipi, LastIs

LEMMA Marking ==
  ASSUME Inv, NEW c \in Cores, mark_launched(c)
  PROVE  /\ c = BSP /\ pc[BSP] = "launch"
         /\ \/ /\ \A a \in APs : core_states[a] # "None"
               /\ pc' = [pc EXCEPT ![BSP] = "notify"] /\ UNCHANGED core_states
            \/ \E m \in APs : /\ core_states[m] = "None"
                              /\ \A a \in APs : core_states[a] = "None" => m <= a
                              /\ pc' = [pc EXCEPT ![BSP] = "ipi"]
                              /\ core_states' = [core_states EXCEPT ![m] = "Launched"]
         /\ UNCHANGED <<TOTAL_CORES, CORES_ONLINE, READY_CORES, nmis_enabled, otherThanOnline>>
<1>1. c = BSP /\ pc[BSP] = "launch"
  BY DEF mark_launched, Inv, Roles, ApAt, StartPoints, RendezvousPoints, BootloaderPoints, EarlyPoints,
     KernelStartPoints, APs
<1>2. Unlaunched(c) = {a \in APs : core_states[a] = "None"}
  BY <1>1 DEF Unlaunched, APs
<1>3. CASE Unlaunched(c) = {}
  BY <1>1, <1>2, <1>3 DEF mark_launched
<1>4. CASE Unlaunched(c) # {}
  <2>1. Unlaunched(c) \in SUBSET Nat
    BY <1>2, BootAssumption DEF APs
  <2>2. Min(Unlaunched(c)) \in Unlaunched(c) /\ \A a \in Unlaunched(c) : Min(Unlaunched(c)) <= a
    BY <1>4, <2>1, Lowest
  <2> QED
    BY <1>1, <1>2, <1>4, <2>2 DEF mark_launched
<1> QED
  BY <1>3, <1>4

LEMMA Switching ==
  ASSUME Inv, NEW c \in Cores, switch_boot_block(c)
  PROVE  /\ Goto(c, "switch", IF c = BSP THEN "clear_entrypoint" ELSE "flush")
         /\ NEW_BOOT_BLOCK
<1>1. core_id[c] = 0 <=> c = BSP
  BY IdTells DEF switch_boot_block, Goto, NoIdPoints, BootloaderPoints
<1>2. NEW_BOOT_BLOCK /\ Whole(blocks["new"])
  BY DEF Inv, Memory, switch_boot_block, Goto, PublishedPoints, APs
<1> QED
  BY <1>1, <1>2 DEF switch_boot_block, Whole

(* When the new boot block is published, every core is ready. *)
LEMMA AllReady ==
  ASSUME Inv, NEW_BOOT_BLOCK
  PROVE  /\ pc[BSP] \in PublishedPoints /\ AtReady = Cores
         /\ \A c \in Cores : pc[c] \in ArrivedReady
<1>1. pc[BSP] \in PublishedPoints
  BY DEF Inv, Memory
<1>2. pc[BSP] \in PassedReady
  BY <1>1 DEF PublishedPoints, NewBlockPoints, ClearedPoints, ReclaimedPoints, PassedReady
<1>3. AtReady = Cores
  BY <1>2, BootAssumption DEF Inv, Counters
<1> QED
  BY <1>1, <1>3 DEF AtReady

(* A core at a rendezvous comes after the launch. *)
LEMMA AllCounted ==
  ASSUME Inv, NEW c \in Cores, pc[c] \in OnlinePoints
  PROVE  TOTAL_CORES = Cardinality(Cores) /\ pc[BSP] \notin UnlaunchedPoints
<1>1. pc[BSP] \notin UnlaunchedPoints
  <2>1. CASE c = BSP
    BY <2>1 DEF OnlinePoints, RendezvousPoints, PassedOnline, ArrivedReady, PassedReady, UnlaunchedPoints,
       StartPoints, BootloaderPoints, EarlyPoints, KernelStartPoints
  <2>2. CASE c # BSP
    <3>1. core_states[c] = "Online"
      BY <2>2 DEF Inv, StatesFollow, APs
    <3> QED
      BY <2>2, <3>1 DEF Inv, OneAtATime, APs
  <2> QED
    BY <2>1, <2>2
<1> QED
  BY <1>1 DEF Inv, Counters

LEMMA Counting ==
  ASSUME Inv
  PROVE  /\ CORES_ONLINE = Cardinality(Cores) => AtOnline = Cores
         /\ READY_CORES = Cardinality(Cores) => AtReady = Cores
<1>1. AtOnline \in SUBSET Cores /\ AtReady \in SUBSET Cores /\ IsFiniteSet(Cores)
  BY BootAssumption DEF AtOnline, AtReady
<1>2. \A T \in SUBSET Cores : Cardinality(Cores) = Cardinality(T) => Cores = T
  BY <1>1, FS_Subset
<1> QED
  BY <1>1, <1>2 DEF Inv, Counters

(* A core that maps uses the boot block in force. *)
LEMMA MapsInForce ==
  ASSUME Inv, NEW c \in Cores, pc[c] \in MapPoints
  PROVE  /\ boot_block[c] = BlockInForce
         /\ c = BSP \/ pc[BSP] = "launch_wait"
<1>1. CASE c = BSP
  BY <1>1 DEF Inv, Memory, BlockInForce, MapPoints, NewBlockPoints, PublishedPoints, ClearedPoints, ReclaimedPoints
<1>2. CASE c # BSP
  <2>1. c \in APs /\ pc[c] \in StartPoints
    BY <1>2 DEF Inv, Roles, ApAt, MapPoints, StartPoints, BootloaderPoints, EarlyPoints, KernelStartPoints,
       RendezvousPoints, APs
  <2>2. pc[BSP] = "launch_wait"
    BY <2>1, Alone
  <2>3. boot_block[c] = "old" /\ ~NEW_BOOT_BLOCK
    BY <2>1, <2>2 DEF Inv, Memory, NewBlockPoints, PublishedPoints, ClearedPoints, ReclaimedPoints, StartPoints,
       BootloaderPoints, EarlyPoints, KernelStartPoints
  <2> QED
    BY <2>2, <2>3 DEF BlockInForce
<1> QED
  BY <1>1, <1>2

LEMMA Steps ==
  ASSUME NEW c \in Cores, CoreStep(c)
  PROVE  \/ LockStep(c) \/ MapStep(c) \/ claim_core_id(c)
         \/ enter_bootloader(c) \/ interrupts_initialize(c) \/ apic_initialize(c)
         \/ LaunchStep(c) \/ OnlineStep(c)
         \/ become_ready(c) \/ await_ready(c) \/ read_boot_block(c) \/ write_boot_block(c)
         \/ publish_boot_block(c) \/ await_boot_block(c) \/ switch_boot_block(c) \/ clear_ap_entrypoint(c)
         \/ enable_nx_on_physical_region(c) \/ reclaim_boot_memory(c) \/ flush_tlb(c) \/ idle(c)
  BY DEF CoreStep, StartStep, create_kernel_stack, core_locals_initialize, initialize_heap, FinishStep,
     allocate_boot_block, use_heap, LockStep, MapStep

(* The frame that is mapped leaves the boot block in force. *)
LEMMA Allocating ==
  ASSUME Inv, NEW c \in Cores, pc[c] \in MapPoints, alloc_phys(c)
  PROVE  \E b \in {"old", "new"} : \E f \in blocks[b].free :
           /\ b = BlockInForce /\ BlockInForce' = b /\ f \in AllFrames
           /\ blocks' \in [{"old", "new"} -> BlockType]
           /\ blocks'[b].free = blocks[b].free \ {f}
           /\ blocks'[b].valid = blocks[b].valid /\ blocks'[b].boot = blocks[b].boot
           /\ blocks'[b].entrypoint = blocks[b].entrypoint
           /\ \A x \in {"old", "new"} \ {b} : blocks'[x] = blocks[x]
           /\ owned' \in [Cores -> SUBSET AllFrames]
           /\ owned'[c] = owned[c] \cup {f} /\ \A d \in Cores \ {c} : owned'[d] = owned[d]
           /\ UNCHANGED <<boot_block, block_copy, NEW_BOOT_BLOCK>>
           /\ c = BSP \/ pc[BSP] = "launch_wait"
<1> DEFINE b == BlockInForce
           f == Min(blocks[b].free)
           left == [blocks[b] EXCEPT !.free = blocks[b].free \ {f}]
<1>1. boot_block[c] = b /\ (c = BSP \/ pc[BSP] = "launch_wait")
  BY MapsInForce
<1>2. b \in {"old", "new"} /\ blocks \in [{"old", "new"} -> BlockType] /\ owned \in [Cores -> SUBSET AllFrames]
  BY DEF Inv, Memory, BlockInForce
<1>3. blocks[b] \in BlockType /\ blocks[b].free \subseteq AllFrames /\ blocks[b].free # {}
  BY <1>1, <1>2 DEF alloc_phys, BlockType
<1>4. f \in blocks[b].free
  BY <1>3, Lowest, BootAssumption DEF AllFrames
<1>5. /\ blocks' = [blocks EXCEPT ![b] = left] /\ owned' = [owned EXCEPT ![c] = owned[c] \cup {f}]
      /\ UNCHANGED <<boot_block, block_copy, NEW_BOOT_BLOCK>>
  BY <1>1 DEF alloc_phys
<1>6. BlockInForce' = b
  BY <1>5 DEF BlockInForce
<1> HIDE DEF b, f
<1>7. left \in BlockType /\ left.free = blocks[b].free \ {f} /\ left.valid = blocks[b].valid
      /\ left.boot = blocks[b].boot /\ left.entrypoint = blocks[b].entrypoint
  BY <1>3 DEF BlockType
<1> HIDE DEF left
<1>8. f \in AllFrames
  BY <1>3, <1>4
<1> QED
  BY <1>1, <1>2, <1>4, <1>5, <1>6, <1>7, <1>8 DEF b

(* Steps that neither take an id nor leave the firmware. *)
LEMMA SameIds ==
  ASSUME Inv, UNCHANGED countVars,
         \A c \in Cores : /\ pc'[c] \in NoIdPoints <=> pc[c] \in NoIdPoints
                          /\ pc'[c] \in {"off", "bootloader"} <=> pc[c] \in {"off", "bootloader"}
  PROVE  Ids'
<1>1. Entered' = Entered /\ Numbered' = Numbered
  BY DEF Entered, Numbered, countVars, APs
<1> QED
  BY <1>1 DEF Inv, Ids, countVars
-----------------------------------------------------------------------------
(* Every step keeps the parts of the invariant.  The roles of the cores, *)
LEMMA RolesKept ==
  ASSUME Inv, NEW c \in Cores, CoreStep(c)
  PROVE  Roles'
<1> USE BootAssumption DEF Roles, StatesFollow, Ids, Memory, Numbered, Whole, countVars, onlineVars, localVars,
     blockVars, memVars, tlbVars, otherThanOnline, otherThanBlock, Goto, APs, BootloaderPoints, EarlyPoints,
     KernelStartPoints, RendezvousPoints, BspPoints, PassedReady, ArrivedReady, PassedOnline, ArrivedOnline,
     FailurePoints, Points, StartPoints, NoIdPoints, UnlaunchedPoints, LaunchPoints, OnlinePoints, MapPoints,
     LockPoints, ReclaimedPoints, ClearedPoints, NewBlockPoints, PublishedPoints, BspAt, ApAt
<1>1. Roles /\ StatesFollow /\ Ids /\ Memory
  BY DEF Inv
<1>2. CASE LockStep(c)
  <2>1. LockMove(c) /\ page_table_lock'.core = c /\ page_table_lock' \in [core : Cores, id : Int]
        /\ UNCHANGED <<countVars, onlineVars, localVars, blockVars, owned, tlbVars, is_panicking>>
    BY <1>2, Locking
  <2> QED
    BY <1>1, <2>1 DEF LockMove
<1>3. CASE MapStep(c)
  <2>1. MapMove(c) /\ alloc_phys(c) /\ UNCHANGED <<countVars, onlineVars, localVars, tlbVars, is_panicking>>
    BY <1>3, MappingPages
  <2> QED
    BY <1>1, <2>1 DEF MapMove, alloc_phys
<1>4. CASE claim_core_id(c) \/ enter_bootloader(c) \/ interrupts_initialize(c)
  BY <1>1, <1>4 DEF claim_core_id, enter_bootloader, interrupts_initialize
<1>5. CASE apic_initialize(c)
  <2>1. core_id[c] = 0 <=> c = BSP
    BY <1>5, IdTells DEF apic_initialize
  <2> QED
    BY <1>1, <1>5, <2>1 DEF apic_initialize
<1>6. CASE processors_initialize(c) \/ mark_launched(c)
  BY <1>1, <1>6 DEF processors_initialize, mark_launched
<1>7. CASE send_init_sipi_sipi(c)
  <2>1. PICK last \in APs : /\ LastIs(last) /\ pc[last] = "off" /\ core_states[last] = "Launched"
                            /\ pc' = [pc EXCEPT ![BSP] = "launch_wait", ![last] = "bootloader"]
    BY <1>7, Sending
  <2>2. c = BSP /\ pc[BSP] = "ipi" /\ UNCHANGED <<onlineVars, otherThanOnline>>
    BY <1>7, Sending
  <2> QED
    BY <1>1, <2>1, <2>2
<1>8. CASE await_launched(c) \/ register_online(c) \/ check_panicking(c) \/ count_online(c)
  BY <1>1, <1>8 DEF await_launched, register_online, check_panicking, count_online
<1>9. CASE await_online(c) \/ become_ready(c) \/ await_ready(c) \/ read_boot_block(c)
  BY <1>1, <1>9 DEF await_online, become_ready, await_ready, read_boot_block
<1>10. CASE write_boot_block(c) \/ publish_boot_block(c) \/ await_boot_block(c)
  BY <1>1, <1>10 DEF write_boot_block, publish_boot_block, await_boot_block
<1>11. CASE switch_boot_block(c)
  <2>1. Goto(c, "switch", IF c = BSP THEN "clear_entrypoint" ELSE "flush") /\ NEW_BOOT_BLOCK
    BY <1>11, Switching
  <2> QED
    BY <1>1, <1>11, <2>1 DEF switch_boot_block
<1>12. CASE clear_ap_entrypoint(c) \/ enable_nx_on_physical_region(c) \/ reclaim_boot_memory(c) \/ flush_tlb(c)
  BY <1>1, <1>12 DEF clear_ap_entrypoint, enable_nx_on_physical_region, reclaim_boot_memory, flush_tlb
<1>13. CASE idle(c)
  BY <1>1, <1>13 DEF idle, vars
<1> QED
  BY Steps, <1>2, <1>3, <1>4, <1>5, <1>6, <1>7, <1>8, <1>9, <1>10, <1>11, <1>12, <1>13 DEF LaunchStep, OnlineStep

(* the states in CORE_STATES, *)
LEMMA StatesFollowKept ==
  ASSUME Inv, NEW c \in Cores, CoreStep(c)
  PROVE  StatesFollow'
<1> USE BootAssumption DEF Roles, StatesFollow, Ids, Numbered, countVars, onlineVars, localVars, blockVars,
     memVars, tlbVars, otherThanOnline, otherThanBlock, Goto, APs, BootloaderPoints, EarlyPoints,
     KernelStartPoints, RendezvousPoints, BspPoints, PassedReady, ArrivedReady, PassedOnline, ArrivedOnline,
     FailurePoints, Points, StartPoints, NoIdPoints, UnlaunchedPoints, LaunchPoints, OnlinePoints, MapPoints,
     LockPoints, ReclaimedPoints, ClearedPoints, NewBlockPoints, PublishedPoints, BspAt, ApAt
<1>1. Roles /\ StatesFollow /\ Ids
  BY DEF Inv
<1>2. CASE LockStep(c)
  <2>1. LockMove(c) /\ page_table_lock'.core = c /\ page_table_lock' \in [core : Cores, id : Int]
        /\ UNCHANGED <<countVars, onlineVars, localVars, blockVars, owned, tlbVars, is_panicking>>
    BY <1>2, Locking
  <2> QED
    BY <1>1, <2>1 DEF LockMove
<1>3. CASE MapStep(c)
  <2>1. MapMove(c) /\ alloc_phys(c) /\ UNCHANGED <<countVars, onlineVars, localVars, tlbVars, is_panicking>>
    BY <1>3, MappingPages
  <2> QED
    BY <1>1, <2>1 DEF MapMove, alloc_phys
<1>4. CASE claim_core_id(c) \/ enter_bootloader(c) \/ interrupts_initialize(c)
  BY <1>1, <1>4 DEF claim_core_id, enter_bootloader, interrupts_initialize
<1>5. CASE apic_initialize(c)
  <2>1. core_id[c] = 0 <=> c = BSP
    BY <1>5, IdTells DEF apic_initialize
  <2> QED
    BY <1>1, <1>5, <2>1 DEF apic_initialize
<1>6. CASE processors_initialize(c)
  BY <1>1, <1>6 DEF processors_initialize
<1>7. CASE mark_launched(c)
  <2>1. /\ c = BSP /\ pc[BSP] = "launch"
        /\ UNCHANGED <<TOTAL_CORES, CORES_ONLINE, READY_CORES, nmis_enabled, otherThanOnline>>
    BY <1>7, Marking
  <2>2. CASE /\ \A a \in APs : core_states[a] # "None"
             /\ pc' = [pc EXCEPT ![BSP] = "notify"] /\ UNCHANGED core_states
    BY <1>1, <2>1, <2>2
  <2>3. ASSUME NEW m \in APs, core_states[m] = "None", \A a \in APs : core_states[a] = "None" => m <= a,
               pc' = [pc EXCEPT ![BSP] = "ipi"], core_states' = [core_states EXCEPT ![m] = "Launched"]
        PROVE  StatesFollow'
    BY <1>1, <2>1, <2>3
  <2> QED
    BY <1>7, <2>2, <2>3, Marking
<1>8. CASE send_init_sipi_sipi(c)
  <2>1. PICK last \in APs : /\ LastIs(last) /\ pc[last] = "off" /\ core_states[last] = "Launched"
                            /\ pc' = [pc EXCEPT ![BSP] = "launch_wait", ![last] = "bootloader"]
    BY <1>8, Sending
  <2>2. c = BSP /\ pc[BSP] = "ipi" /\ UNCHANGED <<onlineVars, otherThanOnline>>
    BY <1>8, Sending
  <2> QED
    BY <1>1, <2>1, <2>2
<1>9. CASE await_launched(c) \/ register_online(c) \/ check_panicking(c) \/ count_online(c)
  BY <1>1, <1>9 DEF await_launched, register_online, check_panicking, count_online
<1>10. CASE await_online(c) \/ become_ready(c) \/ await_ready(c) \/ read_boot_block(c)
  BY <1>1, <1>10 DEF await_online, become_ready, await_ready, read_boot_block
<1>11. CASE write_boot_block(c) \/ publish_boot_block(c) \/ await_boot_block(c)
  BY <1>1, <1>11 DEF write_boot_block, publish_boot_block, await_boot_block
<1>12. CASE switch_boot_block(c)
  <2>1. Goto(c, "switch", IF c = BSP THEN "clear_entrypoint" ELSE "flush") /\ NEW_BOOT_BLOCK
    BY <1>12, Switching
  <2> QED
    BY <1>1, <1>12, <2>1 DEF switch_boot_block
<1>13. CASE clear_ap_entrypoint(c) \/ enable_nx_on_physical_region(c) \/ reclaim_boot_memory(c) \/ flush_tlb(c)
  BY <1>1, <1>13 DEF clear_ap_entrypoint, enable_nx_on_physical_region, reclaim_boot_memory, flush_tlb
<1>14. CASE idle(c)
  BY <1>1, <1>14 DEF idle, vars
<1> QED
  BY Steps, <1>2, <1>3, <1>4, <1>5, <1>6, <1>7, <1>8, <1>9, <1>10, <1>11, <1>12, <1>13, <1>14 DEF LaunchStep,
     OnlineStep

(* the launch of one AP after the other, *)
LEMMA OneAtATimeKept ==
  ASSUME Inv, NEW c \in Cores, CoreStep(c)
  PROVE  OneAtATime'
<1> USE BootAssumption DEF Roles, StatesFollow, OneAtATime, LastIs, countVars, onlineVars, localVars, blockVars,
     memVars, tlbVars, otherThanOnline, otherThanBlock, Goto, APs, BootloaderPoints, EarlyPoints,
     KernelStartPoints, RendezvousPoints, BspPoints, PassedReady, ArrivedReady, PassedOnline, ArrivedOnline,
     FailurePoints, Points, StartPoints, NoIdPoints, UnlaunchedPoints, LaunchPoints, OnlinePoints, MapPoints,
     LockPoints, ReclaimedPoints, ClearedPoints, NewBlockPoints, PublishedPoints, BspAt, ApAt
<1>1. Roles /\ StatesFollow /\ OneAtATime
  BY DEF Inv
<1>2. CASE LockStep(c)
  <2>1. LockMove(c) /\ page_table_lock'.core = c /\ page_table_lock' \in [core : Cores, id : Int]
        /\ UNCHANGED <<countVars, onlineVars, localVars, blockVars, owned, tlbVars, is_panicking>>
    BY <1>2, Locking
  <2> QED
    BY <1>1, <2>1 DEF LockMove
<1>3. CASE MapStep(c)
  <2>1. MapMove(c) /\ alloc_phys(c) /\ UNCHANGED <<countVars, onlineVars, localVars, tlbVars, is_panicking>>
    BY <1>3, MappingPages
  <2> QED
    BY <1>1, <2>1 DEF MapMove, alloc_phys
<1>4. CASE claim_core_id(c) \/ enter_bootloader(c) \/ interrupts_initialize(c)
  BY <1>1, <1>4 DEF claim_core_id, enter_bootloader, interrupts_initialize
<1>5. CASE apic_initialize(c)
  <2>1. core_id[c] = 0 <=> c = BSP
    BY <1>5, IdTells DEF apic_initialize
  <2> QED
    BY <1>1, <1>5, <2>1 DEF apic_initialize
<1>6. CASE processors_initialize(c)
  BY <1>1, <1>6 DEF processors_initialize
<1>7. CASE mark_launched(c)
  <2>1. /\ c = BSP /\ pc[BSP] = "launch"
        /\ UNCHANGED <<TOTAL_CORES, CORES_ONLINE, READY_CORES, nmis_enabled, otherThanOnline>>
    BY <1>7, Marking
  <2>2. CASE /\ \A a \in APs : core_states[a] # "None"
             /\ pc' = [pc EXCEPT ![BSP] = "notify"] /\ UNCHANGED core_states
    BY <1>1, <2>1, <2>2
  <2>3. ASSUME NEW m \in APs, core_states[m] = "None", \A a \in APs : core_states[a] = "None" => m <= a,
               pc' = [pc EXCEPT ![BSP] = "ipi"], core_states' = [core_states EXCEPT ![m] = "Launched"]
        PROVE  OneAtATime'
    <3>1. m \in Nat /\ APs \subseteq Nat
      OBVIOUS
    <3>2. LastIs(m)'
      BY <1>1, <2>1, <2>3, <3>1
    <3> QED
      BY <1>1, <2>1, <2>3, <3>2
  <2> QED
    BY <1>7, <2>2, <2>3, Marking
<1>8. CASE send_init_sipi_sipi(c)
  <2>1. PICK last \in APs : /\ LastIs(last) /\ pc[last] = "off" /\ core_states[last] = "Launched"
                            /\ pc' = [pc EXCEPT ![BSP] = "launch_wait", ![last] = "bootloader"]
    BY <1>8, Sending
  <2>2. c = BSP /\ pc[BSP] = "ipi" /\ UNCHANGED <<onlineVars, otherThanOnline>>
    BY <1>8, Sending
  <2> QED
    BY <1>1, <2>1, <2>2
<1>9. CASE await_launched(c)
  <2>1. PICK last \in APs : LastIs(last)
    BY <1>1, <1>9 DEF await_launched
  <2>2. c = BSP /\ pc[BSP] = "launch_wait" /\ pc' = [pc EXCEPT ![BSP] = "launch"]
        /\ core_states[LastLaunched(BSP)] = "Online" /\ UNCHANGED <<onlineVars, otherThanOnline>>
    BY <1>1, <1>9 DEF await_launched
  <2>3. core_states[last] = "Online"
    BY <2>1, <2>2, LastIsLatest
  <2> QED
    BY <1>1, <2>1, <2>2, <2>3
<1>10. CASE register_online(c) \/ check_panicking(c) \/ count_online(c) \/ await_online(c)
  BY <1>1, <1>10 DEF register_online, check_panicking, count_online, await_online
<1>11. CASE become_ready(c) \/ await_ready(c) \/ read_boot_block(c) \/ write_boot_block(c)
  BY <1>1, <1>11 DEF become_ready, await_ready, read_boot_block, write_boot_block
<1>12. CASE publish_boot_block(c) \/ await_boot_block(c)
  BY <1>1, <1>12 DEF publish_boot_block, await_boot_block
<1>13. CASE switch_boot_block(c)
  <2>1. Goto(c, "switch", IF c = BSP THEN "clear_entrypoint" ELSE "flush") /\ NEW_BOOT_BLOCK
    BY <1>13, Switching
  <2> QED
    BY <1>1, <1>13, <2>1 DEF switch_boot_block
<1>14. CASE clear_ap_entrypoint(c) \/ enable_nx_on_physical_region(c) \/ reclaim_boot_memory(c) \/ flush_tlb(c)
  BY <1>1, <1>14 DEF clear_ap_entrypoint, enable_nx_on_physical_region, reclaim_boot_memory, flush_tlb
<1>15. CASE idle(c)
  BY <1>1, <1>15 DEF idle, vars
<1> QED
  BY Steps, <1>2, <1>3, <1>4, <1>5, <1>6, <1>7, <1>8, <1>9, <1>10, <1>11, <1>12, <1>13, <1>14,
     <1>15 DEF LaunchStep, OnlineStep

(* the page table lock, *)
LEMMA LockHeldKept ==
  ASSUME Inv, NEW c \in Cores, CoreStep(c)
  PROVE  LockHeld'
<1> USE BootAssumption DEF Roles, LockHeld, NoOne, NoCore, countVars, onlineVars, localVars, blockVars, memVars,
     tlbVars, otherThanOnline, otherThanBlock, Goto, APs, BootloaderPoints, EarlyPoints, KernelStartPoints,
     RendezvousPoints, BspPoints, PassedReady, ArrivedReady, PassedOnline, ArrivedOnline, FailurePoints, Points,
     StartPoints, NoIdPoints, UnlaunchedPoints, LaunchPoints, OnlinePoints, MapPoints, LockPoints, ReclaimedPoints,
     ClearedPoints, NewBlockPoints, PublishedPoints, BspAt, ApAt
<1>1. Roles /\ LockHeld
  BY DEF Inv
<1>2. CASE LockStep(c)
  <2>1. LockMove(c) /\ page_table_lock'.core = c /\ page_table_lock' \in [core : Cores, id : Int]
        /\ UNCHANGED <<countVars, onlineVars, localVars, blockVars, owned, tlbVars, is_panicking>>
    BY <1>2, Locking
  <2> QED
    BY <1>1, <2>1 DEF LockMove
<1>3. CASE MapStep(c)
  <2>1. MapMove(c) /\ alloc_phys(c) /\ UNCHANGED <<countVars, onlineVars, localVars, tlbVars, is_panicking>>
    BY <1>3, MappingPages
  <2> QED
    BY <1>1, <2>1 DEF MapMove, alloc_phys
<1>4. CASE claim_core_id(c)
  BY <1>1, <1>4 DEF claim_core_id
<1>5. CASE enter_bootloader(c)
  BY <1>1, <1>5 DEF enter_bootloader
<1>6. CASE interrupts_initialize(c)
  BY <1>1, <1>6 DEF interrupts_initialize
<1>7. CASE apic_initialize(c)
  <2>1. core_id[c] = 0 <=> c = BSP
    BY <1>7, IdTells DEF apic_initialize
  <2> QED
    BY <1>1, <1>7, <2>1 DEF apic_initialize
<1>8. CASE processors_initialize(c)
  BY <1>1, <1>8 DEF processors_initialize
<1>9. CASE mark_launched(c)
  BY <1>1, <1>9 DEF mark_launched
<1>10. CASE send_init_sipi_sipi(c)
  <2>1. PICK last \in APs : /\ LastIs(last) /\ pc[last] = "off" /\ core_states[last] = "Launched"
                            /\ pc' = [pc EXCEPT ![BSP] = "launch_wait", ![last] = "bootloader"]
    BY <1>10, Sending
  <2>2. c = BSP /\ pc[BSP] = "ipi" /\ UNCHANGED <<onlineVars, otherThanOnline>>
    BY <1>10, Sending
  <2> QED
    BY <1>1, <2>1, <2>2
<1>11. CASE await_launched(c)
  BY <1>1, <1>11 DEF await_launched
<1>12. CASE register_online(c)
  BY <1>1, <1>12 DEF register_online
<1>13. CASE check_panicking(c)
  BY <1>1, <1>13 DEF check_panicking
<1>14. CASE count_online(c)
  BY <1>1, <1>14 DEF count_online
<1>15. CASE await_online(c)
  BY <1>1, <1>15 DEF await_online
<1>16. CASE become_ready(c)
  BY <1>1, <1>16 DEF become_ready
<1>17. CASE await_ready(c)
  BY <1>1, <1>17 DEF await_ready
<1>18. CASE read_boot_block(c)
  BY <1>1, <1>18 DEF read_boot_block
<1>19. CASE write_boot_block(c)
  BY <1>1, <1>19 DEF write_boot_block
<1>20. CASE publish_boot_block(c)
  BY <1>1, <1>20 DEF publish_boot_block
<1>21. CASE await_boot_block(c)
  BY <1>1, <1>21 DEF await_boot_block
<1>22. CASE switch_boot_block(c)
  <2>1. Goto(c, "switch", IF c = BSP THEN "clear_entrypoint" ELSE "flush") /\ NEW_BOOT_BLOCK
    BY <1>22, Switching
  <2> QED
    BY <1>1, <1>22, <2>1 DEF switch_boot_block
<1>23. CASE clear_ap_entrypoint(c)
  BY <1>1, <1>23 DEF clear_ap_entrypoint
<1>24. CASE enable_nx_on_physical_region(c)
  BY <1>1, <1>24 DEF enable_nx_on_physical_region
<1>25. CASE reclaim_boot_memory(c)
  BY <1>1, <1>25 DEF reclaim_boot_memory
<1>26. CASE flush_tlb(c)
  BY <1>1, <1>26 DEF flush_tlb
<1>27. CASE idle(c)
  BY <1>1, <1>27 DEF idle, vars
<1> QED
  BY Steps, <1>2, <1>3, <1>4, <1>5, <1>6, <1>7, <1>8, <1>9, <1>10, <1>11, <1>12, <1>13, <1>14, <1>15, <1>16, <1>17,
     <1>18, <1>19, <1>20, <1>21, <1>22, <1>23, <1>24, <1>25, <1>26, <1>27 DEF LaunchStep, OnlineStep

(* the types of what only the hardware looks at, *)
LEMMA OtherTypesKept ==
  ASSUME Inv, NEW c \in Cores, CoreStep(c)
  PROVE  OtherTypes'
<1> USE BootAssumption DEF OtherTypes, countVars, onlineVars, localVars, blockVars, memVars, tlbVars,
     otherThanOnline, otherThanBlock, Goto, APs, BootloaderPoints, EarlyPoints, KernelStartPoints,
     RendezvousPoints, BspPoints, PassedReady, ArrivedReady, PassedOnline, ArrivedOnline, FailurePoints, Points,
     StartPoints, NoIdPoints, UnlaunchedPoints, LaunchPoints, OnlinePoints, MapPoints, LockPoints, ReclaimedPoints,
     ClearedPoints, NewBlockPoints, PublishedPoints, BspAt, ApAt
<1>1. OtherTypes
  BY DEF Inv
<1>2. CASE LockStep(c)
  <2>1. LockMove(c) /\ page_table_lock'.core = c /\ page_table_lock' \in [core : Cores, id : Int]
        /\ UNCHANGED <<countVars, onlineVars, localVars, blockVars, owned, tlbVars, is_panicking>>
    BY <1>2, Locking
  <2> QED
    BY <1>1, <2>1 DEF LockMove
<1>3. CASE MapStep(c)
  <2>1. MapMove(c) /\ alloc_phys(c) /\ UNCHANGED <<countVars, onlineVars, localVars, tlbVars, is_panicking>>
    BY <1>3, MappingPages
  <2> QED
    BY <1>1, <2>1 DEF MapMove, alloc_phys
<1>4. CASE claim_core_id(c) \/ enter_bootloader(c) \/ interrupts_initialize(c)
  BY <1>1, <1>4 DEF claim_core_id, enter_bootloader, interrupts_initialize
<1>5. CASE apic_initialize(c)
  <2>1. core_id[c] = 0 <=> c = BSP
    BY <1>5, IdTells DEF apic_initialize
  <2> QED
    BY <1>1, <1>5, <2>1 DEF apic_initialize
<1>6. CASE processors_initialize(c) \/ mark_launched(c)
  BY <1>1, <1>6 DEF processors_initialize, mark_launched
<1>7. CASE send_init_sipi_sipi(c)
  <2>1. PICK last \in APs : /\ LastIs(last) /\ pc[last] = "off" /\ core_states[last] = "Launched"
                            /\ pc' = [pc EXCEPT ![BSP] = "launch_wait", ![last] = "bootloader"]
    BY <1>7, Sending
  <2>2. c = BSP /\ pc[BSP] = "ipi" /\ UNCHANGED <<onlineVars, otherThanOnline>>
    BY <1>7, Sending
  <2> QED
    BY <1>1, <2>1, <2>2
<1>8. CASE await_launched(c) \/ register_online(c) \/ check_panicking(c) \/ count_online(c)
          \/ await_online(c) \/ become_ready(c) \/ await_ready(c) \/ read_boot_block(c)
  BY <1>1, <1>8 DEF await_launched, register_online, check_panicking, count_online, await_online, become_ready,
     await_ready, read_boot_block
<1>9. CASE write_boot_block(c) \/ publish_boot_block(c) \/ await_boot_block(c)
  BY <1>1, <1>9 DEF write_boot_block, publish_boot_block, await_boot_block
<1>10. CASE switch_boot_block(c)
  <2>1. Goto(c, "switch", IF c = BSP THEN "clear_entrypoint" ELSE "flush") /\ NEW_BOOT_BLOCK
    BY <1>10, Switching
  <2> QED
    BY <1>1, <1>10, <2>1 DEF switch_boot_block
<1>11. CASE clear_ap_entrypoint(c) \/ enable_nx_on_physical_region(c) \/ reclaim_boot_memory(c) \/ flush_tlb(c)
          \/ idle(c)
  BY <1>1, <1>11 DEF clear_ap_entrypoint, enable_nx_on_physical_region, reclaim_boot_memory, flush_tlb, idle, vars
<1> QED
  BY Steps, <1>2, <1>3, <1>4, <1>5, <1>6, <1>7, <1>8, <1>9, <1>10, <1>11 DEF LaunchStep, OnlineStep

(* the boot blocks and the memory, *)
LEMMA MemoryKept ==
  ASSUME Inv, NEW c \in Cores, CoreStep(c)
  PROVE  Memory'
<1> USE BootAssumption DEF Roles, Memory, Whole, BlockInForce, BlockType, countVars, onlineVars, localVars,
     blockVars, memVars, tlbVars, otherThanOnline, otherThanBlock, Goto, APs, BootloaderPoints, EarlyPoints,
     KernelStartPoints, RendezvousPoints, BspPoints, PassedReady, ArrivedReady, PassedOnline, ArrivedOnline,
     FailurePoints, Points, StartPoints, NoIdPoints, UnlaunchedPoints, LaunchPoints, OnlinePoints, MapPoints,
     LockPoints, ReclaimedPoints, ClearedPoints, NewBlockPoints, PublishedPoints, BspAt, ApAt
<1>1. Roles /\ Memory
  BY DEF Inv
<1>2. CASE LockStep(c)
  <2>1. LockMove(c) /\ page_table_lock'.core = c /\ page_table_lock' \in [core : Cores, id : Int]
        /\ UNCHANGED <<countVars, onlineVars, localVars, blockVars, owned, tlbVars, is_panicking>>
    BY <1>2, Locking
  <2> QED
    BY <1>1, <2>1 DEF LockMove
<1>3. CASE MapStep(c)
  <2>1. MapMove(c) /\ alloc_phys(c) /\ UNCHANGED <<countVars, onlineVars, localVars, tlbVars, is_panicking>>
    BY <1>3, MappingPages
  <2>2. PICK b \in {"old", "new"} : \E f \in blocks[b].free :
           /\ b = BlockInForce /\ BlockInForce' = b /\ f \in AllFrames
           /\ blocks' \in [{"old", "new"} -> BlockType]
           /\ blocks'[b].free = blocks[b].free \ {f}
           /\ blocks'[b].valid = blocks[b].valid /\ blocks'[b].boot = blocks[b].boot
           /\ blocks'[b].entrypoint = blocks[b].entrypoint
           /\ \A x \in {"old", "new"} \ {b} : blocks'[x] = blocks[x]
           /\ owned' \in [Cores -> SUBSET AllFrames]
           /\ owned'[c] = owned[c] \cup {f} /\ \A d \in Cores \ {c} : owned'[d] = owned[d]
           /\ UNCHANGED <<boot_block, block_copy, NEW_BOOT_BLOCK>>
           /\ c = BSP \/ pc[BSP] = "launch_wait"
    BY <2>1, Allocating DEF MapMove
  <2>3. /\ \A d \in Cores : owned'[d] \cap blocks'[b].free = {}
        /\ \A d, e \in Cores : d # e => owned'[d] \cap owned'[e] = {}
    BY <1>1, <2>2
  <2>4. pc'[BSP] \notin ReclaimedPoints =>
          blocks'["new"].free \subseteq Frames /\ \A d \in Cores : owned'[d] \subseteq Frames
    BY <1>1, <2>1, <2>2 DEF MapMove
  <2> QED
    BY <1>1, <2>1, <2>2, <2>3, <2>4 DEF MapMove
<1>4. CASE claim_core_id(c) \/ enter_bootloader(c) \/ interrupts_initialize(c)
  BY <1>1, <1>4 DEF claim_core_id, enter_bootloader, interrupts_initialize
<1>5. CASE apic_initialize(c)
  <2>1. core_id[c] = 0 <=> c = BSP
    BY <1>5, IdTells DEF apic_initialize
  <2> QED
    BY <1>1, <1>5, <2>1 DEF apic_initialize
<1>6. CASE processors_initialize(c) \/ mark_launched(c)
  BY <1>1, <1>6 DEF processors_initialize, mark_launched
<1>7. CASE send_init_sipi_sipi(c)
  <2>1. PICK last \in APs : /\ LastIs(last) /\ pc[last] = "off" /\ core_states[last] = "Launched"
                            /\ pc' = [pc EXCEPT ![BSP] = "launch_wait", ![last] = "bootloader"]
    BY <1>7, Sending
  <2>2. c = BSP /\ pc[BSP] = "ipi" /\ UNCHANGED <<onlineVars, otherThanOnline>>
    BY <1>7, Sending
  <2> QED
    BY <1>1, <2>1, <2>2
<1>8. CASE await_launched(c) \/ register_online(c) \/ check_panicking(c) \/ count_online(c)
  BY <1>1, <1>8 DEF await_launched, register_online, check_panicking, count_online
<1>9. CASE await_online(c) \/ become_ready(c) \/ await_ready(c) \/ read_boot_block(c)
  BY <1>1, <1>9 DEF await_online, become_ready, await_ready, read_boot_block
<1>10. CASE write_boot_block(c) \/ publish_boot_block(c) \/ await_boot_block(c)
  BY <1>1, <1>10 DEF write_boot_block, publish_boot_block, await_boot_block
<1>11. CASE switch_boot_block(c)
  <2>1. Goto(c, "switch", IF c = BSP THEN "clear_entrypoint" ELSE "flush") /\ NEW_BOOT_BLOCK
    BY <1>11, Switching
  <2> QED
    BY <1>1, <1>11, <2>1 DEF switch_boot_block
<1>12. CASE clear_ap_entrypoint(c)
  <2>1. c = BSP /\ boot_block[c] = "new" /\ Goto(c, "clear_entrypoint", "remap_nx")
        /\ UNCHANGED <<boot_block, block_copy, NEW_BOOT_BLOCK, owned>>
    BY <1>1, <1>12 DEF clear_ap_entrypoint
  <2>2. blocks' = [blocks EXCEPT !["new"] = [blocks["new"] EXCEPT !.entrypoint = FALSE]]
    BY <1>12, <2>1 DEF clear_ap_entrypoint
  <2> DEFINE cleared == [blocks["new"] EXCEPT !.entrypoint = FALSE]
  <2>3. blocks["new"] \in BlockType
    BY <1>1
  <2>4. cleared \in BlockType /\ cleared.free = blocks["new"].free /\ cleared.valid = blocks["new"].valid
        /\ cleared.boot = blocks["new"].boot /\ cleared.entrypoint = FALSE
    BY <2>3
  <2> HIDE DEF cleared
  <2>5. blocks' = [blocks EXCEPT !["new"] = cleared]
    BY <2>2 DEF cleared
  <2>6. /\ blocks' \in [{"old", "new"} -> BlockType] /\ blocks'["old"] = blocks["old"]
        /\ blocks'["new"].free = blocks["new"].free /\ blocks'["new"].valid = blocks["new"].valid
        /\ blocks'["new"].boot = blocks["new"].boot /\ blocks'["new"].entrypoint = FALSE
    BY <1>1, <2>4, <2>5
  <2> QED
    BY <1>1, <2>1, <2>6
<1>13. CASE enable_nx_on_physical_region(c) \/ reclaim_boot_memory(c) \/ flush_tlb(c) \/ idle(c)
  BY <1>1, <1>13 DEF enable_nx_on_physical_region, reclaim_boot_memory, flush_tlb, idle, vars
<1> QED
  BY Steps, <1>2, <1>3, <1>4, <1>5, <1>6, <1>7, <1>8, <1>9, <1>10, <1>11, <1>12, <1>13 DEF LaunchStep, OnlineStep

(* and the core ids. *)
LEMMA IdsKept ==
  ASSUME Inv, NEW c \in Cores, CoreStep(c)
  PROVE  Ids'
<1> USE BootAssumption DEF Roles, countVars, onlineVars, localVars, blockVars, memVars, tlbVars, otherThanOnline,
     otherThanBlock, Goto, APs, BootloaderPoints, EarlyPoints, KernelStartPoints, RendezvousPoints, BspPoints,
     PassedReady, ArrivedReady, PassedOnline, ArrivedOnline, FailurePoints, Points, StartPoints, NoIdPoints,
     UnlaunchedPoints, LaunchPoints, OnlinePoints, MapPoints, LockPoints, ReclaimedPoints, ClearedPoints,
     NewBlockPoints, PublishedPoints, BspAt, ApAt
<1>1. Roles /\ Ids
  BY DEF Inv
<1>2. CASE LockStep(c)
  <2>1. LockMove(c) /\ UNCHANGED <<countVars, onlineVars, localVars, blockVars, owned, tlbVars, is_panicking>>
    BY <1>2, Locking
  <2>2. \A d \in Cores : /\ pc'[d] \in NoIdPoints <=> pc[d] \in NoIdPoints
                         /\ pc'[d] \in {"off", "bootloader"} <=> pc[d] \in {"off", "bootloader"}
    BY <1>1, <2>1 DEF LockMove
  <2> QED
    BY <2>1, <2>2, SameIds
<1>3. CASE MapStep(c)
  <2>1. MapMove(c) /\ UNCHANGED <<countVars, onlineVars, localVars, tlbVars, is_panicking>>
    BY <1>3, MappingPages
  <2>2. \A d \in Cores : /\ pc'[d] \in NoIdPoints <=> pc[d] \in NoIdPoints
                         /\ pc'[d] \in {"off", "bootloader"} <=> pc[d] \in {"off", "bootloader"}
    BY <1>1, <2>1 DEF MapMove
  <2> QED
    BY <2>1, <2>2, SameIds
<1>4. CASE claim_core_id(c)
  <2>1. /\ pc[c] = "start" /\ pc' = [pc EXCEPT ![c] = "locals_lock"]
        /\ core_id' = [core_id EXCEPT ![c] = NEXT_FREE_CORE_ID] /\ NEXT_FREE_CORE_ID' = NEXT_FREE_CORE_ID + 1
        /\ CORE_ID' = CORE_ID
    BY <1>4 DEF claim_core_id
  <2>2. NEXT_FREE_CORE_ID \in Nat
    BY CountersFinite
  <2>3. Numbered' = Numbered \cup {c} /\ c \notin Numbered /\ Entered' = Entered
    BY <1>1, <2>1, <2>2 DEF Numbered, Entered, Ids, NoCore
  <2>4. Cardinality(Numbered') = Cardinality(Numbered) + 1
    BY <2>3, CountersFinite, FS_AddElement
  <2>5. NEXT_FREE_CORE_ID = 0 <=> c = BSP
    <3>1. CASE c = BSP
      BY <1>1, <2>1, <3>1 DEF Ids
    <3>2. CASE c # BSP
      <4>1. pc[BSP] = "launch_wait"
        BY <2>1, <3>2, Alone
      <4>2. BSP \in Numbered
        BY <1>1, <4>1 DEF Numbered, Ids
      <4>3. 0 \in 0 .. NEXT_FREE_CORE_ID - 1
        BY <1>1, <4>2 DEF Ids
      <4> QED
        BY <3>2, <4>3
    <3> QED
      BY <3>1, <3>2
  <2>6. \A d \in Numbered : core_id'[d] = core_id[d] /\ core_id[d] \in 0 .. NEXT_FREE_CORE_ID - 1
    BY <1>1, <2>1, <2>3 DEF Ids, Numbered
  <2>7. core_id'[c] = NEXT_FREE_CORE_ID
    BY <1>1, <2>1 DEF Ids
  <2>8. /\ \A d \in Numbered' : core_id'[d] \in 0 .. NEXT_FREE_CORE_ID' - 1
        /\ \A d, e \in Numbered' : core_id'[d] = core_id'[e] => d = e
        /\ \A d \in Numbered' : core_id'[d] = 0 <=> d = BSP
    BY <1>1, <2>1, <2>2, <2>3, <2>5, <2>6, <2>7 DEF Ids
  <2>9. /\ core_id' \in [Cores -> Int]
        /\ \A d \in Cores : core_id'[d] = NoCore <=> pc'[d] \in NoIdPoints
        /\ core_id'[BSP] = NoCore => NEXT_FREE_CORE_ID' = 0
    BY <1>1, <2>1, <2>2, <2>5, <2>7 DEF Ids, NoCore
  <2> QED
    BY <1>1, <2>1, <2>3, <2>4, <2>8, <2>9 DEF Ids
<1>5. CASE enter_bootloader(c)
  <2>1. /\ pc[c] = "bootloader" /\ pc' = [pc EXCEPT ![c] = "stack_lock"]
        /\ CORE_ID' = CORE_ID + 1 /\ UNCHANGED <<core_id, NEXT_FREE_CORE_ID>>
    BY <1>5 DEF enter_bootloader
  <2>2. Entered' = Entered \cup {c} /\ c \notin Entered /\ Numbered' = Numbered
    BY <1>1, <2>1 DEF Entered, Numbered
  <2>3. Cardinality(Entered') = Cardinality(Entered) + 1
    BY <2>2, CountersFinite, FS_AddElement
  <2> QED
    BY <1>1, <2>1, <2>2, <2>3 DEF Ids
<1>6. CASE interrupts_initialize(c)
  BY <1>1, <1>6 DEF interrupts_initialize, Ids, Numbered, Entered, NoCore
<1>7. CASE apic_initialize(c)
  <2>1. /\ pc[c] = "apic" /\ UNCHANGED countVars
        /\ pc' = [pc EXCEPT ![c] = "processors"] \/ pc' = [pc EXCEPT ![c] = "notify"]
    BY <1>7 DEF apic_initialize
  <2>2. \A d \in Cores : /\ pc'[d] \in NoIdPoints <=> pc[d] \in NoIdPoints
                         /\ pc'[d] \in {"off", "bootloader"} <=> pc[d] \in {"off", "bootloader"}
    BY <1>1, <2>1
  <2> QED
    BY <2>1, <2>2, SameIds
<1>8. CASE processors_initialize(c)
  BY <1>1, <1>8 DEF processors_initialize, Ids, Numbered, Entered, NoCore
<1>9. CASE mark_launched(c)
  BY <1>1, <1>9 DEF mark_launched, Ids, Numbered, Entered, NoCore
<1>10. CASE send_init_sipi_sipi(c)
  <2>1. PICK last \in APs : /\ LastIs(last) /\ pc[last] = "off" /\ core_states[last] = "Launched"
                            /\ pc' = [pc EXCEPT ![BSP] = "launch_wait", ![last] = "bootloader"]
    BY <1>10, Sending
  <2>2. c = BSP /\ pc[BSP] = "ipi" /\ UNCHANGED <<onlineVars, otherThanOnline>>
    BY <1>10, Sending
  <2>3. \A d \in Cores : /\ pc'[d] \in NoIdPoints <=> pc[d] \in NoIdPoints
                         /\ pc'[d] \in {"off", "bootloader"} <=> pc[d] \in {"off", "bootloader"}
    BY <1>1, <2>1, <2>2
  <2> QED
    BY <2>2, <2>3, SameIds
<1>11. CASE await_launched(c)
  BY <1>1, <1>11 DEF await_launched, Ids, Numbered, Entered, NoCore
<1>12. CASE register_online(c)
  BY <1>1, <1>12 DEF register_online, Ids, Numbered, Entered, NoCore
<1>13. CASE check_panicking(c)
  BY <1>1, <1>13 DEF check_panicking, Ids, Numbered, Entered, NoCore
<1>14. CASE count_online(c)
  BY <1>1, <1>14 DEF count_online, Ids, Numbered, Entered, NoCore
<1>15. CASE await_online(c)
  BY <1>1, <1>15 DEF await_online, Ids, Numbered, Entered, NoCore
<1>16. CASE become_ready(c)
  BY <1>1, <1>16 DEF become_ready, Ids, Numbered, Entered, NoCore
<1>17. CASE await_ready(c)
  BY <1>1, <1>17 DEF await_ready, Ids, Numbered, Entered, NoCore
<1>18. CASE read_boot_block(c)
  BY <1>1, <1>18 DEF read_boot_block, Ids, Numbered, Entered, NoCore
<1>19. CASE write_boot_block(c)
  BY <1>1, <1>19 DEF write_boot_block, Ids, Numbered, Entered, NoCore
<1>20. CASE publish_boot_block(c)
  BY <1>1, <1>20 DEF publish_boot_block, Ids, Numbered, Entered, NoCore
<1>21. CASE await_boot_block(c)
  BY <1>1, <1>21 DEF await_boot_block, Ids, Numbered, Entered, NoCore
<1>22. CASE switch_boot_block(c)
  <2>1. Goto(c, "switch", IF c = BSP THEN "clear_entrypoint" ELSE "flush") /\ UNCHANGED countVars
    BY <1>22, Switching DEF switch_boot_block
  <2>2. \A d \in Cores : /\ pc'[d] \in NoIdPoints <=> pc[d] \in NoIdPoints
                         /\ pc'[d] \in {"off", "bootloader"} <=> pc[d] \in {"off", "bootloader"}
    BY <1>1, <2>1
  <2> QED
    BY <2>1, <2>2, SameIds
<1>23. CASE clear_ap_entrypoint(c)
  BY <1>1, <1>23 DEF clear_ap_entrypoint, Ids, Numbered, Entered, NoCore
<1>24. CASE enable_nx_on_physical_region(c)
  BY <1>1, <1>24 DEF enable_nx_on_physical_region, Ids, Numbered, Entered, NoCore
<1>25. CASE reclaim_boot_memory(c)
  BY <1>1, <1>25 DEF reclaim_boot_memory, Ids, Numbered, Entered, NoCore
<1>26. CASE flush_tlb(c)
  BY <1>1, <1>26 DEF flush_tlb, Ids, Numbered, Entered, NoCore
<1>27. CASE idle(c)
  BY <1>1, <1>27 DEF idle, vars, Ids, Numbered, Entered, NoCore
<1> QED
  BY Steps, <1>2, <1>3, <1>4, <1>5, <1>6, <1>7, <1>8, <1>9, <1>10, <1>11, <1>12, <1>13, <1>14, <1>15, <1>16, <1>17,
     <1>18, <1>19, <1>20, <1>21, <1>22, <1>23, <1>24, <1>25, <1>26, <1>27 DEF LaunchStep, OnlineStep

-----------------------------------------------------------------------------
(* What a step does to the two rendezvous. *)
LEMMA RendezvousMoves ==
  ASSUME Inv, NEW c \in Cores, CoreStep(c)
  PROVE  /\ \/ count_online(c) \/ await_online(c)
            \/ \A d \in Cores : /\ pc'[d] \in ArrivedOnline <=> pc[d] \in ArrivedOnline
                                /\ pc'[d] \in PassedOnline <=> pc[d] \in PassedOnline
         /\ \/ become_ready(c) \/ await_ready(c) \/ await_boot_block(c)
            \/ \A d \in Cores : /\ pc'[d] \in ArrivedReady <=> pc[d] \in ArrivedReady
                                /\ pc'[d] \in PassedReady <=> pc[d] \in PassedReady
         /\ count_online(c) \/ CORES_ONLINE' = CORES_ONLINE
         /\ become_ready(c) \/ READY_CORES' = READY_CORES
         /\ \/ processors_initialize(c)
            \/ TOTAL_CORES' = TOTAL_CORES /\ (pc'[BSP] \in UnlaunchedPoints <=> pc[BSP] \in UnlaunchedPoints)
<1> USE BootAssumption DEF Roles, countVars, onlineVars, localVars, blockVars, memVars, tlbVars, otherThanOnline,
     otherThanBlock, Goto, APs, BootloaderPoints, EarlyPoints, KernelStartPoints, RendezvousPoints, BspPoints,
     PassedReady, ArrivedReady, PassedOnline, ArrivedOnline, FailurePoints, Points, StartPoints, NoIdPoints,
     UnlaunchedPoints, LaunchPoints, OnlinePoints, MapPoints, LockPoints, ReclaimedPoints, ClearedPoints,
     NewBlockPoints, PublishedPoints, BspAt, ApAt
<1>1. Roles
  BY DEF Inv
<1>2. CASE LockStep(c)
  <2>1. LockMove(c) /\ page_table_lock'.core = c /\ page_table_lock' \in [core : Cores, id : Int]
        /\ UNCHANGED <<countVars, onlineVars, localVars, blockVars, owned, tlbVars, is_panicking>>
    BY <1>2, Locking
  <2> QED
    BY <1>1, <2>1 DEF LockMove
<1>3. CASE MapStep(c)
  <2>1. MapMove(c) /\ alloc_phys(c) /\ UNCHANGED <<countVars, onlineVars, localVars, tlbVars, is_panicking>>
    BY <1>3, MappingPages
  <2> QED
    BY <1>1, <2>1 DEF MapMove, alloc_phys
<1>4. CASE claim_core_id(c)
  BY <1>1, <1>4 DEF claim_core_id
<1>5. CASE enter_bootloader(c)
  BY <1>1, <1>5 DEF enter_bootloader
<1>6. CASE interrupts_initialize(c)
  BY <1>1, <1>6 DEF interrupts_initialize
<1>7. CASE apic_initialize(c)
  <2>1. core_id[c] = 0 <=> c = BSP
    BY <1>7, IdTells DEF apic_initialize
  <2> QED
    BY <1>1, <1>7, <2>1 DEF apic_initialize
<1>8. CASE processors_initialize(c)
  BY <1>1, <1>8 DEF processors_initialize
<1>9. CASE mark_launched(c)
  <2>1. /\ c = BSP /\ pc[BSP] = "launch"
        /\ UNCHANGED <<TOTAL_CORES, CORES_ONLINE, READY_CORES, nmis_enabled, otherThanOnline>>
        /\ pc' = [pc EXCEPT ![BSP] = "notify"] \/ pc' = [pc EXCEPT ![BSP] = "ipi"]
    BY <1>9, Marking
  <2> QED
    BY <1>1, <2>1
<1>10. CASE send_init_sipi_sipi(c)
  <2>1. PICK last \in APs : /\ LastIs(last) /\ pc[last] = "off" /\ core_states[last] = "Launched"
                            /\ pc' = [pc EXCEPT ![BSP] = "launch_wait", ![last] = "bootloader"]
    BY <1>10, Sending
  <2>2. c = BSP /\ pc[BSP] = "ipi" /\ UNCHANGED <<onlineVars, otherThanOnline>>
    BY <1>10, Sending
  <2> QED
    BY <1>1, <2>1, <2>2
<1>11. CASE await_launched(c)
  BY <1>1, <1>11 DEF await_launched
<1>12. CASE register_online(c)
  BY <1>1, <1>12 DEF register_online
<1>13. CASE check_panicking(c)
  BY <1>1, <1>13 DEF check_panicking
<1>14. CASE count_online(c)
  BY <1>1, <1>14 DEF count_online
<1>15. CASE await_online(c)
  BY <1>1, <1>15 DEF await_online
<1>16. CASE become_ready(c)
  BY <1>1, <1>16 DEF become_ready
<1>17. CASE await_ready(c)
  BY <1>1, <1>17 DEF await_ready
<1>18. CASE read_boot_block(c)
  BY <1>1, <1>18 DEF read_boot_block
<1>19. CASE write_boot_block(c)
  BY <1>1, <1>19 DEF write_boot_block
<1>20. CASE publish_boot_block(c)
  BY <1>1, <1>20 DEF publish_boot_block
<1>21. CASE await_boot_block(c)
  BY <1>1, <1>21 DEF await_boot_block
<1>22. CASE switch_boot_block(c)
  <2>1. Goto(c, "switch", IF c = BSP THEN "clear_entrypoint" ELSE "flush") /\ NEW_BOOT_BLOCK
    BY <1>22, Switching
  <2> QED
    BY <1>1, <1>22, <2>1 DEF switch_boot_block
<1>23. CASE clear_ap_entrypoint(c)
  BY <1>1, <1>23 DEF clear_ap_entrypoint
<1>24. CASE enable_nx_on_physical_region(c)
  BY <1>1, <1>24 DEF enable_nx_on_physical_region
<1>25. CASE reclaim_boot_memory(c)
  BY <1>1, <1>25 DEF reclaim_boot_memory
<1>26. CASE flush_tlb(c)
  BY <1>1, <1>26 DEF flush_tlb
<1>27. CASE idle(c)
  BY <1>1, <1>27 DEF idle, vars
<1> QED
  BY Steps, <1>2, <1>3, <1>4, <1>5, <1>6, <1>7, <1>8, <1>9, <1>10, <1>11, <1>12, <1>13, <1>14, <1>15, <1>16, <1>17,
     <1>18, <1>19, <1>20, <1>21, <1>22, <1>23, <1>24, <1>25, <1>26, <1>27 DEF LaunchStep, OnlineStep

LEMMA CountersKept ==
  ASSUME Inv, NEW c \in Cores, CoreStep(c)
  PROVE  Counters'
<1> DEFINE TotalKept == \/ processors_initialize(c)
                        \/ TOTAL_CORES' = TOTAL_CORES /\ (pc'[BSP] \in UnlaunchedPoints <=> pc[BSP] \in UnlaunchedPoints)
<1>1. Roles /\ Counters
  BY DEF Inv
<1>2. TOTAL_CORES' = IF pc'[BSP] \in UnlaunchedPoints THEN 0 ELSE Cardinality(Cores)
  <2>1. CASE processors_initialize(c)
    <3>1. pc[c] = "processors" /\ pc' = [pc EXCEPT ![c] = "launch"] /\ TOTAL_CORES' = Cardinality(Cores)
      BY <2>1 DEF processors_initialize, Goto
    <3>2. c = BSP
      BY <1>1, <3>1 DEF Roles, ApAt, APs, StartPoints, RendezvousPoints, BootloaderPoints, EarlyPoints, KernelStartPoints
    <3>3. pc'[BSP] = "launch"
      BY <1>1, <3>1, <3>2 DEF Roles
    <3> QED
      BY <3>1, <3>3 DEF UnlaunchedPoints, StartPoints, BootloaderPoints, EarlyPoints, KernelStartPoints
  <2>2. CASE TOTAL_CORES' = TOTAL_CORES /\ (pc'[BSP] \in UnlaunchedPoints <=> pc[BSP] \in UnlaunchedPoints)
    BY <1>1, <2>2 DEF Counters
  <2> QED
    BY <2>1, <2>2, RendezvousMoves
<1>3. CORES_ONLINE' = Cardinality(AtOnline)' /\ \A d \in Cores : pc'[d] \in PassedOnline => AtOnline' = Cores
  <2>1. CASE count_online(c)
    <3>1. pc[c] = "count_online" /\ pc' = [pc EXCEPT ![c] = "wait_online"] /\ CORES_ONLINE' = CORES_ONLINE + 1
      BY <2>1 DEF count_online, Goto
    <3>2. AtOnline' = AtOnline \cup {c} /\ c \notin AtOnline
      BY <1>1, <3>1 DEF Roles, AtOnline, ArrivedOnline, PassedOnline, ArrivedReady, PassedReady
    <3>3. Cardinality(AtOnline') = Cardinality(AtOnline) + 1
      BY <3>2, CountersFinite, FS_AddElement
    <3>4. \A d \in Cores : pc'[d] \in PassedOnline => pc[d] \in PassedOnline
      BY <1>1, <3>1 DEF Roles, PassedOnline, ArrivedReady, PassedReady
    <3>5. AtOnline # Cores
      BY <3>2
    <3> QED
      BY <1>1, <3>1, <3>3, <3>4, <3>5 DEF Counters
  <2>2. CASE await_online(c)
    <3>1. pc[c] = "wait_online" /\ pc' = [pc EXCEPT ![c] = "ready"] /\ CORES_ONLINE = TOTAL_CORES
          /\ CORES_ONLINE' = CORES_ONLINE
      BY <2>2 DEF await_online, Goto
    <3>2. AtOnline' = AtOnline
      BY <1>1, <3>1 DEF Roles, AtOnline, ArrivedOnline, PassedOnline, ArrivedReady, PassedReady
    <3>3. AtOnline = Cores
      BY <3>1, AllCounted, Counting DEF OnlinePoints, RendezvousPoints
    <3> QED
      BY <1>1, <3>1, <3>2, <3>3 DEF Counters
  <2>3. CASE \A d \in Cores : /\ pc'[d] \in ArrivedOnline <=> pc[d] \in ArrivedOnline
                              /\ pc'[d] \in PassedOnline <=> pc[d] \in PassedOnline
    <3>1. AtOnline' = AtOnline
      BY <2>3 DEF AtOnline
    <3>2. CORES_ONLINE' = CORES_ONLINE
      BY <1>1, <2>3, RendezvousMoves DEF count_online, Goto, Roles, ArrivedOnline, PassedOnline, ArrivedReady, PassedReady
    <3> QED
      BY <1>1, <2>3, <3>1, <3>2 DEF Counters
  <2> QED
    BY <2>1, <2>2, <2>3, RendezvousMoves
<1>4. READY_CORES' = Cardinality(AtReady)' /\ \A d \in Cores : pc'[d] \in PassedReady => AtReady' = Cores
  <2>1. CASE become_ready(c)
    <3>1. /\ pc[c] = "ready" /\ READY_CORES' = READY_CORES + 1
          /\ \/ pc' = [pc EXCEPT ![c] = "block_lock"]
             \/ pc' = [pc EXCEPT ![c] = "await_block"]
      BY <2>1 DEF become_ready, Goto
    <3>2. AtReady' = AtReady \cup {c} /\ c \notin AtReady
      BY <1>1, <3>1 DEF Roles, AtReady, ArrivedReady, PassedReady
    <3>3. Cardinality(AtReady') = Cardinality(AtReady) + 1
      BY <3>2, CountersFinite, FS_AddElement
    <3>4. \A d \in Cores : pc'[d] \in PassedReady => pc[d] \in PassedReady
      BY <1>1, <3>1 DEF Roles, PassedReady
    <3>5. AtReady # Cores
      BY <3>2
    <3> QED
      BY <1>1, <3>1, <3>3, <3>4, <3>5 DEF Counters
  <2>2. CASE await_ready(c) \/ await_boot_block(c)
    <3>1. /\ \/ pc[c] = "await_ready" /\ pc' = [pc EXCEPT ![c] = "read_block"]
             \/ pc[c] = "await_block" /\ pc' = [pc EXCEPT ![c] = "switch"]
          /\ READY_CORES' = READY_CORES
      BY <2>2 DEF await_ready, await_boot_block, Goto, otherThanBlock, onlineVars
    <3>2. AtReady' = AtReady
      BY <1>1, <3>1 DEF Roles, AtReady, ArrivedReady, PassedReady
    <3>3. AtReady = Cores
      <4>1. CASE await_ready(c)
        BY <4>1, AllCounted, Counting DEF await_ready, Goto, OnlinePoints, RendezvousPoints, PassedOnline, ArrivedReady
      <4>2. CASE await_boot_block(c)
        BY <4>2, AllReady DEF await_boot_block
      <4> QED
        BY <2>2, <4>1, <4>2
    <3> QED
      BY <1>1, <3>1, <3>2, <3>3 DEF Counters
  <2>3. CASE \A d \in Cores : /\ pc'[d] \in ArrivedReady <=> pc[d] \in ArrivedReady
                              /\ pc'[d] \in PassedReady <=> pc[d] \in PassedReady
    <3>1. AtReady' = AtReady
      BY <2>3 DEF AtReady
    <3>2. READY_CORES' = READY_CORES
      BY <1>1, <2>3, RendezvousMoves DEF become_ready, Goto, Roles, ArrivedReady, PassedReady
    <3> QED
      BY <1>1, <2>3, <3>1, <3>2 DEF Counters
  <2> QED
    BY <2>1, <2>2, <2>3, RendezvousMoves
<1> QED
  BY <1>2, <1>3, <1>4 DEF Counters
-----------------------------------------------------------------------------
(* The invariant holds initially, and no step breaks it. *)
LEMMA InvInit == Init => Inv
<1> SUFFICES ASSUME Init PROVE Inv
  OBVIOUS
<1> USE BootAssumption DEF Init, BootloaderPoints, EarlyPoints, KernelStartPoints, RendezvousPoints, BspPoints,
     PassedReady, ArrivedReady, PassedOnline, ArrivedOnline, FailurePoints, Points, StartPoints, NoIdPoints,
     UnlaunchedPoints, LaunchPoints, OnlinePoints, MapPoints, ReclaimedPoints, ClearedPoints, NewBlockPoints,
     PublishedPoints, BspAt, ApAt, APs
<1>1. Roles /\ OneAtATime
  BY DEF Roles, OneAtATime
<1>2. StatesFollow
  BY DEF StatesFollow
<1>3. Ids
  <2>1. Numbered = {} /\ Entered = {}
    BY DEF Numbered, Entered
  <2>2. Cardinality(Numbered) = 0 /\ Cardinality(Entered) = 0
    BY <2>1, FS_EmptySet
  <2> QED
    BY <2>1, <2>2 DEF Ids, NoCore
<1>4. Counters
  <2>1. AtOnline = {} /\ AtReady = {}
    BY DEF AtOnline, AtReady
  <2>2. Cardinality(AtOnline) = 0 /\ Cardinality(AtReady) = 0
    BY <2>1, FS_EmptySet
  <2> QED
    BY <2>1, <2>2 DEF Counters
<1>5. LockHeld
  BY DEF LockHeld, NoOne, NoCore
<1>6. Memory
  <2>1. /\ blocks["old"].valid = TRUE /\ blocks["old"].free = Frames /\ blocks["old"].boot = BootFrames
        /\ blocks["new"].free = {}
    BY DEF NoBlock
  <2>2. blocks \in [{"old", "new"} -> BlockType] /\ block_copy \in BlockType
    <3>1. NoBlock \in BlockType
      BY DEF BlockType, NoBlock
    <3>2. [valid |-> TRUE, free |-> Frames, boot |-> BootFrames, entrypoint |-> TRUE] \in BlockType
      BY DEF BlockType, AllFrames
    <3>3. \A u, v \in BlockType : [old |-> u, new |-> v] \in [{"old", "new"} -> BlockType]
      OBVIOUS
    <3> QED
      BY <3>1, <3>2, <3>3
  <2>3. owned \in [Cores -> SUBSET AllFrames] /\ \A c \in Cores : owned[c] = {}
    OBVIOUS
  <2>4. pc[BSP] = "stack_lock" /\ \A c \in APs : pc[c] = "off"
    OBVIOUS
  <2>5. NEW_BOOT_BLOCK = FALSE /\ \A c \in Cores : boot_block[c] = "old"
    OBVIOUS
  <2>6. boot_block \in [Cores -> {"old", "new"}]
    OBVIOUS
  <2>7. \A c \in Cores : pc[c] \notin PublishedPoints
    BY <2>4
  <2> QED
    BY <2>1, <2>2, <2>3, <2>4, <2>5, <2>6, <2>7 DEF Memory, Whole
<1>7. OtherTypes
  BY DEF OtherTypes
<1> QED
  BY <1>1, <1>2, <1>3, <1>4, <1>5, <1>6, <1>7 DEF Inv

(* Steps that change at most what a core may hold in its TLB. *)
LEMMA OnlyTlbChanges ==
  ASSUME Inv, UNCHANGED <<pc, nx_enabled, blockVars, otherThanBlock>>, tlb_executable' \in [Cores -> BOOLEAN]
  PROVE  Inv'
<1> USE DEF otherThanBlock, countVars, onlineVars, localVars, blockVars, memVars
<1>1. Roles' /\ StatesFollow' /\ LockHeld' /\ OtherTypes'
  BY DEF Inv, Roles, StatesFollow, LockHeld, OtherTypes
<1>2. OneAtATime'
  BY DEF Inv, OneAtATime, LastIs
<1>3. Ids' /\ Counters'
  <2>1. Numbered' = Numbered /\ Entered' = Entered /\ AtOnline' = AtOnline /\ AtReady' = AtReady
    BY DEF Numbered, Entered, AtOnline, AtReady
  <2> QED
    BY <2>1 DEF Inv, Ids, Counters
<1>4. Memory'
  BY DEF Inv, Memory, Whole, BlockInForce
<1> QED
  BY <1>1, <1>2, <1>3, <1>4 DEF Inv

LEMMA InvStep == Inv /\ [Next]_vars => Inv'
<1> SUFFICES ASSUME Inv, [Next]_vars PROVE Inv'
  OBVIOUS
<1>1. ASSUME NEW c \in Cores, CoreStep(c) PROVE Inv'
  BY <1>1, RolesKept, StatesFollowKept, OneAtATimeKept, IdsKept, CountersKept, LockHeldKept, MemoryKept,
     OtherTypesKept DEF Inv
<1>2. ASSUME NEW c \in Cores, load_translation(c) PROVE Inv'
  <2>1. UNCHANGED <<pc, nx_enabled, blockVars, otherThanBlock>> /\ tlb_executable' \in [Cores -> BOOLEAN]
    BY <1>2 DEF load_translation, Inv, OtherTypes
  <2> QED
    BY <2>1, OnlyTlbChanges
<1>3. CASE UNCHANGED vars
  <2>1. UNCHANGED <<pc, nx_enabled, blockVars, otherThanBlock>> /\ tlb_executable' \in [Cores -> BOOLEAN]
    BY <1>3 DEF vars, tlbVars, otherThanBlock, Inv, OtherTypes
  <2> QED
    BY <2>1, OnlyTlbChanges
<1> QED
  BY <1>1, <1>2, <1>3 DEF Next

(* Where the cores are, what the counters and the locks then are, and who   *)
(* uses which memory, in every state of the start-up.                       *)
THEOREM InvHolds == Spec => []Inv
  BY InvInit, InvStep, PTL DEF Spec

-----------------------------------------------------------------------------
(* NEXT_FREE_CORE_ID.fetch_add (core_locals.rs) and the BSP's wait for each *)
(* AP (processors.rs:launch_core) give every core an id of its own, the BSP *)
(* the id 0, and no counter of the boot exceeds the number of cores.        *)
THEOREM CoresAreIdentified == Spec => []CoreIdsIdentifyCores
<1>1. Inv => CoreIdsIdentifyCores
  <2> SUFFICES ASSUME Inv PROVE CoreIdsIdentifyCores
    OBVIOUS
  <2>1. \A c \in Cores : core_id[c] # NoCore =>
          /\ core_id[c] = 0 <=> c = BSP
          /\ \A d \in Cores \ {c} : core_id[d] # core_id[c]
    BY DEF Inv, Ids, Numbered
  <2>2. Cardinality(Cores) \in Nat
    BY CountersFinite
  <2>3. /\ CORE_ID \in 0..Cardinality(Cores) /\ NEXT_FREE_CORE_ID \in 0..Cardinality(Cores)
        /\ CORES_ONLINE \in 0..Cardinality(Cores) /\ READY_CORES \in 0..Cardinality(Cores)
    BY <2>2, CountersFinite
  <2>4. TOTAL_CORES \in 0..Cardinality(Cores)
    BY <2>2 DEF Inv, Counters
  <2>5. core_id \in [Cores -> {NoCore} \cup 0..Cardinality(Cores)]
    <3>1. core_id \in [Cores -> Int]
      BY DEF Inv, Ids
    <3>2. \A c \in Cores : core_id[c] \in {NoCore} \cup 0..Cardinality(Cores)
      BY <2>2, <2>3 DEF Inv, Ids, Numbered
    <3> QED
      BY <3>1, <3>2
  <2>6. /\ pc \in [Cores -> Points] /\ is_panicking \in BOOLEAN
        /\ core_states \in [Cores -> CoreStates]
        /\ page_table_lock \in [core : Cores \cup {NoCore}, id : Int]
    BY DEF Inv, Roles, StatesFollow, CoreStates, LockHeld
  <2>7. /\ boot_block \in [Cores -> {"old", "new"}] /\ blocks \in [{"old", "new"} -> BlockType]
        /\ block_copy \in BlockType /\ owned \in [Cores -> SUBSET AllFrames]
    BY DEF Inv, Memory
  <2>8. OtherTypes
    BY DEF Inv
  <2>9. TypeOK
    BY <2>3, <2>4, <2>5, <2>6, <2>7, <2>8 DEF TypeOK, OtherTypes
  <2> QED
    BY <2>1, <2>9 DEF CoreIdsIdentifyCores
<1> QED
  BY <1>1, InvHolds, PTL

(* notify_core_online always finds the state it asserts (processors.rs), no *)
(* core takes another one's page table lock for its own (lib.rs of the lock *)
(* crate), and no core switches to a block that is not there (mm.rs).       *)
THEOREM NoAssertionFails == Spec => []AssertionsHold
<1>1. Inv => AssertionsHold
  BY DEF Inv, Roles, AssertionsHold, APs, BspAt, ApAt, StartPoints, BootloaderPoints, EarlyPoints,
     KernelStartPoints, RendezvousPoints, BspPoints
<1> QED
  BY <1>1, InvHolds, PTL

(* A frame that alloc_phys took from the boot block's free memory is offered *)
(* to nobody else, before, while and after the boot block is copied (mm.rs). *)
THEOREM MemoryGrantedOnce == Spec => []GrantedOnce
<1>1. Inv => GrantedOnce
  BY DEF Inv, Memory, GrantedOnce
<1> QED
  BY <1>1, InvHolds, PTL

(* When cleanup_bootloader (mm.rs) turns boot memory into free memory, every *)
(* core has left the bootloader for good and none uses the old boot block.   *)
THEOREM NobodyUsesReclaimedMemory == Spec => []ReclaimedMemoryUnused
<1>1. Inv => ReclaimedMemoryUnused
  <2> SUFFICES ASSUME Inv, Reclaimed PROVE ~blocks["new"].entrypoint /\ \A c \in Cores :
                 /\ pc[c] \notin BootloaderPoints \cup {"off"}
                 /\ boot_block[c] = "old" => pc[c] \in {"await_block", "switch"}
    BY DEF ReclaimedMemoryUnused
  <2>1. pc[BSP] \in ReclaimedPoints
    <3>1. PICK f \in BootFrames : f \in blocks["new"].free \/ \E c \in Cores : f \in owned[c]
      BY DEF Reclaimed
    <3>2. f \notin Frames
      BY BootAssumption
    <3> QED
      BY <3>1, <3>2 DEF Inv, Memory
  <2>2. NEW_BOOT_BLOCK /\ blocks["new"].entrypoint = FALSE
    BY <2>1 DEF Inv, Memory, PublishedPoints, NewBlockPoints, ClearedPoints
  <2>3. \A c \in Cores : pc[c] \in ArrivedReady
    BY <2>2, AllReady
  <2>4. \A c \in Cores : boot_block[c] = "old" => pc[c] \notin NewBlockPoints
    BY DEF Inv, Memory
  <2>5. \A c \in APs : pc[c] \in ApAt
    BY DEF Inv, Roles
  <2>6. \A c \in Cores : boot_block[c] = "old" => pc[c] \in {"await_block", "switch"}
    BY <2>1, <2>3, <2>4, <2>5 DEF APs, ApAt, ArrivedReady, PassedReady, NewBlockPoints, ClearedPoints,
       ReclaimedPoints, StartPoints, BootloaderPoints, EarlyPoints, KernelStartPoints, RendezvousPoints
  <2> QED
    BY <2>2, <2>3, <2>6 DEF ArrivedReady, PassedReady, BootloaderPoints
<1> QED
  BY <1>1, InvHolds, PTL

-----------------------------------------------------------------------------
(* CORES_ONLINE and TOTAL_CORES make a barrier of notify_core_online         *)
(* (processors.rs): the first core that goes on finds every core there.      *)
THEOREM OnlineIsBarrier == Spec => OnlineBarrier
<1> DEFINE PassedIt == {c \in Cores : pc[c] \in PassedOnline}
<1>1. Init => OnlineRendezvous!Init
  BY DEF Init, OnlineRendezvous!Init, ArrivedOnline, PassedOnline, ArrivedReady, PassedReady
<1>2. ASSUME Inv, NEW c \in Cores, CoreStep(c)
      PROVE  [OnlineRendezvous!Next]_<<AtOnline, PassedIt>>
  <2>1. Roles
    BY <1>2 DEF Inv
  <2>2. CASE count_online(c)
    <3>1. pc[c] = "count_online" /\ pc' = [pc EXCEPT ![c] = "wait_online"]
      BY <2>2 DEF count_online, Goto
    <3>2. AtOnline' = AtOnline \cup {c} /\ c \notin AtOnline /\ PassedIt' = PassedIt
      BY <2>1, <3>1 DEF Roles, AtOnline, ArrivedOnline, PassedOnline, ArrivedReady, PassedReady
    <3>3. OnlineRendezvous!Arrive(c)
      BY <3>2 DEF OnlineRendezvous!Arrive, AtOnline
    <3> QED
      BY <3>3 DEF OnlineRendezvous!Next
  <2>3. CASE await_online(c)
    <3>1. pc[c] = "wait_online" /\ pc' = [pc EXCEPT ![c] = "ready"] /\ CORES_ONLINE = TOTAL_CORES
      BY <2>3 DEF await_online, Goto
    <3>2. AtOnline = Cores
      BY <1>2, <3>1, AllCounted, Counting DEF OnlinePoints, RendezvousPoints
    <3>3. AtOnline' = AtOnline /\ PassedIt' = PassedIt \cup {c} /\ c \notin PassedIt
      BY <2>1, <3>1 DEF Roles, AtOnline, ArrivedOnline, PassedOnline, ArrivedReady, PassedReady
    <3>4. OnlineRendezvous!Pass(c)
      BY <3>2, <3>3 DEF OnlineRendezvous!Pass, AtOnline
    <3> QED
      BY <3>4 DEF OnlineRendezvous!Next
  <2>4. CASE \A d \in Cores : /\ pc'[d] \in ArrivedOnline <=> pc[d] \in ArrivedOnline
                              /\ pc'[d] \in PassedOnline <=> pc[d] \in PassedOnline
    BY <2>4 DEF AtOnline
  <2> QED
    BY <1>2, <2>2, <2>3, <2>4, RendezvousMoves
<1>3. ASSUME Inv, [Next]_vars
      PROVE  [OnlineRendezvous!Next]_<<{c \in Cores : pc[c] \in ArrivedOnline}, {c \in Cores : pc[c] \in PassedOnline}>>
  <2>1. CASE UNCHANGED pc
    BY <2>1
  <2> QED
    BY <1>2, <1>3, <2>1 DEF Next, load_translation, vars, AtOnline
<1> QED
  BY <1>1, <1>3, InvHolds, PTL DEF Spec, OnlineBarrier, OnlineRendezvous!Spec

(* READY_CORES makes a barrier of on_finished_boot_process (mm.rs): the BSP  *)
(* waits for the counter, and the APs, which wait for NEW_BOOT_BLOCK only,   *)
(* go on after the BSP.                                                      *)
THEOREM ReadyIsBarrier == Spec => ReadyBarrier
<1> DEFINE PassedIt == {c \in Cores : pc[c] \in PassedReady}
<1>1. Init => ReadyRendezvous!Init
  BY DEF Init, ReadyRendezvous!Init, ArrivedReady, PassedReady
<1>2. ASSUME Inv, NEW c \in Cores, CoreStep(c)
      PROVE  [ReadyRendezvous!Next]_<<AtReady, PassedIt>>
  <2>1. Roles
    BY <1>2 DEF Inv
  <2>2. CASE become_ready(c)
    <3>1. /\ pc[c] = "ready"
          /\ \/ pc' = [pc EXCEPT ![c] = "block_lock"]
             \/ pc' = [pc EXCEPT ![c] = "await_block"]
      BY <2>2 DEF become_ready, Goto
    <3>2. AtReady' = AtReady \cup {c} /\ c \notin AtReady /\ PassedIt' = PassedIt
      BY <2>1, <3>1 DEF Roles, AtReady, ArrivedReady, PassedReady
    <3>3. ReadyRendezvous!Arrive(c)
      BY <3>2 DEF ReadyRendezvous!Arrive, AtReady
    <3> QED
      BY <3>3 DEF ReadyRendezvous!Next
  <2>3. CASE await_ready(c) \/ await_boot_block(c)
    <3>1. /\ \/ pc[c] = "await_ready" /\ pc' = [pc EXCEPT ![c] = "read_block"]
             \/ pc[c] = "await_block" /\ pc' = [pc EXCEPT ![c] = "switch"]
      BY <2>3 DEF await_ready, await_boot_block, Goto
    <3>2. AtReady = Cores
      <4>1. CASE await_ready(c)
        BY <1>2, <4>1, AllCounted, Counting DEF await_ready, Goto, OnlinePoints, RendezvousPoints, PassedOnline,
           ArrivedReady
      <4>2. CASE await_boot_block(c)
        BY <1>2, <4>2, AllReady DEF await_boot_block
      <4> QED
        BY <2>3, <4>1, <4>2
    <3>3. AtReady' = AtReady /\ PassedIt' = PassedIt \cup {c} /\ c \notin PassedIt
      BY <2>1, <3>1 DEF Roles, AtReady, ArrivedReady, PassedReady
    <3>4. ReadyRendezvous!Pass(c)
      BY <3>2, <3>3 DEF ReadyRendezvous!Pass, AtReady
    <3> QED
      BY <3>4 DEF ReadyRendezvous!Next
  <2>4. CASE \A d \in Cores : /\ pc'[d] \in ArrivedReady <=> pc[d] \in ArrivedReady
                              /\ pc'[d] \in PassedReady <=> pc[d] \in PassedReady
    BY <2>4 DEF AtReady
  <2> QED
    BY <1>2, <2>2, <2>3, <2>4, RendezvousMoves
<1>3. ASSUME Inv, [Next]_vars
      PROVE  [ReadyRendezvous!Next]_<<{c \in Cores : pc[c] \in ArrivedReady}, {c \in Cores : pc[c] \in PassedReady}>>
  <2>1. CASE UNCHANGED pc
    BY <2>1
  <2> QED
    BY <1>2, <1>3, <2>1 DEF Next, load_translation, vars, AtReady
<1> QED
  BY <1>1, <1>3, InvHolds, PTL DEF Spec, ReadyBarrier, ReadyRendezvous!Spec
=============================================================================
