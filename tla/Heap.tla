-------------------------------- MODULE Heap --------------------------------
(***************************************************************************)
(* The memory managers of kernel/src/mm.rs.  GlobalAllocator serves a      *)
(* request from the free list of the calling core for that size; an empty  *)
(* list maps a fresh page.  ContiguousRegions keeps dropped regions in a   *)
(* Vec, whose buffer comes from GlobalAllocator in turn.  All of them take *)
(* addresses from NEXT_HEAP_ADDRESS and go through the kernel's page table *)
(* and the list of free memory, one lock inside another: a mapping takes   *)
(* frames for the page tables it finds missing with the page table locked. *)
(*                                                                         *)
(* A free list keeps its nodes in the free blocks themselves.  The memory  *)
(* of a block in use is its owner's and holds Garbage here, so that a list *)
(* that still reads it shows.  The lock of a free list is never contended: *)
(* only its own core takes it, and never in an interrupt handler.          *)
(***************************************************************************)
EXTENDS Integers, Sequences, FiniteSets, FiniteSetsExt, SequencesExt

CONSTANTS
  Cores,
  NoCore,
  Classes,         \* the allocation sizes
  BlocksPerPage,   \* how many blocks of a class a fresh page holds
  MaxSlots,        \* slots of a node; 0 for sizes up to STACK_HEADER_SIZE
  VecClass,        \* the size of the buffer of the Vec of regions
  RegionSize,      \* frames of a contiguous region
  Frames,          \* free memory when the kernel starts
  MaxPages,        \* reservations before the address of the heap overflows
  Tables,          \* page tables that mappings of the heap's addresses may need
  TablesOf         \* those above the entries of a page

ASSUME HeapAssumption ==
  /\ NoCore \notin Cores
  /\ VecClass \in Classes /\ Classes # {} /\ IsFiniteSet(Classes)
  /\ Classes \cap {"none", "region", "mmio"} = {}
  /\ BlocksPerPage \in [Classes -> Nat \ {0}]
  /\ MaxSlots \in [Classes -> Nat]
  /\ RegionSize \in Nat \ {0} /\ MaxPages \in Nat
  /\ Frames \subseteq Nat /\ Frames # {} /\ IsFiniteSet(Frames)
  /\ TablesOf \in [1 .. MaxPages -> SUBSET Tables] /\ IsFiniteSet(Tables)

VARIABLES
  pc,                  \* what each core is about to do
  call,                \* the call it is in
  head,                \* FreeList::head of each core and class
  memory,              \* contents of each block
  in_use,              \* blocks that callers hold
  NEXT_HEAP_ADDRESS,   \* as a page number
  page_class,          \* what a reserved page is for
  page_frames,         \* the frames it is mapped to
  table_frames,        \* the frame of each page table, if it is there
  free_memory,         \* frames in boot_block.free_memory
  page_table_lock, free_memory_lock, regions_lock,    \* the core that holds it
  regions,             \* the Vec of ContiguousRegions
  buffer, capacity,    \* its buffer, and how many regions fit
  live_regions         \* regions that callers hold

listVars == <<head, memory, in_use>>
pageVars == <<NEXT_HEAP_ADDRESS, page_class, page_frames, table_frames, free_memory>>
lockVars == <<page_table_lock, free_memory_lock, regions_lock>>
regionVars == <<regions, buffer, capacity, live_regions>>
vars == <<pc, call, listVars, pageVars, lockVars, regionVars>>

Pages == 1 .. MaxPages
BlockIndexes == 0 .. Max({BlocksPerPage[k] : k \in Classes}) - 1
SlotIndexes == 0 .. Max({MaxSlots[k] : k \in Classes}) - 1

(* A block is named by its page and its position in it.                     *)
Blocks == Pages \X BlockIndexes
Null == <<0, 0>>
Garbage == <<0, 1>>
UserData == [next |-> Garbage, free_slots |-> 0, slots |-> [s \in SlotIndexes |-> Garbage]]

(* A call: the class and the block of its allocation, or the page of device  *)
(* memory it maps, and the region it creates or drops.                      *)
NoRegion == [page |-> 0, frame |-> -1]
FramesOf(region) == IF region = NoRegion THEN {} ELSE region.frame .. region.frame + RegionSize - 1
NoCall == [class |-> VecClass, block |-> Null, region |-> NoRegion]

Init ==
  /\ pc = [c \in Cores |-> "idle"]
  /\ call = [c \in Cores |-> NoCall]
  /\ head = [c \in Cores |-> [k \in Classes |-> Null]]
  /\ memory = [b \in Blocks |-> UserData]
  /\ in_use = {}
  /\ NEXT_HEAP_ADDRESS = 1
  /\ page_class = [p \in Pages |-> "none"]
  /\ page_frames = [p \in Pages |-> {}]
  /\ table_frames = [t \in Tables |-> {}]
  /\ free_memory = Frames
  /\ page_table_lock = NoCore /\ free_memory_lock = NoCore /\ regions_lock = NoCore
  /\ regions = <<>> /\ buffer = Null /\ capacity = 0 /\ live_regions = {}

-----------------------------------------------------------------------------
Goto(c, from, to) == pc[c] = from /\ pc' = [pc EXCEPT ![c] = to]

lock_page_table(c, from, to) ==
  /\ Goto(c, from, to)
  /\ page_table_lock = NoCore /\ page_table_lock' = c
  /\ UNCHANGED <<call, listVars, pageVars, free_memory_lock, regions_lock, regionVars>>

lock_free_memory(c, from, to) ==
  /\ Goto(c, from, to)
  /\ free_memory_lock = NoCore /\ free_memory_lock' = c
  /\ UNCHANGED <<call, listVars, pageVars, page_table_lock, regions_lock, regionVars>>

lock_regions(c, from, to) ==
  /\ Goto(c, from, to)
  /\ regions_lock = NoCore /\ regions_lock' = c
  /\ UNCHANGED <<call, listVars, pageVars, page_table_lock, free_memory_lock, regionVars>>

(* expect on a None: the core panics with the locks it holds, and stops the *)
(* others.                                                                  *)
expect_failed(c, at) ==
  /\ Goto(c, at, "panic")
  /\ UNCHANGED <<call, listVars, pageVars, lockVars, regionVars>>

(* fetch_add on NEXT_HEAP_ADDRESS: the page is the caller's alone. *)
reserve_virt_addr(what) ==
  /\ NEXT_HEAP_ADDRESS \in Pages
  /\ NEXT_HEAP_ADDRESS' = NEXT_HEAP_ADDRESS + 1
  /\ page_class' = [page_class EXCEPT ![NEXT_HEAP_ADDRESS] = what]

(* map_raw allocates the tables that it does not find on its way down to the *)
(* entry of a page, each under the lock of the free memory.                  *)
Missing(page) == {t \in Tables : t \in TablesOf[page] /\ table_frames[t] = {}}

lock_for_table(c, page, from, to) ==
  /\ lock_free_memory(c, from, to)
  /\ Missing(page) # {}

take_table(c, page, from, to) ==
  /\ Goto(c, from, to)
  /\ \E t \in Missing(page), f \in free_memory :
       /\ table_frames' = [table_frames EXCEPT ![t] = {f}]
       /\ free_memory' = free_memory \ {f}
  /\ free_memory_lock' = NoCore
  /\ UNCHANGED <<call, listVars, NEXT_HEAP_ADDRESS, page_class, page_frames, page_table_lock,
                 regions_lock, regionVars>>

-----------------------------------------------------------------------------
(* FreeList::push on a list in memory m with head h.                        *)
use_stack(k) == MaxSlots[k] > 0

new_node(l, k, b) ==
  [head |-> b,
   memory |-> [l.memory EXCEPT ![b].next = l.head, ![b].free_slots = MaxSlots[k]]]

new_slot(l, b) ==
  LET slot == l.memory[l.head].free_slots - 1 IN
  [head |-> l.head,
   memory |-> [l.memory EXCEPT ![l.head].free_slots = slot, ![l.head].slots[slot] = b]]

push(l, k, b) ==
  IF ~use_stack(k) \/ l.head = Null \/ l.memory[l.head].free_slots = 0
  THEN new_node(l, k, b) ELSE new_slot(l, b)

free_list(c, k) == [head |-> head[c][k], memory |-> memory]

(* pop pushes the blocks of the page it has mapped, one after the other. *)
populated(l, k, page) ==
  LET pushed[n \in 0 .. BlocksPerPage[k]] ==
        IF n = 0 THEN l ELSE push(pushed[n - 1], k, <<page, n - 1>>)
  IN pushed[BlocksPerPage[k]]

SetFreeList(c, k, l) ==
  /\ head' = [head EXCEPT ![c][k] = l.head]
  /\ memory' = l.memory

(* The block becomes the caller's: with the regions locked, that is the Vec. *)
Grant(c, b) ==
  /\ in_use' = in_use \cup {b}
  /\ IF regions_lock = c
     THEN pc' = [pc EXCEPT ![c] = "grown"] /\ call' = [call EXCEPT ![c].block = b]
     ELSE pc' = [pc EXCEPT ![c] = "idle"] /\ call' = [call EXCEPT ![c] = NoCall]

-----------------------------------------------------------------------------
(* GlobalAllocator.                                                         *)
alloc(c, k) ==
  /\ Goto(c, "idle", "pop")
  /\ call' = [call EXCEPT ![c] = [NoCall EXCEPT !.class = k]]
  /\ UNCHANGED <<listVars, pageVars, lockVars, regionVars>>

(* pop on an empty list reserves a page, maps it under the page table lock   *)
(* (first a frame for it, then its tables), and pushes the blocks in it, or  *)
(* returns it if it is a single one.                                         *)
pop_reserve(c) ==
  /\ Goto(c, "pop", "heap_lock")
  /\ head[c][call[c].class] = Null
  /\ reserve_virt_addr(call[c].class)
  /\ call' = [call EXCEPT ![c].block = <<NEXT_HEAP_ADDRESS, 0>>]
  /\ UNCHANGED <<listVars, page_frames, table_frames, free_memory, lockVars, regionVars>>

pop_map(c) ==
  /\ Goto(c, "heap_map", "populate")
  /\ \E f \in free_memory :
       /\ free_memory' = free_memory \ {f}
       /\ page_frames' = [page_frames EXCEPT ![call[c].block[1]] = {f}]
  /\ free_memory_lock' = NoCore
  /\ UNCHANGED <<call, listVars, NEXT_HEAP_ADDRESS, page_class, table_frames, page_table_lock,
                 regions_lock, regionVars>>

pop_populate(c) ==
  LET k == call[c].class IN
  /\ Goto(c, "populate", "pop")
  /\ Missing(call[c].block[1]) = {}
  /\ BlocksPerPage[k] > 1
  /\ SetFreeList(c, k, populated(free_list(c, k), k, call[c].block[1]))
  /\ page_table_lock' = NoCore
  /\ UNCHANGED <<call, in_use, pageVars, free_memory_lock, regions_lock, regionVars>>

pop_whole_page(c) ==
  /\ pc[c] = "populate"
  /\ Missing(call[c].block[1]) = {}
  /\ BlocksPerPage[call[c].class] = 1
  /\ Grant(c, call[c].block)
  /\ page_table_lock' = NoCore
  /\ UNCHANGED <<head, memory, pageVars, free_memory_lock, regions_lock, regionVars>>

(* pop on a list with a block: the head node itself, when it has no stack    *)
(* or an empty one, or else the block on top of its stack.                   *)
pop_node(c) ==
  LET k == call[c].class  h == head[c][k] IN
  /\ pc[c] = "pop" /\ h # Null
  /\ use_stack(k) => memory[h].free_slots = MaxSlots[k]
  /\ head' = [head EXCEPT ![c][k] = memory[h].next]
  /\ memory' = [memory EXCEPT ![h] = UserData]
  /\ Grant(c, h)
  /\ UNCHANGED <<pageVars, lockVars, regionVars>>

pop_slot_again(c) ==     \* mutant: the slot is not given up
  LET k == call[c].class  h == head[c][k] IN
  /\ pc[c] = "pop" /\ h # Null
  /\ use_stack(k) /\ memory[h].free_slots # MaxSlots[k]
  /\ Grant(c, memory[h].slots[memory[h].free_slots])
  /\ UNCHANGED <<head, memory, pageVars, lockVars, regionVars>>

pop_slot(c) ==
  LET k == call[c].class  h == head[c][k]  slot == memory[h].free_slots IN
  /\ pc[c] = "pop" /\ h # Null
  /\ use_stack(k) /\ slot # MaxSlots[k]
  /\ memory' = [memory EXCEPT ![h].free_slots = slot + 1, ![h].slots[slot] = Garbage]
  /\ Grant(c, memory[h].slots[slot])
  /\ UNCHANGED <<head, pageVars, lockVars, regionVars>>

(* dealloc, on the list of the core that calls it, of what is not the Vec's. *)
VecBuffers == {buffer} \cup {call[c].block : c \in {d \in Cores : pc[d] = "grown"}}

dealloc(c, b) ==
  LET k == page_class[b[1]] IN
  /\ pc[c] = "idle"
  /\ b \in in_use \ VecBuffers
  /\ in_use' = in_use \ {b}
  /\ SetFreeList(c, k, push(free_list(c, k), k, b))
  /\ UNCHANGED <<pc, call, pageVars, lockVars, regionVars>>

-----------------------------------------------------------------------------
(* ContiguousRegion.                                                        *)
region_new(c) ==
  /\ Goto(c, "idle", "new_lock")
  /\ UNCHANGED <<call, listVars, pageVars, lockVars, regionVars>>

(* allocate: a region that was dropped before, *)
allocate_again(c) ==
  /\ Goto(c, "allocate", "idle")
  /\ regions # <<>>
  /\ live_regions' = live_regions \cup {Last(regions)}
  /\ regions' = Front(regions)
  /\ regions_lock' = NoCore
  /\ UNCHANGED <<call, listVars, pageVars, page_table_lock, free_memory_lock, buffer, capacity>>

(* or a new one, from frames that follow each other. *)
allocate_fresh(c) ==
  /\ Goto(c, "allocate", "run_lock")
  /\ regions = <<>>
  /\ UNCHANGED <<call, listVars, pageVars, lockVars, regionVars>>

Runs == {f \in free_memory : f .. f + RegionSize - 1 \subseteq free_memory}

take_run_keeping_lock(c) ==    \* mutant: the guard of free_memory is bound to a name
  /\ Goto(c, "take_run", "region_reserve")
  /\ \E f \in Runs :
       /\ free_memory' = free_memory \ (f .. f + RegionSize - 1)
       /\ call' = [call EXCEPT ![c].region.frame = f]
  /\ UNCHANGED <<listVars, NEXT_HEAP_ADDRESS, page_class, page_frames, table_frames, lockVars,
                 regionVars>>

take_run_but_last(c) ==    \* mutant: the last frame of the run stays free
  /\ Goto(c, "take_run", "region_reserve")
  /\ \E f \in Runs :
       /\ free_memory' = free_memory \ (f .. f + RegionSize - 2)
       /\ call' = [call EXCEPT ![c].region.frame = f]
  /\ free_memory_lock' = NoCore
  /\ UNCHANGED <<listVars, NEXT_HEAP_ADDRESS, page_class, page_frames, table_frames, page_table_lock,
                 regions_lock, regionVars>>

take_run(c) ==
  /\ Goto(c, "take_run", "region_reserve")
  /\ \E f \in Runs :
       /\ free_memory' = free_memory \ (f .. f + RegionSize - 1)
       /\ call' = [call EXCEPT ![c].region.frame = f]
  /\ free_memory_lock' = NoCore
  /\ UNCHANGED <<listVars, NEXT_HEAP_ADDRESS, page_class, page_frames, table_frames, page_table_lock,
                 regions_lock, regionVars>>

region_reserve(c) ==
  /\ Goto(c, "region_reserve", "region_lock")
  /\ reserve_virt_addr("region")
  /\ call' = [call EXCEPT ![c].region.page = NEXT_HEAP_ADDRESS]
  /\ UNCHANGED <<listVars, page_frames, table_frames, free_memory, lockVars, regionVars>>

map_region_untabled(c) ==      \* mutant: create_tables is ignored, the entries go nowhere
  LET region == call[c].region IN
  /\ Goto(c, "region_map", "idle")
  /\ page_frames' = [page_frames EXCEPT ![region.page] = FramesOf(region)]
  /\ live_regions' = live_regions \cup {region}
  /\ call' = [call EXCEPT ![c] = NoCall]
  /\ page_table_lock' = NoCore /\ regions_lock' = NoCore
  /\ UNCHANGED <<listVars, NEXT_HEAP_ADDRESS, page_class, table_frames, free_memory,
                 free_memory_lock, regions, buffer, capacity>>

(* The region's frames are mapped, under tables that are there. *)
map_region(c) ==
  LET region == call[c].region IN
  /\ Goto(c, "region_map", "idle")
  /\ Missing(region.page) = {}
  /\ page_frames' = [page_frames EXCEPT ![region.page] = FramesOf(region)]
  /\ live_regions' = live_regions \cup {region}
  /\ call' = [call EXCEPT ![c] = NoCall]
  /\ page_table_lock' = NoCore /\ regions_lock' = NoCore
  /\ UNCHANGED <<listVars, NEXT_HEAP_ADDRESS, page_class, table_frames, free_memory,
                 free_memory_lock, regions, buffer, capacity>>

(* Drop: the region goes to the Vec, which may have to grow first. *)
region_drop(c, region) ==
  /\ Goto(c, "idle", "drop_lock")
  /\ live_regions' = live_regions \ {region}
  /\ call' = [call EXCEPT ![c] = [NoCall EXCEPT !.region = region]]
  /\ UNCHANGED <<listVars, pageVars, lockVars, regions, buffer, capacity>>

free_dropping_frames(c) ==     \* mutant: the frames of a kept region are freed as well
  /\ Goto(c, "free", "idle")
  /\ Len(regions) < capacity
  /\ regions' = Append(regions, call[c].region)
  /\ free_memory' = free_memory \cup FramesOf(call[c].region)
  /\ call' = [call EXCEPT ![c] = NoCall]
  /\ regions_lock' = NoCore
  /\ UNCHANGED <<listVars, NEXT_HEAP_ADDRESS, page_class, page_frames, table_frames, page_table_lock,
                 free_memory_lock, buffer, capacity, live_regions>>

free(c) ==
  /\ Goto(c, "free", "idle")
  /\ Len(regions) < capacity
  /\ regions' = Append(regions, call[c].region)
  /\ call' = [call EXCEPT ![c] = NoCall]
  /\ regions_lock' = NoCore
  /\ UNCHANGED <<listVars, pageVars, page_table_lock, free_memory_lock, buffer,
                 capacity, live_regions>>

grow_locking(c) ==            \* mutant: growing locks the regions again
  /\ Goto(c, "free", "drop_lock")
  /\ Len(regions) = capacity
  /\ UNCHANGED <<call, listVars, pageVars, lockVars, regionVars>>

grow(c) ==
  /\ Goto(c, "free", "pop")
  /\ Len(regions) = capacity
  /\ UNCHANGED <<call, listVars, pageVars, lockVars, regionVars>>

(* The new buffer is there, the old one is given back. *)
grown(c) ==
  /\ Goto(c, "grown", "free")
  /\ call' = [call EXCEPT ![c] = [NoCall EXCEPT !.region = call[c].region]]
  /\ buffer' = call[c].block
  /\ capacity' = IF capacity = 0 THEN 1 ELSE 2 * capacity
  /\ IF buffer = Null THEN UNCHANGED listVars
     ELSE /\ in_use' = in_use \ {buffer}
          /\ SetFreeList(c, VecClass, push(free_list(c, VecClass), VecClass, buffer))
  /\ UNCHANGED <<pageVars, lockVars, regions, live_regions>>

-----------------------------------------------------------------------------
(* map_mmio: a page of device memory, no frame of the free memory. *)
map_mmio(c) ==
  /\ Goto(c, "idle", "mmio_reserve")
  /\ UNCHANGED <<call, listVars, pageVars, lockVars, regionVars>>

mmio_reserve(c) ==
  /\ Goto(c, "mmio_reserve", "mmio_lock")
  /\ reserve_virt_addr("mmio")
  /\ call' = [call EXCEPT ![c].block = <<NEXT_HEAP_ADDRESS, 0>>]
  /\ UNCHANGED <<listVars, page_frames, table_frames, free_memory, lockVars, regionVars>>

mmio_mapped(c) ==
  /\ Goto(c, "mmio_map", "idle")
  /\ Missing(call[c].block[1]) = {}
  /\ call' = [call EXCEPT ![c] = NoCall]
  /\ page_table_lock' = NoCore
  /\ UNCHANGED <<listVars, pageVars, free_memory_lock, regions_lock, regionVars>>

Lock(c) ==
  \/ lock_page_table(c, "heap_lock", "frame_lock")
  \/ lock_free_memory(c, "frame_lock", "heap_map")
  \/ lock_regions(c, "new_lock", "allocate")
  \/ lock_free_memory(c, "run_lock", "take_run")
  \/ lock_page_table(c, "region_lock", "region_map")
  \/ lock_regions(c, "drop_lock", "free")
  \/ lock_page_table(c, "mmio_lock", "mmio_map")
  \/ lock_for_table(c, call[c].block[1], "populate", "heap_table")
  \/ lock_for_table(c, call[c].region.page, "region_map", "region_table")
  \/ lock_for_table(c, call[c].block[1], "mmio_map", "mmio_table")

TableStep(c) ==
  \/ take_table(c, call[c].block[1], "heap_table", "populate")
  \/ take_table(c, call[c].region.page, "region_table", "region_map")
  \/ take_table(c, call[c].block[1], "mmio_table", "mmio_map")

OutOfMemory(c) ==
  \/ /\ free_memory = {}
     /\ \E at \in {"heap_map", "heap_table", "region_table", "mmio_table"} : expect_failed(c, at)
  \/ Runs = {} /\ expect_failed(c, "take_run")

AddressOverflow(c) ==
  /\ NEXT_HEAP_ADDRESS \notin Pages
  /\ \/ head[c][call[c].class] = Null /\ expect_failed(c, "pop")
     \/ expect_failed(c, "region_reserve")
     \/ expect_failed(c, "mmio_reserve")

AllocStep(c) ==
  \/ \E k \in Classes : alloc(c, k)
  \/ \E b \in in_use : dealloc(c, b)
  \/ pop_reserve(c) \/ pop_map(c) \/ pop_populate(c) \/ pop_whole_page(c)
  \/ pop_node(c) \/ pop_slot(c)

RegionStep(c) ==
  \/ region_new(c) \/ allocate_again(c) \/ allocate_fresh(c) \/ take_run(c)
  \/ region_reserve(c) \/ map_region(c)
  \/ \E region \in live_regions : region_drop(c, region)
  \/ free(c) \/ grow(c) \/ grown(c)

MmioStep(c) == map_mmio(c) \/ mmio_reserve(c) \/ mmio_mapped(c)

Expect(c) == OutOfMemory(c) \/ AddressOverflow(c)

Step(c) == Expect(c) \/ AllocStep(c) \/ RegionStep(c) \/ MmioStep(c) \/ TableStep(c)

Panicked == \E c \in Cores : pc[c] = "panic"

Next == ~Panicked /\ \E c \in Cores : Lock(c) \/ Step(c)

(* A core that is in a call keeps going. *)
Continue(c) == ~Panicked /\ pc[c] # "idle" /\ (Lock(c) \/ Step(c))

Spec == Init /\ [][Next]_vars /\ \A c \in Cores : WF_vars(Continue(c))

-----------------------------------------------------------------------------
Points == {"idle", "pop", "heap_lock", "frame_lock", "heap_map", "heap_table", "populate", "new_lock",
           "allocate", "run_lock", "take_run", "region_reserve", "region_lock", "region_table",
           "region_map", "drop_lock", "free", "grown", "mmio_reserve", "mmio_lock", "mmio_table",
           "mmio_map", "panic"}

RegionType == [page : Pages \cup {0}, frame : Frames \cup {-1}]

(* Every variable has its range; a node never has more or fewer slots than   *)
(* its block has room for.                                                  *)
HeapTypeOK ==
  /\ pc \in [Cores -> Points]
  /\ call \in [Cores -> [class : Classes, block : Blocks \cup {Null}, region : RegionType]]
  /\ head \in [Cores -> [Classes -> Blocks \cup {Null}]]
  /\ \A b \in Blocks :
       /\ memory[b].next \in Blocks \cup {Null, Garbage}
       /\ memory[b].free_slots \in 0 .. Max({MaxSlots[k] : k \in Classes})
       /\ memory[b].slots \in [SlotIndexes -> Blocks \cup {Garbage}]
  /\ in_use \subseteq Blocks
  /\ NEXT_HEAP_ADDRESS \in 1 .. MaxPages + 1
  /\ page_class \in [Pages -> Classes \cup {"none", "region", "mmio"}]
  /\ page_frames \in [Pages -> SUBSET Frames]
  /\ table_frames \in [Tables -> SUBSET Frames]
  /\ free_memory \subseteq Frames
  /\ {page_table_lock, free_memory_lock, regions_lock} \subseteq Cores \cup {NoCore}
  /\ \A i \in DOMAIN regions : regions[i] \in RegionType
  /\ buffer \in Blocks \cup {Null}
  /\ Len(regions) <= capacity
  /\ live_regions \subseteq RegionType

(* The nodes of a list, as following next from its head finds them.          *)
Nodes(c, k) ==
  LET follow[n \in 0 .. Cardinality(Blocks)] ==
        IF n = 0 THEN head[c][k]
        ELSE IF follow[n - 1] \in Blocks THEN memory[follow[n - 1]].next ELSE Null
  IN follow

(* Every place of a list that pop would take a block from.                   *)
Listed(c, k) ==
  LET nodes == Range(Nodes(c, k)) \ {Null}
      slots(b) == {s \in SlotIndexes : memory[b].free_slots <= s /\ s < MaxSlots[k]}
  IN {[list |-> <<c, k>>, node |-> b, slot |-> -1, block |-> b] : b \in nodes} \cup
     UNION {{[list |-> <<c, k>>, node |-> b, slot |-> s, block |-> memory[b].slots[s]] :
               s \in slots(b)} : b \in nodes \cap Blocks}

Everywhere == UNION {Listed(c, k) : c \in Cores, k \in Classes}

(* The page of a call that has not pushed the blocks of it yet.              *)
BeingMapped == {call[c].block[1] : c \in {d \in Cores : pc[d] \in
                  {"heap_lock", "frame_lock", "heap_map", "heap_table", "populate", "panic"}}}

HeapBlocks == {b \in Blocks :
  /\ page_class[b[1]] \in Classes /\ b[1] \notin BeingMapped
  /\ b[2] < BlocksPerPage[page_class[b[1]]]}

(* Whatever the cores allocate and free, and whichever core frees what       *)
(* another one allocated, every list ends, and each block of a mapped page   *)
(* is in use or in exactly one place of one list, of its own size: push and  *)
(* pop neither lose a block nor have one twice nor read memory in use.       *)
EveryBlockOnce ==
  LET places == Everywhere  blocks == HeapBlocks IN
  /\ HeapTypeOK
  /\ \A c \in Cores, k \in Classes : Nodes(c, k)[Cardinality(Blocks)] = Null
  /\ \A e \in places : e.block \in blocks /\ page_class[e.block[1]] = e.list[2]
  /\ in_use \subseteq blocks
  /\ \A b \in blocks :
       Cardinality({e \in places : e.block = b}) = IF b \in in_use THEN 0 ELSE 1

(* Every frame is free, or backs one page of the heap, or is one page table, *)
(* or belongs to one region, which is held by a caller, kept for reuse or in *)
(* a call: frames are neither lost nor shared, though heap, regions, device  *)
(* mappings and calls in between take them under locks they hold one after   *)
(* the other.                                                                *)
EveryFrameOnce ==
  LET heap == {p \in Pages : page_class[p] \in Classes}
      calls == {c \in Cores : call[c].region # NoRegion}
      owners(f) ==
        {<<"page", p>> : p \in {q \in heap : f \in page_frames[q]}} \cup
        {<<"table", t>> : t \in {u \in Tables : f \in table_frames[u]}} \cup
        {<<"held", r>> : r \in {q \in live_regions : f \in FramesOf(q)}} \cup
        {<<"kept", i>> : i \in {j \in DOMAIN regions : f \in FramesOf(regions[j])}} \cup
        {<<"call", c>> : c \in {d \in calls : f \in FramesOf(call[d].region)}} \cup
        (IF f \in free_memory THEN {<<"free">>} ELSE {})
  IN \A f \in Frames : Cardinality(owners(f)) = 1

(* What callers hold, as the page table has it: blocks, and regions whole.  *)
(* Nothing is behind an address while a table above its entry is missing.    *)
Reached(page) == IF Missing(page) = {} THEN page_frames[page] ELSE {}
BlockAndMemory(b) == [at |-> b, memory |-> Reached(b[1]) \X {b[2]}]
RegionAndMemory(r) == [at |-> <<r.page, 0>>, memory |-> Reached(r.page) \X BlockIndexes]

AllocatorOfHeap == INSTANCE Allocator WITH
  held <- {BlockAndMemory(b) : b \in in_use} \cup {RegionAndMemory(r) : r \in live_regions}

(* Every allocation returns an address with memory behind it that no other   *)
(* address in use has, and the memory stays there until that address is      *)
(* given back: blocks share a page but not their part of it, a page or a     *)
(* region is not returned before it is mapped, and nothing is mapped over it *)
(* or taken from it by the calls of other cores.                             *)
ImplementsAllocator == AllocatorOfHeap!Spec

(* No cores wait for each other: locks are nested in one order, also when    *)
(* the Vec of regions grows, which allocates with its lock held, and when a  *)
(* mapping takes frames for its tables.                                      *)
NeedsTable(c) ==
  \/ pc[c] \in {"populate", "mmio_map"} /\ Missing(call[c].block[1]) # {}
  \/ pc[c] = "region_map" /\ Missing(call[c].region.page) # {}

Holder(c) ==
  CASE pc[c] \in {"heap_lock", "region_lock", "mmio_lock"} -> page_table_lock
    [] pc[c] \in {"frame_lock", "run_lock"} \/ NeedsTable(c) -> free_memory_lock
    [] pc[c] \in {"new_lock", "drop_lock"} -> regions_lock
    [] OTHER -> NoCore

NoCircularWait == \A S \in (SUBSET Cores) \ {{}} : \E c \in S : Holder(c) \notin S

(* Every call comes back, or the kernel panics.  The locks are not fair, but *)
(* page table and free memory are locked only to take frames or addresses    *)
(* for good, so nobody is overtaken there for ever; at the lock of the       *)
(* regions a core may be, and the property is about cores that have got it.  *)
CallsReturn == \A c \in Cores :
  pc[c] \notin {"idle", "new_lock", "drop_lock"} ~> pc[c] = "idle" \/ Panicked
=============================================================================
