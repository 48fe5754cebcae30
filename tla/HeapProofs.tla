----------------------------- MODULE HeapProofs -----------------------------
(***************************************************************************)
(* Proofs about the memory managers, for any cores, sizes and amounts of   *)
(* memory.                                                                 *)
(*                                                                         *)
(* Their locks are never waited for in a circle.  Where a core may be      *)
(* while it holds a lock is inductive: the list of free memory is the      *)
(* innermost, nothing is waited for under it; the page table comes next,   *)
(* with the frames of pages and of tables taken under it; and the regions  *)
(* are outermost: a core may allocate with the regions locked, and returns *)
(* from that allocation to the Vec.                                        *)
(*                                                                         *)
(* Every frame has one owner.  What a core has in its hands between two    *)
(* steps is part of the invariant, and so is that a page was never mapped  *)
(* before the counter of addresses reached it.                             *)
(*                                                                         *)
(* Every block has one place.  A list is the sequence of its nodes, found  *)
(* by following next; push appends to it and pop takes from its end, or    *)
(* from the stack of the last node.  The lists of all cores together have  *)
(* a place for each free block (Lists), and a step changes one list.       *)
(*                                                                         *)
(* Together they make an allocator.  A page in hand is not mapped yet, one *)
(* that is mapped is never mapped again, and as frames and blocks have one *)
(* owner, no memory is behind two addresses that callers hold.             *)
(***************************************************************************)
EXTENDS Heap, FiniteSetTheorems, WellFoundedInduction, TLAPS

Allocating == {"pop", "heap_lock", "frame_lock", "heap_map", "heap_table", "populate"}

LockedPageTable == {"frame_lock", "heap_map", "heap_table", "populate", "region_table", "region_map",
                    "mmio_table", "mmio_map", "panic"}
LockedFreeMemory == {"heap_map", "take_run", "heap_table", "region_table", "mmio_table", "panic"}
LockedRegions == {"allocate", "run_lock", "take_run", "region_reserve", "region_lock", "region_table",
                  "region_map", "free", "grown", "panic"}

(* Where a core may be with each lock. *)
Where(c) ==
  /\ page_table_lock = c => pc[c] \in LockedPageTable
  /\ free_memory_lock = c => pc[c] \in LockedFreeMemory
  /\ regions_lock = c => pc[c] \in LockedRegions \cup Allocating

LockInv == pc = [c \in Cores |-> pc[c]] /\ \A c \in Cores : Where(c)

-----------------------------------------------------------------------------
(* The invariant holds at the start.                                         *)
LEMMA LockInvInit == Init => LockInv
  BY HeapAssumption
  DEF Init, LockInv, Where

(* No step of an allocation moves a core that holds a lock out of its section. *)
LEMMA AllocKeepsLockInv ==
  ASSUME LockInv, NEW c \in Cores, AllocStep(c)
  PROVE  LockInv'
<1> USE HeapAssumption DEF LockInv, Where, Allocating,
         LockedPageTable, LockedFreeMemory, LockedRegions, Goto, listVars, pageVars, lockVars, regionVars
<1>1. ASSUME NEW k \in Classes, alloc(c, k) PROVE LockInv'
  BY <1>1 DEF alloc
<1>2. CASE pop_reserve(c)
  BY <1>2 DEF pop_reserve, reserve_virt_addr
<1>3. CASE pop_map(c)
  BY <1>3 DEF pop_map
<1>4. CASE pop_populate(c)
  BY <1>4 DEF pop_populate, SetFreeList
<1>5. CASE pop_whole_page(c)
  BY <1>5 DEF pop_whole_page, Grant
<1>6. CASE pop_node(c)
  BY <1>6 DEF pop_node, Grant
<1>7. CASE pop_slot(c)
  BY <1>7 DEF pop_slot, Grant
<1>8. ASSUME NEW b \in in_use, dealloc(c, b) PROVE LockInv'
  BY <1>8 DEF dealloc, SetFreeList
<1> QED
  BY <1>1, <1>2, <1>3, <1>4, <1>5, <1>6, <1>7, <1>8 DEF AllocStep

(* Nor does a step of the regions, whose growing Vec allocates meanwhile. *)
LEMMA RegionKeepsLockInv ==
  ASSUME LockInv, NEW c \in Cores, RegionStep(c)
  PROVE  LockInv'
<1> USE HeapAssumption DEF LockInv, Where, Allocating,
         LockedPageTable, LockedFreeMemory, LockedRegions, Goto, listVars, pageVars, lockVars, regionVars
<1>1. CASE region_new(c)
  BY <1>1 DEF region_new
<1>2. CASE allocate_again(c)
  BY <1>2 DEF allocate_again
<1>3. CASE allocate_fresh(c)
  BY <1>3 DEF allocate_fresh
<1>4. CASE take_run(c)
  BY <1>4 DEF take_run
<1>5. CASE region_reserve(c)
  BY <1>5 DEF region_reserve, reserve_virt_addr
<1>6. CASE map_region(c)
  BY <1>6 DEF map_region
<1>7. ASSUME NEW region \in live_regions, region_drop(c, region) PROVE LockInv'
  BY <1>7 DEF region_drop
<1>8. CASE free(c)
  BY <1>8 DEF free
<1>9. CASE grow(c)
  BY <1>9 DEF grow
<1>10. CASE grown(c)
  BY <1>10 DEF grown, SetFreeList
<1> QED
  BY <1>1, <1>2, <1>3, <1>4, <1>5, <1>6, <1>7, <1>8, <1>9, <1>10 DEF RegionStep

(* Nor does mapping device memory. *)
LEMMA MmioKeepsLockInv ==
  ASSUME LockInv, NEW c \in Cores, MmioStep(c)
  PROVE  LockInv'
<1> USE HeapAssumption DEF LockInv, Where, Allocating,
         LockedPageTable, LockedFreeMemory, LockedRegions, Goto, listVars, pageVars, lockVars, regionVars
<1>1. CASE map_mmio(c)
  BY <1>1 DEF map_mmio
<1>2. CASE mmio_reserve(c)
  BY <1>2 DEF mmio_reserve, reserve_virt_addr
<1>3. CASE mmio_mapped(c)
  BY <1>3 DEF mmio_mapped
<1> QED
  BY <1>1, <1>2, <1>3 DEF MmioStep

(* Nor does taking the frame of a table, which gives the free memory back. *)
LEMMA TableKeepsLockInv ==
  ASSUME LockInv, NEW c \in Cores, TableStep(c)
  PROVE  LockInv'
  BY HeapAssumption
  DEF TableStep, take_table, LockInv, Where, Allocating, LockedPageTable, LockedFreeMemory, LockedRegions,
      Goto, listVars, pageVars, lockVars, regionVars

(* A lock is taken where the order of the locks allows it.                   *)
LEMMA LockKeepsLockInv ==
  ASSUME LockInv, NEW c \in Cores, Lock(c)
  PROVE  LockInv'
  BY HeapAssumption
  DEF Lock, lock_page_table, lock_free_memory, lock_for_table, lock_regions, LockInv, Where, Allocating,
         LockedPageTable, LockedFreeMemory, LockedRegions, Goto, listVars, pageVars, lockVars, regionVars

(* A core that panics keeps the locks it holds.                              *)
LEMMA ExpectKeepsLockInv ==
  ASSUME LockInv, NEW c \in Cores, Expect(c)
  PROVE  LockInv'
  BY DEF Expect, OutOfMemory, AddressOverflow, expect_failed, LockInv, Where, Allocating,
         LockedPageTable, LockedFreeMemory, LockedRegions, Goto, listVars, pageVars, lockVars, regionVars

(* Where every core that holds a lock may be, in every behaviour.            *)
THEOREM LockInvHolds == Spec => []LockInv
<1>1. LockInv /\ [Next]_vars => LockInv'
  <2> SUFFICES ASSUME LockInv, [Next]_vars PROVE LockInv'
    OBVIOUS
  <2>1. CASE Next
    BY <2>1, AllocKeepsLockInv, RegionKeepsLockInv, MmioKeepsLockInv, TableKeepsLockInv,
       LockKeepsLockInv, ExpectKeepsLockInv DEF Next, Step
  <2>2. CASE UNCHANGED vars
    BY <2>2 DEF vars, lockVars, LockInv, Where
  <2> QED
    BY <2>1, <2>2
<1> QED
  BY <1>1, LockInvInit, PTL DEF Spec

-----------------------------------------------------------------------------
(* Whoever holds the list of free memory waits for nothing, whoever holds    *)
(* the page table waits for that list at most, and whoever holds the regions *)
(* for one of these two: following the waits from any core leaves any set.   *)
LEMMA OrderBreaksCircles == LockInv => NoCircularWait
<1> SUFFICES ASSUME LockInv, NEW S \in SUBSET Cores, S # {}, \A c \in S : Holder(c) \in S
             PROVE  FALSE
  BY DEF NoCircularWait
<1> USE HeapAssumption
<1>1. \A c \in S : Holder(c) \in {page_table_lock, free_memory_lock, regions_lock} \cap Cores
  BY DEF Holder
<1>2. free_memory_lock \notin S
  <2> SUFFICES ASSUME free_memory_lock \in S PROVE FALSE
    OBVIOUS
  <2>1. pc[free_memory_lock] \in {"heap_map", "take_run", "heap_table", "region_table", "mmio_table", "panic"}
    BY DEF LockInv, Where, LockedFreeMemory
  <2>2. Holder(free_memory_lock) = NoCore
    BY <2>1 DEF Holder, NeedsTable
  <2> QED
    BY <2>2
<1>3. page_table_lock \notin S
  <2> SUFFICES ASSUME page_table_lock \in S PROVE FALSE
    OBVIOUS
  <2>1. pc[page_table_lock] \in
          {"frame_lock", "heap_map", "heap_table", "populate", "region_table", "region_map",
           "mmio_table", "mmio_map", "panic"}
    BY DEF LockInv, Where, LockedPageTable
  <2>2. Holder(page_table_lock) \in {NoCore, free_memory_lock}
    BY <2>1 DEF Holder
  <2> QED
    BY <2>2, <1>2
<1>4. regions_lock \notin S
  <2> SUFFICES ASSUME regions_lock \in S PROVE FALSE
    OBVIOUS
  <2>1. pc[regions_lock] \in LockedRegions \cup Allocating
    BY DEF LockInv, Where
  <2>2. Holder(regions_lock) \in {NoCore, free_memory_lock, page_table_lock}
    BY <2>1 DEF Holder, NeedsTable, LockedRegions, Allocating
  <2> QED
    BY <2>2, <1>2, <1>3
<1> QED
  BY <1>1, <1>2, <1>3, <1>4

(* Cores never wait for each other's locks in a circle: mm.rs takes the lock *)
(* of the regions before that of the page table and that of free memory last *)
(* on every path: when ContiguousRegions::free grows the Vec, and when       *)
(* map_raw, with the page table locked, takes frames for the tables that the *)
(* pages of the heap, of a region or of device memory need.                  *)
THEOREM NeverCircular == Spec => []NoCircularWait
  BY LockInvHolds, OrderBreaksCircles, PTL

-----------------------------------------------------------------------------
(* Where the frames are.  The ways a frame may be owned: *)
PagesWith(f) == {p \in Pages : page_class[p] \in Classes /\ f \in page_frames[p]}
HeldWith(f) == {r \in live_regions : f \in FramesOf(r)}
KeptWith(f) == {i \in DOMAIN regions : f \in FramesOf(regions[i])}
CallsWith(f) == {c \in Cores : f \in FramesOf(call[c].region)}
TablesWith(f) == {t \in Tables : f \in table_frames[t]}

(* in one of them, once, or not at all and free. *)
Single(S) == \E x \in S : S = {x}

Free(f) ==
  /\ f \in free_memory /\ PagesWith(f) = {} /\ TablesWith(f) = {}
  /\ HeldWith(f) = {} /\ KeptWith(f) = {} /\ CallsWith(f) = {}
OnPage(f) ==
  /\ f \notin free_memory /\ Single(PagesWith(f)) /\ TablesWith(f) = {}
  /\ HeldWith(f) = {} /\ KeptWith(f) = {} /\ CallsWith(f) = {}
InTable(f) ==
  /\ f \notin free_memory /\ PagesWith(f) = {} /\ Single(TablesWith(f))
  /\ HeldWith(f) = {} /\ KeptWith(f) = {} /\ CallsWith(f) = {}
Held(f) ==
  /\ f \notin free_memory /\ PagesWith(f) = {} /\ TablesWith(f) = {}
  /\ Single(HeldWith(f)) /\ KeptWith(f) = {} /\ CallsWith(f) = {}
Kept(f) ==
  /\ f \notin free_memory /\ PagesWith(f) = {} /\ TablesWith(f) = {}
  /\ HeldWith(f) = {} /\ Single(KeptWith(f)) /\ CallsWith(f) = {}
InCall(f) ==
  /\ f \notin free_memory /\ PagesWith(f) = {} /\ TablesWith(f) = {}
  /\ HeldWith(f) = {} /\ KeptWith(f) = {} /\ Single(CallsWith(f))

OneOwner(f) == Free(f) \/ OnPage(f) \/ InTable(f) \/ Held(f) \/ Kept(f) \/ InCall(f)

FrameTypes ==
  /\ pc = [c \in Cores |-> pc[c]] /\ call = [c \in Cores |-> call[c]]
  /\ \A c \in Cores : /\ call[c] = [class |-> call[c].class, block |-> call[c].block, region |-> call[c].region]
                      /\ call[c].class \in Classes /\ call[c].region \in RegionType
  /\ NEXT_HEAP_ADDRESS \in Nat \ {0}
  /\ page_class \in [Pages -> Classes \cup {"none", "region", "mmio"}] /\ page_frames \in [Pages -> SUBSET Int]
  /\ table_frames \in [Tables -> SUBSET Frames] /\ free_memory \subseteq Frames /\ live_regions \subseteq RegionType /\ regions \in Seq(RegionType)

(* A page is mapped once, by the call that reserved it; nobody else has it in hand. *)
Mapping == {"heap_lock", "frame_lock", "heap_map"}
AtRegion == {"region_lock", "region_table", "region_map"}

PagesFresh ==
  /\ \A p \in Pages : p >= NEXT_HEAP_ADDRESS => page_frames[p] = {}
  /\ \A c \in Cores : pc[c] \in Mapping =>
       /\ call[c].block[1] \in Pages /\ call[c].block[1] < NEXT_HEAP_ADDRESS
       /\ page_class[call[c].block[1]] \in Classes /\ page_frames[call[c].block[1]] = {}
       /\ \A d \in Cores \ {c} : pc[d] \in Mapping => call[d].block[1] # call[c].block[1]
  /\ \A c \in Cores : pc[c] \in AtRegion =>
       /\ call[c].region.page \in Pages /\ call[c].region.page < NEXT_HEAP_ADDRESS
       /\ page_class[call[c].region.page] = "region"

(* A call has a region in hand only where it does not forget it: an allocation with one *)
(* is the Vec's, under the lock of the regions.                                         *)
WithoutRegion == {"idle", "new_lock", "allocate", "run_lock", "take_run", "mmio_reserve", "mmio_lock", "mmio_table",
                  "mmio_map"}

RegionsInHand ==
  \A c \in Cores :
    /\ pc[c] \in WithoutRegion => call[c].region = NoRegion
    /\ pc[c] \in Allocating /\ regions_lock # c => call[c].region = NoRegion
    /\ pc[c] \in LockedRegions \ {"panic"} => regions_lock = c
    /\ pc[c] = "region_reserve" => call[c].region.frame \in Frames

FrameInv == FrameTypes /\ PagesFresh /\ RegionsInHand /\ \A f \in Frames : OneOwner(f)

-----------------------------------------------------------------------------
(* What the actions do to the call of a core. *)
CallBecomes(c, k, b, r) == call' = [call EXCEPT ![c] = [class |-> k, block |-> b, region |-> r]]

Forgets(c) == CallBecomes(c, VecClass, Null, NoRegion)

(* The type of the frames' variables leaves a call to be built from its parts. *)
LEMMA CallsMove ==
  ASSUME FrameTypes, NEW c \in Cores
  PROVE  /\ \A k \in Classes : alloc(c, k) => CallBecomes(c, k, Null, NoRegion)
         /\ pop_reserve(c) => CallBecomes(c, call[c].class, <<NEXT_HEAP_ADDRESS, 0>>, call[c].region)
         /\ \A b : Grant(c, b) => IF regions_lock = c THEN CallBecomes(c, call[c].class, b, call[c].region)
                                                      ELSE Forgets(c)
         /\ \A f : call' = [call EXCEPT ![c].region.frame = f] =>
              CallBecomes(c, call[c].class, call[c].block, [page |-> call[c].region.page, frame |-> f])
         /\ region_reserve(c) =>
              CallBecomes(c, call[c].class, call[c].block,
                          [page |-> NEXT_HEAP_ADDRESS, frame |-> call[c].region.frame])
         /\ mmio_reserve(c) => CallBecomes(c, call[c].class, <<NEXT_HEAP_ADDRESS, 0>>, call[c].region)
         /\ map_region(c) \/ free(c) \/ mmio_mapped(c) => Forgets(c)
         /\ \A region : region_drop(c, region) => CallBecomes(c, VecClass, Null, region)
         /\ grown(c) => CallBecomes(c, VecClass, Null, call[c].region)
<1>1. /\ call[c] = [class |-> call[c].class, block |-> call[c].block, region |-> call[c].region]
      /\ call[c].region \in RegionType
  BY DEF FrameTypes
<1>2. call[c].region = [page |-> call[c].region.page, frame |-> call[c].region.frame]
  BY <1>1 DEF RegionType
<1>3. call = [d \in Cores |-> call[d]]
  BY DEF FrameTypes
<1>4. \A k : [NoCall EXCEPT !.class = k] = [class |-> k, block |-> Null, region |-> NoRegion]
  BY DEF NoCall
<1>5. \A r : [NoCall EXCEPT !.region = r] = [class |-> VecClass, block |-> Null, region |-> r]
  BY DEF NoCall
<1>6. \A b : [call[c] EXCEPT !.block = b] = [class |-> call[c].class, block |-> b, region |-> call[c].region]
  BY <1>1
<1>7. \A f : [call[c] EXCEPT !.region.frame = f] =
        [class |-> call[c].class, block |-> call[c].block, region |-> [page |-> call[c].region.page, frame |-> f]]
  BY <1>1, <1>2
<1>8. \A p : [call[c] EXCEPT !.region.page = p] =
        [class |-> call[c].class, block |-> call[c].block, region |-> [page |-> p, frame |-> call[c].region.frame]]
  BY <1>1, <1>2
<1>9. \A b : [call EXCEPT ![c].block = b] = [call EXCEPT ![c] = [call[c] EXCEPT !.block = b]]
  BY <1>3
<1>10. \A f : [call EXCEPT ![c].region.frame = f] = [call EXCEPT ![c] = [call[c] EXCEPT !.region.frame = f]]
  BY <1>3
<1>11. \A p : [call EXCEPT ![c].region.page = p] = [call EXCEPT ![c] = [call[c] EXCEPT !.region.page = p]]
  BY <1>3
<1>12. NoCall = [class |-> VecClass, block |-> Null, region |-> NoRegion]
  BY DEF NoCall
<1>a. \A k \in Classes : alloc(c, k) => CallBecomes(c, k, Null, NoRegion)
  BY <1>4 DEF alloc, CallBecomes
<1>b. pop_reserve(c) => CallBecomes(c, call[c].class, <<NEXT_HEAP_ADDRESS, 0>>, call[c].region)
  BY <1>6, <1>9 DEF pop_reserve, CallBecomes
<1>c. \A b : Grant(c, b) => IF regions_lock = c THEN CallBecomes(c, call[c].class, b, call[c].region)
                                                ELSE Forgets(c)
  BY <1>6, <1>9, <1>12 DEF Grant, CallBecomes, Forgets
<1>d. \A f : call' = [call EXCEPT ![c].region.frame = f] =>
        CallBecomes(c, call[c].class, call[c].block, [page |-> call[c].region.page, frame |-> f])
  BY <1>7, <1>10 DEF CallBecomes
<1>e. region_reserve(c) => CallBecomes(c, call[c].class, call[c].block,
                                       [page |-> NEXT_HEAP_ADDRESS, frame |-> call[c].region.frame])
  BY <1>8, <1>11 DEF region_reserve, CallBecomes
<1>f. map_region(c) \/ free(c) \/ mmio_mapped(c) => Forgets(c)
  BY <1>12 DEF map_region, free, mmio_mapped, Forgets, CallBecomes
<1>g. \A region : region_drop(c, region) => CallBecomes(c, VecClass, Null, region)
  BY <1>5 DEF region_drop, CallBecomes
<1>h. grown(c) => CallBecomes(c, VecClass, Null, call[c].region)
  BY <1>5 DEF grown, CallBecomes
<1>i. mmio_reserve(c) => CallBecomes(c, call[c].class, <<NEXT_HEAP_ADDRESS, 0>>, call[c].region)
  BY <1>6, <1>9 DEF mmio_reserve, CallBecomes
<1> QED
  BY <1>a, <1>b, <1>c, <1>d, <1>e, <1>f, <1>g, <1>h, <1>i

(* Everything else an action changes keeps its type: a region taken is one of free frames. *)
LEMMA CallTypes ==
  ASSUME FrameTypes, NEW c \in Cores, NEW k \in Classes, NEW b, NEW r \in RegionType,
         CallBecomes(c, k, b, r)
  PROVE  /\ call' = [d \in Cores |-> call'[d]]
         /\ call'[c] = [class |-> k, block |-> b, region |-> r]
         /\ \A d \in Cores \ {c} : call'[d] = call[d]
         /\ \A d \in Cores :
              /\ call'[d] = [class |-> call'[d].class, block |-> call'[d].block, region |-> call'[d].region]
              /\ call'[d].class \in Classes /\ call'[d].region \in RegionType
<1>1. call = [d \in Cores |-> call[d]]
  BY DEF FrameTypes
<1>2. /\ call' = [d \in Cores |-> call'[d]]
      /\ call'[c] = [class |-> k, block |-> b, region |-> r]
      /\ \A d \in Cores \ {c} : call'[d] = call[d]
  BY <1>1 DEF CallBecomes
<1>3. \A d \in Cores \ {c} :
         /\ call'[d] = [class |-> call'[d].class, block |-> call'[d].block, region |-> call'[d].region]
         /\ call'[d].class \in Classes /\ call'[d].region \in RegionType
  BY <1>2 DEF FrameTypes
<1>4. /\ call'[c] = [class |-> call'[c].class, block |-> call'[c].block, region |-> call'[c].region]
      /\ call'[c].class \in Classes /\ call'[c].region \in RegionType
  BY <1>2
<1> QED
  BY <1>2, <1>3, <1>4

CallsTyped == /\ call = [c \in Cores |-> call[c]]
              /\ \A c \in Cores :
                   /\ call[c] = [class |-> call[c].class, block |-> call[c].block, region |-> call[c].region]
                   /\ call[c].class \in Classes /\ call[c].region \in RegionType
PagesTyped ==
  /\ NEXT_HEAP_ADDRESS \in Nat \ {0}
  /\ page_class \in [Pages -> Classes \cup {"none", "region", "mmio"}] /\ page_frames \in [Pages -> SUBSET Int]
  /\ table_frames \in [Tables -> SUBSET Frames] /\ free_memory \subseteq Frames
RegionsTyped == live_regions \subseteq RegionType /\ regions \in Seq(RegionType)

LEMMA NoRegionType == NoRegion \in RegionType /\ RegionType = [page : Pages \cup {0}, frame : Frames \cup {-1}]
  BY DEF NoRegion, RegionType

LEMMA SizesAreNumbers ==
  /\ RegionSize \in Int /\ RegionSize > 0
  /\ Frames \subseteq Int /\ \A f \in Frames : f >= 0
<1>1. RegionSize \in Nat \ {0}
  BY HeapAssumption
<1>2. Frames \subseteq Nat
  BY HeapAssumption
<1> QED
  BY <1>1, <1>2

LEMMA FramesAreInts ==
  ASSUME NEW r \in RegionType PROVE FramesOf(r) \subseteq Int
<1>1. r.frame \in Frames \cup {-1}
  BY DEF RegionType
<1>2. Frames \cup {-1} \subseteq Int
  BY SizesAreNumbers
<1>3. r.frame \in Int
  BY <1>1, <1>2
<1> QED
  BY <1>3, SizesAreNumbers DEF FramesOf

LEMMA CallsTypedKept ==
  ASSUME FrameTypes, NEW c \in Cores, Lock(c) \/ Step(c),
         pc[c] = "region_reserve" => call[c].region.frame \in Frames
  PROVE  CallsTyped'
<1> USE DEF listVars, pageVars, lockVars, regionVars
<1>1. UNCHANGED call => CallsTyped'
  BY DEF FrameTypes, CallsTyped
<1>2. \A k \in Classes, r \in RegionType : \A b : CallBecomes(c, k, b, r) => CallsTyped'
  BY CallTypes DEF CallsTyped
<1>3. /\ call[c].class \in Classes /\ VecClass \in Classes /\ call[c].region \in RegionType
      /\ NoRegion \in RegionType /\ live_regions \subseteq RegionType
      /\ call[c].region.page \in Pages \cup {0} /\ call[c].region.frame \in Frames \cup {-1}
      /\ free_memory \subseteq Frames
  BY HeapAssumption, NoRegionType DEF FrameTypes, RegionType
<1>4. Forgets(c) => CallsTyped'
  BY <1>2, <1>3 DEF Forgets
<1>5. \A b : Grant(c, b) => CallsTyped'
  BY CallsMove, <1>2, <1>3, <1>4
<1>6. CASE Lock(c) \/ Expect(c) \/ map_mmio(c) \/ TableStep(c)
  BY <1>6, <1>1 DEF Lock, Expect, OutOfMemory, AddressOverflow, expect_failed, map_mmio, TableStep,
     take_table, lock_page_table, lock_free_memory, lock_for_table, lock_regions
<1>9. CASE mmio_reserve(c) \/ mmio_mapped(c)
  BY <1>9, CallsMove, <1>2, <1>3, <1>4
<1>7. CASE AllocStep(c)
  <2>1. ASSUME NEW k \in Classes, alloc(c, k) PROVE CallsTyped'
    BY <2>1, CallsMove, <1>2, <1>3
  <2>2. CASE pop_reserve(c)
    BY <2>2, CallsMove, <1>2, <1>3
  <2>3. CASE pop_map(c) \/ pop_populate(c) \/ \E b \in in_use : dealloc(c, b)
    BY <2>3, <1>1 DEF pop_map, pop_populate, dealloc
  <2>4. CASE pop_whole_page(c) \/ pop_node(c) \/ pop_slot(c)
    BY <2>4, <1>5 DEF pop_whole_page, pop_node, pop_slot
  <2> QED
    BY <1>7, <2>1, <2>2, <2>3, <2>4 DEF AllocStep
<1>8. CASE RegionStep(c)
  <2>1. CASE region_new(c) \/ allocate_again(c) \/ allocate_fresh(c) \/ grow(c)
    BY <2>1, <1>1 DEF region_new, allocate_again, allocate_fresh, grow
  <2>2. CASE take_run(c)
    <3>1. PICK f \in Runs : call' = [call EXCEPT ![c].region.frame = f]
      BY <2>2 DEF take_run
    <3>2. [page |-> call[c].region.page, frame |-> f] \in RegionType
      BY <1>3, NoRegionType DEF Runs
    <3> QED
      BY <3>1, <3>2, CallsMove, <1>2, <1>3
  <2>3. CASE region_reserve(c)
    <3>1. [page |-> NEXT_HEAP_ADDRESS, frame |-> call[c].region.frame] \in RegionType
      BY <2>3, <1>3, NoRegionType DEF region_reserve, reserve_virt_addr
    <3> QED
      BY <2>3, <3>1, CallsMove, <1>2, <1>3
  <2>4. CASE map_region(c) \/ free(c)
    BY <2>4, CallsMove, <1>4
  <2>5. ASSUME NEW region \in live_regions, region_drop(c, region) PROVE CallsTyped'
    BY <2>5, CallsMove, <1>2, <1>3
  <2>6. CASE grown(c)
    BY <2>6, CallsMove, <1>2, <1>3
  <2> QED
    BY <1>8, <2>1, <2>2, <2>3, <2>4, <2>5, <2>6 DEF RegionStep
<1> QED
  BY <1>6, <1>7, <1>8, <1>9 DEF Step, MmioStep

LEMMA PagesTypedKept ==
  ASSUME FrameTypes, NEW c \in Cores, Lock(c) \/ Step(c)
  PROVE  PagesTyped'
<1> USE DEF listVars, pageVars, lockVars, regionVars
<1>0. PagesTyped
  BY DEF FrameTypes, PagesTyped
<1>1. UNCHANGED pageVars => PagesTyped'
  BY <1>0 DEF PagesTyped
<1>2. \A what \in Classes \cup {"none", "region", "mmio"} :
        reserve_virt_addr(what) /\ UNCHANGED <<page_frames, table_frames, free_memory>> => PagesTyped'
  BY <1>0 DEF PagesTyped, reserve_virt_addr
<1>3. /\ call[c].class \in Classes /\ call[c].region \in RegionType
      /\ free_memory \subseteq Int
  BY HeapAssumption DEF FrameTypes
<1>4. CASE Lock(c) \/ Expect(c)
  BY <1>4, <1>1 DEF Lock, Expect, OutOfMemory, AddressOverflow, expect_failed, lock_page_table,
     lock_free_memory, lock_for_table, lock_regions
<1>5. CASE pop_reserve(c)
  BY <1>5, <1>2, <1>3 DEF pop_reserve
<1>6. CASE region_reserve(c) \/ mmio_reserve(c)
  BY <1>6, <1>2 DEF region_reserve, mmio_reserve
<1>7. CASE pop_map(c)
  <2>1. PICK f \in free_memory : /\ free_memory' = free_memory \ {f}
                                 /\ page_frames' = [page_frames EXCEPT ![call[c].block[1]] = {f}]
    BY <1>7 DEF pop_map
  <2>2. {f} \subseteq Int
    BY <1>3
  <2>3. page_frames' \in [Pages -> SUBSET Int]
    BY <2>1, <2>2, <1>0 DEF PagesTyped
  <2> QED
    BY <1>7, <2>1, <2>3, <1>0 DEF pop_map, PagesTyped
<1>8. CASE take_run(c)
  BY <1>8, <1>0 DEF take_run, PagesTyped
<1>9. CASE map_region(c)
  BY <1>9, <1>0, <1>3, FramesAreInts DEF map_region, PagesTyped
<1>10. CASE AllocStep(c) /\ ~pop_reserve(c) /\ ~pop_map(c)
  BY <1>10, <1>1 DEF AllocStep, alloc, dealloc, pop_populate, pop_whole_page, pop_node, pop_slot
<1>11. CASE RegionStep(c) /\ ~region_reserve(c) /\ ~take_run(c) /\ ~map_region(c)
  <2>1. \A region : region_drop(c, region) => UNCHANGED pageVars
    BY DEF region_drop
  <2> QED
    BY <1>11, <1>1, <2>1 DEF RegionStep, region_new, allocate_again, allocate_fresh, free, grow, grown
<1>12. CASE map_mmio(c) \/ mmio_mapped(c)
  BY <1>12, <1>1 DEF map_mmio, mmio_mapped
<1>13. CASE TableStep(c)
  <2>1. PICK t \in Tables, f \in free_memory :
          /\ table_frames' = [table_frames EXCEPT ![t] = {f}]
          /\ free_memory' = free_memory \ {f}
    BY <1>13 DEF TableStep, take_table, Missing
  <2>2. UNCHANGED <<NEXT_HEAP_ADDRESS, page_class, page_frames>>
    BY <1>13 DEF TableStep, take_table
  <2> QED
    BY <2>1, <2>2, <1>0 DEF PagesTyped
<1> QED
  BY <1>4, <1>5, <1>6, <1>7, <1>8, <1>9, <1>10, <1>11, <1>12, <1>13 DEF Step, MmioStep

LEMMA RegionsTypedKept ==
  ASSUME FrameTypes, NEW c \in Cores, Lock(c) \/ Step(c)
  PROVE  RegionsTyped'
<1> USE DEF listVars, pageVars, lockVars, regionVars
<1>0. RegionsTyped /\ call[c].region \in RegionType
  BY DEF FrameTypes, RegionsTyped
<1>1. UNCHANGED <<regions, live_regions>> => RegionsTyped'
  BY <1>0 DEF RegionsTyped
<1>2. CASE allocate_again(c)
  <2>1. /\ regions # <<>> => Last(regions) \in RegionType /\ Front(regions) \in Seq(RegionType)
    BY <1>0 DEF Last, Front, RegionsTyped
  <2> QED
    BY <1>2, <1>0, <2>1 DEF allocate_again, RegionsTyped
<1>3. CASE map_region(c)
  BY <1>3, <1>0 DEF map_region, RegionsTyped
<1>4. ASSUME NEW region \in live_regions, region_drop(c, region) PROVE RegionsTyped'
  BY <1>4, <1>0 DEF region_drop, RegionsTyped
<1>5. CASE free(c)
  <2>1. Append(regions, call[c].region) \in Seq(RegionType)
    BY <1>0 DEF RegionsTyped
  <2> QED
    BY <1>5, <1>0, <2>1 DEF free, RegionsTyped
<1>6. CASE Lock(c) \/ Expect(c)
  BY <1>6, <1>1 DEF Lock, Expect, OutOfMemory, AddressOverflow, expect_failed, lock_page_table,
     lock_free_memory, lock_for_table, lock_regions
<1>7. CASE AllocStep(c)
  BY <1>7, <1>1 DEF AllocStep, alloc, dealloc, pop_populate, pop_whole_page, pop_node, pop_slot,
     pop_reserve, pop_map
<1>8. CASE region_new(c) \/ allocate_fresh(c) \/ take_run(c) \/ region_reserve(c) \/ grow(c) \/ grown(c)
  BY <1>8, <1>1 DEF region_new, allocate_fresh, take_run, region_reserve, grow, grown
<1>9. CASE MmioStep(c) \/ TableStep(c)
  BY <1>9, <1>1 DEF MmioStep, map_mmio, mmio_reserve, mmio_mapped, TableStep, take_table
<1> QED
  BY <1>2, <1>3, <1>4, <1>5, <1>6, <1>7, <1>8, <1>9 DEF Step, RegionStep

LEMMA PcIsFunction ==
  ASSUME pc = [d \in Cores |-> pc[d]], NEW c \in Cores, Lock(c) \/ Step(c)
  PROVE  \E to : pc' = [pc EXCEPT ![c] = to]
<1>1. \A from, to : Goto(c, from, to) => \E t : pc' = [pc EXCEPT ![c] = t]
  BY DEF Goto
<1>2. \A b : Grant(c, b) => \E t : pc' = [pc EXCEPT ![c] = t]
  BY DEF Grant
<1>3. (\E b \in in_use : dealloc(c, b)) => \E t : pc' = [pc EXCEPT ![c] = t]
  BY DEF dealloc
<1>4. CASE Lock(c) \/ Expect(c) \/ MmioStep(c) \/ TableStep(c)
  BY <1>4, <1>1 DEF Lock, Expect, MmioStep, OutOfMemory, AddressOverflow, expect_failed, map_mmio,
     mmio_reserve, mmio_mapped, TableStep, take_table, lock_page_table, lock_free_memory, lock_for_table,
     lock_regions
<1>5. CASE AllocStep(c)
  BY <1>5, <1>1, <1>2, <1>3 DEF AllocStep, alloc, pop_populate, pop_whole_page, pop_node, pop_slot,
     pop_reserve, pop_map
<1>6. CASE RegionStep(c)
  BY <1>6, <1>1 DEF RegionStep, region_new, allocate_again, allocate_fresh, take_run, region_reserve,
     map_region, region_drop, free, grow, grown
<1> QED
  BY <1>4, <1>5, <1>6 DEF Step

LEMMA FrameTypesKept ==
  ASSUME FrameTypes, NEW c \in Cores, Lock(c) \/ Step(c),
         pc[c] = "region_reserve" => call[c].region.frame \in Frames
  PROVE  FrameTypes'
<1>1. pc' = [d \in Cores |-> pc'[d]]
  <2>1. pc = [d \in Cores |-> pc[d]]
    BY DEF FrameTypes
  <2>2. PICK to : pc' = [pc EXCEPT ![c] = to]
    BY <2>1, PcIsFunction
  <2> QED
    BY <2>1, <2>2
<1> QED
  BY <1>1, CallsTypedKept, PagesTypedKept, RegionsTypedKept
  DEF FrameTypes, CallsTyped, PagesTyped, RegionsTyped

-----------------------------------------------------------------------------
(* A region is forgotten only where there is none in hand. *)
InHand(c) ==
  /\ pc[c] \in WithoutRegion => call[c].region = NoRegion
  /\ pc[c] \in Allocating /\ regions_lock # c => call[c].region = NoRegion
  /\ pc[c] \in LockedRegions \ {"panic"} => regions_lock = c
  /\ pc[c] = "region_reserve" => call[c].region.frame \in Frames

(* A core's step leaves the others' calls alone, and the lock of the regions unless it is *)
(* the core's or free.                                                                    *)
OthersStay(c) ==
  /\ \A d \in Cores \ {c} : pc'[d] = pc[d] /\ call'[d] = call[d]
  /\ \/ regions_lock' = regions_lock
     \/ regions_lock = NoCore /\ regions_lock' = c
     \/ regions_lock = c /\ regions_lock' = NoCore

LEMMA OthersKeepInHand ==
  ASSUME RegionsInHand, NEW c \in Cores, OthersStay(c), InHand(c)'
  PROVE  RegionsInHand'
<1>1. ASSUME NEW d \in Cores \ {c} PROVE InHand(d)'
  BY <1>1, HeapAssumption DEF OthersStay, RegionsInHand, InHand
<1>2. \A d \in Cores : InHand(d)'
  BY <1>1
<1> QED
  BY <1>2 DEF RegionsInHand, InHand

LEMMA OthersStayAndOwnKept ==
  ASSUME FrameTypes, RegionsInHand, NEW c \in Cores, Lock(c) \/ Step(c)
  PROVE  OthersStay(c) /\ InHand(c)'
<1> USE DEF listVars, pageVars, lockVars, regionVars
<1>1. InHand(c) /\ c # NoCore
  BY HeapAssumption DEF RegionsInHand, InHand
<1>2. pc = [d \in Cores |-> pc[d]] /\ call = [d \in Cores |-> call[d]]
  BY DEF FrameTypes
<1>3. \A from, to : Goto(c, from, to) => pc[c] = from /\ pc'[c] = to /\ \A d \in Cores \ {c} : pc'[d] = pc[d]
  BY <1>2 DEF Goto
<1>4. \A k, b, r : CallBecomes(c, k, b, r) =>
        /\ call'[c].region = r
        /\ \A d \in Cores \ {c} : call'[d] = call[d]
  <2>1. SUFFICES ASSUME NEW k, NEW b, NEW r, CallBecomes(c, k, b, r)
                 PROVE  call'[c].region = r /\ \A d \in Cores \ {c} : call'[d] = call[d]
    OBVIOUS
  <2>2. call'[c] = [class |-> k, block |-> b, region |-> r]
    BY <2>1, <1>2 DEF CallBecomes
  <2> QED
    BY <2>1, <2>2, <1>2 DEF CallBecomes
<1>5. Forgets(c) => call'[c].region = NoRegion /\ \A d \in Cores \ {c} : call'[d] = call[d]
  BY <1>4 DEF Forgets
<1> USE DEF OthersStay, InHand, WithoutRegion, Allocating, LockedRegions
<1>7. CASE Lock(c)
  BY <1>7, <1>1, <1>3 DEF Lock, lock_page_table, lock_free_memory, lock_for_table, lock_regions
<1>8. CASE Expect(c)
  BY <1>8, <1>1, <1>3 DEF Expect, OutOfMemory, AddressOverflow, expect_failed
<1>9. CASE map_mmio(c) \/ TableStep(c)
  BY <1>9, <1>1, <1>3 DEF map_mmio, TableStep, take_table
<1>21. CASE mmio_reserve(c)
  <2>1. CallBecomes(c, call[c].class, <<NEXT_HEAP_ADDRESS, 0>>, call[c].region)
    BY <1>21, CallsMove
  <2>2. call'[c].region = call[c].region /\ \A d \in Cores \ {c} : call'[d] = call[d]
    BY <2>1, <1>4
  <2> QED
    BY <1>21, <2>2, <1>1, <1>3 DEF mmio_reserve
<1>22. CASE mmio_mapped(c)
  <2>1. call'[c].region = NoRegion /\ \A d \in Cores \ {c} : call'[d] = call[d]
    BY <1>22, CallsMove, <1>5
  <2> QED
    BY <1>22, <2>1, <1>1, <1>3 DEF mmio_mapped
<1>10. ASSUME NEW k \in Classes, alloc(c, k) PROVE OthersStay(c) /\ InHand(c)'
  <2>1. CallBecomes(c, k, Null, NoRegion)
    BY <1>10, CallsMove
  <2>2. call'[c].region = NoRegion /\ \A d \in Cores \ {c} : call'[d] = call[d]
    BY <2>1, <1>4
  <2> QED
    BY <1>10, <2>2, <1>1, <1>3 DEF alloc
<1>11. CASE pop_reserve(c)
  <2>1. CallBecomes(c, call[c].class, <<NEXT_HEAP_ADDRESS, 0>>, call[c].region)
    BY <1>11, CallsMove
  <2>2. call'[c].region = call[c].region /\ \A d \in Cores \ {c} : call'[d] = call[d]
    BY <2>1, <1>4
  <2> QED
    BY <1>11, <2>2, <1>1, <1>3 DEF pop_reserve
<1>12. CASE pop_map(c) \/ pop_populate(c)
  <2>1. /\ \/ Goto(c, "heap_map", "populate")
           \/ Goto(c, "populate", "pop")
        /\ UNCHANGED <<call, regions_lock>>
    BY <1>12 DEF pop_map, pop_populate
  <2> QED
    BY <2>1, <1>1, <1>3
<1>20. ASSUME NEW b \in in_use, dealloc(c, b) PROVE OthersStay(c) /\ InHand(c)'
  BY <1>20, <1>1 DEF dealloc
<1>13. CASE pop_whole_page(c) \/ pop_node(c) \/ pop_slot(c)
  <2>1. PICK b : Grant(c, b)
    BY <1>13 DEF pop_whole_page, pop_node, pop_slot
  <2>2. UNCHANGED regions_lock /\ pc[c] \in {"pop", "populate"}
    BY <1>13 DEF pop_whole_page, pop_node, pop_slot
  <2>3. CASE regions_lock = c
    <3>1. CallBecomes(c, call[c].class, b, call[c].region)
      BY <2>1, <2>3, CallsMove
    <3>2. call'[c].region = call[c].region /\ \A d \in Cores \ {c} : call'[d] = call[d]
      BY <3>1, <1>4
    <3>3. pc' = [pc EXCEPT ![c] = "grown"]
      BY <2>1, <2>3 DEF Grant
    <3> QED
      BY <3>2, <3>3, <2>2, <2>3, <1>1, <1>2
  <2>4. CASE regions_lock # c
    <3>1. call'[c].region = NoRegion /\ \A d \in Cores \ {c} : call'[d] = call[d]
      BY <2>1, <2>4, CallsMove, <1>5
    <3>2. pc' = [pc EXCEPT ![c] = "idle"]
      BY <2>1, <2>4 DEF Grant
    <3> QED
      BY <3>1, <3>2, <2>2, <2>4, <1>1, <1>2
  <2> QED
    BY <2>3, <2>4
<1>14. CASE region_new(c) \/ allocate_again(c) \/ allocate_fresh(c) \/ grow(c)
  BY <1>14, <1>1, <1>3 DEF region_new, allocate_again, allocate_fresh, grow
<1>15. CASE take_run(c)
  <2>1. PICK f \in Runs : call' = [call EXCEPT ![c].region.frame = f]
    BY <1>15 DEF take_run
  <2>2. CallBecomes(c, call[c].class, call[c].block, [page |-> call[c].region.page, frame |-> f])
    BY <2>1, CallsMove
  <2>3. call'[c].region.frame = f /\ \A d \in Cores \ {c} : call'[d] = call[d]
    BY <2>2, <1>4
  <2>4. f \in Frames
    BY DEF Runs, FrameTypes
  <2> QED
    BY <1>15, <2>3, <2>4, <1>1, <1>3 DEF take_run
<1>16. CASE region_reserve(c)
  <2>1. CallBecomes(c, call[c].class, call[c].block, [page |-> NEXT_HEAP_ADDRESS, frame |-> call[c].region.frame])
    BY <1>16, CallsMove
  <2>2. \A d \in Cores \ {c} : call'[d] = call[d]
    BY <2>1, <1>4
  <2> QED
    BY <1>16, <2>2, <1>1, <1>3 DEF region_reserve
<1>17. CASE map_region(c) \/ free(c)
  <2>1. call'[c].region = NoRegion /\ \A d \in Cores \ {c} : call'[d] = call[d]
    BY <1>17, CallsMove, <1>5
  <2> QED
    BY <1>17, <2>1, <1>1, <1>3 DEF map_region, free
<1>18. ASSUME NEW region \in live_regions, region_drop(c, region) PROVE OthersStay(c) /\ InHand(c)'
  <2>1. CallBecomes(c, VecClass, Null, region)
    BY <1>18, CallsMove
  <2>2. \A d \in Cores \ {c} : call'[d] = call[d]
    BY <2>1, <1>4
  <2> QED
    BY <1>18, <2>2, <1>1, <1>3 DEF region_drop
<1>19. CASE grown(c)
  <2>1. CallBecomes(c, VecClass, Null, call[c].region)
    BY <1>19, CallsMove
  <2>2. call'[c].region = call[c].region /\ \A d \in Cores \ {c} : call'[d] = call[d]
    BY <2>1, <1>4
  <2> QED
    BY <1>19, <2>2, <1>1, <1>3 DEF grown
<1> QED
  BY <1>7, <1>8, <1>9, <1>10, <1>11, <1>12, <1>13, <1>14, <1>15, <1>16, <1>17, <1>18, <1>19, <1>20,
     <1>21, <1>22
  DEF Step, AllocStep, RegionStep, MmioStep

LEMMA RegionsInHandKept ==
  ASSUME FrameTypes, RegionsInHand, NEW c \in Cores, Lock(c) \/ Step(c)
  PROVE  RegionsInHand'
<1>1. OthersStay(c) /\ InHand(c)'
  BY OthersStayAndOwnKept
<1> QED
  BY <1>1, OthersKeepInHand

-----------------------------------------------------------------------------
(* A step that touches no page, of a core that gets no page in hand. *)
NoPage(c) ==
  /\ UNCHANGED <<NEXT_HEAP_ADDRESS, page_class, page_frames>>
  /\ \A d \in Cores \ {c} : pc'[d] = pc[d] /\ call'[d] = call[d]
  /\ pc'[c] \in Mapping => pc[c] \in Mapping /\ call'[c] = call[c]
  /\ pc'[c] \in AtRegion =>
       pc[c] \in AtRegion /\ call'[c] = call[c]

LEMMA NoPageKeepsPages ==
  ASSUME PagesFresh, NEW c \in Cores, NoPage(c)
  PROVE  PagesFresh'
<1>1. \A p \in Pages : p >= NEXT_HEAP_ADDRESS' => page_frames'[p] = {}
  BY DEF NoPage, PagesFresh
<1>2. \A d \in Cores : pc'[d] \in Mapping => pc[d] \in Mapping /\ call'[d] = call[d]
  BY DEF NoPage
<1>3. \A d \in Cores : pc'[d] \in AtRegion =>
        pc[d] \in AtRegion /\ call'[d] = call[d]
  BY DEF NoPage
<1>4. UNCHANGED <<NEXT_HEAP_ADDRESS, page_class, page_frames>>
  BY DEF NoPage
<1>5. ASSUME NEW d \in Cores, pc'[d] \in Mapping
      PROVE  /\ call'[d].block[1] \in Pages /\ call'[d].block[1] < NEXT_HEAP_ADDRESS'
             /\ page_class'[call'[d].block[1]] \in Classes /\ page_frames'[call'[d].block[1]] = {}
             /\ \A e \in Cores \ {d} : pc'[e] \in Mapping => call'[e].block[1] # call'[d].block[1]
  BY <1>2, <1>4, <1>5 DEF PagesFresh
<1>6. ASSUME NEW d \in Cores, pc'[d] \in AtRegion
      PROVE  /\ call'[d].region.page \in Pages /\ call'[d].region.page < NEXT_HEAP_ADDRESS'
             /\ page_class'[call'[d].region.page] = "region"
  BY <1>3, <1>4, <1>6 DEF PagesFresh
<1> QED
  BY <1>1, <1>5, <1>6 DEF PagesFresh

(* The page a call reserves is the first one that nobody has. *)
LEMMA ReservedPageIsFresh ==
  ASSUME FrameTypes, PagesFresh, NEW c \in Cores,
         NEW what \in Classes \cup {"none", "region", "mmio"},
         reserve_virt_addr(what), page_frames' = page_frames,
         \A d \in Cores \ {c} : pc'[d] = pc[d] /\ call'[d] = call[d],
         pc'[c] \in Mapping => what \in Classes /\ call'[c].block[1] = NEXT_HEAP_ADDRESS,
         pc'[c] \in AtRegion => what = "region" /\ call'[c].region.page = NEXT_HEAP_ADDRESS
  PROVE  PagesFresh'
<1> DEFINE n == NEXT_HEAP_ADDRESS
<1>1. /\ n \in Pages /\ n \in Nat /\ n' = n + 1 /\ Pages \subseteq Int
      /\ page_class'[n] = what
      /\ \A p \in Pages : p < n => page_class'[p] = page_class[p]
  BY DEF reserve_virt_addr, FrameTypes, Pages
<1>8. ASSUME NEW p \in Pages PROVE p < n => p < n' /\ p # n
  <2>1. p \in Int /\ n \in Int /\ n' = n + 1
    BY <1>1
  <2> QED
    BY <2>1
<1>2. \A p \in Pages : p >= n => page_frames[p] = {}
  BY DEF PagesFresh
<1>9. ASSUME NEW p \in Pages PROVE p >= n' => p >= n
  <2>1. p \in Int /\ n \in Int /\ n' = n + 1
    BY <1>1
  <2> QED
    BY <2>1
<1>3. \A p \in Pages : p >= n' => page_frames'[p] = {}
  BY <1>2, <1>9
<1>4. ASSUME NEW d \in Cores \ {c}, pc'[d] \in Mapping
      PROVE  /\ call'[d].block[1] \in Pages /\ call'[d].block[1] < n
             /\ page_class'[call'[d].block[1]] \in Classes /\ page_frames'[call'[d].block[1]] = {}
             /\ \A e \in Cores \ {c, d} : pc'[e] \in Mapping => call'[e].block[1] # call'[d].block[1]
  <2> DEFINE q == call[d].block[1]
  <2>1. pc[d] \in Mapping /\ call'[d] = call[d]
    BY <1>4
  <2>2. /\ q \in Pages /\ q < n /\ page_class[q] \in Classes /\ page_frames[q] = {}
        /\ \A e \in Cores \ {d} : pc[e] \in Mapping => call[e].block[1] # q
    BY <2>1 DEF PagesFresh
  <2>3. page_class'[q] = page_class[q] /\ page_frames'[q] = page_frames[q]
    BY <1>1, <2>2
  <2>4. \A e \in Cores \ {c, d} : pc'[e] \in Mapping => call'[e].block[1] # q
    BY <2>2
  <2> HIDE DEF q
  <2>5. call'[d].block[1] = q
    BY <2>1 DEF q
  <2> QED
    BY <2>2, <2>3, <2>4, <2>5
<1>5. pc'[c] \in Mapping => /\ call'[c].block[1] = n
                            /\ page_class'[call'[c].block[1]] \in Classes /\ page_frames'[call'[c].block[1]] = {}
  BY <1>1, <1>2
<1>6. ASSUME NEW d \in Cores, pc'[d] \in AtRegion
      PROVE  /\ call'[d].region.page \in Pages /\ call'[d].region.page < n'
             /\ page_class'[call'[d].region.page] = "region"
  <2>1. CASE d = c
    BY <1>1, <1>6, <2>1
  <2>2. CASE d # c
    <3>1. /\ call[d].region.page \in Pages /\ call[d].region.page < n
          /\ page_class[call[d].region.page] = "region" /\ call'[d] = call[d]
      BY <1>6, <2>2 DEF PagesFresh
    <3>2. page_class'[call[d].region.page] = page_class[call[d].region.page]
      BY <1>1, <3>1
    <3>3. call[d].region.page < n'
      BY <1>8, <3>1
    <3> QED
      BY <3>1, <3>2, <3>3
  <2> QED
    BY <2>1, <2>2
<1>7. ASSUME NEW d \in Cores, pc'[d] \in Mapping
      PROVE  /\ call'[d].block[1] \in Pages /\ call'[d].block[1] < n'
             /\ page_class'[call'[d].block[1]] \in Classes /\ page_frames'[call'[d].block[1]] = {}
             /\ \A e \in Cores \ {d} : pc'[e] \in Mapping => call'[e].block[1] # call'[d].block[1]
  <2>1. CASE d = c
    <3>1. \A e \in Cores \ {c} : pc'[e] \in Mapping => call'[e].block[1] < n /\ call'[e].block[1] \in Pages
      BY <1>4
    <3> QED
      BY <1>1, <1>5, <1>7, <2>1, <3>1
  <2>2. CASE d # c
    <3>1. /\ call'[d].block[1] \in Pages /\ call'[d].block[1] < n
          /\ page_class'[call'[d].block[1]] \in Classes /\ page_frames'[call'[d].block[1]] = {}
          /\ \A e \in Cores \ {c, d} : pc'[e] \in Mapping => call'[e].block[1] # call'[d].block[1]
      BY <1>4, <1>7, <2>2
    <3>2. call'[d].block[1] < n' /\ call'[d].block[1] # n
      BY <1>8, <3>1
    <3>3. pc'[c] \in Mapping => call'[c].block[1] # call'[d].block[1]
      BY <1>5, <3>2
    <3> QED
      BY <3>1, <3>2, <3>3
  <2> QED
    BY <2>1, <2>2
<1> HIDE DEF n
<1> QED
  BY <1>3, <1>6, <1>7 DEF PagesFresh, n

(* Whoever maps a page has it in hand, and lets go of it. *)
LEMMA MappedPageWasInHand ==
  ASSUME FrameTypes, PagesFresh, NEW c \in Cores, NEW p \in Pages, NEW S,
         p < NEXT_HEAP_ADDRESS,
         page_frames' = [page_frames EXCEPT ![p] = S],
         UNCHANGED <<NEXT_HEAP_ADDRESS, page_class>>,
         \A d \in Cores \ {c} : pc'[d] = pc[d] /\ call'[d] = call[d],
         pc'[c] \notin Mapping \cup AtRegion,
         \A d \in Cores \ {c} : pc[d] \in Mapping => call[d].block[1] # p
  PROVE  PagesFresh'
<1>1. /\ NEXT_HEAP_ADDRESS \in Nat /\ Pages \subseteq Int
      /\ \A q \in Pages \ {p} : page_frames'[q] = page_frames[q]
  BY DEF FrameTypes, Pages
<1>2. \A q \in Pages : q >= NEXT_HEAP_ADDRESS' => page_frames'[q] = {}
  BY <1>1 DEF PagesFresh
<1>3. ASSUME NEW d \in Cores, pc'[d] \in Mapping
      PROVE  /\ call'[d].block[1] \in Pages /\ call'[d].block[1] < NEXT_HEAP_ADDRESS'
             /\ page_class'[call'[d].block[1]] \in Classes /\ page_frames'[call'[d].block[1]] = {}
             /\ \A e \in Cores \ {d} : pc'[e] \in Mapping => call'[e].block[1] # call'[d].block[1]
  <2>1. d # c /\ pc[d] \in Mapping /\ call'[d] = call[d] /\ call[d].block[1] # p
    BY <1>3
  <2>2. /\ call'[d].block[1] \in Pages /\ call'[d].block[1] < NEXT_HEAP_ADDRESS'
        /\ page_class'[call'[d].block[1]] \in Classes /\ page_frames'[call'[d].block[1]] = {}
    BY <1>1, <2>1 DEF PagesFresh
  <2>3. ASSUME NEW e \in Cores \ {d}, pc'[e] \in Mapping PROVE call'[e].block[1] # call'[d].block[1]
    <3>1. e # c /\ pc[e] \in Mapping /\ call'[e] = call[e]
      BY <2>3
    <3> QED
      BY <2>1, <3>1 DEF PagesFresh
  <2> QED
    BY <2>2, <2>3
<1>4. ASSUME NEW d \in Cores, pc'[d] \in AtRegion
      PROVE  /\ call'[d].region.page \in Pages /\ call'[d].region.page < NEXT_HEAP_ADDRESS'
             /\ page_class'[call'[d].region.page] = "region"
  <2>1. d # c /\ pc[d] \in AtRegion /\ call'[d] = call[d]
    BY <1>4
  <2> QED
    BY <2>1 DEF PagesFresh
<1> QED
  BY <1>2, <1>3, <1>4 DEF PagesFresh

LEMMA PagesFreshKept ==
  ASSUME FrameTypes, PagesFresh, NEW c \in Cores, Lock(c) \/ Step(c)
  PROVE  PagesFresh'
<1> USE DEF listVars, pageVars, lockVars, regionVars
<1>1. pc = [d \in Cores |-> pc[d]] /\ call = [d \in Cores |-> call[d]]
  BY DEF FrameTypes
<1>2. \A from, to : Goto(c, from, to) => pc[c] = from /\ pc'[c] = to /\ \A d \in Cores \ {c} : pc'[d] = pc[d]
  BY <1>1 DEF Goto
<1>3. \A k, b, r : CallBecomes(c, k, b, r) =>
        call'[c] = [class |-> k, block |-> b, region |-> r] /\ \A d \in Cores \ {c} : call'[d] = call[d]
  BY <1>1 DEF CallBecomes
<1>4. (\E k, b, r : CallBecomes(c, k, b, r)) => \A d \in Cores \ {c} : call'[d] = call[d]
  BY <1>3
<1>5. CASE Lock(c)
  <2>1. NoPage(c)
    BY <1>5, <1>2 DEF NoPage, Mapping, AtRegion, Lock, lock_page_table, lock_free_memory, lock_for_table, lock_regions
  <2> QED
    BY <2>1, NoPageKeepsPages
<1>6. CASE Expect(c)
  <2>1. NoPage(c)
    BY <1>6, <1>2 DEF NoPage, Mapping, AtRegion, Expect, OutOfMemory, AddressOverflow, expect_failed
  <2> QED
    BY <2>1, NoPageKeepsPages
<1>7. CASE map_mmio(c) \/ TableStep(c)
  <2>1. NoPage(c)
    BY <1>7, <1>2 DEF NoPage, Mapping, AtRegion, map_mmio, TableStep, take_table
  <2> QED
    BY <2>1, NoPageKeepsPages
<1>8. CASE mmio_reserve(c)
  <2>1. CallBecomes(c, call[c].class, <<NEXT_HEAP_ADDRESS, 0>>, call[c].region)
    BY <1>8, CallsMove
  <2>2. \A d \in Cores \ {c} : call'[d] = call[d]
    BY <2>1, <1>4
  <2>3. reserve_virt_addr("mmio") /\ page_frames' = page_frames /\ Goto(c, "mmio_reserve", "mmio_lock")
    BY <1>8 DEF mmio_reserve
  <2>4. /\ \A d \in Cores \ {c} : pc'[d] = pc[d] /\ call'[d] = call[d]
        /\ pc'[c] \notin Mapping /\ pc'[c] \notin AtRegion
    BY <1>2, <2>2, <2>3 DEF Mapping, AtRegion
  <2> QED
    BY <2>3, <2>4, ReservedPageIsFresh
<1>21. CASE mmio_mapped(c)
  <2>1. \A d \in Cores \ {c} : call'[d] = call[d]
    BY <1>21, CallsMove, <1>4 DEF Forgets
  <2>2. NoPage(c)
    BY <1>21, <1>2, <2>1 DEF NoPage, Mapping, AtRegion, mmio_mapped
  <2> QED
    BY <2>2, NoPageKeepsPages
<1>9. ASSUME NEW k \in Classes, alloc(c, k) PROVE PagesFresh'
  <2>1. \A d \in Cores \ {c} : call'[d] = call[d]
    BY <1>9, CallsMove, <1>4
  <2>2. NoPage(c)
    BY <1>9, <1>2, <2>1 DEF NoPage, Mapping, AtRegion, alloc
  <2> QED
    BY <2>2, NoPageKeepsPages
<1>10. CASE pop_reserve(c)
  <2>1. CallBecomes(c, call[c].class, <<NEXT_HEAP_ADDRESS, 0>>, call[c].region)
    BY <1>10, CallsMove
  <2>2. call'[c].block = <<NEXT_HEAP_ADDRESS, 0>> /\ \A d \in Cores \ {c} : call'[d] = call[d]
    BY <2>1, <1>1 DEF CallBecomes
  <2>3. call'[c].block[1] = NEXT_HEAP_ADDRESS
    BY <2>2
  <2>4. /\ reserve_virt_addr(call[c].class) /\ page_frames' = page_frames
        /\ Goto(c, "pop", "heap_lock") /\ call[c].class \in Classes
    BY <1>10 DEF pop_reserve, FrameTypes
  <2>5. /\ \A d \in Cores \ {c} : pc'[d] = pc[d]
        /\ pc'[c] \notin AtRegion
    BY <1>2, <2>4 DEF AtRegion
  <2> QED
    BY <2>2, <2>3, <2>4, <2>5, ReservedPageIsFresh
<1>11. CASE pop_map(c)
  <2>1. PICK f : page_frames' = [page_frames EXCEPT ![call[c].block[1]] = {f}]
    BY <1>11 DEF pop_map
  <2>2. Goto(c, "heap_map", "populate") /\ UNCHANGED <<NEXT_HEAP_ADDRESS, page_class, call>>
    BY <1>11 DEF pop_map
  <2>3. /\ pc[c] \in Mapping /\ pc'[c] \notin Mapping \cup AtRegion
        /\ \A d \in Cores \ {c} : pc'[d] = pc[d] /\ call'[d] = call[d]
    BY <1>2, <2>2 DEF Mapping, AtRegion
  <2>4. /\ call[c].block[1] \in Pages /\ call[c].block[1] < NEXT_HEAP_ADDRESS
        /\ \A d \in Cores \ {c} : pc[d] \in Mapping => call[d].block[1] # call[c].block[1]
    BY <2>3 DEF PagesFresh
  <2> QED
    BY <2>1, <2>2, <2>3, <2>4, MappedPageWasInHand
<1>12. CASE pop_populate(c)
  <2>1. Goto(c, "populate", "pop") /\ UNCHANGED <<call, pageVars>>
    BY <1>12 DEF pop_populate
  <2>2. NoPage(c)
    BY <1>2, <2>1 DEF NoPage, Mapping, AtRegion
  <2> QED
    BY <2>2, NoPageKeepsPages
<1>13. CASE pop_whole_page(c) \/ pop_node(c) \/ pop_slot(c)
  <2>1. PICK b : Grant(c, b)
    BY <1>13 DEF pop_whole_page, pop_node, pop_slot
  <2>2. UNCHANGED pageVars
    BY <1>13 DEF pop_whole_page, pop_node, pop_slot
  <2>3. \E k, d, r : CallBecomes(c, k, d, r)
    BY <2>1, CallsMove DEF Forgets
  <2>4. pc'[c] \in {"grown", "idle"} /\ \A d \in Cores \ {c} : pc'[d] = pc[d]
    BY <2>1, <1>1 DEF Grant
  <2>5. NoPage(c)
    BY <2>2, <2>3, <2>4, <1>4 DEF NoPage, Mapping, AtRegion
  <2> QED
    BY <2>5, NoPageKeepsPages
<1>14. ASSUME NEW b \in in_use, dealloc(c, b) PROVE PagesFresh'
  <2>1. NoPage(c)
    BY <1>14 DEF dealloc, NoPage
  <2> QED
    BY <2>1, NoPageKeepsPages
<1>15. CASE region_new(c) \/ allocate_again(c) \/ allocate_fresh(c) \/ grow(c)
  <2>1. NoPage(c)
    BY <1>15, <1>2 DEF region_new, allocate_again, allocate_fresh, grow, NoPage, Mapping, AtRegion
  <2> QED
    BY <2>1, NoPageKeepsPages
<1>16. CASE take_run(c)
  <2>1. \E f : call' = [call EXCEPT ![c].region.frame = f]
    BY <1>16 DEF take_run
  <2>2. \A d \in Cores \ {c} : call'[d] = call[d]
    BY <2>1, <1>1
  <2>3. NoPage(c)
    BY <1>16, <1>2, <2>2 DEF take_run, NoPage, Mapping, AtRegion
  <2> QED
    BY <2>3, NoPageKeepsPages
<1>17. CASE region_reserve(c)
  <2>1. CallBecomes(c, call[c].class, call[c].block, [page |-> NEXT_HEAP_ADDRESS, frame |-> call[c].region.frame])
    BY <1>17, CallsMove
  <2>2. /\ call'[c].region = [page |-> NEXT_HEAP_ADDRESS, frame |-> call[c].region.frame]
        /\ \A d \in Cores \ {c} : call'[d] = call[d]
    BY <2>1, <1>1 DEF CallBecomes
  <2>3. call'[c].region.page = NEXT_HEAP_ADDRESS
    BY <2>2
  <2>4. /\ reserve_virt_addr("region") /\ page_frames' = page_frames
        /\ Goto(c, "region_reserve", "region_lock")
    BY <1>17 DEF region_reserve
  <2>5. /\ \A d \in Cores \ {c} : pc'[d] = pc[d]
        /\ pc'[c] \notin Mapping
    BY <1>2, <2>4 DEF Mapping, AtRegion
  <2> QED
    BY <2>2, <2>3, <2>4, <2>5, ReservedPageIsFresh
<1>18. CASE map_region(c)
  <2>1. /\ Goto(c, "region_map", "idle") /\ UNCHANGED <<NEXT_HEAP_ADDRESS, page_class>>
        /\ page_frames' = [page_frames EXCEPT ![call[c].region.page] = FramesOf(call[c].region)]
    BY <1>18 DEF map_region
  <2>2. \A d \in Cores \ {c} : call'[d] = call[d]
    BY <1>18, CallsMove, <1>4 DEF Forgets
  <2>3. /\ pc[c] = "region_map" /\ pc'[c] \notin Mapping \cup AtRegion
        /\ \A d \in Cores \ {c} : pc'[d] = pc[d] /\ call'[d] = call[d]
    BY <1>2, <2>1, <2>2 DEF Mapping, AtRegion
  <2>4. /\ call[c].region.page \in Pages /\ call[c].region.page < NEXT_HEAP_ADDRESS
        /\ page_class[call[c].region.page] = "region"
    BY <2>3 DEF PagesFresh, AtRegion
  <2>5. "region" \notin Classes
    BY HeapAssumption
  <2>6. \A d \in Cores \ {c} : pc[d] \in Mapping => call[d].block[1] # call[c].region.page
    BY <2>4, <2>5 DEF PagesFresh
  <2> QED
    BY <2>1, <2>3, <2>4, <2>6, MappedPageWasInHand
<1>19. ASSUME NEW region \in live_regions, region_drop(c, region) PROVE PagesFresh'
  <2>1. \A d \in Cores \ {c} : call'[d] = call[d]
    BY <1>19, CallsMove, <1>4
  <2>2. NoPage(c)
    BY <1>19, <1>2, <2>1 DEF NoPage, Mapping, AtRegion, region_drop
  <2> QED
    BY <2>2, NoPageKeepsPages
<1>20. CASE free(c) \/ grown(c)
  <2>1. \A d \in Cores \ {c} : call'[d] = call[d]
    BY <1>20, CallsMove, <1>4 DEF Forgets
  <2>2. /\ \/ Goto(c, "free", "idle")
           \/ Goto(c, "grown", "free")
        /\ UNCHANGED pageVars
    BY <1>20 DEF free, grown
  <2>3. NoPage(c)
    BY <1>2, <2>1, <2>2 DEF NoPage, Mapping, AtRegion
  <2> QED
    BY <2>3, NoPageKeepsPages
<1> QED
  BY <1>5, <1>6, <1>7, <1>8, <1>9, <1>10, <1>11, <1>12, <1>13, <1>14, <1>15, <1>16, <1>17, <1>18, <1>19, <1>20,
     <1>21
  DEF Step, AllocStep, RegionStep, MmioStep

-----------------------------------------------------------------------------
(* Who has frames after a step.  Reserving a page and mapping a region change no page of the heap: *)
(* the first has no frames, the other is of no class.                                              *)
Moves(c) ==
  \/ pop_map(c) \/ TableStep(c) \/ take_run(c) \/ map_region(c) \/ allocate_again(c) \/ free(c)
  \/ \E region \in live_regions : region_drop(c, region)

LEMMA PagesStay ==
  ASSUME FrameTypes, PagesFresh, NEW c \in Cores, Lock(c) \/ Step(c), ~pop_map(c), NEW f
  PROVE  PagesWith(f)' = PagesWith(f)
<1> USE DEF listVars, pageVars, lockVars, regionVars
<1>1. UNCHANGED <<page_class, page_frames>> => PagesWith(f)' = PagesWith(f)
  BY DEF PagesWith
<1>2. ASSUME NEW what, reserve_virt_addr(what), page_frames' = page_frames
      PROVE  PagesWith(f)' = PagesWith(f)
  <2>1. /\ page_frames[NEXT_HEAP_ADDRESS] = {}
        /\ \A p \in Pages \ {NEXT_HEAP_ADDRESS} : page_class'[p] = page_class[p]
    BY <1>2 DEF reserve_virt_addr, PagesFresh, FrameTypes, Pages
  <2>2. \A p \in Pages : page_class'[p] \in Classes /\ f \in page_frames'[p]
                         <=> page_class[p] \in Classes /\ f \in page_frames[p]
    BY <1>2, <2>1
  <2> QED
    BY <2>2 DEF PagesWith
<1>3. CASE map_region(c)
  <2>1. /\ page_frames' = [page_frames EXCEPT ![call[c].region.page] = FramesOf(call[c].region)]
        /\ page_class' = page_class /\ pc[c] = "region_map"
    BY <1>3 DEF map_region, Goto
  <2>2. page_class[call[c].region.page] = "region" /\ "region" \notin Classes
    BY <2>1, HeapAssumption DEF PagesFresh, AtRegion
  <2>3. \A p \in Pages \ {call[c].region.page} : page_frames'[p] = page_frames[p]
    BY <2>1 DEF FrameTypes
  <2>4. \A p \in Pages : page_class'[p] \in Classes /\ f \in page_frames'[p]
                         <=> page_class[p] \in Classes /\ f \in page_frames[p]
    BY <2>1, <2>2, <2>3
  <2> QED
    BY <2>4 DEF PagesWith
<1>4. CASE Lock(c) \/ Expect(c)
  BY <1>4, <1>1 DEF Lock, Expect, OutOfMemory, AddressOverflow, expect_failed, lock_page_table,
     lock_free_memory, lock_for_table, lock_regions
<1>5. CASE pop_reserve(c) \/ region_reserve(c) \/ mmio_reserve(c)
  BY <1>5, <1>2 DEF pop_reserve, region_reserve, mmio_reserve
<1>6. CASE AllocStep(c) /\ ~pop_reserve(c)
  BY <1>6, <1>1 DEF AllocStep, alloc, dealloc, pop_populate, pop_whole_page, pop_node, pop_slot
<1>7. CASE RegionStep(c) /\ ~region_reserve(c) /\ ~map_region(c)
  <2>1. \A region : region_drop(c, region) => UNCHANGED pageVars
    BY DEF region_drop
  <2> QED
    BY <1>7, <1>1, <2>1 DEF RegionStep, region_new, allocate_again, allocate_fresh, take_run, free, grow, grown
<1>8. CASE map_mmio(c) \/ mmio_mapped(c) \/ TableStep(c)
  BY <1>8, <1>1 DEF map_mmio, mmio_mapped, TableStep, take_table
<1> QED
  BY <1>3, <1>4, <1>5, <1>6, <1>7, <1>8 DEF Step, MmioStep

LEMMA TablesStay ==
  ASSUME NEW c \in Cores, Lock(c) \/ Step(c), ~TableStep(c), NEW f
  PROVE  TablesWith(f)' = TablesWith(f)
<1> USE DEF listVars, pageVars, lockVars, regionVars
<1>1. UNCHANGED table_frames => TablesWith(f)' = TablesWith(f)
  BY DEF TablesWith
<1>2. CASE Lock(c) \/ Expect(c) \/ MmioStep(c)
  BY <1>2, <1>1 DEF Lock, Expect, MmioStep, OutOfMemory, AddressOverflow, expect_failed, map_mmio,
     mmio_reserve, mmio_mapped, lock_page_table, lock_free_memory, lock_for_table, lock_regions
<1>3. CASE AllocStep(c)
  BY <1>3, <1>1 DEF AllocStep, alloc, dealloc, pop_reserve, pop_map, pop_populate, pop_whole_page,
     pop_node, pop_slot
<1>4. CASE RegionStep(c)
  <2>1. \A region : region_drop(c, region) => UNCHANGED table_frames
    BY DEF region_drop
  <2> QED
    BY <1>4, <1>1, <2>1 DEF RegionStep, region_new, allocate_again, allocate_fresh, take_run,
       region_reserve, map_region, free, grow, grown
<1> QED
  BY <1>2, <1>3, <1>4 DEF Step

(* Who has a frame in a call after the call became another one. *)
LEMMA CallsWithMove ==
  ASSUME FrameTypes, NEW c \in Cores, NEW k, NEW b, NEW r, CallBecomes(c, k, b, r), NEW f
  PROVE  CallsWith(f)' = (CallsWith(f) \ {c}) \cup (IF f \in FramesOf(r) THEN {c} ELSE {})
<1>1. call = [d \in Cores |-> call[d]]
  BY DEF FrameTypes
<1>2. call'[c] = [class |-> k, block |-> b, region |-> r]
  BY <1>1 DEF CallBecomes
<1>3. call'[c].region = r
  BY <1>2
<1>4. \A d \in Cores \ {c} : call'[d] = call[d]
  BY <1>1 DEF CallBecomes
<1>5. \A d \in Cores : (f \in FramesOf(call'[d].region)) <=> IF d = c THEN f \in FramesOf(r) ELSE f \in FramesOf(call[d].region)
  BY <1>3, <1>4
<1> HIDE DEF FramesOf
<1>6. CallsWith(f)' = {d \in Cores : f \in FramesOf(call'[d].region)}
  BY DEF CallsWith, FramesOf
<1>7. \A d : d \in CallsWith(f)' <=> d \in (CallsWith(f) \ {c}) \cup (IF f \in FramesOf(r) THEN {c} ELSE {})
  BY <1>5, <1>6 DEF CallsWith
<1> QED
  BY <1>7

LEMMA NothingInHand == FramesOf(NoRegion) = {}
  BY DEF FramesOf

(* The address of a region does not matter to its frames, once there are some. *)
LEMMA AddressIsNoFrame ==
  ASSUME NEW r \in RegionType, r.frame \in Frames, NEW p
  PROVE  FramesOf([page |-> p, frame |-> r.frame]) = FramesOf(r)
<1>1. r.frame >= 0 /\ r.frame \in Int
  BY SizesAreNumbers
<1>2. NoRegion.frame = -1 /\ [page |-> p, frame |-> r.frame].frame = r.frame
  BY DEF NoRegion
<1>3. r # NoRegion /\ [page |-> p, frame |-> r.frame] # NoRegion
  BY <1>1, <1>2
<1> QED
  BY <1>3 DEF FramesOf

LEMMA CallsStay ==
  ASSUME FrameTypes, RegionsInHand, NEW c \in Cores, Lock(c) \/ Step(c), ~Moves(c), NEW f
  PROVE  CallsWith(f)' = CallsWith(f)
<1> USE DEF listVars, pageVars, lockVars, regionVars
<1>1. UNCHANGED call => CallsWith(f)' = CallsWith(f)
  BY DEF CallsWith
<1>2. \A k, b, r : CallBecomes(c, k, b, r) /\ FramesOf(r) = FramesOf(call[c].region)
                     => CallsWith(f)' = CallsWith(f)
  <2>1. SUFFICES ASSUME NEW k, NEW b, NEW r, CallBecomes(c, k, b, r), FramesOf(r) = FramesOf(call[c].region)
                 PROVE  CallsWith(f)' = CallsWith(f)
    OBVIOUS
  <2>2. CallsWith(f)' = (CallsWith(f) \ {c}) \cup (IF f \in FramesOf(r) THEN {c} ELSE {})
    BY <2>1, CallsWithMove
  <2>3. c \in CallsWith(f) <=> f \in FramesOf(r)
    BY <2>1 DEF CallsWith
  <2> QED
    BY <2>2, <2>3
<1>3. call[c].region = NoRegion /\ Forgets(c) => CallsWith(f)' = CallsWith(f)
  BY <1>2 DEF Forgets
<1>4. InHand(c)
  BY DEF RegionsInHand, InHand
<1>5. CASE Lock(c) \/ Expect(c) \/ map_mmio(c)
  BY <1>5, <1>1 DEF Lock, Expect, OutOfMemory, AddressOverflow, expect_failed, map_mmio,
     lock_page_table, lock_free_memory, lock_for_table, lock_regions
<1>13. CASE mmio_reserve(c)
  BY <1>13, CallsMove, <1>2
<1>14. CASE mmio_mapped(c)
  <2>1. call[c].region = NoRegion
    BY <1>14, <1>4 DEF mmio_mapped, Goto, InHand, WithoutRegion
  <2> QED
    BY <1>14, <2>1, CallsMove, <1>3
<1>6. ASSUME NEW k \in Classes, alloc(c, k) PROVE CallsWith(f)' = CallsWith(f)
  <2>1. call[c].region = NoRegion
    BY <1>6, <1>4 DEF alloc, Goto, InHand, WithoutRegion
  <2> QED
    BY <1>6, <2>1, CallsMove, <1>2
<1>7. CASE pop_reserve(c)
  BY <1>7, CallsMove, <1>2
<1>8. CASE pop_populate(c) \/ \E b \in in_use : dealloc(c, b)
  BY <1>8, <1>1 DEF pop_populate, dealloc
<1>9. CASE pop_whole_page(c) \/ pop_node(c) \/ pop_slot(c)
  <2>1. PICK b : Grant(c, b)
    BY <1>9 DEF pop_whole_page, pop_node, pop_slot
  <2>2. pc[c] \in Allocating
    BY <1>9 DEF pop_whole_page, pop_node, pop_slot, Allocating
  <2>3. CASE regions_lock = c
    BY <2>1, <2>3, CallsMove, <1>2
  <2>4. CASE regions_lock # c
    <3>1. call[c].region = NoRegion
      BY <2>2, <2>4, <1>4 DEF InHand
    <3> QED
      BY <2>1, <2>4, <3>1, CallsMove, <1>3
  <2> QED
    BY <2>3, <2>4
<1>10. CASE region_new(c) \/ allocate_fresh(c) \/ grow(c)
  BY <1>10, <1>1 DEF region_new, allocate_fresh, grow
<1>11. CASE region_reserve(c)
  <2>1. call[c].region.frame \in Frames /\ call[c].region \in RegionType
    BY <1>11, <1>4 DEF region_reserve, Goto, InHand, FrameTypes
  <2>2. FramesOf([page |-> NEXT_HEAP_ADDRESS, frame |-> call[c].region.frame]) = FramesOf(call[c].region)
    BY <2>1, AddressIsNoFrame
  <2> QED
    BY <1>11, <2>2, CallsMove, <1>2
<1>12. CASE grown(c)
  BY <1>12, CallsMove, <1>2
<1> QED
  BY <1>5, <1>6, <1>7, <1>8, <1>9, <1>10, <1>11, <1>12, <1>13, <1>14
  DEF Step, AllocStep, RegionStep, MmioStep, Moves

LEMMA RestStays ==
  ASSUME NEW c \in Cores, Lock(c) \/ Step(c), ~Moves(c)
  PROVE  UNCHANGED <<free_memory, regions, live_regions>>
<1> USE DEF listVars, pageVars, lockVars, regionVars
<1>1. CASE Lock(c) \/ Expect(c) \/ MmioStep(c)
  BY <1>1 DEF Lock, Expect, MmioStep, OutOfMemory, AddressOverflow, expect_failed, map_mmio,
     mmio_reserve, mmio_mapped, lock_page_table, lock_free_memory, lock_for_table, lock_regions
<1>2. CASE AllocStep(c)
  BY <1>2 DEF AllocStep, alloc, dealloc, pop_populate, pop_whole_page, pop_node, pop_slot, pop_reserve, Moves
<1>3. CASE RegionStep(c)
  BY <1>3 DEF RegionStep, region_new, allocate_fresh, region_reserve, grow, grown, Moves
<1> QED
  BY <1>1, <1>2, <1>3 DEF Step, Moves

LEMMA StayingKeepsOwner ==
  ASSUME FrameTypes, PagesFresh, RegionsInHand, NEW c \in Cores, Lock(c) \/ Step(c), ~Moves(c),
         NEW f, OneOwner(f)
  PROVE  OneOwner(f)'
<1>1. PagesWith(f)' = PagesWith(f) /\ TablesWith(f)' = TablesWith(f) /\ CallsWith(f)' = CallsWith(f)
  BY PagesStay, TablesStay, CallsStay DEF Moves
<1>2. free_memory' = free_memory /\ HeldWith(f)' = HeldWith(f) /\ KeptWith(f)' = KeptWith(f)
  BY RestStays DEF HeldWith, KeptWith
<1> QED
  BY <1>1, <1>2 DEF OneOwner, Free, OnPage, InTable, Held, Kept, InCall, Single

-----------------------------------------------------------------------------
(* A frame that moves had one owner, and has another one. *)
LEMMA MappingKeepsOwner ==
  ASSUME FrameTypes, PagesFresh, NEW c \in Cores, pop_map(c), NEW f, OneOwner(f)
  PROVE  OneOwner(f)'
<1> USE DEF listVars, pageVars, lockVars, regionVars
<1> DEFINE p == call[c].block[1]
<1>1. /\ p \in Pages /\ page_class[p] \in Classes /\ page_frames[p] = {}
  BY DEF pop_map, Goto, PagesFresh, Mapping, AtRegion
<1>2. PICK g \in free_memory : /\ free_memory' = free_memory \ {g}
                               /\ page_frames' = [page_frames EXCEPT ![p] = {g}]
  BY DEF pop_map
<1>3. UNCHANGED <<page_class, table_frames, call, regions, live_regions>>
  BY DEF pop_map
<1> HIDE DEF p
<1>4. page_frames'[p] = {g} /\ \A q \in Pages \ {p} : page_frames'[q] = page_frames[q]
  BY <1>1, <1>2 DEF FrameTypes
<1>5. /\ HeldWith(f)' = HeldWith(f) /\ KeptWith(f)' = KeptWith(f) /\ CallsWith(f)' = CallsWith(f)
      /\ TablesWith(f)' = TablesWith(f)
  BY <1>3 DEF HeldWith, KeptWith, CallsWith, TablesWith
<1>6. CASE f = g
  <2>1. Free(f)
    BY <1>6 DEF OneOwner, Free, OnPage, InTable, Held, Kept, InCall
  <2>2. \A q \in Pages : page_class'[q] \in Classes /\ f \in page_frames'[q] <=> q = p
    BY <2>1, <1>1, <1>3, <1>4, <1>6 DEF Free, PagesWith
  <2>3. PagesWith(f)' = {p}
    BY <1>1, <2>2 DEF PagesWith
  <2> QED
    BY <2>1, <2>3, <1>2, <1>5, <1>6 DEF OneOwner, OnPage, Free, Single
<1>7. CASE f # g
  <2>1. \A q \in Pages : page_class'[q] \in Classes /\ f \in page_frames'[q]
                         <=> page_class[q] \in Classes /\ f \in page_frames[q]
    BY <1>1, <1>3, <1>4, <1>7
  <2>2. PagesWith(f)' = PagesWith(f)
    BY <2>1 DEF PagesWith
  <2> QED
    BY <2>2, <1>2, <1>5, <1>7 DEF OneOwner, Free, OnPage, InTable, Held, Kept, InCall, Single
<1> QED
  BY <1>6, <1>7

LEMMA TakingTableKeepsOwner ==
  ASSUME FrameTypes, NEW c \in Cores, TableStep(c), NEW f, OneOwner(f)
  PROVE  OneOwner(f)'
<1>1. PICK t \in Tables, g \in free_memory :
        /\ table_frames[t] = {} /\ table_frames' = [table_frames EXCEPT ![t] = {g}]
        /\ free_memory' = free_memory \ {g}
  BY HeapAssumption DEF TableStep, take_table, Missing
<1>2. UNCHANGED <<page_class, page_frames, call, regions, live_regions>>
  BY DEF TableStep, take_table, regionVars
<1>3. table_frames'[t] = {g} /\ \A u \in Tables \ {t} : table_frames'[u] = table_frames[u]
  BY <1>1 DEF FrameTypes
<1>4. /\ HeldWith(f)' = HeldWith(f) /\ KeptWith(f)' = KeptWith(f) /\ CallsWith(f)' = CallsWith(f)
      /\ PagesWith(f)' = PagesWith(f)
  BY <1>2 DEF HeldWith, KeptWith, CallsWith, PagesWith
<1>5. CASE f = g
  <2>1. Free(f)
    BY <1>5 DEF OneOwner, Free, OnPage, InTable, Held, Kept, InCall
  <2>2. \A u \in Tables : f \in table_frames'[u] <=> u = t
    BY <2>1, <1>3, <1>5 DEF Free, TablesWith
  <2>3. TablesWith(f)' = {t}
    BY <2>2 DEF TablesWith
  <2> QED
    BY <2>1, <2>3, <1>1, <1>4, <1>5 DEF OneOwner, InTable, Free, Single
<1>6. CASE f # g
  <2>1. \A u \in Tables : f \in table_frames'[u] <=> f \in table_frames[u]
    BY <1>1, <1>3, <1>6
  <2>2. TablesWith(f)' = TablesWith(f)
    BY <2>1 DEF TablesWith
  <2> QED
    BY <2>2, <1>1, <1>4, <1>6 DEF OneOwner, Free, OnPage, InTable, Held, Kept, InCall, Single
<1> QED
  BY <1>5, <1>6

LEMMA TakingKeepsOwner ==
  ASSUME FrameTypes, PagesFresh, RegionsInHand, NEW c \in Cores, take_run(c), NEW f, OneOwner(f)
  PROVE  OneOwner(f)'
<1> USE DEF listVars, pageVars, lockVars, regionVars
<1>1. call[c].region = NoRegion
  BY DEF take_run, Goto, RegionsInHand, WithoutRegion
<1>2. PICK g \in Runs : /\ free_memory' = free_memory \ (g .. g + RegionSize - 1)
                        /\ call' = [call EXCEPT ![c].region.frame = g]
  BY DEF take_run
<1>3. UNCHANGED <<page_class, page_frames, table_frames, regions, live_regions>>
  BY DEF take_run
<1>4. CallBecomes(c, call[c].class, call[c].block, [page |-> call[c].region.page, frame |-> g])
  BY <1>2, CallsMove
<1>5. FramesOf([page |-> call[c].region.page, frame |-> g]) = g .. g + RegionSize - 1
  <2>1. g \in Frames
    BY DEF Runs, FrameTypes
  <2>2. g # -1 /\ NoRegion.frame = -1 /\ [page |-> call[c].region.page, frame |-> g].frame = g
    BY <2>1, SizesAreNumbers DEF NoRegion
  <2>3. [page |-> call[c].region.page, frame |-> g] # NoRegion
    BY <2>2
  <2> QED
    BY <2>3 DEF FramesOf
<1>6. CallsWith(f)' = (CallsWith(f) \ {c}) \cup (IF f \in g .. g + RegionSize - 1 THEN {c} ELSE {})
  BY <1>4, <1>5, CallsWithMove
<1>7. c \notin CallsWith(f)
  BY <1>1, NothingInHand DEF CallsWith
<1>8. /\ HeldWith(f)' = HeldWith(f) /\ KeptWith(f)' = KeptWith(f) /\ PagesWith(f)' = PagesWith(f)
      /\ TablesWith(f)' = TablesWith(f)
  BY <1>3 DEF HeldWith, KeptWith, PagesWith, TablesWith
<1>9. CASE f \in g .. g + RegionSize - 1
  <2>1. f \in free_memory
    BY <1>9 DEF Runs
  <2>2. Free(f)
    BY <2>1 DEF OneOwner, Free, OnPage, InTable, Held, Kept, InCall
  <2>3. CallsWith(f)' = {c}
    BY <2>2, <1>6, <1>9 DEF Free
  <2> QED
    BY <2>2, <2>3, <1>2, <1>8, <1>9 DEF OneOwner, InCall, Free, Single
<1>10. CASE f \notin g .. g + RegionSize - 1
  <2>1. CallsWith(f)' = CallsWith(f)
    BY <1>6, <1>7, <1>10
  <2> QED
    BY <2>1, <1>2, <1>8, <1>10 DEF OneOwner, Free, OnPage, InTable, Held, Kept, InCall, Single
<1> QED
  BY <1>9, <1>10

(* What a core had in a call goes to its caller or the Vec. *)
HandsOver(c, r, f) ==
  /\ c \in CallsWith(f) <=> f \in FramesOf(r)
  /\ CallsWith(f)' = CallsWith(f) \ {c}

LEMMA ForgettingHandsOver ==
  ASSUME FrameTypes, NEW c \in Cores, Forgets(c), NEW f
  PROVE  HandsOver(c, call[c].region, f)
<1>1. CallsWith(f)' = (CallsWith(f) \ {c}) \cup (IF f \in FramesOf(NoRegion) THEN {c} ELSE {})
  BY CallsWithMove DEF Forgets
<1>2. CallsWith(f)' = CallsWith(f) \ {c}
  BY <1>1, NothingInHand
<1> QED
  BY <1>2 DEF HandsOver, CallsWith

LEMMA MapRegionKeepsOwner ==
  ASSUME FrameTypes, PagesFresh, NEW c \in Cores, map_region(c), NEW f, OneOwner(f)
  PROVE  OneOwner(f)'
<1> USE DEF listVars, pageVars, lockVars, regionVars
<1> DEFINE r == call[c].region
<1>1. /\ live_regions' = live_regions \cup {r} /\ UNCHANGED <<regions, free_memory, table_frames>>
  BY DEF map_region
<1>2. HandsOver(c, r, f)
  BY CallsMove, ForgettingHandsOver
<1>3. PagesWith(f)' = PagesWith(f)
  <2>1. Step(c) /\ ~pop_map(c)
    BY DEF Step, RegionStep, map_region, pop_map, Goto
  <2> QED
    BY <2>1, PagesStay
<1> HIDE DEF r
<1>4. HeldWith(f)' = HeldWith(f) \cup (IF f \in FramesOf(r) THEN {r} ELSE {})
  <2>1. HeldWith(f)' = {q \in live_regions \cup {r} : f \in FramesOf(q)}
    BY <1>1 DEF HeldWith, FramesOf
  <2> QED
    BY <2>1 DEF HeldWith
<1>5. KeptWith(f)' = KeptWith(f) /\ TablesWith(f)' = TablesWith(f)
  BY <1>1 DEF KeptWith, TablesWith
<1>6. CASE f \in FramesOf(r)
  <2>1. InCall(f) /\ CallsWith(f) = {c}
    BY <1>2, <1>6 DEF OneOwner, Free, OnPage, InTable, Held, Kept, InCall, HandsOver, Single
  <2>2. CallsWith(f)' = {} /\ HeldWith(f)' = {r}
    BY <2>1, <1>2, <1>4, <1>6 DEF InCall, HandsOver
  <2> QED
    BY <2>1, <2>2, <1>1, <1>3, <1>5 DEF OneOwner, InCall, Held, Single
<1>7. CASE f \notin FramesOf(r)
  <2>1. CallsWith(f)' = CallsWith(f) /\ HeldWith(f)' = HeldWith(f)
    BY <1>2, <1>4, <1>7 DEF HandsOver
  <2> QED
    BY <2>1, <1>1, <1>3, <1>5 DEF OneOwner, Free, OnPage, InTable, Held, Kept, InCall, Single
<1> QED
  BY <1>6, <1>7

LEMMA FreeKeepsOwner ==
  ASSUME FrameTypes, NEW c \in Cores, free(c), NEW f, OneOwner(f)
  PROVE  OneOwner(f)'
<1> USE DEF listVars, pageVars, lockVars, regionVars
<1> DEFINE r == call[c].region  n == Len(regions) + 1
<1>1. /\ regions' = Append(regions, r)
      /\ UNCHANGED <<live_regions, free_memory, page_class, page_frames, table_frames>>
  BY DEF free
<1>2. HandsOver(c, r, f)
  BY CallsMove, ForgettingHandsOver
<1>3. /\ PagesWith(f)' = PagesWith(f) /\ HeldWith(f)' = HeldWith(f)
      /\ TablesWith(f)' = TablesWith(f)
  BY <1>1 DEF PagesWith, HeldWith, TablesWith
<1>4. /\ DOMAIN regions = 1 .. n - 1 /\ DOMAIN regions' = 1 .. n /\ n \in Nat \ {0}
      /\ regions'[n] = r /\ \A i \in 1 .. n - 1 : regions'[i] = regions[i]
  BY <1>1 DEF FrameTypes
<1> HIDE DEF r, n
<1>5. \A i : i \in KeptWith(f)' <=> i \in KeptWith(f) \/ (i = n /\ f \in FramesOf(r))
  <2>1. \A i : i \in KeptWith(f)' <=> i \in 1 .. n /\ f \in FramesOf(regions'[i])
    BY <1>4 DEF KeptWith, FramesOf
  <2>2. \A i : i \in KeptWith(f) <=> i \in 1 .. n - 1 /\ f \in FramesOf(regions[i])
    BY <1>4 DEF KeptWith
  <2>3. \A i : i \in 1 .. n <=> i \in 1 .. n - 1 \/ i = n
    BY <1>4
  <2>4. n \notin 1 .. n - 1
    BY <1>4
  <2> QED
    BY <2>1, <2>2, <2>3, <2>4, <1>4
<1>6. CASE f \in FramesOf(r)
  <2>1. InCall(f) /\ CallsWith(f) = {c}
    BY <1>2, <1>6 DEF OneOwner, Free, OnPage, InTable, Held, Kept, InCall, HandsOver, Single
  <2>2. CallsWith(f)' = {} /\ KeptWith(f)' = {n}
    BY <2>1, <1>2, <1>5, <1>6 DEF InCall, HandsOver
  <2> QED
    BY <2>1, <2>2, <1>1, <1>3 DEF OneOwner, InCall, Kept, Single
<1>7. CASE f \notin FramesOf(r)
  <2>1. CallsWith(f)' = CallsWith(f) /\ KeptWith(f)' = KeptWith(f)
    BY <1>2, <1>5, <1>7 DEF HandsOver
  <2> QED
    BY <2>1, <1>1, <1>3 DEF OneOwner, Free, OnPage, InTable, Held, Kept, InCall, Single
<1> QED
  BY <1>6, <1>7

LEMMA DroppingKeepsOwner ==
  ASSUME FrameTypes, RegionsInHand, NEW c \in Cores, NEW r \in live_regions, region_drop(c, r),
         NEW f, OneOwner(f)
  PROVE  OneOwner(f)'
<1> USE DEF listVars, pageVars, lockVars, regionVars
<1>1. /\ live_regions' = live_regions \ {r}
      /\ UNCHANGED <<regions, free_memory, page_class, page_frames, table_frames>>
  BY DEF region_drop
<1>2. call[c].region = NoRegion
  BY DEF region_drop, Goto, RegionsInHand, WithoutRegion
<1>3. c \notin CallsWith(f)
  BY <1>2, NothingInHand DEF CallsWith
<1>4. CallsWith(f)' = CallsWith(f) \cup (IF f \in FramesOf(r) THEN {c} ELSE {})
  <2>1. CallBecomes(c, VecClass, Null, r)
    BY CallsMove
  <2>2. CallsWith(f)' = (CallsWith(f) \ {c}) \cup (IF f \in FramesOf(r) THEN {c} ELSE {})
    BY <2>1, CallsWithMove
  <2> QED
    BY <2>2, <1>3
<1>5. /\ PagesWith(f)' = PagesWith(f) /\ KeptWith(f)' = KeptWith(f)
      /\ TablesWith(f)' = TablesWith(f)
  BY <1>1 DEF PagesWith, KeptWith, TablesWith
<1>6. HeldWith(f)' = HeldWith(f) \ {r} /\ (r \in HeldWith(f) <=> f \in FramesOf(r))
  BY <1>1 DEF HeldWith
<1>7. CASE f \in FramesOf(r)
  <2>1. Held(f) /\ HeldWith(f) = {r}
    BY <1>6, <1>7 DEF OneOwner, Free, OnPage, InTable, Held, Kept, InCall, Single
  <2>2. CallsWith(f)' = {c} /\ HeldWith(f)' = {}
    BY <2>1, <1>4, <1>6, <1>7 DEF Held
  <2> QED
    BY <2>1, <2>2, <1>1, <1>5 DEF OneOwner, InCall, Held, Single
<1>8. CASE f \notin FramesOf(r)
  <2>1. CallsWith(f)' = CallsWith(f) /\ HeldWith(f)' = HeldWith(f)
    BY <1>4, <1>6, <1>8
  <2> QED
    BY <2>1, <1>1, <1>5 DEF OneOwner, Free, OnPage, InTable, Held, Kept, InCall, Single
<1> QED
  BY <1>7, <1>8

LEMMA AllocatingAgainKeepsOwner ==
  ASSUME FrameTypes, NEW c \in Cores, allocate_again(c), NEW f, OneOwner(f)
  PROVE  OneOwner(f)'
<1> USE DEF listVars, pageVars, lockVars, regionVars
<1> DEFINE n == Len(regions)  r == regions[n]
<1>1. /\ live_regions' = live_regions \cup {r} /\ regions' = SubSeq(regions, 1, n - 1) /\ regions # <<>>
      /\ UNCHANGED <<call, free_memory, page_class, page_frames, table_frames>>
  BY DEF allocate_again, Last, Front
<1>2. /\ PagesWith(f)' = PagesWith(f) /\ CallsWith(f)' = CallsWith(f)
      /\ TablesWith(f)' = TablesWith(f)
  BY <1>1 DEF PagesWith, CallsWith, TablesWith
<1>3. /\ DOMAIN regions = 1 .. n /\ DOMAIN regions' = 1 .. n - 1 /\ n \in Nat \ {0}
      /\ \A i \in 1 .. n - 1 : regions'[i] = regions[i]
  BY <1>1 DEF FrameTypes
<1>4. HeldWith(f)' = HeldWith(f) \cup (IF f \in FramesOf(r) THEN {r} ELSE {})
  <2> HIDE DEF r
  <2>1. HeldWith(f)' = {q \in live_regions \cup {r} : f \in FramesOf(q)}
    BY <1>1 DEF HeldWith, FramesOf
  <2> QED
    BY <2>1 DEF HeldWith
<1>5. \A i : i \in KeptWith(f) <=> i \in KeptWith(f)' \/ (i = n /\ f \in FramesOf(r))
  <2> HIDE DEF n
  <2>1. \A i : i \in KeptWith(f)' <=> i \in 1 .. n - 1 /\ f \in FramesOf(regions'[i])
    BY <1>3 DEF KeptWith, FramesOf
  <2>2. \A i : i \in KeptWith(f) <=> i \in 1 .. n /\ f \in FramesOf(regions[i])
    BY <1>3 DEF KeptWith
  <2>3. \A i : i \in 1 .. n <=> i \in 1 .. n - 1 \/ i = n
    BY <1>3
  <2> QED
    BY <2>1, <2>2, <2>3, <1>3
<1>6. n \notin KeptWith(f)'
  BY <1>3 DEF KeptWith
<1> HIDE DEF r, n
<1>7. CASE f \in FramesOf(r)
  <2>1. Kept(f) /\ KeptWith(f) = {n}
    BY <1>5, <1>7 DEF OneOwner, Free, OnPage, InTable, Held, Kept, InCall, Single
  <2>2. KeptWith(f)' = {} /\ HeldWith(f)' = {r}
    BY <2>1, <1>4, <1>5, <1>6, <1>7 DEF Kept
  <2> QED
    BY <2>1, <2>2, <1>1, <1>2 DEF OneOwner, Kept, Held, Single
<1>8. CASE f \notin FramesOf(r)
  <2>1. KeptWith(f)' = KeptWith(f) /\ HeldWith(f)' = HeldWith(f)
    BY <1>4, <1>5, <1>8
  <2> QED
    BY <2>1, <1>1, <1>2 DEF OneOwner, Free, OnPage, InTable, Held, Kept, InCall, Single
<1> QED
  BY <1>7, <1>8

-----------------------------------------------------------------------------
LEMMA OwnersKept ==
  ASSUME FrameInv, NEW c \in Cores, Lock(c) \/ Step(c), NEW f, OneOwner(f)
  PROVE  OneOwner(f)'
<1>1. FrameTypes /\ PagesFresh /\ RegionsInHand
  BY DEF FrameInv
<1> QED
  BY <1>1, StayingKeepsOwner, MappingKeepsOwner, TakingTableKeepsOwner, TakingKeepsOwner, MapRegionKeepsOwner, FreeKeepsOwner,
     DroppingKeepsOwner, AllocatingAgainKeepsOwner DEF Moves

LEMMA FrameInvInit == Init => FrameInv
<1> SUFFICES ASSUME Init PROVE FrameInv
  OBVIOUS
<1>1. CallsTyped
  BY HeapAssumption, NoRegionType DEF Init, NoCall, CallsTyped
<1>2. PagesTyped
  <2>1. page_class \in [Pages -> Classes \cup {"none", "region", "mmio"}]
    BY DEF Init
  <2>2. page_frames \in [Pages -> SUBSET Int]
    BY DEF Init
  <2> QED
    BY <2>1, <2>2 DEF Init, PagesTyped
<1>3. RegionsTyped
  BY DEF Init, RegionsTyped
<1>4. FrameTypes
  BY <1>1, <1>2, <1>3 DEF FrameTypes, CallsTyped, PagesTyped, RegionsTyped, Init
<1>5. PagesFresh
  BY DEF Init, PagesFresh, Mapping, AtRegion
<1>6. \A c \in Cores : pc[c] = "idle" /\ call[c].region = NoRegion
  BY DEF Init, NoCall
<1>7. RegionsInHand
  BY <1>6 DEF RegionsInHand, WithoutRegion, Allocating, LockedRegions
<1>8. ASSUME NEW f \in Frames PROVE Free(f)
  <2>1. /\ PagesWith(f) = {} /\ TablesWith(f) = {} /\ HeldWith(f) = {} /\ KeptWith(f) = {}
        /\ f \in free_memory
    BY DEF Init, PagesWith, TablesWith, HeldWith, KeptWith
  <2>2. CallsWith(f) = {}
    BY <1>6, NothingInHand DEF CallsWith
  <2> QED
    BY <2>1, <2>2 DEF Free
<1> QED
  BY <1>4, <1>5, <1>7, <1>8 DEF FrameInv, OneOwner

LEMMA FrameInvStep == FrameInv /\ [Next]_vars => FrameInv'
<1> SUFFICES ASSUME FrameInv, [Next]_vars PROVE FrameInv'
  OBVIOUS
<1>1. CASE Next
  <2>1. PICK c \in Cores : Lock(c) \/ Step(c)
    BY <1>1 DEF Next
  <2>2. FrameTypes /\ PagesFresh /\ RegionsInHand /\ \A f \in Frames : OneOwner(f)
    BY DEF FrameInv
  <2>3. pc[c] = "region_reserve" => call[c].region.frame \in Frames
    BY <2>2 DEF RegionsInHand
  <2>4. FrameTypes' /\ PagesFresh' /\ RegionsInHand'
    BY <2>1, <2>2, <2>3, FrameTypesKept, PagesFreshKept, RegionsInHandKept
  <2>5. \A f \in Frames : OneOwner(f)'
    BY <2>1, <2>2, OwnersKept
  <2> QED
    BY <2>4, <2>5 DEF FrameInv
<1>2. CASE UNCHANGED vars
  <2>1. FrameTypes' /\ PagesFresh' /\ RegionsInHand'
    BY <1>2 DEF vars, pageVars, lockVars, regionVars, FrameInv, FrameTypes, PagesFresh, RegionsInHand
  <2>2. \A f \in Frames : OneOwner(f)'
    BY <1>2 DEF vars, pageVars, lockVars, regionVars, FrameInv, OneOwner, Free, OnPage, InTable,
       Held, Kept, InCall, PagesWith, TablesWith, HeldWith, KeptWith, CallsWith, Single
  <2> QED
    BY <2>1, <2>2 DEF FrameInv
<1> QED
  BY <1>1, <1>2

LEMMA OneOwnerIsOne ==
  ASSUME FrameTypes, NEW f \in Frames, OneOwner(f),
         NEW owners,
         owners =
           {<<"page", p>> : p \in PagesWith(f)} \cup {<<"table", t>> : t \in TablesWith(f)} \cup
           {<<"held", r>> : r \in HeldWith(f)} \cup
           {<<"kept", i>> : i \in KeptWith(f)} \cup {<<"call", c>> : c \in CallsWith(f)} \cup
           (IF f \in free_memory THEN {<<"free">>} ELSE {})
  PROVE  Cardinality(owners) = 1
<1>1. \E x : owners = {x}
  <2>1. CASE Free(f)
    BY <2>1 DEF Free
  <2>2. CASE OnPage(f)
    <3>1. PICK x : PagesWith(f) = {x}
      BY <2>2 DEF OnPage, Single
    <3>2. owners = {<<"page", x>>}
      BY <2>2, <3>1 DEF OnPage
    <3> QED
      BY <3>2
  <2>6. CASE InTable(f)
    <3>1. PICK x : TablesWith(f) = {x}
      BY <2>6 DEF InTable, Single
    <3>2. owners = {<<"table", x>>}
      BY <2>6, <3>1 DEF InTable
    <3> QED
      BY <3>2
  <2>3. CASE Held(f)
    <3>1. PICK x : HeldWith(f) = {x}
      BY <2>3 DEF Held, Single
    <3>2. owners = {<<"held", x>>}
      BY <2>3, <3>1 DEF Held
    <3> QED
      BY <3>2
  <2>4. CASE Kept(f)
    <3>1. PICK x : KeptWith(f) = {x}
      BY <2>4 DEF Kept, Single
    <3>2. owners = {<<"kept", x>>}
      BY <2>4, <3>1 DEF Kept
    <3> QED
      BY <3>2
  <2>5. CASE InCall(f)
    <3>1. PICK x : CallsWith(f) = {x}
      BY <2>5 DEF InCall, Single
    <3>2. owners = {<<"call", x>>}
      BY <2>5, <3>1 DEF InCall
    <3> QED
      BY <3>2
  <2> QED
    BY <2>1, <2>2, <2>3, <2>4, <2>5, <2>6 DEF OneOwner
<1> QED
  BY <1>1, FS_Singleton

LEMMA FrameInvIsEnough == FrameInv => EveryFrameOnce
<1> SUFFICES ASSUME FrameInv PROVE EveryFrameOnce
  OBVIOUS
<1> DEFINE heap == {p \in Pages : page_class[p] \in Classes}
           calls == {c \in Cores : call[c].region # NoRegion}
           owners(f) ==
             {<<"page", p>> : p \in {q \in heap : f \in page_frames[q]}} \cup
             {<<"table", t>> : t \in {u \in Tables : f \in table_frames[u]}} \cup
             {<<"held", r>> : r \in {q \in live_regions : f \in FramesOf(q)}} \cup
             {<<"kept", i>> : i \in {j \in DOMAIN regions : f \in FramesOf(regions[j])}} \cup
             {<<"call", c>> : c \in {d \in calls : f \in FramesOf(call[d].region)}} \cup
             (IF f \in free_memory THEN {<<"free">>} ELSE {})
<1>1. ASSUME NEW f \in Frames PROVE Cardinality(owners(f)) = 1
  <2>1. {q \in heap : f \in page_frames[q]} = PagesWith(f)
    BY DEF PagesWith
  <2>2. {d \in calls : f \in FramesOf(call[d].region)} = CallsWith(f)
    BY NothingInHand DEF CallsWith
  <2>3. owners(f) =
          {<<"page", p>> : p \in PagesWith(f)} \cup {<<"table", t>> : t \in TablesWith(f)} \cup
           {<<"held", r>> : r \in HeldWith(f)} \cup
          {<<"kept", i>> : i \in KeptWith(f)} \cup {<<"call", c>> : c \in CallsWith(f)} \cup
          (IF f \in free_memory THEN {<<"free">>} ELSE {})
    BY <2>1, <2>2 DEF HeldWith, KeptWith, TablesWith
  <2> HIDE DEF owners
  <2> QED
    BY <2>3, OneOwnerIsOne DEF FrameInv
<1> HIDE DEF owners
<1>2. \A f \in Frames : Cardinality(owners(f)) = 1
  BY <1>1
<1> QED
  BY <1>2 DEF EveryFrameOnce, owners

(* Every frame the kernel starts with is free, or backs one page of the heap, or is one    *)
(* page table, or is in one region held, kept or in a call: ContiguousRegion::new, its     *)
(* drop, the pages of GlobalAllocator and the tables that map_raw adds for any mapping     *)
(* neither share a frame nor lose one, whatever the cores do in between.                   *)
THEOREM FramesOwnedOnce == Spec => []EveryFrameOnce
<1>1. Spec => []FrameInv
  BY FrameInvInit, FrameInvStep, PTL DEF Spec
<1> QED
  BY <1>1, FrameInvIsEnough, PTL

-----------------------------------------------------------------------------
(* Where the free blocks are.  A list is the sequence of its nodes, the last one first:  *)
(* push appends to it and pop takes from its end.                                        *)
NodeType == [next : Blocks \cup {Null, Garbage}, free_slots : 0 .. Max({MaxSlots[k] : k \in Classes}),
             slots : [SlotIndexes -> Blocks \cup {Garbage}]]

Linked(t, h, m) ==
  /\ t \in Seq(Blocks)
  /\ h = IF t = <<>> THEN Null ELSE t[Len(t)]
  /\ \A i \in 1 .. Len(t) : m[t[i]].next = IF i = 1 THEN Null ELSE t[i - 1]

(* A place is a node or one of the slots its stack has in use. *)
Spots(t, m, k) ==
  {y \in (1 .. Len(t)) \X ({-1} \cup SlotIndexes) :
     y[2] # -1 => m[t[y[1]]].free_slots <= y[2] /\ y[2] < MaxSlots[k]}
BlockAt(t, m, y) == IF y[2] = -1 THEN t[y[1]] ELSE m[t[y[1]]].slots[y[2]]
PlacesOf(c, k, t, m) ==
  {[list |-> <<c, k>>, spot |-> y, block |-> BlockAt(t, m, y)] : y \in Spots(t, m, k)}
Places(s, m) == UNION {PlacesOf(c, k, s[c][k], m) : c \in Cores, k \in Classes}

(* The places are those of the blocks in F, each has one, in a list of its size. *)
OneHome(P, F, class) ==
  /\ \A z \in P : z.block \in F /\ class[z.block[1]] = z.list[2]
  /\ \A y, z \in P : y.block = z.block => y = z
  /\ \A b \in F : \E z \in P : z.block = b

Sequences == [Cores -> [Classes -> Seq(Blocks)]]
Lists(s, h, m, F, class) ==
  /\ s \in Sequences
  /\ \A c \in Cores, k \in Classes :
       /\ Linked(s[c][k], h[c][k], m)
       /\ \A i \in 1 .. Len(s[c][k]) : m[s[c][k][i]].free_slots <= MaxSlots[k]
  /\ OneHome(Places(s, m), F, class)

(* A step that changes one list adds or removes places of that list. *)
OnlyList(s, s2, m, m2, c, k) ==
  \A d \in Cores, l \in Classes : d # c \/ l # k =>
    s2[d][l] = s[d][l] /\ \A i \in 1 .. Len(s[d][l]) : m2[s[d][l][i]] = m[s[d][l][i]]

OneListGrows(s, s2, m, m2, c, k, z) ==
  OnlyList(s, s2, m, m2, c, k) /\ PlacesOf(c, k, s2[c][k], m2) = PlacesOf(c, k, s[c][k], m) \cup {z}
OneListShrinks(s, s2, m, m2, c, k, z) ==
  /\ OnlyList(s, s2, m, m2, c, k) /\ z \in PlacesOf(c, k, s[c][k], m)
  /\ PlacesOf(c, k, s2[c][k], m2) = PlacesOf(c, k, s[c][k], m) \ {z}
PlaceAdded(s, s2, m, m2, z) == Places(s2, m2) = Places(s, m) \cup {z}
PlaceTaken(s, s2, m, m2, z) == z \in Places(s, m) /\ Places(s2, m2) = Places(s, m) \ {z}

LEMMA OneListChanges ==
  ASSUME NEW s, NEW s2, NEW m, NEW m2, NEW c \in Cores, NEW k \in Classes, NEW z
  PROVE  /\ OneListGrows(s, s2, m, m2, c, k, z) => PlaceAdded(s, s2, m, m2, z)
         /\ OneListShrinks(s, s2, m, m2, c, k, z) => PlaceTaken(s, s2, m, m2, z)
<1>1. ASSUME OnlyList(s, s2, m, m2, c, k)
      PROVE  /\ \A y : y \in Places(s2, m2) <=>
                  y \in PlacesOf(c, k, s2[c][k], m2) \/ (y \in Places(s, m) /\ y.list # <<c, k>>)
             /\ \A y \in Places(s, m) : y.list = <<c, k>> <=> y \in PlacesOf(c, k, s[c][k], m)
  <2>1. ASSUME NEW d \in Cores, NEW l \in Classes, d # c \/ l # k
        PROVE  PlacesOf(d, l, s2[d][l], m2) = PlacesOf(d, l, s[d][l], m)
    <3>1. s2[d][l] = s[d][l] /\ \A i \in 1 .. Len(s[d][l]) : m2[s[d][l][i]] = m[s[d][l][i]]
      BY <2>1, <1>1 DEF OnlyList
    <3>2. Spots(s2[d][l], m2, l) = Spots(s[d][l], m, l)
      BY <3>1 DEF Spots
    <3>3. \A y \in Spots(s[d][l], m, l) : BlockAt(s2[d][l], m2, y) = BlockAt(s[d][l], m, y)
      BY <3>1 DEF Spots, BlockAt
    <3> QED
      BY <3>2, <3>3 DEF PlacesOf
  <2>2. \A d \in Cores, l \in Classes :
          /\ \A y \in PlacesOf(d, l, s[d][l], m) : y.list = <<d, l>>
          /\ \A y \in PlacesOf(d, l, s2[d][l], m2) : y.list = <<d, l>>
    BY DEF PlacesOf
  <2>3. \A y : y \in Places(s, m) <=> \E d \in Cores, l \in Classes : y \in PlacesOf(d, l, s[d][l], m)
    BY DEF Places
  <2>4. \A y : y \in Places(s2, m2) <=> \E d \in Cores, l \in Classes : y \in PlacesOf(d, l, s2[d][l], m2)
    BY DEF Places
  <2>5. \A d \in Cores, l \in Classes : <<d, l>> = <<c, k>> <=> d = c /\ l = k
    OBVIOUS
  <2>6. ASSUME NEW y, y \in Places(s2, m2), y \notin PlacesOf(c, k, s2[c][k], m2)
        PROVE  y \in Places(s, m) /\ y.list # <<c, k>>
    <3>1. PICK d \in Cores, l \in Classes : y \in PlacesOf(d, l, s2[d][l], m2)
      BY <2>4, <2>6
    <3>2. d # c \/ l # k
      BY <2>6, <3>1
    <3> QED
      BY <2>1, <2>2, <2>3, <2>5, <3>1, <3>2
  <2>7. ASSUME NEW y \in Places(s, m)
        PROVE  /\ y.list = <<c, k>> <=> y \in PlacesOf(c, k, s[c][k], m)
               /\ y.list # <<c, k>> => y \in Places(s2, m2)
    <3>1. PICK d \in Cores, l \in Classes : y \in PlacesOf(d, l, s[d][l], m)
      BY <2>3
    <3>2. y.list = <<d, l>>
      BY <2>2, <3>1
    <3>3. CASE d = c /\ l = k
      BY <3>1, <3>2, <3>3
    <3>4. CASE d # c \/ l # k
      BY <2>1, <2>2, <2>4, <2>5, <3>1, <3>2, <3>4
    <3> QED
      BY <3>3, <3>4
  <2>8. \A y \in PlacesOf(c, k, s2[c][k], m2) : y \in Places(s2, m2)
    BY <2>4
  <2> QED
    BY <2>6, <2>7, <2>8
<1>2. PlacesOf(c, k, s[c][k], m) \subseteq Places(s, m)
  BY DEF Places
<1> QED
  BY <1>1, <1>2 DEF OneListGrows, OneListShrinks, PlaceAdded, PlaceTaken

(* Nodes are free blocks of their list's size, each in one list, once. *)
LEMMA NodesApart ==
  ASSUME NEW s, NEW h, NEW m, NEW F, NEW class, Lists(s, h, m, F, class)
  PROVE  /\ \A c \in Cores, k \in Classes : \A i \in 1 .. Len(s[c][k]) :
              s[c][k][i] \in F /\ class[s[c][k][i][1]] = k
         /\ \A c, d \in Cores, k, l \in Classes :
              \A i \in 1 .. Len(s[c][k]), j \in 1 .. Len(s[d][l]) :
                s[c][k][i] = s[d][l][j] => c = d /\ k = l /\ i = j
<1> DEFINE Node(c, k, i) == [list |-> <<c, k>>, spot |-> <<i, -1>>, block |-> s[c][k][i]]
<1>1. ASSUME NEW c \in Cores, NEW k \in Classes, NEW i \in 1 .. Len(s[c][k])
      PROVE  Node(c, k, i) \in Places(s, m)
  <2>1. <<i, -1>> \in Spots(s[c][k], m, k) /\ BlockAt(s[c][k], m, <<i, -1>>) = s[c][k][i]
    BY DEF Spots, BlockAt
  <2>2. Node(c, k, i) \in PlacesOf(c, k, s[c][k], m)
    BY <2>1 DEF PlacesOf
  <2> QED
    BY <2>2 DEF Places
<1>2. OneHome(Places(s, m), F, class)
  BY DEF Lists
<1>3. \A c \in Cores, k \in Classes : \A i \in 1 .. Len(s[c][k]) :
        s[c][k][i] \in F /\ class[s[c][k][i][1]] = k
  <2> TAKE c \in Cores, k \in Classes
  <2> TAKE i \in 1 .. Len(s[c][k])
  <2>1. Node(c, k, i).block = s[c][k][i] /\ Node(c, k, i).list[2] = k
    OBVIOUS
  <2> HIDE DEF Node
  <2> QED
    BY <1>1, <1>2, <2>1 DEF OneHome
<1>4. ASSUME NEW c \in Cores, NEW d \in Cores, NEW k \in Classes, NEW l \in Classes,
             NEW i \in 1 .. Len(s[c][k]), NEW j \in 1 .. Len(s[d][l]), s[c][k][i] = s[d][l][j]
      PROVE  c = d /\ k = l /\ i = j
  <2>1. Node(c, k, i) = Node(d, l, j)
    <3>1. Node(c, k, i).block = Node(d, l, j).block
      BY <1>4
    <3> HIDE DEF Node
    <3> QED
      BY <1>1, <1>2, <3>1 DEF OneHome
  <2>2. Node(c, k, i).list = Node(d, l, j).list /\ Node(c, k, i).spot = Node(d, l, j).spot
    BY <2>1
  <2> QED
    BY <2>2
<1> QED
  BY <1>3, <1>4

(* A finite set of numbers has a greatest element, so the bounds of a node are numbers. *)
LEMMA Greatest ==
  ASSUME NEW S \in SUBSET Nat, IsFiniteSet(S), S # {}
  PROVE  Max(S) \in S /\ \A y \in S : y <= Max(S)
<1> DEFINE Above(x) == {y \in S : y > x}
           counts == {Cardinality(Above(x)) : x \in S}
<1>1. \A x \in S : IsFiniteSet(Above(x)) /\ Cardinality(Above(x)) \in Nat
  <2> TAKE x \in S
  <2>0. Above(x) \in SUBSET S
    OBVIOUS
  <2>1. IsFiniteSet(Above(x))
    BY <2>0, FS_Subset
  <2> QED
    BY <2>1, FS_CardinalityType
<1>2. PICK x \in S : \A y \in S : Cardinality(Above(x)) <= Cardinality(Above(y))
  <2> HIDE DEF Above
  <2>1. counts \in SUBSET Nat /\ counts # {}
    BY <1>1
  <2>2. PICK n \in counts : \A i \in counts : <<i, n>> \notin OpToRel(<, Nat)
    BY <2>1, WFMin, NatLessThanWellFounded
  <2>3. \A i \in counts : n <= i
    <3> HIDE DEF counts
    <3> TAKE i \in counts
    <3>1. i \in Nat /\ n \in Nat /\ <<i, n>> \notin OpToRel(<, Nat)
      BY <2>1, <2>2
    <3> QED
      BY <3>1 DEF OpToRel
  <2> QED
    BY <2>2, <2>3
<1>3. ASSUME NEW y \in S, y > x PROVE FALSE
  <2>1. Above(y) \in SUBSET Above(x) /\ y \in Above(x) /\ y \notin Above(y)
    <3>1. \A z \in S : z > y => z > x
      BY <1>3
    <3>2. ~(y > y)
      OBVIOUS
    <3> QED
      BY <1>3, <3>1, <3>2
  <2> HIDE DEF Above
  <2>2. Cardinality(Above(y)) <= Cardinality(Above(x))
        /\ (Cardinality(Above(x)) = Cardinality(Above(y)) => Above(x) = Above(y))
    BY <1>1, <2>1, FS_Subset
  <2> QED
    BY <1>1, <1>2, <2>1, <2>2
<1>4. \E i \in S : \A y \in S : i >= y
  BY <1>3
<1> QED
  BY <1>4 DEF Max

MostSlots == Max({MaxSlots[k] : k \in Classes})

LEMMA Bounds ==
  /\ MostSlots \in Nat /\ SlotIndexes \subseteq Nat
  /\ \A k \in Classes : /\ MaxSlots[k] \in Nat /\ MaxSlots[k] <= MostSlots
                        /\ \A j \in Nat : j < MaxSlots[k] => j \in SlotIndexes
                        /\ BlocksPerPage[k] \in Nat \ {0}
                        /\ \A i \in Nat : i < BlocksPerPage[k] => i \in BlockIndexes
  /\ 0 \in BlockIndexes /\ BlockIndexes \subseteq Nat /\ IsFiniteSet(Blocks)
  /\ Null \notin Blocks /\ Garbage \notin Blocks /\ Null # Garbage
<1>1. ASSUME NEW f \in [Classes -> Nat]
      PROVE  LET S == {f[k] : k \in Classes}
             IN  Max(S) \in Nat /\ \A k \in Classes : f[k] <= Max(S)
  <2> DEFINE S == {f[k] : k \in Classes}
  <2>1. S \in SUBSET Nat /\ S # {} /\ f \in Surjection(Classes, S) /\ IsFiniteSet(Classes)
    BY HeapAssumption DEF Surjection
  <2>2. IsFiniteSet(S)
    BY <2>1, FS_Surjection
  <2>3. Max(S) \in S /\ \A y \in S : y <= Max(S)
    BY <2>1, <2>2, Greatest
  <2> QED
    BY <2>1, <2>3
<1>2. MostSlots \in Nat /\ \A k \in Classes : MaxSlots[k] \in Nat /\ MaxSlots[k] <= MostSlots
  BY <1>1, HeapAssumption DEF MostSlots
<1> DEFINE most == Max({BlocksPerPage[k] : k \in Classes})
<1>3. /\ most \in Nat
      /\ \A k \in Classes : BlocksPerPage[k] \in Nat \ {0} /\ BlocksPerPage[k] <= most
  <2>1. BlocksPerPage \in [Classes -> Nat] /\ \A k \in Classes : BlocksPerPage[k] \in Nat \ {0}
    BY HeapAssumption
  <2> QED
    BY <1>1, <2>1
<1>4. SlotIndexes = 0 .. (MostSlots - 1) /\ BlockIndexes = 0 .. (most - 1)
  BY DEF SlotIndexes, BlockIndexes, MostSlots
<1> HIDE DEF most
<1>5. most > 0
  BY <1>3, HeapAssumption
<1>6. IsFiniteSet(Blocks)
  <2>1. MaxPages \in Nat
    BY HeapAssumption
  <2>2. IsFiniteSet(Pages) /\ IsFiniteSet(BlockIndexes)
    BY <1>3, <1>4, <2>1, FS_Interval DEF Pages
  <2> QED
    BY <2>2, FS_Product DEF Blocks
<1>7. Null \notin Blocks /\ Garbage \notin Blocks /\ Null # Garbage
  BY DEF Blocks, Null, Garbage, Pages
<1> QED
  BY <1>2, <1>3, <1>4, <1>5, <1>6, <1>7

(* Adding a block nobody has, and taking one. *)
LEMMA HomeAdded ==
  ASSUME NEW P, NEW F, NEW class, OneHome(P, F, class), NEW z, z.block \notin F,
         class[z.block[1]] = z.list[2]
  PROVE  OneHome(P \cup {z}, F \cup {z.block}, class)
BY DEF OneHome

LEMMA HomeTaken ==
  ASSUME NEW P, NEW F, NEW class, OneHome(P, F, class), NEW z \in P
  PROVE  /\ z.block \in F /\ class[z.block[1]] = z.list[2]
         /\ OneHome(P \ {z}, F \ {z.block}, class)
BY DEF OneHome

Heads == [Cores -> [Classes -> Blocks \cup {Null}]]
Memories == [Blocks -> NodeType]

(* What a list is left as, by operations on it: the others and the blocks in them are as *)
(* they were.  After push it is not empty.                                               *)
ListLeft(l, h, F, class, c, k) ==
  /\ l = [head |-> l.head, memory |-> l.memory]
  /\ l.memory \in Memories /\ l.head \in Blocks \cup {Null}
  /\ \A h2 \in Heads :
       h2[c][k] = l.head /\ (\A d \in Cores, i \in Classes : d # c \/ i # k => h2[d][i] = h[d][i])
         => \E s : Lists(s, h2, l.memory, F, class)
Pushed(l, h, F, class, c, k, b) == l.head \in Blocks /\ ListLeft(l, h, F \cup {b}, class, c, k)

LEMMA NewNode ==
  ASSUME NEW s, NEW h \in Heads, NEW m \in Memories, NEW F \in SUBSET Blocks, NEW class,
         Lists(s, h, m, F, class), NEW c \in Cores, NEW k \in Classes, NEW b \in Blocks \ F,
         class[b[1]] = k
  PROVE  Pushed(new_node([head |-> h[c][k], memory |-> m], k, b), h, F, class, c, k, b)
<1> DEFINE l == new_node([head |-> h[c][k], memory |-> m], k, b)
           m2 == [m EXCEPT ![b].next = h[c][k], ![b].free_slots = MaxSlots[k]]
           t == s[c][k]
           t2 == Append(t, b)
           s2 == [s EXCEPT ![c][k] = t2]
           z == [list |-> <<c, k>>, spot |-> <<Len(t) + 1, -1>>, block |-> b]
<1>1. l.head = b /\ l.memory = m2
  BY DEF new_node
<1>2. /\ m2 \in Memories /\ m2[b].next = h[c][k] /\ m2[b].free_slots = MaxSlots[k]
      /\ \A x \in Blocks \ {b} : m2[x] = m[x]
  <2>1. h[c][k] \in Blocks \cup {Null} /\ MaxSlots[k] \in 0 .. MostSlots /\ m[b] \in NodeType
    BY Bounds DEF Heads, Memories
  <2>2. m2 = [m EXCEPT ![b] = [m[b] EXCEPT !.next = h[c][k], !.free_slots = MaxSlots[k]]]
    BY DEF Memories
  <2>3. [m[b] EXCEPT !.next = h[c][k], !.free_slots = MaxSlots[k]] \in NodeType
    BY <2>1 DEF NodeType, MostSlots
  <2>4. /\ [m[b] EXCEPT !.next = h[c][k], !.free_slots = MaxSlots[k]].next = h[c][k]
        /\ [m[b] EXCEPT !.next = h[c][k], !.free_slots = MaxSlots[k]].free_slots = MaxSlots[k]
    BY <2>1 DEF NodeType
  <2> HIDE DEF m2
  <2> QED
    BY <2>2, <2>3, <2>4 DEF Memories
<1>3. /\ s \in Sequences /\ t \in Seq(Blocks) /\ Len(t) \in Nat /\ Linked(t, h[c][k], m)
      /\ \A i \in 1 .. Len(t) : m[t[i]].free_slots <= MaxSlots[k]
      /\ OneHome(Places(s, m), F, class)
  BY DEF Lists, Sequences
<1>4. /\ s2 \in Sequences /\ s2[c][k] = t2
      /\ \A d \in Cores, i \in Classes : d # c \/ i # k => s2[d][i] = s[d][i]
  BY <1>3 DEF Sequences
<1>5. \A d \in Cores, i \in Classes : \A j \in 1 .. Len(s[d][i]) :
        s[d][i][j] \in Blocks \ {b} /\ m2[s[d][i][j]] = m[s[d][i][j]]
  <2>1. \A d \in Cores, i \in Classes : \A j \in 1 .. Len(s[d][i]) : s[d][i][j] \in F
    <3> HIDE DEF m2, s2, l, z, t2
    <3> QED
      BY NodesApart
  <2> HIDE DEF m2
  <2> QED
    BY <1>2, <2>1
<1>6. /\ Len(t2) = Len(t) + 1 /\ t2[Len(t) + 1] = b /\ \A i \in 1 .. Len(t) : t2[i] = t[i]
      /\ \A i \in 1 .. Len(t2) : i = Len(t) + 1 \/ i \in 1 .. Len(t)
  BY <1>3
<1> HIDE DEF l, m2, s2, t2
<1>7. Spots(t2, m2, k) = Spots(t, m, k) \cup {<<Len(t) + 1, -1>>}
  <2>0. SlotIndexes \subseteq Nat /\ MaxSlots[k] \in Nat
    BY Bounds
  <2>1. ASSUME NEW i \in 1 .. Len(t2), NEW j \in {-1} \cup SlotIndexes
        PROVE  <<i, j>> \in Spots(t2, m2, k) <=>
                 <<i, j>> \in Spots(t, m, k) \/ <<i, j>> = <<Len(t) + 1, -1>>
    <3>1. CASE i \in 1 .. Len(t)
      <4>1. t2[i] = t[i] /\ m2[t[i]] = m[t[i]] /\ i # Len(t) + 1
        BY <1>3, <1>5, <1>6, <3>1
      <4> QED
        BY <2>1, <3>1, <4>1 DEF Spots
    <3>2. CASE i = Len(t) + 1
      <4>1. m2[t2[i]].free_slots = MaxSlots[k] /\ i \notin 1 .. Len(t)
        BY <1>2, <1>3, <1>6, <3>2
      <4>2. ~(j # -1 /\ MaxSlots[k] <= j /\ j < MaxSlots[k])
        BY <2>0, <2>1
      <4> QED
        BY <2>1, <3>2, <4>1, <4>2 DEF Spots
    <3> QED
      BY <1>6, <2>1, <3>1, <3>2
  <2>2. \A y \in Spots(t2, m2, k) : \E i \in 1 .. Len(t2), j \in {-1} \cup SlotIndexes : y = <<i, j>>
    <3> DEFINE spots == (1 .. Len(t2)) \X ({-1} \cup SlotIndexes)
    <3>1. Spots(t2, m2, k) \subseteq spots
      BY DEF Spots
    <3>2. \A y \in spots : y = <<y[1], y[2]>> /\ y[1] \in 1 .. Len(t2) /\ y[2] \in {-1} \cup SlotIndexes
      OBVIOUS
    <3> QED
      BY <3>1, <3>2
  <2>3. \A y \in Spots(t, m, k) : \E i \in 1 .. Len(t2), j \in {-1} \cup SlotIndexes : y = <<i, j>>
    <3>1. \A y \in Spots(t, m, k) : \E i \in 1 .. Len(t), j \in {-1} \cup SlotIndexes : y = <<i, j>>
      <4> DEFINE spots == (1 .. Len(t)) \X ({-1} \cup SlotIndexes)
      <4>1. Spots(t, m, k) \subseteq spots
        BY DEF Spots
      <4>2. \A y \in spots : y = <<y[1], y[2]>> /\ y[1] \in 1 .. Len(t) /\ y[2] \in {-1} \cup SlotIndexes
        <5> HIDE DEF t
        <5> QED
          OBVIOUS
      <4> QED
        BY <4>1, <4>2
    <3>2. 1 .. Len(t) \subseteq 1 .. Len(t2)
      BY <1>3, <1>6
    <3> QED
      BY <3>1, <3>2
  <2>4. Len(t) + 1 \in 1 .. Len(t2)
    BY <1>3, <1>6
  <2> QED
    BY <2>1, <2>2, <2>3, <2>4
<1>8. \A y \in Spots(t, m, k) : BlockAt(t2, m2, y) = BlockAt(t, m, y)
  BY <1>5, <1>6 DEF Spots, BlockAt
<1>9. BlockAt(t2, m2, <<Len(t) + 1, -1>>) = b
  BY <1>6 DEF BlockAt
<1>10. PlacesOf(c, k, t2, m2) = PlacesOf(c, k, t, m) \cup {z}
  BY <1>7, <1>8, <1>9 DEF PlacesOf
<1>11. Places(s2, m2) = Places(s, m) \cup {z}
  <2>1. OnlyList(s, s2, m, m2, c, k)
    BY <1>4, <1>5 DEF OnlyList
  <2>2. PlacesOf(c, k, s2[c][k], m2) = PlacesOf(c, k, s[c][k], m) \cup {z}
    BY <1>4, <1>10
  <2> HIDE DEF z
  <2>3. OneListGrows(s, s2, m, m2, c, k, z)
    BY <2>1, <2>2 DEF OneListGrows
  <2>4. PlaceAdded(s, s2, m, m2, z)
    BY <2>3, OneListChanges
  <2> QED
    BY <2>4 DEF PlaceAdded
<1>12. OneHome(Places(s2, m2), F \cup {b}, class)
  <2>1. z.block = b /\ z.list[2] = k
    OBVIOUS
  <2> HIDE DEF z
  <2> QED
    BY <1>3, <1>11, <2>1, HomeAdded
<1>13. Linked(t2, b, m2) /\ \A i \in 1 .. Len(t2) : m2[t2[i]].free_slots <= MaxSlots[k]
  <2>1. t2 \in Seq(Blocks) /\ t2 # <<>> /\ b = t2[Len(t2)]
    <3>1. t2 \in Seq(Blocks)
      BY <1>3 DEF t2
    <3> QED
      BY <1>3, <1>6, <3>1
  <2>2. ASSUME NEW i \in 1 .. Len(t2)
        PROVE  /\ m2[t2[i]].next = IF i = 1 THEN Null ELSE t2[i - 1]
               /\ m2[t2[i]].free_slots <= MaxSlots[k]
    <3>1. CASE i \in 1 .. Len(t)
      <4>1. t2[i] = t[i] /\ m2[t[i]] = m[t[i]] /\ (i # 1 => i - 1 \in 1 .. Len(t))
        BY <1>3, <1>5, <1>6, <3>1
      <4>2. m[t[i]].next = IF i = 1 THEN Null ELSE t[i - 1]
        BY <1>3, <3>1 DEF Linked
      <4> QED
        BY <1>3, <1>6, <3>1, <4>1, <4>2
    <3>2. CASE i = Len(t) + 1
      <4>1. h[c][k] = IF t = <<>> THEN Null ELSE t[Len(t)]
        BY <1>3 DEF Linked
      <4>2. t = <<>> <=> Len(t) = 0
        BY <1>3
      <4>3. i # 1 => i - 1 = Len(t) /\ i - 1 \in 1 .. Len(t)
        BY <1>3, <3>2
      <4>4. MaxSlots[k] <= MaxSlots[k]
        BY Bounds
      <4>5. m2[t2[i]].next = h[c][k] /\ m2[t2[i]].free_slots <= MaxSlots[k]
        BY <1>2, <1>6, <3>2, <4>4
      <4>6. CASE i = 1
        <5>1. Len(t) = 0
          BY <1>3, <3>2, <4>6
        <5> QED
          BY <4>1, <4>2, <4>5, <4>6, <5>1
      <4>7. CASE i # 1
        <5>1. t # <<>> /\ t2[i - 1] = t[Len(t)]
          BY <1>3, <1>6, <4>2, <4>3, <4>7
        <5> QED
          BY <4>1, <4>5, <4>7, <5>1
      <4> QED
        BY <4>6, <4>7
    <3> QED
      BY <1>6, <2>2, <3>1, <3>2
  <2> QED
    BY <2>1, <2>2 DEF Linked
<1>14. ASSUME NEW h2 \in Heads, h2[c][k] = b,
              \A d \in Cores, i \in Classes : d # c \/ i # k => h2[d][i] = h[d][i]
       PROVE  Lists(s2, h2, m2, F \cup {b}, class)
  <2>1. ASSUME NEW d \in Cores, NEW i \in Classes
        PROVE  /\ Linked(s2[d][i], h2[d][i], m2)
               /\ \A j \in 1 .. Len(s2[d][i]) : m2[s2[d][i][j]].free_slots <= MaxSlots[i]
    <3>1. CASE d = c /\ i = k
      BY <1>4, <1>13, <1>14, <3>1
    <3>2. CASE d # c \/ i # k
      <4>1. s2[d][i] = s[d][i] /\ h2[d][i] = h[d][i]
        BY <1>4, <1>14, <3>2
      <4>2. Linked(s[d][i], h[d][i], m) /\ \A j \in 1 .. Len(s[d][i]) : m[s[d][i][j]].free_slots <= MaxSlots[i]
        BY DEF Lists
      <4> QED
        BY <1>5, <4>1, <4>2 DEF Linked
    <3> QED
      BY <3>1, <3>2
  <2> QED
    BY <1>4, <1>12, <2>1 DEF Lists
<1> QED
  <2>1. l = [head |-> l.head, memory |-> l.memory]
    BY DEF l, new_node
  <2> QED
    BY <1>1, <1>2, <1>14, <2>1 DEF Pushed, ListLeft, l

(* A slot of a node is written, with the number of its free slots. *)
StackSet(m, m2, hd, f, slot, x) ==
  /\ m2 \in Memories /\ m2[hd].next = m[hd].next /\ m2[hd].free_slots = f
  /\ m2[hd].slots[slot] = x /\ \A j \in SlotIndexes \ {slot} : m2[hd].slots[j] = m[hd].slots[j]
  /\ \A y \in Blocks \ {hd} : m2[y] = m[y]

LEMMA StackWritten ==
  ASSUME NEW m \in Memories, NEW hd \in Blocks, NEW f \in 0 .. MostSlots, NEW slot \in SlotIndexes,
         NEW x \in Blocks \cup {Garbage}
  PROVE  StackSet(m, [m EXCEPT ![hd].free_slots = f, ![hd].slots[slot] = x], hd, f, slot, x)
<1> DEFINE m2 == [m EXCEPT ![hd].free_slots = f, ![hd].slots[slot] = x]
           slots2 == [m[hd].slots EXCEPT ![slot] = x]
           node == [next |-> m[hd].next, free_slots |-> f, slots |-> slots2]
<1>1. m[hd] \in NodeType /\ m = [y \in Blocks |-> m[y]]
  BY DEF Memories
<1>2. m[hd] = [next |-> m[hd].next, free_slots |-> m[hd].free_slots, slots |-> m[hd].slots]
  BY <1>1 DEF NodeType
<1>3. m2 = [m EXCEPT ![hd] = [m[hd] EXCEPT !.free_slots = f, !.slots[slot] = x]]
  BY <1>1
<1>4. \A r : [r EXCEPT !.free_slots = f, !.slots[slot] = x] =
              [[r EXCEPT !.free_slots = f] EXCEPT !.slots = [[r EXCEPT !.free_slots = f].slots EXCEPT ![slot] = x]]
  OBVIOUS
<1>5. [m[hd] EXCEPT !.free_slots = f] = [next |-> m[hd].next, free_slots |-> f, slots |-> m[hd].slots]
  BY <1>2
<1>6. [m[hd] EXCEPT !.free_slots = f, !.slots[slot] = x] = node
  <2>1. [m[hd] EXCEPT !.free_slots = f].slots = m[hd].slots
    BY <1>5
  <2> HIDE DEF slots2
  <2>2. [[next |-> m[hd].next, free_slots |-> f, slots |-> m[hd].slots] EXCEPT !.slots = slots2] = node
    OBVIOUS
  <2> QED
    BY <1>4, <1>5, <2>1, <2>2 DEF slots2
<1>7. m2 = [m EXCEPT ![hd] = node]
  <2> HIDE DEF node
  <2> QED
    BY <1>3, <1>6
<1>8. /\ slots2 \in [SlotIndexes -> Blocks \cup {Garbage}] /\ slots2[slot] = x
      /\ \A j \in SlotIndexes \ {slot} : slots2[j] = m[hd].slots[j]
  <2>1. m[hd].slots \in [SlotIndexes -> Blocks \cup {Garbage}]
    BY <1>1 DEF NodeType
  <2> QED
    BY <2>1
<1> HIDE DEF slots2
<1>9. node.next = m[hd].next /\ node.free_slots = f /\ node.slots = slots2
  OBVIOUS
<1>10. node \in NodeType
  <2>1. m[hd].next \in Blocks \cup {Null, Garbage}
    BY <1>1 DEF NodeType
  <2> QED
    BY <1>8, <2>1 DEF NodeType, MostSlots
<1> HIDE DEF node, m2
<1>11. m2 \in Memories /\ m2[hd] = node /\ \A y \in Blocks \ {hd} : m2[y] = m[y]
  BY <1>1, <1>7, <1>10 DEF Memories
<1> QED
  BY <1>8, <1>9, <1>11 DEF StackSet, m2

(* A slot of the first node is filled, or emptied. *)
StackMove(h, m, m2, c, k, f, slot, x) ==
  /\ h[c][k] # Null /\ slot \in Nat /\ slot < MaxSlots[k] /\ x \in Blocks \cup {Garbage}
  /\ StackSet(m, m2, h[c][k], f, slot, x)
  /\ \/ f = slot /\ m[h[c][k]].free_slots = slot + 1
     \/ f = slot + 1 /\ m[h[c][k]].free_slots = slot
SlotPlace(s, c, k, slot, b) == [list |-> <<c, k>>, spot |-> <<Len(s[c][k]), slot>>, block |-> b]
AllLinked(s, h, m) ==
  \A c \in Cores, k \in Classes :
    /\ Linked(s[c][k], h[c][k], m)
    /\ \A i \in 1 .. Len(s[c][k]) : m[s[c][k][i]].free_slots <= MaxSlots[k]

LEMMA StackMoves ==
  ASSUME NEW s, NEW h \in Heads, NEW m \in Memories, NEW F, NEW class,
         Lists(s, h, m, F, class), NEW c \in Cores, NEW k \in Classes,
         NEW slot, NEW f, NEW x, NEW m2, StackMove(h, m, m2, c, k, f, slot, x)
  PROVE  /\ m2 \in Memories /\ AllLinked(s, h, m2)
         /\ f = slot => PlaceAdded(s, s, m, m2, SlotPlace(s, c, k, slot, x))
         /\ f = slot + 1 =>
              PlaceTaken(s, s, m, m2, SlotPlace(s, c, k, slot, m[h[c][k]].slots[slot]))
<1> DEFINE t == s[c][k]
           n == Len(t)
           hd == h[c][k]
           z(b) == [list |-> <<c, k>>, spot |-> <<n, slot>>, block |-> b]
<1>0. /\ h[c][k] # Null /\ slot \in Nat /\ slot < MaxSlots[k] /\ x \in Blocks \cup {Garbage}
      /\ StackSet(m, m2, h[c][k], f, slot, x)
      /\ \/ f = slot /\ m[h[c][k]].free_slots = slot + 1
         \/ f = slot + 1 /\ m[h[c][k]].free_slots = slot
  BY DEF StackMove
<1>1. /\ s \in Sequences /\ t \in Seq(Blocks) /\ n \in Nat /\ Linked(t, hd, m)
      /\ \A i \in 1 .. n : m[t[i]].free_slots <= MaxSlots[k]
  BY DEF Lists, Sequences
<1>2. n > 0 /\ hd = t[n] /\ hd \in Blocks /\ \A i \in 1 .. n : t[i] \in Blocks
  <2>1. t # <<>> /\ hd = t[n]
    BY <1>0, <1>1 DEF Linked
  <2>2. n > 0
    BY <1>1, <2>1
  <2>3. \A i \in 1 .. n : t[i] \in Blocks
    BY <1>1
  <2> QED
    BY <2>1, <2>2, <2>3, <1>1
<1>3. /\ slot \in SlotIndexes /\ slot + 1 <= MaxSlots[k] /\ MaxSlots[k] \in Nat /\ MaxSlots[k] <= MostSlots
      /\ SlotIndexes \subseteq Nat /\ MostSlots \in Nat
      /\ f \in Nat /\ f <= MaxSlots[k] /\ f \in 0 .. MostSlots
  <2>1. slot + 1 <= MaxSlots[k] /\ MaxSlots[k] \in Nat /\ MaxSlots[k] <= MostSlots /\ MostSlots \in Nat
    BY <1>0, Bounds
  <2>2. f \in Nat /\ f <= MaxSlots[k] /\ f \in 0 .. MostSlots
    BY <1>0, <2>1
  <2> QED
    BY <1>0, <2>1, <2>2, Bounds
<1>4. /\ m2 \in Memories /\ m2[hd].next = m[hd].next /\ m2[hd].free_slots = f
      /\ m2[hd].slots[slot] = x /\ \A j \in SlotIndexes \ {slot} : m2[hd].slots[j] = m[hd].slots[j]
      /\ \A y \in Blocks \ {hd} : m2[y] = m[y]
  BY <1>0 DEF StackSet
<1>5. \A d \in Cores, i \in Classes : \A j \in 1 .. Len(s[d][i]) :
        s[d][i][j] \in Blocks /\ (s[d][i][j] = hd <=> d = c /\ i = k /\ j = n)
  <2>1. \A d \in Cores, i \in Classes : s[d][i] \in Seq(Blocks)
    BY <1>1 DEF Sequences
  <2>2. n \in 1 .. Len(s[c][k]) /\ s[c][k][n] = hd
    BY <1>1, <1>2
  <2>3. ASSUME NEW d \in Cores, NEW i \in Classes, NEW j \in 1 .. Len(s[d][i])
        PROVE  s[d][i][j] \in Blocks /\ (s[d][i][j] = hd <=> d = c /\ i = k /\ j = n)
    <3>1. s[d][i][j] \in Blocks
      BY <2>1, <2>3
    <3>2. s[d][i][j] = s[c][k][n] => d = c /\ i = k /\ j = n
      <4> HIDE DEF n
      <4> QED
        BY <2>2, <2>3, NodesApart
    <3> QED
      BY <2>2, <3>1, <3>2
  <2> QED
    BY <2>3
<1>6. \A d \in Cores, i \in Classes : \A j \in 1 .. Len(s[d][i]) :
        /\ m2[s[d][i][j]].next = m[s[d][i][j]].next
        /\ d # c \/ i # k \/ j # n => m2[s[d][i][j]] = m[s[d][i][j]]
  <2> HIDE DEF t, n, hd
  <2> TAKE d \in Cores, i \in Classes
  <2> TAKE j \in 1 .. Len(s[d][i])
  <2>1. s[d][i][j] \in Blocks /\ (s[d][i][j] = hd <=> d = c /\ i = k /\ j = n)
    BY <1>5
  <2> QED
    BY <1>4, <2>1
<1> HIDE DEF t, n, hd
<1>7. \A d \in Cores, i \in Classes :
        /\ Linked(s[d][i], h[d][i], m2)
        /\ \A j \in 1 .. Len(s[d][i]) : m2[s[d][i][j]].free_slots <= MaxSlots[i]
  <2> TAKE d \in Cores, i \in Classes
  <2>1. Linked(s[d][i], h[d][i], m) /\ \A j \in 1 .. Len(s[d][i]) : m[s[d][i][j]].free_slots <= MaxSlots[i]
    BY DEF Lists
  <2>2. Linked(s[d][i], h[d][i], m2)
    BY <2>1, <1>6 DEF Linked
  <2>3. \A j \in 1 .. Len(s[d][i]) : m2[s[d][i][j]].free_slots <= MaxSlots[i]
    <3> TAKE j \in 1 .. Len(s[d][i])
    <3>1. CASE d = c /\ i = k /\ j = n
      BY <3>1, <1>3, <1>4, <1>5
    <3>2. CASE d # c \/ i # k \/ j # n
      BY <3>2, <2>1, <1>6
    <3> QED
      BY <3>1, <3>2
  <2> QED
    BY <2>2, <2>3
<1>8. ASSUME NEW i \in 1 .. n, NEW j \in {-1} \cup SlotIndexes, <<i, j>> # <<n, slot>>
      PROVE  /\ <<i, j>> \in Spots(t, m2, k) <=> <<i, j>> \in Spots(t, m, k)
             /\ BlockAt(t, m2, <<i, j>>) = BlockAt(t, m, <<i, j>>)
  <2>1. CASE i # n
    <3>1. m2[t[i]] = m[t[i]]
      BY <1>6, <1>8, <2>1 DEF t, n
    <3>2. BlockAt(t, m2, <<i, j>>) = BlockAt(t, m, <<i, j>>)
      BY <3>1 DEF BlockAt
    <3> QED
      BY <3>1, <3>2, <1>8 DEF Spots, n
  <2>2. CASE i = n
    <3>0. t[i] = hd /\ j # slot
      BY <1>2, <1>8, <2>2
    <3>1. j # -1 => m2[t[i]].slots[j] = m[t[i]].slots[j]
      BY <1>4, <1>8, <3>0
    <3>2. j # -1 => (m2[t[i]].free_slots <= j <=> m[t[i]].free_slots <= j)
      <4>1. j # -1 => j \in Nat
        BY <1>3, <1>8
      <4>2. m2[t[i]].free_slots = f
        BY <1>4, <3>0
      <4>3. \/ f = slot /\ m[t[i]].free_slots = slot + 1
            \/ f = slot + 1 /\ m[t[i]].free_slots = slot
        BY <1>0, <3>0 DEF hd
      <4> QED
        BY <1>0, <3>0, <4>1, <4>2, <4>3
    <3>3. BlockAt(t, m2, <<i, j>>) = BlockAt(t, m, <<i, j>>)
      BY <3>1 DEF BlockAt
    <3> QED
      BY <3>2, <3>3, <1>8 DEF Spots, n
  <2> QED
    BY <2>1, <2>2
<1>9. /\ <<n, slot>> \in Spots(t, m2, k) <=> f = slot
      /\ <<n, slot>> \in Spots(t, m, k) <=> f = slot + 1
      /\ BlockAt(t, m2, <<n, slot>>) = x /\ BlockAt(t, m, <<n, slot>>) = m[hd].slots[slot]
  <2>1. slot # -1 /\ slot + 1 # slot /\ n \in 1 .. n /\ t[n] = hd
    BY <1>0, <1>1, <1>2
  <2>2. m2[t[n]].free_slots <= slot <=> f = slot
    BY <1>0, <1>4, <2>1
  <2>3. m[t[n]].free_slots <= slot <=> f = slot + 1
    BY <1>0, <2>1 DEF hd
  <2> QED
    BY <1>3, <1>4, <2>1, <2>2, <2>3 DEF Spots, BlockAt, n
<1>10. \A y \in Spots(t, m, k) \cup Spots(t, m2, k) : y # <<n, slot>> =>
         /\ y \in Spots(t, m2, k) <=> y \in Spots(t, m, k)
         /\ BlockAt(t, m2, y) = BlockAt(t, m, y)
  <2> DEFINE spots == (1 .. n) \X ({-1} \cup SlotIndexes)
  <2>1. Spots(t, m, k) \cup Spots(t, m2, k) \subseteq spots
    BY DEF Spots, n
  <2>2. \A y \in spots : y = <<y[1], y[2]>> /\ y[1] \in 1 .. n /\ y[2] \in {-1} \cup SlotIndexes
    OBVIOUS
  <2>3. \A i \in 1 .. n, j \in {-1} \cup SlotIndexes : <<i, j>> # <<n, slot>> =>
          /\ <<i, j>> \in Spots(t, m2, k) <=> <<i, j>> \in Spots(t, m, k)
          /\ BlockAt(t, m2, <<i, j>>) = BlockAt(t, m, <<i, j>>)
    BY <1>8
  <2> HIDE DEF spots
  <2> QED
    BY <2>1, <2>2, <2>3
<1>11. f = slot => PlacesOf(c, k, t, m2) = PlacesOf(c, k, t, m) \cup {z(x)}
  <2> SUFFICES ASSUME f = slot PROVE PlacesOf(c, k, t, m2) = PlacesOf(c, k, t, m) \cup {z(x)}
    OBVIOUS
  <2>1. <<n, slot>> \notin Spots(t, m, k) /\ <<n, slot>> \in Spots(t, m2, k)
    BY <1>3, <1>9
  <2>2. Spots(t, m2, k) = Spots(t, m, k) \cup {<<n, slot>>}
    BY <2>1, <1>10
  <2>3. \A y \in Spots(t, m, k) : BlockAt(t, m2, y) = BlockAt(t, m, y)
    BY <2>1, <1>10
  <2>4. BlockAt(t, m2, <<n, slot>>) = x
    BY <1>9
  <2> QED
    BY <2>2, <2>3, <2>4 DEF PlacesOf
<1>12. f = slot + 1 => /\ PlacesOf(c, k, t, m2) = PlacesOf(c, k, t, m) \ {z(m[hd].slots[slot])}
                       /\ z(m[hd].slots[slot]) \in PlacesOf(c, k, t, m)
  <2> SUFFICES ASSUME f = slot + 1
               PROVE  /\ PlacesOf(c, k, t, m2) = PlacesOf(c, k, t, m) \ {z(m[hd].slots[slot])}
                      /\ z(m[hd].slots[slot]) \in PlacesOf(c, k, t, m)
    OBVIOUS
  <2>1. f # slot
    BY <1>0
  <2>2. <<n, slot>> \in Spots(t, m, k) /\ <<n, slot>> \notin Spots(t, m2, k)
    BY <2>1, <1>9
  <2>3. Spots(t, m2, k) = Spots(t, m, k) \ {<<n, slot>>}
    BY <2>2, <1>10
  <2>4. \A y \in Spots(t, m2, k) : BlockAt(t, m2, y) = BlockAt(t, m, y)
    BY <2>2, <1>10
  <2>5. BlockAt(t, m, <<n, slot>>) = m[hd].slots[slot]
    BY <1>9
  <2> QED
    BY <2>2, <2>3, <2>4, <2>5 DEF PlacesOf
<1>13. OnlyList(s, s, m, m2, c, k)
  BY <1>6 DEF OnlyList
<1> HIDE DEF z
<1>14. f = slot => PlaceAdded(s, s, m, m2, z(x))
  <2>1. f = slot => OneListGrows(s, s, m, m2, c, k, z(x))
    BY <1>11, <1>13 DEF t, OneListGrows
  <2> QED
    BY <2>1, OneListChanges
<1>15. f = slot + 1 => PlaceTaken(s, s, m, m2, z(m[hd].slots[slot]))
  <2>1. f = slot + 1 => OneListShrinks(s, s, m, m2, c, k, z(m[hd].slots[slot]))
    BY <1>12, <1>13 DEF t, OneListShrinks
  <2> QED
    BY <2>1, OneListChanges
<1>16. \A b : SlotPlace(s, c, k, slot, b) = z(b)
  BY DEF SlotPlace, z, n, t
<1>17. AllLinked(s, h, m2)
  BY <1>7 DEF AllLinked
<1> QED
  BY <1>4, <1>14, <1>15, <1>16, <1>17 DEF hd

(* The head of a list that is not empty is its last node. *)
IsHead(s, h, m, F, class, c, k) ==
  /\ s[c][k] \in Seq(Blocks) /\ Len(s[c][k]) \in Nat /\ Len(s[c][k]) > 0
  /\ h[c][k] = s[c][k][Len(s[c][k])] /\ h[c][k] \in F /\ class[h[c][k][1]] = k
  /\ m[h[c][k]] \in NodeType /\ m[h[c][k]].free_slots \in Nat
  /\ m[h[c][k]].free_slots <= MaxSlots[k] /\ m[h[c][k]].next \in Blocks \cup {Null}

LEMMA HeadNode ==
  ASSUME NEW s, NEW h \in Heads, NEW m \in Memories, NEW F \in SUBSET Blocks, NEW class,
         Lists(s, h, m, F, class), NEW c \in Cores, NEW k \in Classes, h[c][k] # Null
  PROVE  IsHead(s, h, m, F, class, c, k)
<1>1. s[c][k] \in Seq(Blocks) /\ Linked(s[c][k], h[c][k], m) /\ Len(s[c][k]) \in Nat
  BY DEF Lists, Sequences
<1>2. Len(s[c][k]) > 0 /\ h[c][k] = s[c][k][Len(s[c][k])] /\ Len(s[c][k]) \in 1 .. Len(s[c][k])
  BY <1>1 DEF Linked
<1>3. h[c][k] \in F /\ class[h[c][k][1]] = k
  BY <1>2, NodesApart
<1>4. m[h[c][k]].free_slots <= MaxSlots[k]
  BY <1>2 DEF Lists
<1>8. m[h[c][k]].next \in Blocks \cup {Null}
  <2> DEFINE n == Len(s[c][k])
  <2>1. m[s[c][k][n]].next = IF n = 1 THEN Null ELSE s[c][k][n - 1]
    BY <1>1, <1>2 DEF Linked
  <2>2. n # 1 => n - 1 \in 1 .. n
    <3>1. n \in Nat /\ n > 0
      BY <1>1, <1>2
    <3> HIDE DEF n
    <3> QED
      BY <3>1
  <2>3. \A i \in 1 .. n : s[c][k][i] \in Blocks
    BY <1>1
  <2> HIDE DEF n
  <2> QED
    BY <1>2, <2>1, <2>2, <2>3 DEF n
<1>5. m[h[c][k]] \in NodeType
  BY <1>3 DEF Memories
<1>6. MostSlots \in Nat
  BY Bounds
<1>7. m[h[c][k]].free_slots \in 0 .. MostSlots
  BY <1>5 DEF NodeType, MostSlots
<1> QED
  BY <1>1, <1>2, <1>3, <1>4, <1>5, <1>6, <1>7, <1>8 DEF IsHead

LEMMA NewSlot ==
  ASSUME NEW s, NEW h \in Heads, NEW m \in Memories, NEW F \in SUBSET Blocks, NEW class,
         Lists(s, h, m, F, class), NEW c \in Cores, NEW k \in Classes, NEW b \in Blocks \ F,
         class[b[1]] = k, h[c][k] # Null, m[h[c][k]].free_slots # 0
  PROVE  Pushed(new_slot([head |-> h[c][k], memory |-> m], b), h, F, class, c, k, b)
<1> DEFINE hd == h[c][k]
           slot == m[hd].free_slots - 1
           m2 == [m EXCEPT ![hd].free_slots = slot, ![hd].slots[slot] = b]
           z == SlotPlace(s, c, k, slot, b)
           l == new_slot([head |-> hd, memory |-> m], b)
<1>1. l.head = hd /\ l.memory = m2
  BY DEF new_slot
<1>2. hd \in Blocks /\ m[hd].free_slots \in Nat /\ m[hd].free_slots <= MaxSlots[k]
  <2>1. IsHead(s, h, m, F, class, c, k)
    BY HeadNode
  <2> QED
    BY <2>1 DEF IsHead
<1>3. /\ slot \in Nat /\ slot < MaxSlots[k] /\ slot \in SlotIndexes /\ slot \in 0 .. MostSlots
      /\ m[hd].free_slots = slot + 1
  <2>1. MaxSlots[k] \in Nat /\ MaxSlots[k] <= MostSlots /\ MostSlots \in Nat
    BY Bounds
  <2>2. slot \in Nat /\ slot < MaxSlots[k] /\ slot \in 0 .. MostSlots /\ m[hd].free_slots = slot + 1
    BY <1>2, <2>1
  <2> HIDE DEF slot
  <2> QED
    BY <2>2, Bounds
<1> HIDE DEF slot
<1>4. StackSet(m, m2, hd, slot, slot, b)
  BY <1>2, <1>3, StackWritten
<1> HIDE DEF m2, l
<1>5. /\ m2 \in Memories /\ AllLinked(s, h, m2) /\ PlaceAdded(s, s, m, m2, z)
  <2>1. StackMove(h, m, m2, c, k, slot, slot, b)
    BY <1>3, <1>4 DEF StackMove
  <2> QED
    BY <2>1, StackMoves
<1>6. OneHome(Places(s, m2), F \cup {b}, class)
  <2>1. z.block = b /\ z.list[2] = k
    BY DEF SlotPlace
  <2>2. OneHome(Places(s, m), F, class)
    BY DEF Lists
  <2>3. Places(s, m2) = Places(s, m) \cup {z}
    BY <1>5 DEF PlaceAdded
  <2> HIDE DEF z
  <2> QED
    <3>1. z.block \notin F /\ class[z.block[1]] = z.list[2]
      BY <2>1
    <3>2. OneHome(Places(s, m) \cup {z}, F \cup {z.block}, class)
      BY <2>2, <3>1, HomeAdded
    <3> QED
      BY <2>1, <2>3, <3>2
<1>7. ASSUME NEW h2 \in Heads, h2[c][k] = hd,
             \A d \in Cores, i \in Classes : d # c \/ i # k => h2[d][i] = h[d][i]
      PROVE  Lists(s, h2, m2, F \cup {b}, class)
  <2>1. \A d \in Cores, i \in Classes : h2[d][i] = h[d][i]
    BY <1>7
  <2>2. s \in Sequences
    BY DEF Lists
  <2> QED
    BY <1>5, <1>6, <2>1, <2>2 DEF Lists, AllLinked
<1> QED
  <2>1. l = [head |-> l.head, memory |-> l.memory]
    BY DEF l, new_slot
  <2> QED
    BY <1>1, <1>2, <1>5, <1>7, <2>1 DEF Pushed, ListLeft, l

(* FreeList::push, whichever way it takes. *)
LEMMA PushKeepsLists ==
  ASSUME NEW s, NEW h \in Heads, NEW m \in Memories, NEW F \in SUBSET Blocks, NEW class,
         Lists(s, h, m, F, class), NEW c \in Cores, NEW k \in Classes, NEW b \in Blocks \ F,
         class[b[1]] = k
  PROVE  Pushed(push([head |-> h[c][k], memory |-> m], k, b), h, F, class, c, k, b)
<1> DEFINE l == [head |-> h[c][k], memory |-> m]
<1>1. l.head = h[c][k] /\ l.memory = m
  OBVIOUS
<1>2. Pushed(new_node(l, k, b), h, F, class, c, k, b)
  BY NewNode
<1>3. h[c][k] # Null /\ m[h[c][k]].free_slots # 0 => Pushed(new_slot(l, b), h, F, class, c, k, b)
  BY NewSlot
<1> HIDE DEF l
<1>4. Pushed(push(l, k, b), h, F, class, c, k, b)
  <2>1. push(l, k, b) = new_node(l, k, b)
        \/ (push(l, k, b) = new_slot(l, b) /\ h[c][k] # Null /\ m[h[c][k]].free_slots # 0)
    BY <1>1 DEF push
  <2> QED
    BY <1>2, <1>3, <2>1
<1> QED
  BY <1>4 DEF l

(* pop takes a block from a slot, or the head itself. *)
Popped(h2, m2, F, class, k, b) ==
  /\ b \in F /\ class[b[1]] = k /\ m2 \in Memories
  /\ \E s : Lists(s, h2, m2, F \ {b}, class)

LEMMA PopSlot ==
  ASSUME NEW s, NEW h \in Heads, NEW m \in Memories, NEW F \in SUBSET Blocks, NEW class,
         Lists(s, h, m, F, class), NEW c \in Cores, NEW k \in Classes,
         h[c][k] # Null, NEW slot, slot = m[h[c][k]].free_slots, slot # MaxSlots[k],
         NEW m2, m2 = [m EXCEPT ![h[c][k]].free_slots = slot + 1, ![h[c][k]].slots[slot] = Garbage]
  PROVE  Popped(h, m2, F, class, k, m[h[c][k]].slots[slot])
<1> DEFINE hd == h[c][k]
           b == m[hd].slots[slot]
           z == SlotPlace(s, c, k, slot, b)
<1>1. hd \in Blocks /\ slot \in Nat /\ slot <= MaxSlots[k]
  <2>1. IsHead(s, h, m, F, class, c, k)
    BY HeadNode
  <2> QED
    BY <2>1 DEF IsHead
<1>2. slot < MaxSlots[k] /\ slot \in SlotIndexes /\ slot + 1 \in 0 .. MostSlots
  <2>1. MaxSlots[k] \in Nat /\ MaxSlots[k] <= MostSlots /\ MostSlots \in Nat
    BY Bounds
  <2>2. slot < MaxSlots[k] /\ slot + 1 \in 0 .. MostSlots
    BY <1>1, <2>1
  <2> QED
    BY <1>1, <2>2, Bounds
<1>3. StackSet(m, m2, hd, slot + 1, slot, Garbage)
  BY <1>1, <1>2, StackWritten
<1> HIDE DEF hd
<1>4. /\ m2 \in Memories /\ AllLinked(s, h, m2) /\ PlaceTaken(s, s, m, m2, z)
  <2>1. slot + 1 # slot
    BY <1>1
  <2>2. StackMove(h, m, m2, c, k, slot + 1, slot, Garbage)
    BY <1>1, <1>2, <1>3 DEF StackMove, hd
  <2> QED
    BY <2>1, <2>2, StackMoves DEF hd
<1>5. b \in F /\ class[b[1]] = k /\ OneHome(Places(s, m2), F \ {b}, class)
  <2>1. z.block = b /\ z.list[2] = k
    BY DEF SlotPlace
  <2>2. OneHome(Places(s, m), F, class)
    BY DEF Lists
  <2>3. z \in Places(s, m) /\ Places(s, m2) = Places(s, m) \ {z}
    BY <1>4 DEF PlaceTaken
  <2> HIDE DEF z, b
  <2>4. OneHome(Places(s, m) \ {z}, F \ {z.block}, class) /\ z.block \in F /\ class[z.block[1]] = z.list[2]
    BY <2>2, <2>3, HomeTaken
  <2> QED
    BY <2>1, <2>3, <2>4
<1>6. s \in Sequences
  BY DEF Lists
<1> HIDE DEF b
<1>7. Lists(s, h, m2, F \ {b}, class)
  BY <1>4, <1>5, <1>6 DEF Lists, AllLinked
<1> QED
  BY <1>4, <1>5, <1>7 DEF Popped, b, hd

LEMMA PopNode ==
  ASSUME NEW s, NEW h \in Heads, NEW m \in Memories, NEW F \in SUBSET Blocks, NEW class,
         Lists(s, h, m, F, class), NEW c \in Cores, NEW k \in Classes,
         h[c][k] # Null, m[h[c][k]].free_slots = MaxSlots[k],
         NEW h2 \in Heads, h2[c][k] = m[h[c][k]].next,
         \A d \in Cores, i \in Classes : d # c \/ i # k => h2[d][i] = h[d][i],
         NEW m2, m2 = [m EXCEPT ![h[c][k]] = UserData]
  PROVE  Popped(h2, m2, F, class, k, h[c][k])
<1> DEFINE hd == h[c][k]
           t == s[c][k]
           n == Len(t)
           t2 == [i \in 1 .. n - 1 |-> t[i]]
           s2 == [s EXCEPT ![c][k] = t2]
           z == [list |-> <<c, k>>, spot |-> <<n, -1>>, block |-> hd]
<1>1. /\ t \in Seq(Blocks) /\ n \in Nat /\ n > 0 /\ hd = t[n] /\ hd \in F /\ class[hd[1]] = k
      /\ hd \in Blocks /\ \A i \in 1 .. n : t[i] \in Blocks
  <2>1. t \in Seq(Blocks) /\ n \in Nat /\ n > 0 /\ hd = t[n] /\ hd \in F /\ class[hd[1]] = k
    <3>1. IsHead(s, h, m, F, class, c, k)
      BY HeadNode
    <3> QED
      BY <3>1 DEF IsHead
  <2> QED
    BY <2>1
<1>2. m2 \in Memories /\ \A y \in Blocks \ {hd} : m2[y] = m[y]
  <2>1. UserData \in NodeType
    <3>1. MostSlots \in Nat /\ 0 \in 0 .. MostSlots
      BY Bounds
    <3> QED
      BY <3>1 DEF UserData, NodeType, MostSlots
  <2> HIDE DEF hd
  <2> QED
    BY <1>1, <2>1 DEF Memories, hd
<1>3. /\ s \in Sequences /\ Linked(t, hd, m) /\ OneHome(Places(s, m), F, class)
      /\ \A i \in 1 .. n : m[t[i]].free_slots <= MaxSlots[k]
  BY DEF Lists
<1>4. /\ t2 \in Seq(Blocks) /\ Len(t2) = n - 1 /\ \A i \in 1 .. n - 1 : t2[i] = t[i]
  <2>1. n - 1 \in Nat /\ \A i \in 1 .. n - 1 : i \in 1 .. n
    BY <1>1
  <2>2. \A i \in 1 .. n - 1 : t[i] \in Blocks
    BY <1>1, <2>1
  <2> HIDE DEF n, t
  <2>3. t2 \in [1 .. n - 1 -> Blocks]
    BY <2>2
  <2> QED
    BY <2>1, <2>3
<1>5. /\ s2 \in Sequences /\ s2[c][k] = t2
      /\ \A d \in Cores, i \in Classes : d # c \/ i # k => s2[d][i] = s[d][i]
  <2> HIDE DEF t2
  <2> QED
    BY <1>3, <1>4 DEF Sequences
<1>6. \A d \in Cores, i \in Classes : \A j \in 1 .. Len(s[d][i]) :
        s[d][i][j] \in Blocks /\ (s[d][i][j] = hd <=> d = c /\ i = k /\ j = n)
  <2>1. n \in 1 .. Len(s[c][k]) /\ s[c][k][n] = hd
    BY <1>1
  <2>2. ASSUME NEW d \in Cores, NEW i \in Classes, NEW j \in 1 .. Len(s[d][i])
        PROVE  s[d][i][j] \in Blocks /\ (s[d][i][j] = hd <=> d = c /\ i = k /\ j = n)
    <3>1. s[d][i][j] \in F
      BY <2>2, NodesApart
    <3>2. s[d][i][j] = s[c][k][n] => d = c /\ i = k /\ j = n
      <4> HIDE DEF n
      <4> QED
        BY <2>1, <2>2, NodesApart
    <3> QED
      BY <2>1, <3>1, <3>2
  <2> QED
    BY <2>2
<1> HIDE DEF t, t2, s2, n, hd
<1>7. \A d \in Cores, i \in Classes : \A j \in 1 .. Len(s[d][i]) :
        d # c \/ i # k \/ j # n => m2[s[d][i][j]] = m[s[d][i][j]]
  <2> TAKE d \in Cores, i \in Classes
  <2> TAKE j \in 1 .. Len(s[d][i])
  <2>1. s[d][i][j] \in Blocks /\ (s[d][i][j] = hd <=> d = c /\ i = k /\ j = n)
    BY <1>6
  <2> QED
    BY <1>2, <2>1
<1>8. \A i \in 1 .. n - 1 : i \in 1 .. n /\ i # n /\ t2[i] = t[i] /\ m2[t[i]] = m[t[i]]
  <2> TAKE i \in 1 .. n - 1
  <2>1. i \in 1 .. n /\ i # n
    BY <1>1
  <2> QED
    BY <1>4, <1>7, <2>1 DEF t, n
<1>9. Spots(t2, m2, k) = Spots(t, m, k) \ {<<n, -1>>} /\ <<n, -1>> \in Spots(t, m, k)
  <2>1. ASSUME NEW i \in 1 .. n, NEW j \in {-1} \cup SlotIndexes
        PROVE  <<i, j>> \in Spots(t2, m2, k) <=> <<i, j>> \in Spots(t, m, k) /\ <<i, j>> # <<n, -1>>
    <3>1. CASE i # n
      <4>1. i \in 1 .. n - 1
        BY <1>1, <2>1, <3>1
      <4> QED
        BY <1>4, <1>8, <2>1, <3>1, <4>1 DEF Spots, n
    <3>2. CASE i = n
      <4>1. n \notin 1 .. n - 1
        BY <1>1
      <4>2. <<i, j>> \notin Spots(t2, m2, k)
        BY <1>4, <3>2, <4>1 DEF Spots
      <4>3. ASSUME <<i, j>> \in Spots(t, m, k), j # -1 PROVE FALSE
        <5>1. j \in Nat /\ MaxSlots[k] \in Nat
          BY <4>3, Bounds
        <5>2. m[t[n]].free_slots <= j /\ j < MaxSlots[k]
          BY <3>2, <4>3 DEF Spots
        <5> QED
          BY <1>1, <5>1, <5>2 DEF hd
      <4> QED
        BY <3>2, <4>2, <4>3
    <3> QED
      BY <3>1, <3>2
  <2> DEFINE spots == (1 .. n) \X ({-1} \cup SlotIndexes)
  <2>2. Spots(t, m, k) \subseteq spots
    BY DEF Spots, n
  <2>3. Spots(t2, m2, k) \subseteq spots
    <3>1. Spots(t2, m2, k) \subseteq (1 .. n - 1) \X ({-1} \cup SlotIndexes)
      BY <1>4 DEF Spots
    <3>2. 1 .. n - 1 \subseteq 1 .. n
      BY <1>8
    <3> QED
      BY <3>1, <3>2
  <2>4. \A y \in spots : y = <<y[1], y[2]>> /\ y[1] \in 1 .. n /\ y[2] \in {-1} \cup SlotIndexes
    OBVIOUS
  <2>5. <<n, -1>> \in Spots(t, m, k)
    BY <1>1 DEF Spots, n
  <2> HIDE DEF spots
  <2>6. \A y \in spots : y \in Spots(t2, m2, k) <=> y \in Spots(t, m, k) /\ y # <<n, -1>>
    <3>1. \A i \in 1 .. n, j \in {-1} \cup SlotIndexes :
            <<i, j>> \in Spots(t2, m2, k) <=> <<i, j>> \in Spots(t, m, k) /\ <<i, j>> # <<n, -1>>
      BY <2>1
    <3> TAKE y \in spots
    <3>2. PICK i \in 1 .. n, j \in {-1} \cup SlotIndexes : y = <<i, j>>
      BY <2>4
    <3> QED
      BY <3>1, <3>2
  <2> QED
    BY <2>2, <2>3, <2>5, <2>6
<1>10. \A y \in Spots(t2, m2, k) : BlockAt(t2, m2, y) = BlockAt(t, m, y)
  <2> TAKE y \in Spots(t2, m2, k)
  <2>1. y[1] \in 1 .. n - 1
    BY <1>4 DEF Spots
  <2> QED
    BY <1>8, <2>1 DEF BlockAt
<1>11. BlockAt(t, m, <<n, -1>>) = hd
  BY <1>1 DEF BlockAt
<1>12. PlacesOf(c, k, t2, m2) = PlacesOf(c, k, t, m) \ {z} /\ z \in PlacesOf(c, k, t, m)
  <2>1. z \in PlacesOf(c, k, t, m)
    BY <1>9, <1>11 DEF PlacesOf
  <2>2. \A y \in Spots(t, m, k) : y \in Spots(t2, m2, k) <=> y # <<n, -1>>
    BY <1>9
  <2>3. Spots(t2, m2, k) \subseteq Spots(t, m, k)
    BY <1>9
  <2>4. PlacesOf(c, k, t2, m2) = PlacesOf(c, k, t, m) \ {z}
    <3>1. ASSUME NEW q \in PlacesOf(c, k, t2, m2) PROVE q \in PlacesOf(c, k, t, m) /\ q # z
      <4>1. PICK y \in Spots(t2, m2, k) :
              q = [list |-> <<c, k>>, spot |-> y, block |-> BlockAt(t2, m2, y)]
        BY DEF PlacesOf
      <4>2. q = [list |-> <<c, k>>, spot |-> y, block |-> BlockAt(t, m, y)]
        BY <1>10, <4>1
      <4>3. y \in Spots(t, m, k) /\ y # <<n, -1>>
        BY <2>2, <2>3
      <4>4. q.spot # z.spot
        BY <4>2, <4>3
      <4> QED
        BY <4>2, <4>3, <4>4 DEF PlacesOf
    <3>2. ASSUME NEW q \in PlacesOf(c, k, t, m), q # z PROVE q \in PlacesOf(c, k, t2, m2)
      <4>1. PICK y \in Spots(t, m, k) : q = [list |-> <<c, k>>, spot |-> y, block |-> BlockAt(t, m, y)]
        BY DEF PlacesOf
      <4>2. y # <<n, -1>>
        BY <1>11, <3>2, <4>1
      <4>3. y \in Spots(t2, m2, k)
        BY <2>2, <4>2
      <4> QED
        BY <1>10, <4>1, <4>3 DEF PlacesOf
    <3> QED
      BY <3>1, <3>2
  <2> QED
    BY <2>1, <2>4
<1> HIDE DEF z
<1>13. PlaceTaken(s, s2, m, m2, z)
  <2>1. OnlyList(s, s2, m, m2, c, k)
    BY <1>5, <1>7 DEF OnlyList
  <2>2. OneListShrinks(s, s2, m, m2, c, k, z)
    BY <1>5, <1>12, <2>1 DEF OneListShrinks, t
  <2> QED
    BY <2>2, OneListChanges
<1>14. OneHome(Places(s2, m2), F \ {hd}, class)
  <2>1. z.block = hd
    BY DEF z
  <2>2. z \in Places(s, m) /\ Places(s2, m2) = Places(s, m) \ {z}
    BY <1>13 DEF PlaceTaken
  <2>3. OneHome(Places(s, m) \ {z}, F \ {z.block}, class)
    BY <1>3, <2>2, HomeTaken
  <2> QED
    BY <2>1, <2>2, <2>3
<1>15. /\ Linked(t2, h2[c][k], m2)
       /\ \A i \in 1 .. Len(t2) : m2[t2[i]].free_slots <= MaxSlots[k]
  <2>1. m[hd].next = IF n = 1 THEN Null ELSE t[n - 1]
    <3>1. n \in 1 .. n
      BY <1>1
    <3>2. m[t[n]].next = IF n = 1 THEN Null ELSE t[n - 1]
      BY <1>3, <3>1 DEF Linked, n
    <3> QED
      BY <1>1, <3>2
  <2>2. h2[c][k] = IF t2 = <<>> THEN Null ELSE t2[Len(t2)]
    <3>1. CASE n = 1
      BY <1>1, <1>4, <2>1, <3>1 DEF hd
    <3>2. CASE n # 1
      <4>1. n - 1 \in 1 .. n - 1 /\ Len(t2) # 0
        BY <1>1, <1>4, <3>2
      <4> QED
        BY <1>4, <1>8, <2>1, <3>2, <4>1 DEF hd
    <3> QED
      BY <3>1, <3>2
  <2>3. ASSUME NEW i \in 1 .. n - 1
        PROVE  m2[t2[i]].next = (IF i = 1 THEN Null ELSE t2[i - 1]) /\ m2[t2[i]].free_slots <= MaxSlots[k]
    <3>1. m[t[i]].next = IF i = 1 THEN Null ELSE t[i - 1]
      BY <1>3, <1>8 DEF Linked, n
    <3>2. i # 1 => i - 1 \in 1 .. n - 1
      BY <1>1
    <3> QED
      BY <1>3, <1>8, <3>1, <3>2
  <2> QED
    BY <1>4, <2>2, <2>3 DEF Linked
<1>16. ASSUME NEW d \in Cores, NEW i \in Classes
       PROVE  /\ Linked(s2[d][i], h2[d][i], m2)
              /\ \A j \in 1 .. Len(s2[d][i]) : m2[s2[d][i][j]].free_slots <= MaxSlots[i]
  <2>1. CASE d = c /\ i = k
    BY <1>5, <1>15, <2>1
  <2>2. CASE d # c \/ i # k
    <3>1. s2[d][i] = s[d][i] /\ h2[d][i] = h[d][i]
      BY <1>5, <2>2
    <3>2. Linked(s[d][i], h[d][i], m) /\ \A j \in 1 .. Len(s[d][i]) : m[s[d][i][j]].free_slots <= MaxSlots[i]
      BY DEF Lists
    <3>3. \A j \in 1 .. Len(s[d][i]) : m2[s[d][i][j]] = m[s[d][i][j]]
      BY <1>7, <2>2
    <3> QED
      BY <3>1, <3>2, <3>3 DEF Linked
  <2> QED
    BY <2>1, <2>2
<1>17. Lists(s2, h2, m2, F \ {hd}, class)
  BY <1>5, <1>14, <1>16 DEF Lists
<1> QED
  BY <1>1, <1>2, <1>17 DEF Popped, hd

-----------------------------------------------------------------------------
(* A fresh page is pushed block by block. *)
LEMMA PushAfterPush ==
  ASSUME NEW h \in Heads, NEW F \in SUBSET Blocks, NEW class, NEW c \in Cores, NEW k \in Classes,
         NEW l, ListLeft(l, h, F, class, c, k), NEW b \in Blocks \ F, class[b[1]] = k
  PROVE  Pushed(push(l, k, b), h, F, class, c, k, b)
<1> DEFINE h1 == [h EXCEPT ![c][k] = l.head]
<1>1. /\ l = [head |-> l.head, memory |-> l.memory]
      /\ l.memory \in Memories /\ l.head \in Blocks \cup {Null}
  BY DEF ListLeft
<1>2. /\ h1 \in Heads /\ h1[c][k] = l.head
      /\ \A d \in Cores, i \in Classes : d # c \/ i # k => h1[d][i] = h[d][i]
  BY <1>1 DEF Heads
<1> HIDE DEF h1
<1>3. PICK s : Lists(s, h1, l.memory, F, class)
  BY <1>2 DEF ListLeft
<1>4. Pushed(push([head |-> h1[c][k], memory |-> l.memory], k, b), h1, F, class, c, k, b)
  BY <1>1, <1>2, <1>3, PushKeepsLists
<1>5. Pushed(push(l, k, b), h1, F, class, c, k, b)
  BY <1>1, <1>2, <1>4
<1> DEFINE l2 == push(l, k, b)
<1> HIDE DEF l2
<1>6. ASSUME Pushed(l2, h1, F, class, c, k, b) PROVE Pushed(l2, h, F, class, c, k, b)
  <2>1. \A h2 \in Heads : \A d \in Cores, i \in Classes : d # c \/ i # k =>
          (h2[d][i] = h[d][i] => h2[d][i] = h1[d][i])
    BY <1>2
  <2> QED
    BY <1>6, <2>1 DEF Pushed, ListLeft
<1> QED
  BY <1>5, <1>6 DEF l2

Pushes(f, n, l, k, page) ==
  f = [i \in 0 .. n |-> IF i = 0 THEN l ELSE push(f[i - 1], k, <<page, i - 1>>)]

LEMMA PushesExist ==
  ASSUME NEW n \in Nat, NEW l, NEW k, NEW page
  PROVE  \E f : Pushes(f, n, l, k, page)
<1> DEFINE Is(f, m) == f = [i \in 0 .. m |-> IF i = 0 THEN l ELSE push(f[i - 1], k, <<page, i - 1>>)]
           missing == {m \in Nat : ~ \E f : Is(f, m)}
<1>1. ASSUME missing # {} PROVE FALSE
  <2>1. missing \in SUBSET Nat
    OBVIOUS
  <2>2. PICK m \in missing : \A i \in missing : <<i, m>> \notin OpToRel(<, Nat)
    BY <1>1, <2>1, WFMin, NatLessThanWellFounded
  <2>3. m \in Nat
    BY <2>1
  <2>4. m # 0
    <3>1. PICK f : f = [i \in 0 .. 0 |-> l]
      OBVIOUS
    <3>2. f = [i \in 0 .. 0 |-> IF i = 0 THEN l ELSE push(f[i - 1], k, <<page, i - 1>>)]
      BY <3>1
    <3>3. m = 0 => \E g : Is(g, m)
      BY <3>2
    <3> HIDE DEF Is
    <3> QED
      BY <3>3
  <2>5. m - 1 \in Nat /\ <<m - 1, m>> \in OpToRel(<, Nat)
    BY <2>3, <2>4 DEF OpToRel
  <2>6. m - 1 \notin missing
    <3> HIDE DEF missing
    <3> QED
      BY <2>2, <2>5
  <2>7. PICK f : Is(f, m - 1)
    <3> HIDE DEF Is
    <3> QED
      BY <2>5, <2>6
  <2> DEFINE g == [i \in 0 .. m |-> IF i = m THEN push(f[m - 1], k, <<page, m - 1>>) ELSE f[i]]
  <2>8. \A i \in 0 .. m : i # m => i \in 0 .. m - 1
    BY <2>3
  <2>9. \A i \in 0 .. m - 1 : f[i] = IF i = 0 THEN l ELSE push(f[i - 1], k, <<page, i - 1>>)
    BY <2>7
  <2>10. \A i \in 0 .. m : i # m => g[i] = f[i]
    OBVIOUS
  <2>11. g[m] = push(f[m - 1], k, <<page, m - 1>>)
    BY <2>3
  <2>12. g = [i \in 0 .. m |-> g[i]]
    OBVIOUS
  <2> HIDE DEF g
  <2>13. ASSUME NEW i \in 0 .. m
         PROVE  g[i] = IF i = 0 THEN l ELSE push(g[i - 1], k, <<page, i - 1>>)
    <3>1. i # 0 => i - 1 \in 0 .. m /\ i - 1 # m
      BY <2>3
    <3>2. i # 0 => g[i - 1] = f[i - 1]
      BY <2>10, <3>1
    <3>3. CASE i = m
      BY <2>4, <2>11, <3>2, <3>3
    <3>4. CASE i # m
      <4>1. g[i] = f[i] /\ i \in 0 .. m - 1
        BY <2>8, <2>10, <3>4
      <4> QED
        BY <2>9, <3>2, <4>1
    <3> QED
      BY <3>3, <3>4
  <2>14. g = [i \in 0 .. m |-> IF i = 0 THEN l ELSE push(g[i - 1], k, <<page, i - 1>>)]
    BY <2>12, <2>13
  <2>15. Is(g, m)
    BY <2>14
  <2> HIDE DEF Is
  <2> QED
    BY <2>2, <2>15
<1>2. n \notin missing
  <2> HIDE DEF missing
  <2> QED
    BY <1>1
<1>3. \E f : Is(f, n)
  <2> HIDE DEF Is
  <2> QED
    BY <1>2
<1> QED
  BY <1>3 DEF Pushes

FirstBlocks(page, i) == {<<page, j>> : j \in 0 .. i - 1}

(* All blocks of the page are on the list at the end. *)
LEMMA PopulatedList ==
  ASSUME NEW h \in Heads, NEW F \in SUBSET Blocks, NEW class, NEW c \in Cores, NEW k \in Classes,
         NEW l, ListLeft(l, h, F, class, c, k), NEW page \in Pages, class[page] = k,
         \A b \in F : b[1] # page
  PROVE  /\ populated(l, k, page).head \in Blocks
         /\ ListLeft(populated(l, k, page), h, F \cup FirstBlocks(page, BlocksPerPage[k]), class, c, k)
<1> DEFINE n == BlocksPerPage[k]
           def(f) == [i \in 0 .. n |-> IF i = 0 THEN l ELSE push(f[i - 1], k, <<page, i - 1>>)]
           F2(i) == F \cup FirstBlocks(page, i)
<1>1. n \in Nat /\ n # 0 /\ \A i \in Nat : i < n => <<page, i>> \in Blocks
  BY Bounds DEF Blocks
<1>0. \E f : f = def(f)
  <2> HIDE DEF n
  <2>1. n \in Nat
    BY <1>1
  <2>2. PICK f : Pushes(f, n, l, k, page)
    BY <2>1, PushesExist
  <2> QED
    BY <2>2 DEF Pushes
<1> DEFINE pushed == CHOOSE f : f = def(f)
<1>2. populated(l, k, page) = pushed[n]
  BY DEF populated
<1>3. pushed = def(pushed)
  <2> HIDE DEF def
  <2> QED
    BY <1>0
<1> HIDE DEF pushed, n
<1>4. pushed[0] = l /\ \A i \in 0 .. n : i # 0 => pushed[i] = push(pushed[i - 1], k, <<page, i - 1>>)
  <2>1. \A i \in 0 .. n : def(pushed)[i] = IF i = 0 THEN l ELSE push(pushed[i - 1], k, <<page, i - 1>>)
    OBVIOUS
  <2>2. 0 \in 0 .. n
    BY <1>1
  <2> HIDE DEF def
  <2> QED
    BY <1>3, <2>1, <2>2
<1>5. F2(0) = F /\ \A i \in Nat : F2(i + 1) = F2(i) \cup {<<page, i>>}
  <2>1. 0 .. 0 - 1 = {} /\ \A i \in Nat : 0 .. (i + 1) - 1 = (0 .. i - 1) \cup {i}
    OBVIOUS
  <2>2. \A i \in Nat : FirstBlocks(page, i + 1) = FirstBlocks(page, i) \cup {<<page, i>>}
    BY <2>1 DEF FirstBlocks
  <2>3. FirstBlocks(page, 0) = {}
    BY <2>1 DEF FirstBlocks
  <2> QED
    BY <2>2, <2>3
<1> DEFINE Good(i) == ListLeft(pushed[i], h, F2(i), class, c, k) /\ (i # 0 => pushed[i].head \in Blocks)
           bad == {i \in Nat : i <= n /\ ~Good(i)}
<1>6. ASSUME NEW i \in Nat, i < n, Good(i) PROVE Good(i + 1)
  <2>1. <<page, i>> \in Blocks \ F2(i) /\ class[<<page, i>>[1]] = k
    <3>1. <<page, i>> \notin F
      <4>1. <<page, i>>[1] = page
        OBVIOUS
      <4> QED
        BY <4>1
    <3>2. <<page, i>> \notin FirstBlocks(page, i)
      BY DEF FirstBlocks
    <3> QED
      BY <1>1, <1>6, <3>1, <3>2
  <2>2. F2(i) \in SUBSET Blocks
    <3>1. \A j \in 0 .. i - 1 : j \in Nat /\ j < n
      BY <1>1, <1>6
    <3>2. FirstBlocks(page, i) \subseteq Blocks
      BY <1>1, <3>1 DEF FirstBlocks
    <3> QED
      BY <3>2
  <2>3. pushed[i + 1] = push(pushed[i], k, <<page, i>>)
    <3>1. i + 1 \in 0 .. n /\ i + 1 # 0 /\ (i + 1) - 1 = i
      BY <1>1, <1>6
    <3> QED
      BY <1>4, <3>1
  <2> HIDE DEF F2
  <2>4. Pushed(push(pushed[i], k, <<page, i>>), h, F2(i), class, c, k, <<page, i>>)
    BY <1>6, <2>1, <2>2, PushAfterPush
  <2> QED
    BY <1>5, <2>3, <2>4 DEF Pushed
<1>7. Good(0)
  BY <1>4, <1>5
<1> HIDE DEF Good
<1>8. ASSUME bad # {} PROVE FALSE
  <2>1. bad \in SUBSET Nat
    OBVIOUS
  <2>2. PICK m \in bad : \A i \in bad : <<i, m>> \notin OpToRel(<, Nat)
    BY <1>8, <2>1, WFMin, NatLessThanWellFounded
  <2>3. m \in Nat /\ m # 0 /\ m <= n /\ ~Good(m)
    BY <1>7, <2>2
  <2>4. m - 1 \in Nat /\ m - 1 < n /\ m - 1 <= n /\ <<m - 1, m>> \in OpToRel(<, Nat) /\ (m - 1) + 1 = m
    BY <1>1, <2>3 DEF OpToRel
  <2>5. m - 1 \notin bad
    <3> HIDE DEF bad
    <3> QED
      BY <2>2, <2>4
  <2>6. Good(m - 1)
    BY <2>4, <2>5
  <2> QED
    BY <1>6, <2>3, <2>4, <2>6
<1>9. Good(n)
  <2>1. n \notin bad
    BY <1>8
  <2>2. n <= n
    BY <1>1
  <2> QED
    BY <1>1, <2>1, <2>2
<1> QED
  BY <1>1, <1>2, <1>9 DEF Good, n

-----------------------------------------------------------------------------
(* Following next from the head finds the nodes of the sequence, from its end. *)
NodesOf(t) == [i \in 0 .. Cardinality(Blocks) |-> IF i < Len(t) THEN t[Len(t) - i] ELSE Null]

Follows(f, h, m) ==
  f = [n \in 0 .. Cardinality(Blocks) |->
         IF n = 0 THEN h ELSE IF f[n - 1] \in Blocks THEN m[f[n - 1]].next ELSE Null]

LEMMA LengthBound ==
  ASSUME NEW t \in Seq(Blocks),
         \A i, j \in 1 .. Len(t) : t[i] = t[j] => i = j
  PROVE  Len(t) <= Cardinality(Blocks) /\ Cardinality(Blocks) \in Nat
<1>1. IsFiniteSet(Blocks) /\ Cardinality(Blocks) \in Nat
  BY Bounds, FS_CardinalityType
<1>2. Len(t) \in Nat /\ t \in [1 .. Len(t) -> Blocks]
  OBVIOUS
<1>3. t \in Injection(1 .. Len(t), Blocks)
  BY <1>2 DEF Injection, IsInjective
<1>4. Cardinality(1 .. Len(t)) <= Cardinality(Blocks)
  BY <1>1, <1>3, FS_Injection
<1>5. Cardinality(1 .. Len(t)) = Len(t)
  <2>1. Cardinality(1 .. Len(t)) = IF 1 > Len(t) THEN 0 ELSE Len(t) - 1 + 1
    BY <1>2, FS_Interval
  <2> QED
    BY <1>2, <2>1
<1> QED
  BY <1>1, <1>4, <1>5

LEMMA NodesFollow ==
  ASSUME NEW t \in Seq(Blocks), NEW h, NEW m, Linked(t, h, m),
         Len(t) <= Cardinality(Blocks), Cardinality(Blocks) \in Nat
  PROVE  \A f : Follows(f, h, m) <=> f = NodesOf(t)
<1> DEFINE n == Len(t)
           N == Cardinality(Blocks)
           g == NodesOf(t)
<1>1. n \in Nat /\ \A i \in 1 .. n : t[i] \in Blocks
  OBVIOUS
<1>2. /\ g = [i \in 0 .. N |-> g[i]]
      /\ \A i \in 0 .. N : g[i] = IF i < n THEN t[n - i] ELSE Null
  BY DEF NodesOf
<1>3. /\ h = IF t = <<>> THEN Null ELSE t[n]
      /\ \A i \in 1 .. n : m[t[i]].next = IF i = 1 THEN Null ELSE t[i - 1]
      /\ t = <<>> <=> n = 0
  BY DEF Linked
<1>4. Null \notin Blocks
  BY Bounds
<1> HIDE DEF n, N, g
<1>5. n <= N /\ N \in Nat
  BY DEF n, N
<1>6. ASSUME NEW i \in 0 .. N
      PROVE  g[i] = IF i = 0 THEN h ELSE IF g[i - 1] \in Blocks THEN m[g[i - 1]].next ELSE Null
  <2>1. CASE i = 0
    BY <1>1, <1>2, <1>3, <1>5, <2>1
  <2>2. CASE i # 0
    <3>1. i - 1 \in 0 .. N /\ g[i - 1] = IF i - 1 < n THEN t[n - (i - 1)] ELSE Null
      BY <1>2, <1>5, <2>2
    <3>2. CASE i - 1 < n
      <4>1. n - (i - 1) \in 1 .. n /\ (n - (i - 1) = 1 <=> ~(i < n)) /\ (n - (i - 1)) - 1 = n - i
        BY <1>1, <1>5, <2>2, <3>2
      <4>2. m[t[n - (i - 1)]].next = IF n - (i - 1) = 1 THEN Null ELSE t[(n - (i - 1)) - 1]
        BY <1>3, <4>1
      <4>3. g[i - 1] = t[n - (i - 1)] /\ g[i - 1] \in Blocks
        BY <1>1, <3>1, <3>2, <4>1
      <4> QED
        BY <1>2, <2>2, <4>1, <4>2, <4>3
    <3>3. CASE ~(i - 1 < n)
      <4>1. ~(i < n)
        BY <1>1, <1>5, <3>3
      <4> QED
        BY <1>2, <1>4, <2>2, <3>1, <3>3, <4>1
    <3> QED
      BY <3>2, <3>3
  <2> QED
    BY <2>1, <2>2
<1>7. Follows(g, h, m)
  BY <1>2, <1>6 DEF Follows, N
<1>8. ASSUME NEW f, Follows(f, h, m) PROVE f = g
  <2>1. /\ f = [i \in 0 .. N |-> f[i]]
        /\ \A i \in 0 .. N : f[i] = IF i = 0 THEN h ELSE IF f[i - 1] \in Blocks THEN m[f[i - 1]].next ELSE Null
    BY <1>8 DEF Follows, N
  <2> DEFINE other == {i \in Nat : i <= N /\ f[i] # g[i]}
  <2>2. ASSUME other # {} PROVE FALSE
    <3>1. other \in SUBSET Nat
      OBVIOUS
    <3>2. PICK i \in other : \A j \in other : <<j, i>> \notin OpToRel(<, Nat)
      BY <2>2, <3>1, WFMin, NatLessThanWellFounded
    <3>3. i \in Nat /\ i \in 0 .. N /\ f[i] # g[i]
      <4>1. i \in other
        BY <3>2
      <4>2. i \in Nat /\ i <= N /\ f[i] # g[i]
        BY <4>1
      <4> QED
        BY <1>5, <4>2
    <3>4. i # 0
      BY <1>6, <2>1, <3>3
    <3>5. i - 1 \in Nat /\ i - 1 <= N /\ <<i - 1, i>> \in OpToRel(<, Nat)
      BY <1>5, <3>3, <3>4 DEF OpToRel
    <3>6. i - 1 \notin other
      <4> HIDE DEF other
      <4> QED
        BY <3>2, <3>5
    <3>7. f[i - 1] = g[i - 1]
      BY <3>5, <3>6
    <3> QED
      BY <1>6, <2>1, <3>3, <3>4, <3>7
  <2>3. \A i \in 0 .. N : f[i] = g[i]
    <3> TAKE i \in 0 .. N
    <3>1. i \in Nat /\ i <= N
      BY <1>5
    <3> QED
      BY <2>2, <3>1
  <2> QED
    BY <1>2, <2>1, <2>3
<1> QED
  BY <1>7, <1>8 DEF g

(* So the places of a list are those of the sequence. *)
PlaceListed(s, z) ==
  [list |-> z.list, node |-> s[z.list[1]][z.list[2]][z.spot[1]], slot |-> z.spot[2], block |-> z.block]

LEMMA ListedPlaces ==
  ASSUME NEW s \in Sequences, NEW c \in Cores, NEW k \in Classes,
         Linked(s[c][k], head[c][k], memory),
         \A i, j \in 1 .. Len(s[c][k]) : s[c][k][i] = s[c][k][j] => i = j
  PROVE  /\ Nodes(c, k)[Cardinality(Blocks)] = Null
         /\ Listed(c, k) = {PlaceListed(s, z) : z \in PlacesOf(c, k, s[c][k], memory)}
<1> DEFINE t == s[c][k]
           n == Len(t)
           N == Cardinality(Blocks)
<1>1. t \in Seq(Blocks) /\ n \in Nat /\ \A i \in 1 .. n : t[i] \in Blocks
  <2>1. t \in Seq(Blocks)
    BY DEF Sequences
  <2> QED
    BY <2>1
<1>2. n <= N /\ N \in Nat
  <2> HIDE DEF t
  <2>1. \A i, j \in 1 .. Len(t) : t[i] = t[j] => i = j
    BY DEF t
  <2> QED
    BY <1>1, <2>1, LengthBound
<1>3. Nodes(c, k) = NodesOf(t)
  <2>1. \A f : Follows(f, head[c][k], memory) <=> f = NodesOf(t)
    <3>1. Linked(t, head[c][k], memory)
      OBVIOUS
    <3> HIDE DEF t
    <3> QED
      BY <1>1, <1>2, <3>1, NodesFollow
  <2>2. Nodes(c, k) = CHOOSE f : Follows(f, head[c][k], memory)
    BY DEF Nodes, Follows
  <2> QED
    BY <2>1, <2>2
<1> HIDE DEF t, n, N
<1>4. /\ DOMAIN NodesOf(t) = 0 .. N
      /\ \A i \in 0 .. N : NodesOf(t)[i] = IF i < n THEN t[n - i] ELSE Null
  BY DEF NodesOf, n, N
<1>5. Nodes(c, k)[N] = Null
  <2>1. N \in 0 .. N /\ ~(N < n)
    BY <1>1, <1>2
  <2> QED
    BY <1>3, <1>4, <2>1
<1>6. Null \notin Blocks
  BY Bounds
<1>7. Range(Nodes(c, k)) \ {Null} = {t[i] : i \in 1 .. n}
  <2>1. \A i \in 0 .. N : i < n => n - i \in 1 .. n
    BY <1>1, <1>2
  <2>2. \A i \in 1 .. n : n - i \in 0 .. N /\ n - i < n /\ n - (n - i) = i
    BY <1>1, <1>2
  <2>3. \A i \in 1 .. n : NodesOf(t)[n - i] = t[i]
    BY <1>4, <2>2
  <2>4. Range(NodesOf(t)) = {NodesOf(t)[i] : i \in 0 .. N}
    BY <1>4 DEF Range
  <2>5. \A b \in Range(NodesOf(t)) : b # Null => \E i \in 1 .. n : b = t[i]
    BY <1>4, <2>1, <2>4
  <2>6. \A i \in 1 .. n : t[i] \in Range(NodesOf(t)) /\ t[i] # Null
    BY <1>1, <1>6, <2>2, <2>3, <2>4
  <2> QED
    BY <1>3, <2>5, <2>6
<1> DEFINE nodes == {t[i] : i \in 1 .. n}
           slots(b) == {j \in SlotIndexes : memory[b].free_slots <= j /\ j < MaxSlots[k]}
           NodeAt(b) == [list |-> <<c, k>>, node |-> b, slot |-> -1, block |-> b]
           SlotAt(b, j) == [list |-> <<c, k>>, node |-> b, slot |-> j, block |-> memory[b].slots[j]]
<1>8. nodes \subseteq Blocks
  BY <1>1
<1>9. Listed(c, k) = {NodeAt(b) : b \in nodes} \cup UNION {{SlotAt(b, j) : j \in slots(b)} : b \in nodes}
  <2>1. nodes \cap Blocks = nodes
    BY <1>8
  <2> HIDE DEF nodes
  <2>2. Range(Nodes(c, k)) \ {Null} = nodes
    BY <1>7 DEF nodes
  <2> QED
    BY <2>1, <2>2 DEF Listed
<1>10. \A e : e \in Listed(c, k) <=> \/ \E i \in 1 .. n : e = NodeAt(t[i])
                                     \/ \E i \in 1 .. n : \E j \in slots(t[i]) : e = SlotAt(t[i], j)
  BY <1>9
<1>11. \A i \in 1 .. n : \A j \in {-1} \cup SlotIndexes :
         /\ <<i, j>> \in Spots(t, memory, k) <=> j = -1 \/ j \in slots(t[i])
         /\ PlaceListed(s, [list |-> <<c, k>>, spot |-> <<i, j>>, block |-> BlockAt(t, memory, <<i, j>>)])
              = IF j = -1 THEN NodeAt(t[i]) ELSE SlotAt(t[i], j)
  <2>1. -1 \notin SlotIndexes
    BY Bounds
  <2> QED
    BY <2>1 DEF Spots, BlockAt, PlaceListed, t, n
<1>12. \A y \in Spots(t, memory, k) : \E i \in 1 .. n, j \in {-1} \cup SlotIndexes : y = <<i, j>>
  <2> DEFINE spots == (1 .. n) \X ({-1} \cup SlotIndexes)
  <2>1. Spots(t, memory, k) \subseteq spots
    BY DEF Spots, n
  <2>2. \A y \in spots : y = <<y[1], y[2]>> /\ y[1] \in 1 .. n /\ y[2] \in {-1} \cup SlotIndexes
    OBVIOUS
  <2> QED
    BY <2>1, <2>2
<1>13. ASSUME NEW z \in PlacesOf(c, k, t, memory) PROVE PlaceListed(s, z) \in Listed(c, k)
  <2>1. PICK y \in Spots(t, memory, k) :
          z = [list |-> <<c, k>>, spot |-> y, block |-> BlockAt(t, memory, y)]
    BY DEF PlacesOf
  <2>2. PICK i \in 1 .. n, j \in {-1} \cup SlotIndexes : y = <<i, j>>
    BY <1>12
  <2>3. PlaceListed(s, z) = IF j = -1 THEN NodeAt(t[i]) ELSE SlotAt(t[i], j)
    BY <1>11, <2>1, <2>2
  <2>4. j = -1 \/ j \in slots(t[i])
    BY <1>11, <2>2
  <2> HIDE DEF NodeAt, SlotAt, slots
  <2> QED
    BY <1>10, <2>3, <2>4
<1>14. ASSUME NEW e \in Listed(c, k)
       PROVE  \E z \in PlacesOf(c, k, t, memory) : e = PlaceListed(s, z)
  <2> DEFINE At(y) == [list |-> <<c, k>>, spot |-> y, block |-> BlockAt(t, memory, y)]
  <2>1. PICK i \in 1 .. n, j \in {-1} \cup SlotIndexes :
          (j = -1 \/ j \in slots(t[i])) /\ e = IF j = -1 THEN NodeAt(t[i]) ELSE SlotAt(t[i], j)
    <3>1. -1 \notin SlotIndexes /\ \A i \in 1 .. n : slots(t[i]) \subseteq SlotIndexes
      BY Bounds
    <3> HIDE DEF NodeAt, SlotAt, slots
    <3> QED
      BY <1>10, <3>1
  <2>2. <<i, j>> \in Spots(t, memory, k) /\ e = PlaceListed(s, At(<<i, j>>))
    BY <1>11, <2>1
  <2>3. At(<<i, j>>) \in PlacesOf(c, k, t, memory)
    BY <2>2 DEF PlacesOf
  <2> HIDE DEF At
  <2> QED
    BY <2>2, <2>3
<1> QED
  BY <1>5, <1>13, <1>14 DEF t, N

ListsRight ==
  /\ \A c \in Cores, k \in Classes : Nodes(c, k)[Cardinality(Blocks)] = Null
  /\ \A e \in Everywhere : e.block \in HeapBlocks /\ page_class[e.block[1]] = e.list[2]
  /\ in_use \subseteq HeapBlocks
  /\ \A b \in HeapBlocks :
       Cardinality({e \in Everywhere : e.block = b}) = IF b \in in_use THEN 0 ELSE 1

LEMMA ListsAreRight ==
  ASSUME in_use \subseteq HeapBlocks,
         NEW s, Lists(s, head, memory, HeapBlocks \ in_use, page_class)
  PROVE  ListsRight
<1> DEFINE F == HeapBlocks \ in_use
           P == Places(s, memory)
<1>1. s \in Sequences /\ OneHome(P, F, page_class)
  BY DEF Lists
<1>2. ASSUME NEW c \in Cores, NEW k \in Classes
      PROVE  /\ Nodes(c, k)[Cardinality(Blocks)] = Null
             /\ Listed(c, k) = {PlaceListed(s, z) : z \in PlacesOf(c, k, s[c][k], memory)}
  <2>1. Linked(s[c][k], head[c][k], memory)
    BY DEF Lists
  <2>2. \A i, j \in 1 .. Len(s[c][k]) : s[c][k][i] = s[c][k][j] => i = j
    <3>1. \A d, e \in Cores, i, j \in Classes :
            \A x \in 1 .. Len(s[d][i]), y \in 1 .. Len(s[e][j]) :
              s[d][i][x] = s[e][j][y] => d = e /\ i = j /\ x = y
      BY NodesApart
    <3> QED
      BY <3>1
  <2> QED
    BY <1>1, <2>1, <2>2, ListedPlaces
<1>3. \A z : z \in P <=> \E c \in Cores, k \in Classes : z \in PlacesOf(c, k, s[c][k], memory)
  BY DEF Places
<1>4. \A e : e \in Everywhere <=> \E c \in Cores, k \in Classes : e \in Listed(c, k)
  BY DEF Everywhere
<1> HIDE DEF P
<1>5. \A e : e \in Everywhere <=> \E z \in P : e = PlaceListed(s, z)
  <2>1. ASSUME NEW e \in Everywhere PROVE \E z \in P : e = PlaceListed(s, z)
    <3>1. PICK c \in Cores, k \in Classes : e \in Listed(c, k)
      BY <1>4
    <3>2. PICK z \in PlacesOf(c, k, s[c][k], memory) : e = PlaceListed(s, z)
      BY <1>2, <3>1
    <3> QED
      BY <1>3, <3>2
  <2>2. ASSUME NEW z \in P PROVE PlaceListed(s, z) \in Everywhere
    <3>1. PICK c \in Cores, k \in Classes : z \in PlacesOf(c, k, s[c][k], memory)
      BY <1>3
    <3>2. PlaceListed(s, z) \in Listed(c, k)
      BY <1>2, <3>1
    <3> QED
      BY <1>4, <3>2
  <2> QED
    BY <2>1, <2>2
<1>6. \A z : PlaceListed(s, z).block = z.block /\ PlaceListed(s, z).list = z.list
  BY DEF PlaceListed
<1>7. \A e \in Everywhere : e.block \in F /\ page_class[e.block[1]] = e.list[2]
  <2> TAKE e \in Everywhere
  <2>1. PICK z \in P : e = PlaceListed(s, z)
    BY <1>5
  <2>2. z.block \in F /\ page_class[z.block[1]] = z.list[2]
    BY <1>1 DEF OneHome
  <2>3. e.block = z.block /\ e.list = z.list
    BY <1>6, <2>1
  <2> HIDE DEF F
  <2> QED
    BY <2>2, <2>3
<1>8. ASSUME NEW b \in HeapBlocks
      PROVE  Cardinality({e \in Everywhere : e.block = b}) = IF b \in in_use THEN 0 ELSE 1
  <2>1. CASE b \in in_use
    <3>1. {e \in Everywhere : e.block = b} = {}
      BY <1>7, <2>1
    <3> QED
      BY <2>1, <3>1, FS_EmptySet
  <2>2. CASE b \notin in_use
    <3>1. PICK z \in P : z.block = b
      BY <1>1, <1>8, <2>2 DEF OneHome
    <3>2. \A y \in P : y.block = b => y = z
      BY <1>1, <3>1 DEF OneHome
    <3>3. {e \in Everywhere : e.block = b} = {PlaceListed(s, z)}
      <4>1. PlaceListed(s, z) \in Everywhere /\ PlaceListed(s, z).block = b
        BY <1>5, <1>6, <3>1
      <4>2. ASSUME NEW e \in Everywhere, e.block = b PROVE e = PlaceListed(s, z)
        <5>1. PICK y \in P : e = PlaceListed(s, y)
          BY <1>5
        <5>2. y.block = b
          BY <1>6, <4>2, <5>1
        <5> QED
          BY <3>2, <5>1, <5>2
      <4> QED
        BY <4>1, <4>2
    <3> QED
      BY <2>2, <3>3, FS_Singleton
  <2> QED
    BY <2>1, <2>2
<1> QED
  BY <1>2, <1>7, <1>8 DEF ListsRight

-----------------------------------------------------------------------------
(* What else is always so: the types that the frames did not need, and that regions are *)
(* made of frames of the free memory,                                                   *)
BlockTypes ==
  /\ pc \in [Cores -> Points]
  /\ NEXT_HEAP_ADDRESS \in 1 .. MaxPages + 1
  /\ page_frames \in [Pages -> SUBSET Frames]
  /\ {page_table_lock, free_memory_lock, regions_lock} \subseteq Cores \cup {NoCore}
  /\ capacity \in Nat /\ Len(regions) <= capacity

FramesKnown ==
  /\ \A c \in Cores : FramesOf(call[c].region) \subseteq Frames
  /\ \A r \in live_regions : FramesOf(r) \subseteq Frames
  /\ \A i \in DOMAIN regions : FramesOf(regions[i]) \subseteq Frames

LEMMA PointsKept ==
  ASSUME pc \in [Cores -> Points], NEW c \in Cores, Lock(c) \/ Step(c)
  PROVE  pc' \in [Cores -> Points]
<1>1. \A from : \A to \in Points : Goto(c, from, to) => pc' \in [Cores -> Points]
  BY DEF Goto
<1>2. \A b : Grant(c, b) => pc' \in [Cores -> Points]
  BY DEF Grant, Points
<1>3. (\E b \in in_use : dealloc(c, b)) => pc' \in [Cores -> Points]
  BY DEF dealloc
<1> USE DEF Points
<1>4. CASE Lock(c) \/ Expect(c) \/ MmioStep(c) \/ TableStep(c)
  BY <1>4, <1>1 DEF Lock, Expect, MmioStep, TableStep, OutOfMemory, AddressOverflow, expect_failed, map_mmio,
     mmio_reserve, mmio_mapped, lock_page_table, lock_free_memory, lock_for_table, take_table, lock_regions
<1>5. CASE AllocStep(c)
  BY <1>5, <1>1, <1>2, <1>3 DEF AllocStep, alloc, pop_populate, pop_whole_page, pop_node, pop_slot,
     pop_reserve, pop_map
<1>6. CASE RegionStep(c)
  BY <1>6, <1>1 DEF RegionStep, region_new, allocate_again, allocate_fresh, take_run, region_reserve,
     map_region, region_drop, free, grow, grown
<1> QED
  BY <1>4, <1>5, <1>6 DEF Step

LEMMA LocksKept ==
  ASSUME {page_table_lock, free_memory_lock, regions_lock} \subseteq Cores \cup {NoCore},
         NEW c \in Cores, Lock(c) \/ Step(c)
  PROVE  {page_table_lock, free_memory_lock, regions_lock}' \subseteq Cores \cup {NoCore}
<1> USE DEF lockVars
<1>1. CASE Lock(c) \/ Expect(c) \/ MmioStep(c) \/ TableStep(c)
  BY <1>1 DEF Lock, Expect, MmioStep, TableStep, OutOfMemory, AddressOverflow, expect_failed, map_mmio,
     mmio_reserve, mmio_mapped, lock_page_table, lock_free_memory, lock_for_table, take_table, lock_regions
<1>2. CASE AllocStep(c)
  <2>1. /\ \A k : alloc(c, k) => UNCHANGED lockVars
        /\ \A b : dealloc(c, b) => UNCHANGED lockVars
    BY DEF alloc, dealloc
  <2>2. pop_reserve(c) \/ pop_node(c) \/ pop_slot(c) => UNCHANGED lockVars
    BY DEF pop_reserve, pop_node, pop_slot
  <2>3. pop_populate(c) \/ pop_whole_page(c) => page_table_lock' = NoCore /\ UNCHANGED <<free_memory_lock, regions_lock>>
    BY DEF pop_populate, pop_whole_page
  <2>4. pop_map(c) => free_memory_lock' = NoCore /\ UNCHANGED <<page_table_lock, regions_lock>>
    BY DEF pop_map
  <2> QED
    BY <1>2, <2>1, <2>2, <2>3, <2>4 DEF AllocStep
<1>3. CASE RegionStep(c)
  BY <1>3 DEF RegionStep, region_new, allocate_again, allocate_fresh, take_run, region_reserve,
     map_region, region_drop, free, grow, grown
<1> QED
  BY <1>1, <1>2, <1>3 DEF Step

LEMMA PageTypesKept ==
  ASSUME FrameTypes, BlockTypes, FramesKnown, NEW c \in Cores, Lock(c) \/ Step(c)
  PROVE  NEXT_HEAP_ADDRESS' \in 1 .. MaxPages + 1 /\ page_frames' \in [Pages -> SUBSET Frames]
<1> USE DEF pageVars
<1>0. /\ NEXT_HEAP_ADDRESS \in 1 .. MaxPages + 1 /\ page_frames \in [Pages -> SUBSET Frames]
      /\ free_memory \subseteq Frames /\ FramesOf(call[c].region) \subseteq Frames /\ MaxPages \in Nat
  BY HeapAssumption DEF BlockTypes, FrameTypes, FramesKnown
<1>1. \A what : reserve_virt_addr(what) => NEXT_HEAP_ADDRESS' \in 1 .. MaxPages + 1
  BY <1>0 DEF reserve_virt_addr, Pages
<1>2. CASE Lock(c) \/ Expect(c)
  BY <1>0, <1>2 DEF Lock, Expect, OutOfMemory, AddressOverflow, expect_failed, lock_page_table,
     lock_free_memory, lock_for_table, lock_regions
<1>3. CASE pop_reserve(c) \/ region_reserve(c) \/ mmio_reserve(c)
  BY <1>0, <1>1, <1>3 DEF pop_reserve, region_reserve, mmio_reserve
<1>4. CASE pop_map(c)
  <2>1. PICK f \in free_memory : page_frames' = [page_frames EXCEPT ![call[c].block[1]] = {f}]
    BY <1>4 DEF pop_map
  <2>2. {f} \in SUBSET Frames
    BY <1>0
  <2>3. page_frames' \in [Pages -> SUBSET Frames]
    BY <1>0, <2>1, <2>2
  <2> QED
    BY <1>0, <1>4, <2>3 DEF pop_map
<1>5. CASE map_region(c)
  BY <1>0, <1>5 DEF map_region
<1>6. CASE AllocStep(c) /\ ~pop_reserve(c) /\ ~pop_map(c)
  BY <1>0, <1>6 DEF AllocStep, alloc, dealloc, pop_populate, pop_whole_page, pop_node, pop_slot
<1>7. CASE RegionStep(c) /\ ~region_reserve(c) /\ ~map_region(c)
  <2>1. \A region : region_drop(c, region) => UNCHANGED <<NEXT_HEAP_ADDRESS, page_frames>>
    BY DEF region_drop
  <2> QED
    BY <1>0, <1>7, <2>1 DEF RegionStep, region_new, allocate_again, allocate_fresh, take_run, free, grow, grown
<1>8. CASE map_mmio(c) \/ mmio_mapped(c) \/ TableStep(c)
  BY <1>0, <1>8 DEF map_mmio, mmio_mapped, TableStep, take_table
<1> QED
  BY <1>2, <1>3, <1>4, <1>5, <1>6, <1>7, <1>8 DEF Step, MmioStep

(* The Vec is never longer than its buffer has room for. *)
LEMMA CapacityKept ==
  ASSUME FrameTypes, BlockTypes, NEW c \in Cores, Lock(c) \/ Step(c)
  PROVE  capacity' \in Nat /\ Len(regions') <= capacity'
<1> USE DEF regionVars
<1>0. /\ regions \in Seq(RegionType) /\ Len(regions) \in Nat
      /\ capacity \in Nat /\ Len(regions) <= capacity
  BY DEF FrameTypes, BlockTypes
<1>1. CASE allocate_again(c)
  <2>1. regions # <<>> /\ regions' = SubSeq(regions, 1, Len(regions) - 1) /\ capacity' = capacity
    BY <1>1 DEF allocate_again, Front
  <2>2. Len(regions') = Len(regions) - 1
    <3>1. Len(regions) # 0
      BY <1>0, <2>1
    <3>2. regions' = [i \in 1 .. Len(regions) - 1 |-> regions[i]]
      BY <1>0, <2>1, <3>1
    <3> QED
      BY <1>0, <3>1, <3>2
  <2> QED
    BY <1>0, <2>1, <2>2
<1>2. CASE free(c)
  <2>1. Len(regions) < capacity /\ regions' = Append(regions, call[c].region) /\ capacity' = capacity
    BY <1>2 DEF free
  <2>2. Len(regions') = Len(regions) + 1
    BY <1>0, <2>1
  <2> QED
    BY <1>0, <2>1, <2>2
<1>3. CASE grown(c)
  BY <1>0, <1>3 DEF grown
<1>4. CASE Lock(c) \/ Expect(c) \/ MmioStep(c) \/ TableStep(c)
  BY <1>0, <1>4 DEF Lock, Expect, MmioStep, TableStep, OutOfMemory, AddressOverflow, expect_failed, map_mmio,
     mmio_reserve, mmio_mapped, lock_page_table, lock_free_memory, lock_for_table, take_table, lock_regions
<1>5. CASE AllocStep(c)
  BY <1>0, <1>5 DEF AllocStep, alloc, dealloc, pop_populate, pop_whole_page, pop_node, pop_slot,
     pop_reserve, pop_map
<1>6. CASE RegionStep(c) /\ ~allocate_again(c) /\ ~free(c) /\ ~grown(c)
  <2>1. \A region : region_drop(c, region) => UNCHANGED <<regions, capacity>>
    BY DEF region_drop
  <2> QED
    BY <1>0, <1>6, <2>1 DEF RegionStep, region_new, allocate_fresh, take_run, region_reserve, map_region, grow
<1> QED
  BY <1>1, <1>2, <1>3, <1>4, <1>5, <1>6 DEF Step

LEMMA BlockTypesKept ==
  ASSUME FrameTypes, BlockTypes, FramesKnown, NEW c \in Cores, Lock(c) \/ Step(c)
  PROVE  BlockTypes'
<1>1. pc' \in [Cores -> Points]
  BY PointsKept DEF BlockTypes
<1>2. {page_table_lock, free_memory_lock, regions_lock}' \subseteq Cores \cup {NoCore}
  BY LocksKept DEF BlockTypes
<1> QED
  BY <1>1, <1>2, PageTypesKept, CapacityKept DEF BlockTypes

LEMMA FramesOfMoves ==
  ASSUME FrameTypes, FramesKnown, RegionsInHand, NEW c \in Cores
  PROVE  /\ FramesOf(NoRegion) \subseteq Frames
         /\ \A g \in Runs : FramesOf([page |-> call[c].region.page, frame |-> g]) \subseteq Frames
         /\ region_reserve(c) =>
              FramesOf([page |-> NEXT_HEAP_ADDRESS, frame |-> call[c].region.frame]) \subseteq Frames
<1>1. FramesOf(NoRegion) \subseteq Frames
  BY DEF FramesOf
<1>2. \A g \in Frames : \A p : [page |-> p, frame |-> g] # NoRegion
  <2>1. \A g \in Frames : \A p : [page |-> p, frame |-> g].frame = g /\ g # -1
    BY SizesAreNumbers
  <2>2. NoRegion.frame = -1
    BY DEF NoRegion
  <2> QED
    BY <2>1, <2>2
<1>3. \A g \in Frames : \A p : FramesOf([page |-> p, frame |-> g]) = g .. g + RegionSize - 1
  BY <1>2 DEF FramesOf
<1>4. \A g \in Runs : g \in Frames /\ g .. g + RegionSize - 1 \subseteq Frames
  BY DEF Runs, FrameTypes
<1>5. ASSUME region_reserve(c)
      PROVE  FramesOf([page |-> NEXT_HEAP_ADDRESS, frame |-> call[c].region.frame]) \subseteq Frames
  <2> DEFINE g == call[c].region.frame
  <2>1. g \in Frames
    BY <1>5 DEF region_reserve, Goto, RegionsInHand
  <2>2. call[c].region \in RegionType
    BY DEF FrameTypes
  <2>3. call[c].region = [page |-> call[c].region.page, frame |-> g]
    BY <2>2 DEF RegionType
  <2>4. FramesOf(call[c].region) = g .. g + RegionSize - 1
    BY <1>3, <2>1, <2>3
  <2>5. FramesOf(call[c].region) \subseteq Frames
    BY DEF FramesKnown
  <2> QED
    BY <1>3, <2>1, <2>4, <2>5
<1> QED
  BY <1>1, <1>3, <1>4, <1>5

LEMMA CallFramesKept ==
  ASSUME FrameTypes, FramesKnown, RegionsInHand, NEW c \in Cores, Lock(c) \/ Step(c)
  PROVE  \A d \in Cores : FramesOf(call'[d].region) \subseteq Frames
<1> USE DEF regionVars
<1>0. \A d \in Cores : FramesOf(call[d].region) \subseteq Frames
  BY DEF FramesKnown
<1>1. \A d \in Cores \ {c} : call'[d] = call[d]
  BY OthersStayAndOwnKept DEF OthersStay
<1>2. call = [d \in Cores |-> call[d]]
  BY DEF FrameTypes
<1>3. \A k, b, r : CallBecomes(c, k, b, r) => call'[c].region = r
  <2> SUFFICES ASSUME NEW k, NEW b, NEW r, CallBecomes(c, k, b, r) PROVE call'[c].region = r
    OBVIOUS
  <2>1. call'[c] = [class |-> k, block |-> b, region |-> r]
    BY <1>2 DEF CallBecomes
  <2> QED
    BY <2>1
<1>4. SUFFICES FramesOf(call'[c].region) \subseteq Frames
  BY <1>0, <1>1
<1>5. Forgets(c) => FramesOf(call'[c].region) \subseteq Frames
  BY <1>3, FramesOfMoves DEF Forgets
<1>6. \A b : Grant(c, b) => FramesOf(call'[c].region) \subseteq Frames
  BY <1>0, <1>3, <1>5, CallsMove
<1>7. CASE Lock(c) \/ Expect(c) \/ MmioStep(c) \/ TableStep(c)
  <2>1. CASE mmio_reserve(c)
    <3>1. CallBecomes(c, call[c].class, <<NEXT_HEAP_ADDRESS, 0>>, call[c].region)
      BY <2>1, CallsMove
    <3>2. call'[c].region = call[c].region
      BY <3>1, <1>3
    <3> QED
      BY <3>2, <1>0
  <2>2. CASE mmio_mapped(c)
    BY <2>2, CallsMove, <1>5
  <2> QED
    BY <1>0, <1>7, <2>1, <2>2 DEF Lock, Expect, MmioStep, TableStep, OutOfMemory, AddressOverflow, expect_failed,
       map_mmio, lock_page_table, lock_free_memory, lock_for_table, take_table, lock_regions
<1>8. CASE AllocStep(c)
  <2>1. ASSUME NEW k \in Classes, alloc(c, k) PROVE FramesOf(call'[c].region) \subseteq Frames
    <3>1. CallBecomes(c, k, Null, NoRegion)
      BY <2>1, CallsMove
    <3>2. call'[c].region = NoRegion
      BY <3>1, <1>3
    <3> QED
      BY <3>2, FramesOfMoves
  <2>2. CASE pop_reserve(c)
    <3>1. CallBecomes(c, call[c].class, <<NEXT_HEAP_ADDRESS, 0>>, call[c].region)
      BY <2>2, CallsMove
    <3>2. call'[c].region = call[c].region
      BY <3>1, <1>3
    <3> QED
      BY <3>2, <1>0
  <2>3. CASE pop_map(c) \/ pop_populate(c) \/ \E b \in in_use : dealloc(c, b)
    BY <2>3, <1>0 DEF pop_map, pop_populate, dealloc
  <2>4. CASE pop_whole_page(c) \/ pop_node(c) \/ pop_slot(c)
    BY <2>4, <1>6 DEF pop_whole_page, pop_node, pop_slot
  <2> QED
    BY <1>8, <2>1, <2>2, <2>3, <2>4 DEF AllocStep
<1>9. CASE RegionStep(c)
  <2>1. CASE region_new(c) \/ allocate_again(c) \/ allocate_fresh(c) \/ grow(c)
    BY <2>1, <1>0 DEF region_new, allocate_again, allocate_fresh, grow
  <2>2. CASE take_run(c)
    <3>1. PICK f \in Runs : call' = [call EXCEPT ![c].region.frame = f]
      BY <2>2 DEF take_run
    <3>2. CallBecomes(c, call[c].class, call[c].block, [page |-> call[c].region.page, frame |-> f])
      BY <3>1, CallsMove
    <3>3. call'[c].region = [page |-> call[c].region.page, frame |-> f]
      BY <3>2, <1>3
    <3> QED
      BY <3>3, FramesOfMoves
  <2>3. CASE region_reserve(c)
    <3>1. CallBecomes(c, call[c].class, call[c].block,
                      [page |-> NEXT_HEAP_ADDRESS, frame |-> call[c].region.frame])
      BY <2>3, CallsMove
    <3>2. call'[c].region = [page |-> NEXT_HEAP_ADDRESS, frame |-> call[c].region.frame]
      BY <3>1, <1>3
    <3> QED
      BY <2>3, <3>2, FramesOfMoves
  <2>4. CASE map_region(c) \/ free(c)
    BY <2>4, CallsMove, <1>5
  <2>5. ASSUME NEW region \in live_regions, region_drop(c, region)
        PROVE  FramesOf(call'[c].region) \subseteq Frames
    <3>1. CallBecomes(c, VecClass, Null, region)
      BY <2>5, CallsMove
    <3>2. call'[c].region = region
      BY <3>1, <1>3
    <3> QED
      BY <3>2 DEF FramesKnown
  <2>6. CASE grown(c)
    <3>1. CallBecomes(c, VecClass, Null, call[c].region)
      BY <2>6, CallsMove
    <3>2. call'[c].region = call[c].region
      BY <3>1, <1>3
    <3> QED
      BY <3>2, <1>0
  <2> QED
    BY <1>9, <2>1, <2>2, <2>3, <2>4, <2>5, <2>6 DEF RegionStep
<1> QED
  BY <1>7, <1>8, <1>9 DEF Step

LEMMA FramesKnownKept ==
  ASSUME FrameTypes, FramesKnown, RegionsInHand, NEW c \in Cores, Lock(c) \/ Step(c)
  PROVE  FramesKnown'
<1> USE DEF regionVars
<1> DEFINE Good(R, L) == /\ \A r \in L : FramesOf(r) \subseteq Frames
                         /\ \A i \in DOMAIN R : FramesOf(R[i]) \subseteq Frames
<1>0. Good(regions, live_regions) /\ FramesOf(call[c].region) \subseteq Frames /\ regions \in Seq(RegionType)
  BY DEF FramesKnown, FrameTypes
<1>1. SUFFICES Good(regions', live_regions')
  <2>1. \A d \in Cores : FramesOf(call'[d].region) \subseteq Frames
    BY CallFramesKept
  <2> QED
    BY <2>1 DEF FramesKnown, FramesOf
<1>2. CASE allocate_again(c)
  <2>1. /\ regions # <<>> /\ regions' = SubSeq(regions, 1, Len(regions) - 1)
        /\ live_regions' = live_regions \cup {regions[Len(regions)]}
    BY <1>2 DEF allocate_again, Front, Last
  <2>2. Len(regions) # 0
    BY <1>0, <2>1
  <2>3. regions' = [i \in 1 .. Len(regions) - 1 |-> regions[i]]
    BY <1>0, <2>1, <2>2
  <2> QED
    BY <1>0, <2>1, <2>2, <2>3
<1>3. CASE map_region(c)
  BY <1>0, <1>3 DEF map_region
<1>4. ASSUME NEW region \in live_regions, region_drop(c, region) PROVE Good(regions', live_regions')
  BY <1>0, <1>4 DEF region_drop
<1>5. CASE free(c)
  <2>1. regions' = Append(regions, call[c].region) /\ live_regions' = live_regions
    BY <1>5 DEF free
  <2>2. /\ \A i \in DOMAIN regions' : i \in DOMAIN regions \/ i = Len(regions) + 1
        /\ \A i \in DOMAIN regions : regions'[i] = regions[i]
        /\ regions'[Len(regions) + 1] = call[c].region
    BY <1>0, <2>1
  <2> QED
    BY <1>0, <2>1, <2>2
<1> HIDE DEF Good
<1>6. CASE UNCHANGED <<regions, live_regions>>
  BY <1>0, <1>6
<1>7. CASE Lock(c) \/ Expect(c) \/ MmioStep(c) \/ TableStep(c)
  BY <1>6, <1>7 DEF Lock, Expect, MmioStep, TableStep, OutOfMemory, AddressOverflow, expect_failed, map_mmio,
     mmio_reserve, mmio_mapped, lock_page_table, lock_free_memory, lock_for_table, take_table, lock_regions
<1>8. CASE AllocStep(c)
  BY <1>6, <1>8 DEF AllocStep, alloc, dealloc, pop_populate, pop_whole_page, pop_node, pop_slot,
     pop_reserve, pop_map
<1>9. CASE region_new(c) \/ allocate_fresh(c) \/ take_run(c) \/ region_reserve(c) \/ grow(c) \/ grown(c)
  BY <1>6, <1>9 DEF region_new, allocate_fresh, take_run, region_reserve, grow, grown
<1> QED
  BY <1>2, <1>3, <1>4, <1>5, <1>7, <1>8, <1>9 DEF Step, RegionStep

-----------------------------------------------------------------------------
(* The free blocks are those on the lists: what pop, push and a fresh page do to them. *)
FreeBlocks == HeapBlocks \ in_use

ListInv ==
  /\ memory \in Memories /\ head \in Heads /\ in_use \subseteq HeapBlocks
  /\ \E s : Lists(s, head, memory, FreeBlocks, page_class)

(* The head of one list changes. *)
HeadSet(h, h2, c, k, x) ==
  h2 \in Heads /\ h2[c][k] = x /\ \A d \in Cores, i \in Classes : d # c \/ i # k => h2[d][i] = h[d][i]

LEMMA HeadMoves ==
  ASSUME NEW h \in Heads, NEW c \in Cores, NEW k \in Classes, NEW x \in Blocks \cup {Null}
  PROVE  HeadSet(h, [h EXCEPT ![c][k] = x], c, k, x)
  BY DEF Heads, HeadSet

LEMMA ListAsItIs ==
  ASSUME ListInv, NEW c \in Cores, NEW k \in Classes
  PROVE  /\ ListLeft(free_list(c, k), head, FreeBlocks, page_class, c, k)
         /\ free_list(c, k).head = head[c][k] /\ free_list(c, k).memory = memory
<1> DEFINE l == free_list(c, k)
<1>1. l = [head |-> head[c][k], memory |-> memory]
  BY DEF free_list
<1> HIDE DEF l
<1>2. l.head = head[c][k] /\ l.memory = memory /\ l = [head |-> l.head, memory |-> l.memory]
  BY <1>1
<1>3. memory \in Memories /\ head \in Heads /\ head[c][k] \in Blocks \cup {Null}
  BY DEF ListInv, Heads
<1>4. ASSUME NEW h2 \in Heads, h2[c][k] = l.head,
             \A d \in Cores, i \in Classes : d # c \/ i # k => h2[d][i] = head[d][i]
      PROVE  \E s : Lists(s, h2, memory, FreeBlocks, page_class)
  <2>1. \A d \in Cores, i \in Classes : h2[d][i] = head[d][i]
    BY <1>2, <1>4
  <2>2. \A d \in Cores : h2[d] = head[d]
    BY <1>3, <2>1 DEF Heads
  <2>3. h2 = head
    BY <1>3, <2>2 DEF Heads
  <2> QED
    BY <2>3 DEF ListInv
<1> QED
  BY <1>2, <1>3, <1>4 DEF ListLeft, l

LEMMA FreeAreBlocks == FreeBlocks \in SUBSET Blocks
  BY DEF FreeBlocks, HeapBlocks

LEMMA NodePops ==
  ASSUME ListInv, FrameTypes, NEW c \in Cores, pop_node(c)
  PROVE  /\ head' \in Heads
         /\ Popped(head', memory', FreeBlocks, page_class, call[c].class, head[c][call[c].class])
<1> DEFINE k == call[c].class
           h == head[c][k]
<1>1. /\ h # Null /\ (use_stack(k) => memory[h].free_slots = MaxSlots[k])
      /\ head' = [head EXCEPT ![c][k] = memory[h].next]
      /\ memory' = [memory EXCEPT ![h] = UserData]
  BY DEF pop_node
<1>2. k \in Classes /\ head \in Heads /\ memory \in Memories
  BY DEF FrameTypes, ListInv
<1>3. PICK s : Lists(s, head, memory, FreeBlocks, page_class)
  BY DEF ListInv
<1>4. IsHead(s, head, memory, FreeBlocks, page_class, c, k)
  BY <1>1, <1>2, <1>3, HeadNode, FreeAreBlocks
<1>5. /\ memory[h].next \in Blocks \cup {Null}
      /\ memory[h].free_slots \in Nat /\ memory[h].free_slots <= MaxSlots[k]
  BY <1>4 DEF IsHead
<1>6. memory[h].free_slots = MaxSlots[k]
  <2>1. MaxSlots[k] \in Nat
    BY <1>2, Bounds
  <2> QED
    BY <1>1, <1>5, <2>1 DEF use_stack
<1>7. HeadSet(head, head', c, k, memory[h].next)
  BY <1>1, <1>2, <1>5, HeadMoves
<1>8. /\ head' \in Heads /\ head'[c][k] = memory[h].next
      /\ \A d \in Cores, i \in Classes : d # c \/ i # k => head'[d][i] = head[d][i]
  BY <1>7 DEF HeadSet
<1>9. Popped(head', memory', FreeBlocks, page_class, k, h)
  BY <1>1, <1>2, <1>3, <1>6, <1>8, PopNode, FreeAreBlocks
<1> QED
  BY <1>8, <1>9

LEMMA SlotPops ==
  ASSUME ListInv, FrameTypes, NEW c \in Cores, pop_slot(c)
  PROVE  LET h == head[c][call[c].class]
         IN  Popped(head, memory', FreeBlocks, page_class, call[c].class,
                    memory[h].slots[memory[h].free_slots])
<1> DEFINE k == call[c].class
           h == head[c][k]
           slot == memory[h].free_slots
<1>1. /\ h # Null /\ slot # MaxSlots[k]
      /\ memory' = [memory EXCEPT ![h].free_slots = slot + 1, ![h].slots[slot] = Garbage]
  BY DEF pop_slot
<1>2. k \in Classes /\ head \in Heads /\ memory \in Memories
  BY DEF FrameTypes, ListInv
<1>3. PICK s : Lists(s, head, memory, FreeBlocks, page_class)
  BY DEF ListInv
<1>4. Popped(head, memory', FreeBlocks, page_class, k, memory[h].slots[slot])
  BY <1>1, <1>2, <1>3, PopSlot, FreeAreBlocks
<1> QED
  BY <1>4

(* push, on the list of a block that was in use. *)
LEMMA PushedBack ==
  ASSUME ListInv, NEW c \in Cores, NEW b \in in_use, NEW k \in Classes, page_class[b[1]] = k,
         SetFreeList(c, k, push(free_list(c, k), k, b))
  PROVE  /\ memory' \in Memories /\ head' \in Heads /\ head'[c][k] # Null
         /\ \A d \in Cores \ {c} : head'[d] = head[d]
         /\ \E s : Lists(s, head', memory', FreeBlocks \cup {b}, page_class)
<1> DEFINE l == push(free_list(c, k), k, b)
<1>1. head' = [head EXCEPT ![c][k] = l.head] /\ memory' = l.memory
  BY DEF SetFreeList
<1>2. head \in Heads /\ b \in Blocks \ FreeBlocks
  BY DEF ListInv, FreeBlocks, HeapBlocks
<1>3. ListLeft(free_list(c, k), head, FreeBlocks, page_class, c, k)
  BY ListAsItIs
<1>4. Pushed(l, head, FreeBlocks, page_class, c, k, b)
  BY <1>2, <1>3, PushAfterPush, FreeAreBlocks
<1> HIDE DEF l
<1>5. l.head \in Blocks /\ ListLeft(l, head, FreeBlocks \cup {b}, page_class, c, k)
  BY <1>4 DEF Pushed
<1>6. HeadSet(head, head', c, k, l.head)
  BY <1>1, <1>2, <1>5, HeadMoves
<1>7. /\ head' \in Heads /\ head'[c][k] = l.head
      /\ \A d \in Cores, i \in Classes : d # c \/ i # k => head'[d][i] = head[d][i]
  BY <1>6 DEF HeadSet
<1>8. /\ l.memory \in Memories
      /\ \E s : Lists(s, head', l.memory, FreeBlocks \cup {b}, page_class)
  BY <1>5, <1>7 DEF ListLeft
<1>9. \A d \in Cores \ {c} : head'[d] = head[d]
  BY <1>1, <1>2 DEF Heads
<1> QED
  BY <1>1, <1>5, <1>7, <1>8, <1>9, Bounds

LEMMA PagePopulates ==
  ASSUME ListInv, NEW c \in Cores, NEW k \in Classes, NEW page \in Pages, page_class[page] = k,
         \A b \in FreeBlocks : b[1] # page,
         SetFreeList(c, k, populated(free_list(c, k), k, page))
  PROVE  /\ memory' \in Memories /\ head' \in Heads /\ head'[c][k] # Null
         /\ \A d \in Cores \ {c} : head'[d] = head[d]
         /\ \E s : Lists(s, head', memory', FreeBlocks \cup FirstBlocks(page, BlocksPerPage[k]), page_class)
<1> DEFINE l == populated(free_list(c, k), k, page)
           F2 == FreeBlocks \cup FirstBlocks(page, BlocksPerPage[k])
<1>1. head' = [head EXCEPT ![c][k] = l.head] /\ memory' = l.memory
  BY DEF SetFreeList
<1>2. head \in Heads
  BY DEF ListInv
<1>3. ListLeft(free_list(c, k), head, FreeBlocks, page_class, c, k)
  BY ListAsItIs
<1>4. l.head \in Blocks /\ ListLeft(l, head, F2, page_class, c, k)
  BY <1>2, <1>3, PopulatedList, FreeAreBlocks
<1> HIDE DEF l, F2
<1>5. HeadSet(head, head', c, k, l.head)
  BY <1>1, <1>2, <1>4, HeadMoves
<1>6. /\ head' \in Heads /\ head'[c][k] = l.head
      /\ \A d \in Cores, i \in Classes : d # c \/ i # k => head'[d][i] = head[d][i]
  BY <1>5 DEF HeadSet
<1>7. l.memory \in Memories /\ \E s : Lists(s, head', l.memory, F2, page_class)
  BY <1>4, <1>6 DEF ListLeft
<1>8. \A d \in Cores \ {c} : head'[d] = head[d]
  BY <1>1, <1>2 DEF Heads
<1> QED
  BY <1>1, <1>4, <1>6, <1>7, <1>8, Bounds DEF F2

-----------------------------------------------------------------------------
(* A core that populates a list has a page in hand, which nobody else has; one that maps *)
(* device memory has an address for it; the Vec has its buffer, and the new one while it *)
(* grows.                                                                                *)
WithPage == Mapping \cup {"heap_table", "populate"}
MmioPage == {"mmio_lock", "mmio_table", "mmio_map"}

PageInHand(c) ==
  pc[c] \in WithPage =>
    /\ call[c].block = <<call[c].block[1], 0>>
    /\ call[c].block[1] \in Pages /\ call[c].block[1] < NEXT_HEAP_ADDRESS
    /\ page_class[call[c].block[1]] = call[c].class
    /\ \A d \in Cores \ {c} : pc[d] \in WithPage => call[d].block[1] # call[c].block[1]

BlockInHand(c) ==
  /\ call[c].block \in Blocks \cup {Null}
  /\ regions_lock = c \/ pc[c] \notin Allocating \cup {"panic"} => call[c].class = VecClass
  /\ pc[c] \notin Allocating \cup MmioPage \cup {"grown", "panic"} => call[c].block = Null
  /\ pc[c] \in MmioPage => /\ call[c].block[1] \in Pages /\ call[c].block[1] < NEXT_HEAP_ADDRESS
                           /\ page_class[call[c].block[1]] = "mmio"
  /\ pc[c] = "pop" => call[c].block = Null \/ head[c][call[c].class] # Null
  /\ pc[c] = "grown" =>
       call[c].block \in in_use /\ call[c].block # buffer /\ page_class[call[c].block[1]] = VecClass

HandsInv == \A c \in Cores : PageInHand(c) /\ BlockInHand(c)
BufferKnown == buffer # Null => buffer \in in_use /\ page_class[buffer[1]] = VecClass
PagesKnown == \A p \in Pages : p >= NEXT_HEAP_ADDRESS => page_class[p] = "none"

(* Pages are reserved one after the other, and keep their class. *)
PagesGrow ==
  /\ NEXT_HEAP_ADDRESS' \in {NEXT_HEAP_ADDRESS, NEXT_HEAP_ADDRESS + 1}
  /\ \A p \in Pages : p < NEXT_HEAP_ADDRESS => page_class'[p] = page_class[p]

LEMMA ReservingGrows ==
  ASSUME FrameTypes, PagesKnown, NEW what, reserve_virt_addr(what)
  PROVE  PagesGrow /\ PagesKnown'
<1> DEFINE n == NEXT_HEAP_ADDRESS
<1>1. /\ n \in Pages /\ n' = n + 1 /\ n \in Nat /\ Pages \subseteq Int
      /\ \A p \in Pages : p # n => page_class'[p] = page_class[p]
  BY DEF reserve_virt_addr, FrameTypes, Pages
<1>2. \A p \in Pages : p < n => p # n
  BY <1>1
<1>3. \A p \in Pages : p >= n + 1 => p # n /\ p >= n
  BY <1>1
<1>4. PagesKnown'
  BY <1>1, <1>3 DEF PagesKnown
<1> QED
  BY <1>1, <1>2, <1>4 DEF PagesGrow

Reserves(c) == pop_reserve(c) \/ region_reserve(c) \/ mmio_reserve(c)

LEMMA PagesStayReserved ==
  ASSUME NEW c \in Cores, Lock(c) \/ Step(c), ~Reserves(c)
  PROVE  UNCHANGED <<NEXT_HEAP_ADDRESS, page_class>>
<1> USE DEF pageVars
<1>1. CASE Lock(c) \/ Expect(c) \/ TableStep(c)
  BY <1>1 DEF Lock, Expect, OutOfMemory, AddressOverflow, expect_failed, lock_page_table,
     lock_free_memory, lock_for_table, lock_regions, TableStep, take_table
<1>2. CASE AllocStep(c)
  BY <1>2 DEF Reserves, AllocStep, alloc, dealloc, pop_map, pop_populate, pop_whole_page, pop_node, pop_slot
<1>3. CASE RegionStep(c)
  <2>1. \A region : region_drop(c, region) => UNCHANGED pageVars
    BY DEF region_drop
  <2> QED
    BY <1>3, <2>1 DEF Reserves, RegionStep, region_new, allocate_again, allocate_fresh, take_run,
       map_region, free, grow, grown
<1>4. CASE MmioStep(c)
  BY <1>4 DEF Reserves, MmioStep, map_mmio, mmio_mapped
<1> QED
  BY <1>1, <1>2, <1>3, <1>4 DEF Step

LEMMA PagesAlwaysGrow ==
  ASSUME FrameTypes, PagesKnown, NEW c \in Cores, Lock(c) \/ Step(c)
  PROVE  PagesGrow /\ PagesKnown'
<1>1. CASE Reserves(c)
  <2>1. \E what : reserve_virt_addr(what)
    BY <1>1 DEF Reserves, pop_reserve, region_reserve, mmio_reserve
  <2> QED
    BY <2>1, ReservingGrows
<1>2. CASE ~Reserves(c)
  BY <1>2, PagesStayReserved DEF PagesGrow, PagesKnown
<1> QED
  BY <1>1, <1>2

LEMMA KnownPages ==
  ASSUME FrameTypes, PagesKnown
  PROVE  /\ \A p \in Pages : page_class[p] \in Classes => p < NEXT_HEAP_ADDRESS
         /\ NEXT_HEAP_ADDRESS \in Nat /\ Pages \subseteq Nat
<1>1. "none" \notin Classes
  BY HeapAssumption
<1>2. NEXT_HEAP_ADDRESS \in Nat /\ Pages \subseteq Nat
  BY DEF FrameTypes, Pages
<1> QED
  BY <1>1, <1>2 DEF PagesKnown

-----------------------------------------------------------------------------
(* The Vec's blocks stay in use while other calls allocate and free. *)
VecKept(c) ==
  /\ BufferKnown'
  /\ \A d \in Cores \ {c} : pc[d] = "grown" => call[d].block \in in_use' /\ call[d].block # buffer'

LEMMA VecKeepsItsBlocks ==
  ASSUME FrameTypes, RegionsInHand, ListInv, HandsInv, BufferKnown, PagesKnown,
         NEW c \in Cores, Lock(c) \/ Step(c)
  PROVE  VecKept(c)
<1> USE DEF listVars, regionVars
<1>1. /\ \A d \in Cores : pc[d] = "grown" => /\ call[d].block \in in_use \ {buffer}
                                             /\ page_class[call[d].block[1]] = VecClass
      /\ in_use \subseteq Blocks
  BY DEF HandsInv, BlockInHand, ListInv, HeapBlocks
<1>2. \A b \in Blocks : page_class[b[1]] = VecClass => page_class'[b[1]] = VecClass
  <2>1. \A b \in Blocks : b[1] \in Pages
    BY DEF Blocks
  <2>2. PagesGrow
    BY PagesAlwaysGrow
  <2> QED
    BY <2>1, <2>2, KnownPages, HeapAssumption DEF PagesGrow
<1>3. CASE in_use \subseteq in_use' /\ buffer' = buffer
  BY <1>1, <1>2, <1>3 DEF VecKept, BufferKnown
<1>4. ASSUME NEW b \in in_use, dealloc(c, b) PROVE VecKept(c)
  <2>1. b # buffer /\ (\A d \in Cores : pc[d] = "grown" => b # call[d].block)
    BY <1>4 DEF dealloc, VecBuffers
  <2>2. in_use' = in_use \ {b} /\ buffer' = buffer
    BY <1>4 DEF dealloc
  <2> QED
    BY <1>1, <1>2, <2>1, <2>2 DEF VecKept, BufferKnown
<1>5. CASE grown(c)
  <2>1. pc[c] = "grown" /\ buffer' = call[c].block
    BY <1>5 DEF grown, Goto
  <2>2. \A d \in Cores \ {c} : pc[d] # "grown"
    BY <2>1, HeapAssumption DEF RegionsInHand, LockedRegions
  <2>3. in_use \ {buffer} \subseteq in_use'
    BY <1>5 DEF grown
  <2> QED
    BY <1>1, <1>2, <2>1, <2>2, <2>3 DEF VecKept, BufferKnown
<1>6. CASE Lock(c) \/ Expect(c) \/ MmioStep(c) \/ TableStep(c)
  BY <1>3, <1>6 DEF Lock, Expect, MmioStep, TableStep, OutOfMemory, AddressOverflow, expect_failed, map_mmio,
     mmio_reserve, mmio_mapped, lock_page_table, lock_free_memory, lock_for_table, take_table, lock_regions
<1>7. CASE AllocStep(c) /\ ~ \E b \in in_use : dealloc(c, b)
  <2>1. \A b : Grant(c, b) => in_use \subseteq in_use'
    BY DEF Grant
  <2> QED
    BY <1>3, <1>7, <2>1 DEF AllocStep, alloc, pop_populate, pop_whole_page, pop_node, pop_slot,
       pop_reserve, pop_map
<1>8. CASE RegionStep(c) /\ ~grown(c)
  <2>1. \A region : region_drop(c, region) => UNCHANGED <<in_use, buffer>>
    BY DEF region_drop
  <2> QED
    BY <1>3, <1>8, <2>1 DEF RegionStep, region_new, allocate_again, allocate_fresh, take_run,
       region_reserve, map_region, free, grow
<1> QED
  BY <1>4, <1>5, <1>6, <1>7, <1>8 DEF Step

-----------------------------------------------------------------------------
(* What an allocation returns was free, or is the page it has just mapped. *)
Fresh(c, b) == b \in Blocks \ in_use /\ b # buffer /\ page_class[b[1]] = call[c].class

LEMMA PageIsNotReady ==
  ASSUME NEW c \in Cores, pc[c] \in WithPage
  PROVE  \A b \in HeapBlocks : b[1] # call[c].block[1]
  BY DEF HeapBlocks, BeingMapped, WithPage, Mapping

LEMMA GrantsFresh ==
  ASSUME FrameTypes, ListInv, HandsInv, BufferKnown, NEW c \in Cores,
         pop_whole_page(c) \/ pop_node(c) \/ pop_slot(c)
  PROVE  \E b : Grant(c, b) /\ Fresh(c, b)
<1>1. \A b \in Blocks : b \notin in_use => b # buffer
  BY Bounds DEF BufferKnown
<1>2. CASE pop_whole_page(c)
  <2>1. pc[c] = "populate" /\ Grant(c, call[c].block)
    BY <1>2 DEF pop_whole_page
  <2>2. /\ call[c].block = <<call[c].block[1], 0>> /\ call[c].block[1] \in Pages
        /\ page_class[call[c].block[1]] = call[c].class
    BY <2>1 DEF HandsInv, PageInHand, WithPage
  <2>3. call[c].block \in Blocks
    <3>1. \A p \in Pages : <<p, 0>> \in Blocks
      BY Bounds DEF Blocks
    <3> QED
      BY <2>2, <3>1
  <2>4. call[c].block \notin in_use
    BY <2>1, PageIsNotReady DEF ListInv, WithPage
  <2> QED
    BY <1>1, <2>1, <2>2, <2>3, <2>4 DEF Fresh
<1>3. CASE pop_node(c)
  <2> DEFINE b == head[c][call[c].class]
  <2>1. Grant(c, b)
    BY <1>3 DEF pop_node
  <2>2. Popped(head', memory', FreeBlocks, page_class, call[c].class, b)
    BY <1>3, NodePops
  <2> HIDE DEF b
  <2>3. b \in FreeBlocks /\ page_class[b[1]] = call[c].class
    BY <2>2 DEF Popped
  <2> QED
    BY <1>1, <2>1, <2>3 DEF Fresh, FreeBlocks, HeapBlocks
<1>4. CASE pop_slot(c)
  <2> DEFINE h == head[c][call[c].class]
             b == memory[h].slots[memory[h].free_slots]
  <2>1. Grant(c, b)
    BY <1>4 DEF pop_slot
  <2>2. Popped(head, memory', FreeBlocks, page_class, call[c].class, b)
    BY <1>4, SlotPops
  <2> HIDE DEF b
  <2>3. b \in FreeBlocks /\ page_class[b[1]] = call[c].class
    BY <2>2 DEF Popped
  <2> QED
    BY <1>1, <2>1, <2>3 DEF Fresh, FreeBlocks, HeapBlocks
<1> QED
  BY <1>2, <1>3, <1>4

(* A list is its core's alone. *)
LEMMA OthersKeepTheirLists ==
  ASSUME ListInv, NEW c \in Cores, Lock(c) \/ Step(c)
  PROVE  \A d \in Cores \ {c} : head'[d] = head[d]
<1> USE DEF listVars
<1>1. head = [d \in Cores |-> head[d]]
  BY DEF ListInv, Heads
<1>2. /\ \A k, l : SetFreeList(c, k, l) => \A d \in Cores \ {c} : head'[d] = head[d]
      /\ \A k, x : head' = [head EXCEPT ![c][k] = x] => \A d \in Cores \ {c} : head'[d] = head[d]
  BY <1>1 DEF SetFreeList
<1>3. CASE Lock(c) \/ Expect(c) \/ MmioStep(c) \/ TableStep(c)
  BY <1>3 DEF Lock, Expect, MmioStep, TableStep, OutOfMemory, AddressOverflow, expect_failed, map_mmio,
     mmio_reserve, mmio_mapped, lock_page_table, lock_free_memory, lock_for_table, take_table, lock_regions
<1>4. CASE AllocStep(c)
  <2>1. CASE pop_node(c)
    BY <1>2, <2>1 DEF pop_node
  <2>2. CASE pop_populate(c)
    BY <1>2, <2>2 DEF pop_populate
  <2>3. ASSUME NEW b \in in_use, dealloc(c, b) PROVE \A d \in Cores \ {c} : head'[d] = head[d]
    BY <1>2, <2>3 DEF dealloc
  <2> QED
    BY <1>4, <2>1, <2>2, <2>3 DEF AllocStep, alloc, pop_whole_page, pop_slot, pop_reserve, pop_map
<1>5. CASE grown(c)
  BY <1>2, <1>5 DEF grown
<1>6. CASE RegionStep(c) /\ ~grown(c)
  <2>1. \A region : region_drop(c, region) => UNCHANGED head
    BY DEF region_drop
  <2> QED
    BY <1>6, <2>1 DEF RegionStep, region_new, allocate_again, allocate_fresh, take_run,
       region_reserve, map_region, free, grow
<1> QED
  BY <1>3, <1>4, <1>5, <1>6 DEF Step

(* The step of a core leaves what others have in hand. *)
LEMMA OthersKeepTheirHands ==
  ASSUME FrameTypes, RegionsInHand, ListInv, HandsInv, BufferKnown, PagesKnown,
         NEW c \in Cores, Lock(c) \/ Step(c), PageInHand(c)', BlockInHand(c)'
  PROVE  HandsInv'
<1>1. OthersStay(c) /\ PagesGrow /\ VecKept(c) /\ \A d \in Cores \ {c} : head'[d] = head[d]
  BY OthersStayAndOwnKept, PagesAlwaysGrow, VecKeepsItsBlocks, OthersKeepTheirLists
<1>2. ASSUME NEW d \in Cores \ {c} PROVE PageInHand(d)' /\ BlockInHand(d)'
  <2>1. /\ pc'[d] = pc[d] /\ call'[d] = call[d] /\ head'[d] = head[d]
        /\ regions_lock' = d <=> regions_lock = d
    BY <1>1, HeapAssumption DEF OthersStay
  <2>2. PageInHand(d) /\ BlockInHand(d)
    BY DEF HandsInv
  <2>3. \A p \in Pages : p < NEXT_HEAP_ADDRESS =>
          p < NEXT_HEAP_ADDRESS' /\ page_class'[p] = page_class[p]
    BY <1>1, KnownPages DEF PagesGrow
  <2>4. ASSUME pc[d] \in WithPage, NEW e \in Cores \ {d}, pc'[e] \in WithPage
        PROVE  call'[e].block[1] # call[d].block[1]
    <3>1. CASE e = c
      BY <2>1, <2>4, <3>1 DEF PageInHand
    <3>2. CASE e # c
      <4>1. pc'[e] = pc[e] /\ call'[e] = call[e]
        BY <1>1, <3>2 DEF OthersStay
      <4> QED
        BY <2>2, <2>4, <4>1 DEF PageInHand
    <3> QED
      BY <3>1, <3>2
  <2>5. PageInHand(d)'
    BY <2>1, <2>2, <2>3, <2>4 DEF PageInHand
  <2>6. pc[d] = "grown" => page_class'[call[d].block[1]] = VecClass
    <3>1. pc[d] = "grown" => call[d].block[1] \in Pages /\ page_class[call[d].block[1]] = VecClass
      BY <2>2 DEF BlockInHand, ListInv, HeapBlocks, Blocks
    <3> QED
      BY <3>1, <2>3, KnownPages, HeapAssumption
  <2>7. pc[d] \in MmioPage => /\ call[d].block[1] \in Pages /\ call[d].block[1] < NEXT_HEAP_ADDRESS'
                             /\ page_class'[call[d].block[1]] = "mmio"
    BY <2>2, <2>3 DEF BlockInHand
  <2>8. BlockInHand(d)'
    BY <1>1, <2>1, <2>2, <2>6, <2>7 DEF BlockInHand, VecKept
  <2> QED
    BY <2>5, <2>8
<1> QED
  BY <1>2 DEF HandsInv

LEMMA PopulateFills ==
  ASSUME FrameTypes, ListInv, HandsInv, NEW c \in Cores, pop_populate(c)
  PROVE  LET k == call[c].class  page == call[c].block[1] IN
         /\ memory' \in Memories /\ head' \in Heads /\ head'[c][k] # Null
         /\ \E s : Lists(s, head', memory', FreeBlocks \cup FirstBlocks(page, BlocksPerPage[k]), page_class)
<1> DEFINE k == call[c].class
           page == call[c].block[1]
<1>1. pc[c] = "populate" /\ SetFreeList(c, k, populated(free_list(c, k), k, page))
  BY DEF pop_populate, Goto
<1>2. page \in Pages /\ page_class[page] = k /\ k \in Classes
  BY <1>1 DEF HandsInv, PageInHand, WithPage, FrameTypes
<1>3. \A b \in FreeBlocks : b[1] # page
  BY <1>1, PageIsNotReady DEF WithPage, FreeBlocks
<1> HIDE DEF k, page
<1>4. /\ memory' \in Memories /\ head' \in Heads /\ head'[c][k] # Null
      /\ \E s : Lists(s, head', memory', FreeBlocks \cup FirstBlocks(page, BlocksPerPage[k]), page_class)
  BY <1>1, <1>2, <1>3, PagePopulates
<1> QED
  BY <1>4 DEF k, page

(* And it has in hand what it should. *)
LEMMA OwnHandsKept ==
  ASSUME LockInv, FrameTypes, RegionsInHand, ListInv, HandsInv, BufferKnown, PagesKnown,
         NEW c \in Cores, Lock(c) \/ Step(c)
  PROVE  PageInHand(c)' /\ BlockInHand(c)'
<1> USE DEF listVars, pageVars, lockVars, regionVars, MmioPage
<1>1. /\ PageInHand(c) /\ BlockInHand(c) /\ c # NoCore
      /\ Null \notin Blocks
  BY HeapAssumption, Bounds DEF HandsInv
<1>2. pc = [d \in Cores |-> pc[d]] /\ call = [d \in Cores |-> call[d]]
  BY DEF FrameTypes
<1>3. \A from, to : Goto(c, from, to) => pc[c] = from /\ pc'[c] = to
  BY <1>2 DEF Goto
<1>4. \A d \in Cores \ {c} : pc'[d] = pc[d] /\ call'[d] = call[d]
  BY OthersStayAndOwnKept DEF OthersStay
<1>5. \A k, b, r : CallBecomes(c, k, b, r) => call'[c].class = k /\ call'[c].block = b
  <2> SUFFICES ASSUME NEW k, NEW b, NEW r, CallBecomes(c, k, b, r)
               PROVE  call'[c].class = k /\ call'[c].block = b
    OBVIOUS
  <2>1. call'[c] = [class |-> k, block |-> b, region |-> r]
    BY <1>2 DEF CallBecomes
  <2> QED
    BY <2>1
<1>6. Forgets(c) => call'[c].class = VecClass /\ call'[c].block = Null
  BY <1>5 DEF Forgets
<1>7. pc'[c] \notin WithPage => PageInHand(c)'
  BY DEF PageInHand
<1> DEFINE Empty == /\ pc'[c] \notin Allocating \cup MmioPage \cup {"grown"}
                 /\ call'[c].class = VecClass /\ call'[c].block = Null
<1>8. Empty => PageInHand(c)' /\ BlockInHand(c)'
  BY <1>7 DEF BlockInHand, WithPage, Mapping, Allocating
<1> HIDE DEF Empty
<1>9. CASE Lock(c)
  <2>1. UNCHANGED <<call, head, in_use, buffer, page_class, NEXT_HEAP_ADDRESS>>
    BY <1>9 DEF Lock, lock_page_table, lock_free_memory, lock_for_table, lock_regions
  <2>2. CASE <<pc[c], pc'[c]>> \in {<<"heap_lock", "frame_lock">>, <<"frame_lock", "heap_map">>,
                                   <<"populate", "heap_table">>}
    <3>1. regions_lock' = regions_lock
      BY <1>3, <1>9, <2>2 DEF Lock, lock_page_table, lock_free_memory, lock_for_table, lock_regions
    <3> QED
      BY <1>1, <1>4, <2>1, <2>2, <3>1 DEF PageInHand, BlockInHand, WithPage, Mapping, Allocating
  <2>3. CASE <<pc[c], pc'[c]>> \in {<<"mmio_lock", "mmio_map">>, <<"mmio_map", "mmio_table">>}
    <3>1. regions_lock' = regions_lock
      BY <1>3, <1>9, <2>3 DEF Lock, lock_page_table, lock_free_memory, lock_for_table, lock_regions
    <3>2. pc[c] \in MmioPage /\ pc'[c] \in MmioPage
      BY <2>3
    <3> QED
      BY <1>1, <1>7, <2>1, <3>1, <3>2 DEF BlockInHand, WithPage, Mapping, Allocating
  <2>4. CASE pc[c] \notin {"heap_lock", "frame_lock", "populate", "mmio_lock", "mmio_map"}
    <3>1. Empty
      BY <1>1, <1>3, <1>9, <2>1, <2>4
      DEF Empty, BlockInHand, Allocating, Lock, lock_page_table, lock_free_memory, lock_for_table, take_table, lock_regions
    <3> QED
      BY <1>8, <3>1
  <2> QED
    BY <1>3, <1>9, <2>2, <2>3, <2>4 DEF Lock, lock_page_table, lock_free_memory, lock_for_table, lock_regions
<1>10. CASE Expect(c)
  <2>1. pc'[c] = "panic" /\ UNCHANGED <<call, regions_lock>>
    BY <1>3, <1>10 DEF Expect, OutOfMemory, AddressOverflow, expect_failed
  <2>2. pc[c] \in {"heap_map", "heap_table", "region_table", "mmio_table", "take_run", "pop",
                "region_reserve", "mmio_reserve"}
    BY <1>3, <1>10 DEF Expect, OutOfMemory, AddressOverflow, expect_failed
  <2>3. BlockInHand(c)'
    BY <1>1, <2>1, <2>2 DEF BlockInHand, Allocating
  <2> QED
    BY <1>7, <2>1, <2>3 DEF WithPage, Mapping
<1>11. CASE MmioStep(c)
  <2>1. CASE map_mmio(c)
    <3>1. pc[c] = "idle" /\ pc'[c] = "mmio_reserve" /\ UNCHANGED call
      BY <1>3, <2>1 DEF map_mmio
    <3>2. Empty
      BY <1>1, <3>1 DEF Empty, BlockInHand, Allocating
    <3> QED
      BY <1>8, <3>2
  <2>2. CASE mmio_reserve(c)
    <3> DEFINE n == NEXT_HEAP_ADDRESS
    <3>1. call'[c].class = call[c].class /\ call'[c].block = <<n, 0>>
      <4>1. CallBecomes(c, call[c].class, <<n, 0>>, call[c].region)
        BY <2>2, CallsMove
      <4> QED
        BY <1>5, <4>1
    <3>2. /\ n \in Pages /\ n' = n + 1 /\ page_class'[n] = "mmio" /\ n \in Nat
          /\ pc[c] = "mmio_reserve" /\ pc'[c] = "mmio_lock" /\ UNCHANGED regions_lock
      BY <1>3, <2>2 DEF mmio_reserve, reserve_virt_addr, FrameTypes
    <3> HIDE DEF n
    <3>3. call'[c].block[1] = n /\ n < n + 1 /\ <<n, 0>> \in Blocks
      BY <3>1, <3>2, Bounds DEF Blocks
    <3>4. BlockInHand(c)'
      BY <1>1, <3>1, <3>2, <3>3 DEF BlockInHand, Allocating, n
    <3> QED
      BY <1>7, <3>2, <3>4 DEF WithPage, Mapping
  <2>3. CASE mmio_mapped(c)
    <3>1. Forgets(c) /\ pc'[c] = "idle"
      BY <1>3, <2>3, CallsMove DEF mmio_mapped
    <3>2. Empty
      BY <1>6, <3>1 DEF Empty, Allocating
    <3> QED
      BY <1>8, <3>2
  <2> QED
    BY <1>11, <2>1, <2>2, <2>3 DEF MmioStep
<1>12. ASSUME NEW k \in Classes, alloc(c, k) PROVE PageInHand(c)' /\ BlockInHand(c)'
  <2>1. call'[c].class = k /\ call'[c].block = Null
    <3>1. CallBecomes(c, k, Null, NoRegion)
      BY <1>12, CallsMove
    <3> QED
      BY <1>5, <3>1
  <2>2. pc[c] = "idle" /\ pc'[c] = "pop" /\ UNCHANGED regions_lock
    BY <1>3, <1>12 DEF alloc
  <2>3. regions_lock # c
    BY <2>2 DEF LockInv, Where, LockedRegions, Allocating
  <2> QED
    BY <1>1, <1>7, <2>1, <2>2, <2>3 DEF BlockInHand, WithPage, Mapping, Allocating
<1>13. CASE pop_reserve(c)
  <2> DEFINE n == NEXT_HEAP_ADDRESS
  <2>1. call'[c].class = call[c].class /\ call'[c].block = <<n, 0>>
    <3>1. CallBecomes(c, call[c].class, <<n, 0>>, call[c].region)
      BY <1>13, CallsMove
    <3> QED
      BY <1>5, <3>1
  <2>2. /\ n \in Pages /\ n' = n + 1 /\ page_class'[n] = call[c].class /\ n \in Nat
        /\ pc[c] = "pop" /\ pc'[c] = "heap_lock" /\ UNCHANGED regions_lock
    BY <1>3, <1>13 DEF pop_reserve, reserve_virt_addr, FrameTypes
  <2>3. \A d \in Cores \ {c} : pc'[d] \in WithPage => call'[d].block[1] # n
    <3>1. \A d \in Cores \ {c} : pc[d] \in WithPage => call[d].block[1] \in Pages /\ call[d].block[1] < n
      BY DEF HandsInv, PageInHand
    <3>2. \A p \in Pages : p < n => p # n
      BY KnownPages
    <3> QED
      BY <1>4, <3>1, <3>2
  <2> HIDE DEF n
  <2>4. call'[c].block[1] = n /\ n < n + 1 /\ <<n, 0>> \in Blocks
    BY <2>1, <2>2, Bounds DEF Blocks
  <2>5. PageInHand(c)'
    BY <2>1, <2>2, <2>3, <2>4 DEF PageInHand, n
  <2>6. BlockInHand(c)'
    BY <1>1, <2>1, <2>2, <2>4 DEF BlockInHand, Allocating
  <2> QED
    BY <2>5, <2>6
<1>14. CASE pop_map(c)
  <2>1. /\ pc[c] = "heap_map" /\ pc'[c] = "populate"
        /\ UNCHANGED <<call, NEXT_HEAP_ADDRESS, page_class, regions_lock>>
    BY <1>3, <1>14 DEF pop_map
  <2> QED
    BY <1>1, <1>4, <2>1 DEF PageInHand, BlockInHand, WithPage, Mapping, Allocating
<1>15. CASE pop_populate(c)
  <2>1. pc[c] = "populate" /\ pc'[c] = "pop" /\ UNCHANGED <<call, regions_lock>>
    BY <1>3, <1>15 DEF pop_populate
  <2>2. head'[c][call[c].class] # Null
    BY <1>15, PopulateFills
  <2> QED
    BY <1>1, <1>7, <2>1, <2>2 DEF BlockInHand, WithPage, Mapping, Allocating
<1>16. CASE pop_whole_page(c) \/ pop_node(c) \/ pop_slot(c)
  <2>1. PICK b : Grant(c, b) /\ Fresh(c, b)
    BY <1>16, GrantsFresh
  <2>2. UNCHANGED <<page_class, buffer, regions_lock>> /\ pc[c] \in {"populate", "pop"}
    BY <1>16 DEF pop_whole_page, pop_node, pop_slot
  <2>3. CASE regions_lock = c
    <3>1. call'[c].class = call[c].class /\ call'[c].block = b
      <4>1. CallBecomes(c, call[c].class, b, call[c].region)
        BY <2>1, <2>3, CallsMove
      <4> QED
        BY <1>5, <4>1
    <3>2. pc'[c] = "grown" /\ b \in in_use'
      BY <1>2, <2>1, <2>3 DEF Grant
    <3>3. call[c].class = VecClass
      BY <1>1, <2>3 DEF BlockInHand
    <3> QED
      BY <1>7, <2>1, <2>2, <3>1, <3>2, <3>3 DEF BlockInHand, Fresh, WithPage, Mapping, Allocating
  <2>4. CASE regions_lock # c
    <3>1. Forgets(c)
      BY <2>1, <2>4, CallsMove
    <3>2. pc'[c] = "idle"
      BY <1>2, <2>1, <2>4 DEF Grant
    <3>3. Empty
      BY <1>6, <3>1, <3>2 DEF Empty, Allocating
    <3> QED
      BY <1>8, <3>3
  <2> QED
    BY <2>3, <2>4
<1>17. ASSUME NEW b \in in_use, dealloc(c, b) PROVE PageInHand(c)' /\ BlockInHand(c)'
  <2>1. pc[c] = "idle" /\ UNCHANGED <<pc, call>>
    BY <1>17 DEF dealloc
  <2>2. Empty
    BY <1>1, <2>1 DEF Empty, BlockInHand, Allocating
  <2> QED
    BY <1>8, <2>2
<1>18. CASE region_new(c) \/ allocate_again(c) \/ allocate_fresh(c)
  <2>1. /\ pc[c] \in {"idle", "allocate"} /\ pc'[c] \in {"new_lock", "idle", "run_lock"} /\ UNCHANGED call
    BY <1>3, <1>18 DEF region_new, allocate_again, allocate_fresh
  <2>2. Empty
    BY <1>1, <2>1 DEF Empty, BlockInHand, Allocating
  <2> QED
    BY <1>8, <2>2
<1>19. CASE take_run(c)
  <2>1. PICK f \in Runs : call' = [call EXCEPT ![c].region.frame = f]
    BY <1>19 DEF take_run
  <2>2. CallBecomes(c, call[c].class, call[c].block, [page |-> call[c].region.page, frame |-> f])
    BY <2>1, CallsMove
  <2>3. pc[c] = "take_run" /\ pc'[c] = "region_reserve"
    BY <1>3, <1>19 DEF take_run
  <2>4. Empty
    BY <1>1, <1>5, <2>2, <2>3 DEF Empty, BlockInHand, Allocating
  <2> QED
    BY <1>8, <2>4
<1>20. CASE region_reserve(c)
  <2>1. CallBecomes(c, call[c].class, call[c].block, [page |-> NEXT_HEAP_ADDRESS, frame |-> call[c].region.frame])
    BY <1>20, CallsMove
  <2>2. pc[c] = "region_reserve" /\ pc'[c] = "region_lock"
    BY <1>3, <1>20 DEF region_reserve
  <2>3. Empty
    BY <1>1, <1>5, <2>1, <2>2 DEF Empty, BlockInHand, Allocating
  <2> QED
    BY <1>8, <2>3
<1>21. CASE map_region(c) \/ free(c)
  <2>1. Forgets(c) /\ pc'[c] = "idle"
    BY <1>3, <1>21, CallsMove DEF map_region, free
  <2>2. Empty
    BY <1>6, <2>1 DEF Empty, Allocating
  <2> QED
    BY <1>8, <2>2
<1>22. ASSUME NEW region \in live_regions, region_drop(c, region) PROVE PageInHand(c)' /\ BlockInHand(c)'
  <2>1. CallBecomes(c, VecClass, Null, region) /\ pc'[c] = "drop_lock"
    BY <1>3, <1>22, CallsMove DEF region_drop
  <2>2. Empty
    BY <1>5, <2>1 DEF Empty, Allocating
  <2> QED
    BY <1>8, <2>2
<1>23. CASE grow(c)
  <2>1. pc[c] = "free" /\ pc'[c] = "pop" /\ UNCHANGED <<call, regions_lock>>
    BY <1>3, <1>23 DEF grow
  <2> QED
    BY <1>1, <1>7, <2>1 DEF BlockInHand, WithPage, Mapping, Allocating
<1>24. CASE grown(c)
  <2>1. CallBecomes(c, VecClass, Null, call[c].region) /\ pc'[c] = "free"
    BY <1>3, <1>24, CallsMove DEF grown
  <2>2. Empty
    BY <1>5, <2>1 DEF Empty, Allocating
  <2> QED
    BY <1>8, <2>2
<1>25. CASE TableStep(c)
  <2>1. UNCHANGED <<call, head, in_use, buffer, page_class, NEXT_HEAP_ADDRESS, regions_lock>>
    BY <1>25 DEF TableStep, take_table
  <2>2. CASE pc[c] = "heap_table" /\ pc'[c] = "populate"
    BY <1>1, <1>4, <2>1, <2>2 DEF PageInHand, BlockInHand, WithPage, Mapping, Allocating
  <2>3. CASE pc[c] = "region_table" /\ pc'[c] = "region_map"
    <3>1. Empty
      BY <1>1, <2>1, <2>3 DEF Empty, BlockInHand, Allocating
    <3> QED
      BY <1>8, <3>1
  <2>4. CASE pc[c] = "mmio_table" /\ pc'[c] = "mmio_map"
    BY <1>1, <1>7, <2>1, <2>4 DEF BlockInHand, WithPage, Mapping, Allocating
  <2> QED
    BY <1>3, <1>25, <2>2, <2>3, <2>4 DEF TableStep, take_table
<1> QED
  BY <1>9, <1>10, <1>11, <1>12, <1>13, <1>14, <1>15, <1>16, <1>17, <1>18, <1>19, <1>20, <1>21, <1>22,
     <1>23, <1>24, <1>25 DEF Step, AllocStep, RegionStep

-----------------------------------------------------------------------------
(* The blocks of a page are there once a core has populated its list with them. *)
ReadyPages == {p \in Pages : page_class[p] \in Classes /\ p \notin BeingMapped}

LEMMA BlocksOfReadyPages ==
  HeapBlocks = {b \in Blocks : b[1] \in ReadyPages /\ b[2] < BlocksPerPage[page_class[b[1]]]}
<1>1. \A b \in Blocks : b[1] \in Pages
  BY DEF Blocks
<1> QED
  BY <1>1 DEF HeapBlocks, ReadyPages

HasPage(c, p) == pc[c] \in WithPage \cup {"panic"} /\ call[c].block[1] = p

LEMMA MappedPages == \A p : p \in BeingMapped <=> \E c \in Cores : HasPage(c, p)
  BY DEF BeingMapped, HasPage, WithPage, Mapping

LEMMA OwnPageStays ==
  ASSUME FrameTypes, HandsInv, ~Panicked, NEW c \in Cores, Lock(c) \/ Step(c),
         ~pop_populate(c), ~pop_whole_page(c),
         NEW p \in Pages, p # NEXT_HEAP_ADDRESS, page_class[p] \in Classes
  PROVE  HasPage(c, p)' <=> HasPage(c, p)
<1> USE DEF listVars, pageVars, lockVars, regionVars
<1>1. /\ BlockInHand(c) /\ pc[c] # "panic" /\ p # Null[1]
  BY DEF HandsInv, Panicked, Null, Pages
<1>2. pc = [d \in Cores |-> pc[d]] /\ call = [d \in Cores |-> call[d]]
  BY DEF FrameTypes
<1>3. \A from, to : Goto(c, from, to) => pc[c] = from /\ pc'[c] = to
  BY <1>2 DEF Goto
<1>4. CASE pc[c] \notin WithPage /\ pc'[c] \notin WithPage \cup {"panic"}
  BY <1>1, <1>4 DEF HasPage
<1>5. CASE Lock(c)
  <2>1. UNCHANGED call /\ (pc'[c] \in WithPage <=> pc[c] \in WithPage) /\ pc'[c] # "panic"
    BY <1>3, <1>5 DEF Lock, lock_page_table, lock_free_memory, lock_for_table, lock_regions, WithPage, Mapping
  <2> QED
    BY <1>1, <2>1 DEF HasPage
<1>6. CASE Expect(c)
  <2>1. pc'[c] = "panic" /\ UNCHANGED call
    BY <1>3, <1>6 DEF Expect, OutOfMemory, AddressOverflow, expect_failed
  <2>2. \/ pc[c] \in {"heap_map", "heap_table"}
        \/ pc[c] \in {"take_run", "region_reserve", "region_table", "mmio_reserve"}
        \/ pc[c] = "mmio_table"
        \/ pc[c] = "pop" /\ head[c][call[c].class] = Null
    BY <1>3, <1>6 DEF Expect, OutOfMemory, AddressOverflow, expect_failed
  <2>3. pc[c] \notin {"heap_map", "heap_table"} => pc[c] \notin WithPage /\ call[c].block[1] # p
    <3>1. CASE pc[c] = "mmio_table"
      BY <1>1, <3>1, HeapAssumption DEF BlockInHand, MmioPage, WithPage, Mapping
    <3>2. CASE pc[c] # "mmio_table"
      BY <1>1, <2>2, <3>2 DEF BlockInHand, Allocating, MmioPage, WithPage, Mapping
    <3> QED
      BY <3>1, <3>2
  <2> QED
    BY <1>1, <2>1, <2>3 DEF HasPage, WithPage, Mapping
<1>7. CASE MmioStep(c)
  BY <1>3, <1>4, <1>7 DEF MmioStep, map_mmio, mmio_reserve, mmio_mapped, WithPage, Mapping
<1>8. ASSUME NEW k \in Classes, alloc(c, k) PROVE HasPage(c, p)' <=> HasPage(c, p)
  BY <1>3, <1>4, <1>8 DEF alloc, WithPage, Mapping
<1>9. CASE pop_reserve(c)
  <2>1. CallBecomes(c, call[c].class, <<NEXT_HEAP_ADDRESS, 0>>, call[c].region)
    BY <1>9, CallsMove
  <2>2. call'[c] = [class |-> call[c].class, block |-> <<NEXT_HEAP_ADDRESS, 0>>, region |-> call[c].region]
    BY <1>2, <2>1 DEF CallBecomes
  <2>3. call'[c].block[1] = NEXT_HEAP_ADDRESS
    BY <2>2
  <2>4. pc[c] = "pop"
    BY <1>3, <1>9 DEF pop_reserve
  <2> QED
    BY <2>3, <2>4 DEF HasPage, WithPage, Mapping
<1>10. CASE pop_map(c)
  <2>1. pc[c] = "heap_map" /\ pc'[c] = "populate" /\ UNCHANGED call
    BY <1>3, <1>10 DEF pop_map
  <2> QED
    BY <2>1 DEF HasPage, WithPage, Mapping
<1>11. CASE pop_node(c) \/ pop_slot(c)
  <2>1. pc[c] = "pop" /\ \E b : Grant(c, b)
    BY <1>11 DEF pop_node, pop_slot
  <2>2. pc'[c] \in {"grown", "idle"}
    BY <1>2, <2>1 DEF Grant
  <2> QED
    BY <1>4, <2>1, <2>2 DEF WithPage, Mapping
<1>12. ASSUME NEW b \in in_use, dealloc(c, b) PROVE HasPage(c, p)' <=> HasPage(c, p)
  BY <1>12 DEF dealloc, HasPage
<1>13. CASE RegionStep(c)
  <2>1. \A region : region_drop(c, region) => pc[c] = "idle" /\ pc'[c] = "drop_lock"
    BY <1>3 DEF region_drop
  <2> QED
    BY <1>3, <1>4, <1>13, <2>1 DEF RegionStep, region_new, allocate_again, allocate_fresh, take_run,
       region_reserve, map_region, free, grow, grown, WithPage, Mapping
<1>14. CASE TableStep(c)
  <2>1. UNCHANGED call /\ (pc'[c] \in WithPage <=> pc[c] \in WithPage) /\ pc'[c] # "panic"
    BY <1>3, <1>14 DEF TableStep, take_table, WithPage, Mapping
  <2> QED
    BY <1>1, <2>1 DEF HasPage
<1> QED
  BY <1>5, <1>6, <1>7, <1>8, <1>9, <1>10, <1>11, <1>12, <1>13, <1>14 DEF Step, AllocStep

LEMMA OthersPagesStay ==
  ASSUME FrameTypes, RegionsInHand, NEW c \in Cores, Lock(c) \/ Step(c), NEW d \in Cores \ {c}, NEW p
  PROVE  HasPage(d, p)' <=> HasPage(d, p)
<1>1. OthersStay(c)
  BY OthersStayAndOwnKept
<1> QED
  BY <1>1 DEF OthersStay, HasPage

LEMMA MappedPagesNext == \A p : p \in BeingMapped' <=> \E c \in Cores : HasPage(c, p)'
  BY DEF BeingMapped, HasPage, WithPage, Mapping

(* Outside of populating, no page gets ready and none stops being so. *)
LEMMA ReadyPagesStay ==
  ASSUME FrameTypes, RegionsInHand, HandsInv, PagesKnown, ~Panicked,
         NEW c \in Cores, Lock(c) \/ Step(c), ~pop_populate(c), ~pop_whole_page(c)
  PROVE  /\ ReadyPages' = ReadyPages
         /\ \A p \in ReadyPages : page_class'[p] = page_class[p]
<1> DEFINE n == NEXT_HEAP_ADDRESS
<1>1. \A p \in Pages : p # n /\ page_class[p] \in Classes => (p \in BeingMapped' <=> p \in BeingMapped)
  <2> TAKE p \in Pages
  <2> HAVE p # n /\ page_class[p] \in Classes
  <2>1. \A d \in Cores : HasPage(d, p)' <=> HasPage(d, p)
    BY OwnPageStays, OthersPagesStay
  <2>2. p \in BeingMapped' <=> \E d \in Cores : HasPage(d, p)'
    BY MappedPagesNext
  <2>3. p \in BeingMapped <=> \E d \in Cores : HasPage(d, p)
    BY MappedPages
  <2> QED
    BY <2>1, <2>2, <2>3
<1>2. \A p \in Pages : p # n => page_class'[p] = page_class[p]
  <2>1. CASE Reserves(c)
    <3>1. PICK what : reserve_virt_addr(what)
      BY <2>1 DEF Reserves, pop_reserve, region_reserve, mmio_reserve
    <3> QED
      BY <3>1 DEF reserve_virt_addr, FrameTypes
  <2>2. CASE ~Reserves(c)
    BY <2>2, PagesStayReserved
  <2> QED
    BY <2>1, <2>2
<1>3. n \in Pages => page_class[n] \notin Classes
  BY KnownPages
<1>4. n \in Pages /\ page_class'[n] \in Classes => n \in BeingMapped'
  <2>1. CASE pop_reserve(c)
    <3>1. CallBecomes(c, call[c].class, <<n, 0>>, call[c].region)
      BY <2>1, CallsMove
    <3>2. call'[c] = [class |-> call[c].class, block |-> <<n, 0>>, region |-> call[c].region]
      BY <3>1 DEF CallBecomes, FrameTypes
    <3>3. call'[c].block[1] = n
      BY <3>2
    <3>4. pc'[c] = "heap_lock"
      BY <2>1 DEF pop_reserve, Goto, FrameTypes
    <3>5. PICK q : q = n
      OBVIOUS
    <3>6. HasPage(c, q)'
      BY <3>3, <3>4, <3>5 DEF HasPage, WithPage, Mapping
    <3>7. q \in BeingMapped'
      BY <3>6, MappedPagesNext
    <3> QED
      BY <3>5, <3>7
  <2>2. CASE region_reserve(c) \/ mmio_reserve(c)
    <3>1. page_class'[n] \in {"region", "mmio"} \/ n \notin Pages
      BY <2>2 DEF region_reserve, mmio_reserve, reserve_virt_addr, FrameTypes
    <3> QED
      BY <3>1, HeapAssumption
  <2>3. CASE ~Reserves(c)
    BY <2>3, <1>3, PagesStayReserved
  <2> QED
    BY <2>1, <2>2, <2>3 DEF Reserves
<1> HIDE DEF n
<1>5. \A p \in Pages : p \in ReadyPages' <=> p \in ReadyPages
  BY <1>1, <1>2, <1>3, <1>4 DEF ReadyPages
<1>6. \A p \in ReadyPages : p \in Pages /\ p # n
  BY <1>3 DEF ReadyPages
<1> QED
  BY <1>2, <1>5, <1>6 DEF ReadyPages

LEMMA BlocksOfPage ==
  ASSUME NEW page \in Pages, NEW k \in Classes
  PROVE  \A b : b \in FirstBlocks(page, BlocksPerPage[k]) <=>
           b \in Blocks /\ b[1] = page /\ b[2] < BlocksPerPage[k]
<1> DEFINE n == BlocksPerPage[k]
<1>1. /\ n \in Nat \ {0} /\ BlockIndexes \subseteq Nat
      /\ \A i \in Nat : i < n => i \in BlockIndexes
  BY Bounds
<1> HIDE DEF n
<1>2. ASSUME NEW b \in FirstBlocks(page, n) PROVE b \in Blocks /\ b[1] = page /\ b[2] < n
  <2>1. PICK j \in 0 .. n - 1 : b = <<page, j>>
    BY DEF FirstBlocks
  <2>2. j \in Nat /\ j < n
    BY <1>1
  <2> QED
    BY <1>1, <2>1, <2>2 DEF Blocks
<1>3. ASSUME NEW b \in Blocks, b[1] = page, b[2] < n PROVE b \in FirstBlocks(page, n)
  <2>1. b = <<b[1], b[2]>> /\ b[2] \in BlockIndexes
    BY DEF Blocks
  <2>2. b[2] \in 0 .. n - 1
    BY <1>1, <1>3, <2>1
  <2> QED
    BY <1>3, <2>1, <2>2 DEF FirstBlocks
<1> QED
  BY <1>2, <1>3 DEF n

(* A populated page adds its blocks. *)
Populates(c) == pop_populate(c) \/ pop_whole_page(c)

LEMMA PageGetsReady ==
  ASSUME FrameTypes, RegionsInHand, HandsInv, ~Panicked,
         NEW c \in Cores, Lock(c) \/ Step(c), Populates(c)
  PROVE  LET page == call[c].block[1]  k == call[c].class IN
         /\ page \in Pages /\ page_class[page] = k /\ k \in Classes
         /\ HeapBlocks' = HeapBlocks \cup FirstBlocks(page, BlocksPerPage[k])
         /\ \A b \in HeapBlocks : b[1] # page
         /\ page_class' = page_class
<1> DEFINE page == call[c].block[1]
           k == call[c].class
<1>1. pc[c] = "populate" /\ page_class' = page_class
  BY DEF Populates, pop_populate, pop_whole_page, Goto, pageVars
<1>2. /\ page \in Pages /\ page_class[page] = k /\ k \in Classes
      /\ \A d \in Cores \ {c} : pc[d] \in WithPage => call[d].block[1] # page
  BY <1>1 DEF HandsInv, PageInHand, WithPage, FrameTypes
<1>3. \A b \in HeapBlocks : b[1] # page
  BY <1>1, PageIsNotReady DEF WithPage
<1>4. pc'[c] \in {"pop", "grown", "idle"}
  <2>1. pc = [d \in Cores |-> pc[d]]
    BY DEF FrameTypes
  <2>2. \A b : Grant(c, b) => pc'[c] \in {"grown", "idle"}
    BY <2>1 DEF Grant
  <2> QED
    BY <2>1, <2>2 DEF Populates, pop_populate, pop_whole_page, Goto
<1> HIDE DEF page, k
<1>5. \A q \in Pages : q \in BeingMapped' <=> q \in BeingMapped /\ q # page
  <2> TAKE q \in Pages
  <2>1. \A d \in Cores \ {c} : HasPage(d, q)' <=> HasPage(d, q)
    BY OthersPagesStay
  <2>2. HasPage(c, q) <=> q = page
    BY <1>1 DEF HasPage, WithPage, page
  <2>3. ~ HasPage(c, q)'
    BY <1>4 DEF HasPage, WithPage, Mapping
  <2>4. \A d \in Cores \ {c} : HasPage(d, q) => q # page
    BY <1>2 DEF HasPage, Panicked
  <2>5. q \in BeingMapped <=> \E d \in Cores : HasPage(d, q)
    BY MappedPages
  <2>6. q \in BeingMapped' <=> \E d \in Cores : HasPage(d, q)'
    BY MappedPagesNext
  <2> QED
    BY <2>1, <2>2, <2>3, <2>4, <2>5, <2>6
<1>6. \A b \in Blocks : b[1] \in Pages
  BY DEF Blocks
<1>7. \A b : b \in HeapBlocks' <=> b \in HeapBlocks \/ (b \in Blocks /\ b[1] = page /\ b[2] < BlocksPerPage[k])
  <2>1. \A b : b \in HeapBlocks <=>
          b \in Blocks /\ page_class[b[1]] \in Classes /\ b[1] \notin BeingMapped /\ b[2] < BlocksPerPage[page_class[b[1]]]
    BY DEF HeapBlocks
  <2>2. \A b : b \in HeapBlocks' <=>
          b \in Blocks /\ page_class[b[1]] \in Classes /\ b[1] \notin BeingMapped' /\ b[2] < BlocksPerPage[page_class[b[1]]]
    BY <1>1 DEF HeapBlocks
  <2> QED
    BY <1>2, <1>5, <1>6, <2>1, <2>2
<1>8. \A b : b \in HeapBlocks' <=> b \in HeapBlocks \/ b \in FirstBlocks(page, BlocksPerPage[k])
  BY <1>2, <1>7, BlocksOfPage
<1> QED
  BY <1>1, <1>2, <1>3, <1>8 DEF page, k

(* Other steps leave the blocks there are as they were. *)
LEMMA BlocksStay ==
  ASSUME FrameTypes, RegionsInHand, HandsInv, PagesKnown, ~Panicked,
         NEW c \in Cores, Lock(c) \/ Step(c), ~Populates(c)
  PROVE  /\ HeapBlocks' = HeapBlocks
         /\ \A b \in HeapBlocks : page_class'[b[1]] = page_class[b[1]]
<1>1. ReadyPages' = ReadyPages /\ \A p \in ReadyPages : page_class'[p] = page_class[p]
  BY ReadyPagesStay DEF Populates
<1>2. HeapBlocks = {b \in Blocks : b[1] \in ReadyPages /\ b[2] < BlocksPerPage[page_class[b[1]]]}
  BY BlocksOfReadyPages
<1>3. HeapBlocks' = {b \in Blocks : b[1] \in ReadyPages' /\ b[2] < BlocksPerPage[page_class'[b[1]]]}
  <2>1. (HeapBlocks = {b \in Blocks : b[1] \in ReadyPages /\ b[2] < BlocksPerPage[page_class[b[1]]]})'
    BY BlocksOfReadyPages, PTL
  <2> QED
    BY <2>1
<1> QED
  BY <1>1, <1>2, <1>3

-----------------------------------------------------------------------------
(* A list does not depend on the class of pages that have no block on it. *)
LEMMA ListsOtherClass ==
  ASSUME NEW s, NEW h, NEW m, NEW F, NEW class, Lists(s, h, m, F, class),
         NEW class2, \A b \in F : class2[b[1]] = class[b[1]]
  PROVE  Lists(s, h, m, F, class2)
<1>1. OneHome(Places(s, m), F, class)
  BY DEF Lists
<1>2. OneHome(Places(s, m), F, class2)
  BY <1>1 DEF OneHome
<1> QED
  BY <1>2 DEF Lists

(* The steps that touch a list, or the blocks in use. *)
Touches(c) ==
  \/ Populates(c) \/ pop_node(c) \/ pop_slot(c)
  \/ \E b \in in_use : dealloc(c, b)
  \/ grown(c) /\ buffer # Null

LEMMA ListsUntouched ==
  ASSUME NEW c \in Cores, Lock(c) \/ Step(c), ~Touches(c)
  PROVE  UNCHANGED listVars
<1>1. CASE Lock(c) \/ Expect(c) \/ MmioStep(c) \/ TableStep(c)
  BY <1>1 DEF Lock, Expect, MmioStep, TableStep, OutOfMemory, AddressOverflow, expect_failed, map_mmio,
     mmio_reserve, mmio_mapped, lock_page_table, lock_free_memory, lock_for_table, take_table, lock_regions
<1>2. CASE AllocStep(c)
  BY <1>2 DEF Touches, Populates, AllocStep, alloc, pop_reserve, pop_map
<1>3. CASE grown(c)
  BY <1>3 DEF Touches, grown
<1>4. CASE RegionStep(c) /\ ~grown(c)
  <2>1. \A region : region_drop(c, region) => UNCHANGED listVars
    BY DEF region_drop
  <2> QED
    BY <1>4, <2>1 DEF RegionStep, region_new, allocate_again, allocate_fresh, take_run,
       region_reserve, map_region, free, grow
<1> QED
  BY <1>1, <1>2, <1>3, <1>4 DEF Step

LEMMA UntouchedListsKept ==
  ASSUME FrameTypes, RegionsInHand, HandsInv, PagesKnown, ListInv, ~Panicked,
         NEW c \in Cores, Lock(c) \/ Step(c), ~Touches(c)
  PROVE  ListInv'
<1>1. UNCHANGED <<head, memory, in_use>>
  BY ListsUntouched DEF listVars
<1>2. HeapBlocks' = HeapBlocks /\ \A b \in HeapBlocks : page_class'[b[1]] = page_class[b[1]]
  BY BlocksStay DEF Touches
<1>3. FreeBlocks' = FreeBlocks /\ \A b \in FreeBlocks : page_class'[b[1]] = page_class[b[1]]
  BY <1>1, <1>2 DEF FreeBlocks
<1>4. PICK s : Lists(s, head, memory, FreeBlocks, page_class)
  BY DEF ListInv
<1>5. Lists(s, head, memory, FreeBlocks, page_class')
  BY <1>3, <1>4, ListsOtherClass
<1> QED
  BY <1>1, <1>2, <1>3, <1>5 DEF ListInv

LEMMA PopsKeepLists ==
  ASSUME FrameTypes, RegionsInHand, HandsInv, PagesKnown, ListInv, ~Panicked,
         NEW c \in Cores, pop_node(c) \/ pop_slot(c)
  PROVE  ListInv'
<1>1. \E b : /\ Popped(head', memory', FreeBlocks, page_class, call[c].class, b)
             /\ head' \in Heads /\ Grant(c, b)
  <2>1. CASE pop_node(c)
    BY <2>1, NodePops DEF pop_node
  <2>2. CASE pop_slot(c)
    <3> DEFINE h == head[c][call[c].class]
               b == memory[h].slots[memory[h].free_slots]
    <3>1. Grant(c, b) /\ head' = head
      BY <2>2 DEF pop_slot
    <3>2. Popped(head, memory', FreeBlocks, page_class, call[c].class, b)
      BY <2>2, SlotPops
    <3> HIDE DEF b
    <3> QED
      BY <3>1, <3>2 DEF ListInv
  <2> QED
    BY <2>1, <2>2
<1>2. PICK b : /\ Popped(head', memory', FreeBlocks, page_class, call[c].class, b)
               /\ head' \in Heads /\ Grant(c, b)
  BY <1>1
<1>3. b \in FreeBlocks /\ memory' \in Memories /\ \E s : Lists(s, head', memory', FreeBlocks \ {b}, page_class)
  BY <1>2 DEF Popped
<1>4. in_use' = in_use \cup {b}
  BY <1>2 DEF Grant
<1>5. Lock(c) \/ Step(c)
  BY DEF Step, AllocStep
<1>6. ~Populates(c)
  BY DEF Populates, pop_node, pop_slot, pop_populate, pop_whole_page, Goto
<1>7. HeapBlocks' = HeapBlocks
  BY <1>5, <1>6, BlocksStay
<1>8. page_class' = page_class
  BY DEF pop_node, pop_slot, pageVars
<1>9. FreeBlocks' = FreeBlocks \ {b} /\ in_use' \subseteq HeapBlocks'
  BY <1>3, <1>4, <1>7 DEF FreeBlocks, ListInv
<1> QED
  BY <1>2, <1>3, <1>8, <1>9 DEF ListInv

(* dealloc, and the Vec that gives its old buffer back. *)
LEMMA PushesKeepLists ==
  ASSUME FrameTypes, RegionsInHand, HandsInv, BufferKnown, PagesKnown, ListInv, ~Panicked,
         NEW c \in Cores, (\E b \in in_use : dealloc(c, b)) \/ (grown(c) /\ buffer # Null)
  PROVE  ListInv'
<1> USE DEF pageVars
<1>1. PICK b \in in_use : /\ in_use' = in_use \ {b}
                          /\ SetFreeList(c, page_class[b[1]], push(free_list(c, page_class[b[1]]), page_class[b[1]], b))
  <2>1. CASE \E b \in in_use : dealloc(c, b)
    BY <2>1 DEF dealloc
  <2>2. CASE grown(c) /\ buffer # Null
    <3>1. buffer \in in_use /\ page_class[buffer[1]] = VecClass
      BY <2>2 DEF BufferKnown
    <3> QED
      BY <2>2, <3>1 DEF grown
  <2> QED
    BY <2>1, <2>2
<1>2. page_class[b[1]] \in Classes
  BY DEF ListInv, HeapBlocks
<1>3. /\ memory' \in Memories /\ head' \in Heads
      /\ \E s : Lists(s, head', memory', FreeBlocks \cup {b}, page_class)
  BY <1>1, <1>2, PushedBack
<1>4. Lock(c) \/ Step(c)
  BY DEF Step, AllocStep, RegionStep
<1>5. ~Populates(c) /\ page_class' = page_class
  BY DEF Populates, dealloc, grown, pop_populate, pop_whole_page, Goto
<1>6. HeapBlocks' = HeapBlocks
  BY <1>4, <1>5, BlocksStay
<1>7. FreeBlocks' = FreeBlocks \cup {b} /\ in_use' \subseteq HeapBlocks'
  BY <1>1, <1>6 DEF FreeBlocks, ListInv
<1> QED
  BY <1>3, <1>5, <1>7 DEF ListInv

LEMMA PopulatingKeepsLists ==
  ASSUME FrameTypes, RegionsInHand, HandsInv, ListInv, ~Panicked, NEW c \in Cores, Populates(c)
  PROVE  ListInv'
<1> DEFINE page == call[c].block[1]
           k == call[c].class
           fresh == FirstBlocks(page, BlocksPerPage[k])
<1>1. Lock(c) \/ Step(c)
  BY DEF Populates, Step, AllocStep
<1>2. /\ page \in Pages /\ k \in Classes /\ page_class' = page_class
      /\ HeapBlocks' = HeapBlocks \cup fresh
      /\ \A b \in HeapBlocks : b[1] # page
  BY <1>1, PageGetsReady
<1>3. \A b \in fresh : b \notin HeapBlocks
  BY <1>2, BlocksOfPage
<1>4. CASE pop_populate(c)
  <2>1. /\ memory' \in Memories /\ head' \in Heads
        /\ \E s : Lists(s, head', memory', FreeBlocks \cup fresh, page_class)
    BY <1>4, PopulateFills
  <2>2. in_use' = in_use
    BY <1>4 DEF pop_populate
  <2> HIDE DEF fresh
  <2>3. FreeBlocks' = FreeBlocks \cup fresh /\ in_use' \subseteq HeapBlocks'
    BY <1>2, <1>3, <2>2 DEF FreeBlocks, ListInv
  <2> QED
    BY <1>2, <2>1, <2>3 DEF ListInv
<1>5. CASE pop_whole_page(c)
  <2>1. /\ in_use' = in_use \cup {call[c].block} /\ UNCHANGED <<head, memory>>
        /\ BlocksPerPage[k] = 1 /\ pc[c] = "populate"
    BY <1>5 DEF pop_whole_page, Grant
  <2>2. call[c].block = <<page, 0>>
    BY <2>1 DEF HandsInv, PageInHand, WithPage
  <2>3. fresh = {<<page, 0>>}
    <3>1. 0 .. BlocksPerPage[k] - 1 = {0}
      BY <2>1
    <3> QED
      BY <3>1 DEF FirstBlocks
  <2>4. in_use' = in_use \cup fresh
    BY <2>1, <2>2, <2>3
  <2> HIDE DEF fresh, page, k
  <2>5. FreeBlocks' = FreeBlocks /\ in_use' \subseteq HeapBlocks'
    BY <1>2, <1>3, <2>4 DEF FreeBlocks, ListInv
  <2> QED
    BY <1>2, <2>1, <2>5 DEF ListInv
<1> QED
  BY <1>4, <1>5 DEF Populates

LEMMA ListInvKept ==
  ASSUME FrameTypes, RegionsInHand, HandsInv, BufferKnown, PagesKnown, ListInv, ~Panicked,
         NEW c \in Cores, Lock(c) \/ Step(c)
  PROVE  ListInv'
  BY UntouchedListsKept, PopsKeepLists, PushesKeepLists, PopulatingKeepsLists DEF Touches

-----------------------------------------------------------------------------
BlockInv == BlockTypes /\ FramesKnown /\ HandsInv /\ BufferKnown /\ PagesKnown /\ ListInv

LEMMA ListInvInit == Init => ListInv
<1> SUFFICES ASSUME Init PROVE ListInv
  OBVIOUS
<1> DEFINE s == [c \in Cores |-> [k \in Classes |-> <<>>]]
<1>1. memory \in Memories
  <2>1. 0 \in 0 .. MostSlots
    BY Bounds
  <2>2. UserData \in NodeType
    BY <2>1 DEF UserData, NodeType, MostSlots
  <2> QED
    BY <2>2 DEF Init, Memories
<1>2. head \in Heads /\ \A c \in Cores, k \in Classes : head[c][k] = Null
  BY DEF Init, Heads
<1>3. HeapBlocks = {} /\ in_use = {}
  <2>1. \A b \in Blocks : page_class[b[1]] = "none"
    BY DEF Init, Blocks
  <2> QED
    BY <2>1, HeapAssumption DEF Init, HeapBlocks
<1>4. s \in Sequences /\ \A c \in Cores, k \in Classes : s[c][k] = <<>>
  BY DEF Sequences
<1> HIDE DEF s
<1>5. \A c \in Cores, k \in Classes :
        /\ Linked(s[c][k], head[c][k], memory)
        /\ \A i \in 1 .. Len(s[c][k]) : memory[s[c][k][i]].free_slots <= MaxSlots[k]
  <2>1. <<>> \in Seq(Blocks) /\ Len(<<>>) = 0 /\ \A i : i \notin 1 .. 0
    OBVIOUS
  <2> QED
    BY <1>2, <1>4, <2>1 DEF Linked
<1>6. Places(s, memory) = {}
  <2>1. \A c \in Cores, k \in Classes : Spots(s[c][k], memory, k) = {}
    BY <1>4 DEF Spots
  <2>2. \A c \in Cores, k \in Classes : PlacesOf(c, k, s[c][k], memory) = {}
    BY <2>1 DEF PlacesOf
  <2> QED
    BY <2>2 DEF Places
<1>7. OneHome(Places(s, memory), FreeBlocks, page_class)
  BY <1>3, <1>6 DEF OneHome, FreeBlocks
<1>8. Lists(s, head, memory, FreeBlocks, page_class)
  BY <1>4, <1>5, <1>7 DEF Lists
<1> QED
  BY <1>1, <1>2, <1>3, <1>8 DEF ListInv

LEMMA BlockInvInit == Init => BlockInv
<1> SUFFICES ASSUME Init PROVE BlockInv
  OBVIOUS
<1>1. \A c \in Cores : /\ pc[c] = "idle" /\ call[c].class = VecClass
                       /\ call[c].block = Null /\ call[c].region = NoRegion
  BY DEF Init, NoCall
<1>2. BlockTypes
  <2>1. pc \in [Cores -> Points]
    BY DEF Init, Points
  <2>2. 1 \in 1 .. MaxPages + 1 /\ Len(<<>>) <= 0
    BY HeapAssumption
  <2> QED
    BY <2>1, <2>2 DEF Init, BlockTypes
<1>3. FramesKnown
  BY <1>1 DEF Init, FramesKnown, FramesOf
<1>4. HandsInv
  BY <1>1 DEF HandsInv, PageInHand, BlockInHand, WithPage, Mapping, Allocating, MmioPage
<1>5. BufferKnown /\ PagesKnown
  BY DEF Init, BufferKnown, PagesKnown
<1> QED
  BY <1>2, <1>3, <1>4, <1>5, ListInvInit DEF BlockInv

LEMMA BlockInvStep == LockInv /\ FrameInv /\ BlockInv /\ [Next]_vars => BlockInv'
<1> SUFFICES ASSUME LockInv, FrameInv, BlockInv, [Next]_vars PROVE BlockInv'
  OBVIOUS
<1>1. /\ FrameTypes /\ RegionsInHand
      /\ BlockTypes /\ FramesKnown /\ HandsInv /\ BufferKnown /\ PagesKnown /\ ListInv
  BY DEF FrameInv, BlockInv
<1>2. CASE Next
  <2>1. PICK c \in Cores : Lock(c) \/ Step(c)
    BY <1>2 DEF Next
  <2>2. ~Panicked
    BY <1>2 DEF Next
  <2>3. BlockTypes' /\ FramesKnown'
    BY <1>1, <2>1, BlockTypesKept, FramesKnownKept
  <2>4. HandsInv'
    BY <1>1, <2>1, OwnHandsKept, OthersKeepTheirHands
  <2>5. BufferKnown' /\ PagesKnown'
    BY <1>1, <2>1, VecKeepsItsBlocks, PagesAlwaysGrow DEF VecKept
  <2>6. ListInv'
    BY <1>1, <2>1, <2>2, ListInvKept
  <2> QED
    BY <2>3, <2>4, <2>5, <2>6 DEF BlockInv
<1>3. CASE UNCHANGED vars
  <2> USE <1>3 DEF vars, listVars, pageVars, lockVars, regionVars
  <2>1. BlockTypes' /\ FramesKnown'
    BY <1>1 DEF BlockTypes, FramesKnown, FramesOf
  <2>2. HandsInv' /\ BufferKnown' /\ PagesKnown'
    BY <1>1 DEF HandsInv, PageInHand, BlockInHand, BufferKnown, PagesKnown
  <2>3. HeapBlocks' = HeapBlocks
    BY DEF HeapBlocks, BeingMapped
  <2>4. ListInv'
    BY <1>1, <2>3 DEF ListInv, FreeBlocks
  <2> QED
    BY <2>1, <2>2, <2>4 DEF BlockInv
<1> QED
  BY <1>2, <1>3

LEMMA TypesAreRight ==
  ASSUME FrameTypes, BlockInv
  PROVE  HeapTypeOK
<1>1. /\ pc \in [Cores -> Points] /\ NEXT_HEAP_ADDRESS \in 1 .. MaxPages + 1
      /\ page_frames \in [Pages -> SUBSET Frames]
      /\ {page_table_lock, free_memory_lock, regions_lock} \subseteq Cores \cup {NoCore}
      /\ Len(regions) <= capacity
  BY DEF BlockInv, BlockTypes
<1>2. /\ page_class \in [Pages -> Classes \cup {"none", "region", "mmio"}]
      /\ table_frames \in [Tables -> SUBSET Frames]
      /\ free_memory \subseteq Frames /\ live_regions \subseteq RegionType
      /\ \A i \in DOMAIN regions : regions[i] \in RegionType
  BY DEF FrameTypes
<1>3. call \in [Cores -> [class : Classes, block : Blocks \cup {Null}, region : RegionType]]
  <2>1. /\ call = [c \in Cores |-> call[c]]
        /\ \A c \in Cores :
             /\ call[c] = [class |-> call[c].class, block |-> call[c].block, region |-> call[c].region]
             /\ call[c].class \in Classes /\ call[c].region \in RegionType
    BY DEF FrameTypes
  <2>2. \A c \in Cores : call[c].block \in Blocks \cup {Null}
    BY DEF BlockInv, HandsInv, BlockInHand
  <2>3. \A c \in Cores : call[c] \in [class : Classes, block : Blocks \cup {Null}, region : RegionType]
    BY <2>1, <2>2
  <2> QED
    BY <2>1, <2>3
<1>4. head \in [Cores -> [Classes -> Blocks \cup {Null}]] /\ in_use \subseteq Blocks
  BY DEF BlockInv, ListInv, Heads, HeapBlocks
<1>5. \A b \in Blocks :
        /\ memory[b].next \in Blocks \cup {Null, Garbage}
        /\ memory[b].free_slots \in 0 .. Max({MaxSlots[k] : k \in Classes})
        /\ memory[b].slots \in [SlotIndexes -> Blocks \cup {Garbage}]
  <2>1. \A b \in Blocks : memory[b] \in NodeType
    BY DEF BlockInv, ListInv, Memories
  <2> QED
    BY <2>1 DEF NodeType
<1>6. buffer \in Blocks \cup {Null}
  BY <1>4 DEF BlockInv, BufferKnown
<1> QED
  BY <1>1, <1>2, <1>3, <1>4, <1>5, <1>6 DEF HeapTypeOK

LEMMA BlockInvIsEnough == FrameInv /\ BlockInv => EveryBlockOnce
<1> SUFFICES ASSUME FrameInv, BlockInv PROVE EveryBlockOnce
  OBVIOUS
<1>1. HeapTypeOK
  BY TypesAreRight DEF FrameInv
<1>2. ListsRight
  <2>1. in_use \subseteq HeapBlocks /\ \E s : Lists(s, head, memory, HeapBlocks \ in_use, page_class)
    BY DEF BlockInv, ListInv, FreeBlocks
  <2> QED
    BY <2>1, ListsAreRight
<1> QED
  BY <1>1, <1>2 DEF EveryBlockOnce, ListsRight

LEMMA BlockInvHolds == Spec => [](LockInv /\ FrameInv /\ BlockInv)
<1>1. Spec => []LockInv
  BY LockInvHolds
<1>2. Spec => []FrameInv
  BY FrameInvInit, FrameInvStep, PTL DEF Spec
<1>3. Spec => []BlockInv
  BY <1>1, <1>2, BlockInvInit, BlockInvStep, PTL DEF Spec
<1> QED
  BY <1>1, <1>2, <1>3, PTL

(* Whatever the cores allocate and free, every block of a mapped page is in use or in one     *)
(* place of one list of its own size, and every list ends: FreeList::push, pop and the pages  *)
(* pop maps neither lose a block nor have one twice nor follow a pointer in memory in use.    *)
THEOREM BlocksHeldOnce == Spec => []EveryBlockOnce
  BY BlockInvHolds, BlockInvIsEnough, PTL
-----------------------------------------------------------------------------
(* What callers hold.  A block is on a page that is mapped, and a region at one that is    *)
(* mapped to the frames of it, wherever it is, once map_region has done so; the tables     *)
(* above their entries are there.                                                          *)
IsMapped(r) ==
  /\ r.frame \in Frames /\ r.page \in Pages
  /\ page_class[r.page] = "region" /\ page_frames[r.page] = FramesOf(r) /\ Missing(r.page) = {}

HasRegion(c) == pc[c] \in {"drop_lock", "free", "grown"} \/ (pc[c] \in Allocating /\ regions_lock = c)

RegionUnmapped(c) == call[c].region.frame \in Frames /\ page_frames[call[c].region.page] = {}

BlocksMapped ==
  /\ \A b \in HeapBlocks : page_frames[b[1]] # {} /\ Missing(b[1]) = {}
  /\ \A c \in Cores : pc[c] \in {"heap_table", "populate"} => page_frames[call[c].block[1]] # {}

RegionsMapped ==
  /\ \A r \in live_regions : IsMapped(r)
  /\ \A i \in DOMAIN regions : IsMapped(regions[i])

CallsMapped == \A c \in Cores :
  /\ HasRegion(c) => IsMapped(call[c].region)
  /\ pc[c] \in AtRegion => RegionUnmapped(c)

MemoryInv == BlocksMapped /\ RegionsMapped /\ CallsMapped

(* A page that is mapped stays as it is: only one in hand is ever mapped. *)
LEMMA MemoryStays ==
  ASSUME FrameTypes, PagesFresh, CallsMapped, NEW c \in Cores, Lock(c) \/ Step(c)
  PROVE  \A p \in Pages : page_frames[p] # {} => page_frames'[p] = page_frames[p]
<1> USE DEF pageVars
<1>1. CASE UNCHANGED page_frames
  BY <1>1
<1>2. CASE pop_map(c)
  <2>1. pc[c] = "heap_map" /\ \E S : page_frames' = [page_frames EXCEPT ![call[c].block[1]] = S]
    BY <1>2 DEF pop_map, Goto
  <2>2. page_frames[call[c].block[1]] = {}
    BY <2>1 DEF PagesFresh, Mapping
  <2> QED
    BY <2>1, <2>2 DEF FrameTypes
<1>3. CASE map_region(c)
  <2>1. pc[c] = "region_map" /\ \E S : page_frames' = [page_frames EXCEPT ![call[c].region.page] = S]
    BY <1>3 DEF map_region, Goto
  <2>2. page_frames[call[c].region.page] = {}
    BY <2>1 DEF CallsMapped, RegionUnmapped, AtRegion
  <2> QED
    BY <2>1, <2>2 DEF FrameTypes
<1>4. CASE Lock(c) \/ Expect(c) \/ MmioStep(c) \/ TableStep(c)
  BY <1>1, <1>4 DEF Lock, Expect, MmioStep, TableStep, OutOfMemory, AddressOverflow, expect_failed, map_mmio,
     mmio_reserve, mmio_mapped, lock_page_table, lock_free_memory, lock_for_table, take_table, lock_regions
<1>5. CASE AllocStep(c)
  BY <1>1, <1>2, <1>5 DEF AllocStep, alloc, dealloc, pop_populate, pop_whole_page, pop_node, pop_slot,
     pop_reserve
<1>6. CASE RegionStep(c)
  <2>1. \A region : region_drop(c, region) => UNCHANGED page_frames
    BY DEF region_drop
  <2> QED
    BY <1>1, <1>3, <1>6, <2>1 DEF RegionStep, region_new, allocate_again, allocate_fresh, take_run,
       region_reserve, free, grow, grown
<1> QED
  BY <1>4, <1>5, <1>6 DEF Step

(* And page tables are never taken away. *)
MissingNext(page) == {t \in Tables : t \in TablesOf[page] /\ table_frames'[t] = {}}

LEMMA TablesLast ==
  ASSUME FrameTypes, NEW c \in Cores, Lock(c) \/ Step(c)
  PROVE  \A p : Missing(p) = {} => MissingNext(p) = {}
<1> USE DEF listVars, pageVars, lockVars, regionVars
<1>1. CASE UNCHANGED table_frames
  BY <1>1 DEF Missing, MissingNext
<1>2. CASE TableStep(c)
  <2>1. PICK t, f : t \in Tables /\ table_frames[t] = {} /\ table_frames' = [table_frames EXCEPT ![t] = {f}]
    BY <1>2 DEF TableStep, take_table, Missing
  <2>2. \A u \in Tables : table_frames'[u] = {} => table_frames[u] = {}
    <3>1. table_frames'[t] = {f} /\ f \in table_frames'[t]
      BY <2>1 DEF FrameTypes
    <3> QED
      BY <2>1, <3>1 DEF FrameTypes
  <2> QED
    BY <2>2 DEF Missing, MissingNext
<1>3. CASE Lock(c) \/ Expect(c) \/ MmioStep(c)
  BY <1>3, <1>1 DEF Lock, Expect, MmioStep, OutOfMemory, AddressOverflow, expect_failed, map_mmio,
     mmio_reserve, mmio_mapped, lock_page_table, lock_free_memory, lock_for_table, lock_regions
<1>4. CASE AllocStep(c)
  BY <1>4, <1>1 DEF AllocStep, alloc, dealloc, pop_reserve, pop_map, pop_populate, pop_whole_page,
     pop_node, pop_slot
<1>5. CASE RegionStep(c)
  <2>1. \A region : region_drop(c, region) => UNCHANGED table_frames
    BY DEF region_drop
  <2> QED
    BY <1>5, <1>1, <2>1 DEF RegionStep, region_new, allocate_again, allocate_fresh, take_run,
       region_reserve, map_region, free, grow, grown
<1> QED
  BY <1>2, <1>3, <1>4, <1>5 DEF Step

(* So a region stays mapped, whose address was reserved for regions. *)
StaysMapped(r) ==
  /\ r.frame \in Frames /\ r.page \in Pages
  /\ page_class'[r.page] = "region" /\ page_frames'[r.page] = FramesOf(r) /\ MissingNext(r.page) = {}

LEMMA HasFrames ==
  ASSUME NEW r, r.frame \in Frames
  PROVE  r.frame \in FramesOf(r)
<1>1. r.frame \in Int /\ r.frame >= 0 /\ RegionSize \in Int /\ RegionSize > 0
  BY SizesAreNumbers
<1>2. r # NoRegion
  <2>1. NoRegion.frame = -1
    BY DEF NoRegion
  <2> QED
    BY <1>1, <2>1
<1> QED
  BY <1>1, <1>2 DEF FramesOf

LEMMA MappedStays ==
  ASSUME FrameTypes, PagesFresh, PagesKnown, CallsMapped, NEW c \in Cores, Lock(c) \/ Step(c)
  PROVE  \A r : IsMapped(r) => StaysMapped(r)
<1> TAKE r
<1> HAVE IsMapped(r)
<1>1. page_frames[r.page] # {} /\ r.page \in Pages
  BY HasFrames DEF IsMapped
<1>2. page_frames'[r.page] = page_frames[r.page]
  BY <1>1, MemoryStays
<1>3. r.page < NEXT_HEAP_ADDRESS
  BY <1>1 DEF IsMapped, PagesKnown, FrameTypes, Pages
<1>4. page_class'[r.page] = page_class[r.page]
  BY <1>1, <1>3, PagesAlwaysGrow DEF PagesGrow
<1>5. MissingNext(r.page) = {}
  BY TablesLast DEF IsMapped
<1> QED
  BY <1>2, <1>4, <1>5 DEF IsMapped, StaysMapped

(* The blocks of a page are handed out once the page is mapped. *)
LEMMA BlocksMappedKept ==
  ASSUME FrameTypes, PagesFresh, RegionsInHand, HandsInv, PagesKnown, BlocksMapped, CallsMapped, ~Panicked,
         NEW c \in Cores, Lock(c) \/ Step(c)
  PROVE  BlocksMapped'
<1>1. /\ \A p \in Pages : page_frames[p] # {} => page_frames'[p] # {}
      /\ \A p : Missing(p) = {} => MissingNext(p) = {}
  BY MemoryStays, TablesLast
<1>2. \A b \in Blocks : b[1] \in Pages
  BY DEF Blocks
<1>3. HeapBlocks \subseteq Blocks
  BY DEF HeapBlocks
<1>4. \A b \in HeapBlocks' : page_frames'[b[1]] # {} /\ MissingNext(b[1]) = {}
  <2>1. CASE Populates(c)
    <3>1. pc[c] = "populate" /\ Missing(call[c].block[1]) = {}
      BY <2>1 DEF Populates, pop_populate, pop_whole_page, Goto
    <3>2. /\ call[c].block[1] \in Pages
          /\ page_frames'[call[c].block[1]] # {} /\ MissingNext(call[c].block[1]) = {}
      BY <1>1, <3>1 DEF BlocksMapped, HandsInv, PageInHand, WithPage
    <3>3. /\ call[c].class \in Classes
          /\ HeapBlocks' = HeapBlocks \cup FirstBlocks(call[c].block[1], BlocksPerPage[call[c].class])
      BY <2>1, PageGetsReady
    <3>4. \A b \in FirstBlocks(call[c].block[1], BlocksPerPage[call[c].class]) : b[1] = call[c].block[1]
      BY <3>2, <3>3, BlocksOfPage
    <3> QED
      BY <1>1, <1>2, <1>3, <3>2, <3>3, <3>4 DEF BlocksMapped
  <2>2. CASE ~Populates(c)
    <3>1. HeapBlocks' = HeapBlocks
      BY <2>2, BlocksStay
    <3> QED
      BY <1>1, <1>2, <1>3, <3>1 DEF BlocksMapped
  <2> QED
    BY <2>1, <2>2
<1>5. ASSUME NEW d \in Cores, pc'[d] \in {"heap_table", "populate"} PROVE page_frames'[call'[d].block[1]] # {}
  <2>1. CASE pc[d] \in {"heap_table", "populate"} /\ call'[d] = call[d]
    BY <1>1, <2>1 DEF BlocksMapped, HandsInv, PageInHand, WithPage
  <2>2. CASE d # c
    BY <1>5, <2>1, <2>2, OthersStayAndOwnKept DEF OthersStay
  <2>3. CASE d = c /\ pop_map(c)
    <3>1. pc[c] = "heap_map" /\ call' = call
      BY <2>3 DEF pop_map, Goto
    <3>2. call[c].block[1] \in Pages
      BY <3>1 DEF PagesFresh, Mapping
    <3>3. PICK f : page_frames' = [page_frames EXCEPT ![call[c].block[1]] = {f}]
      BY <2>3 DEF pop_map
    <3>4. page_frames'[call[c].block[1]] = {f}
      BY <3>2, <3>3 DEF FrameTypes
    <3>5. f \in page_frames'[call'[d].block[1]]
      BY <2>3, <3>1, <3>4
    <3> QED
      BY <3>5
  <2>4. CASE d = c /\ ~pop_map(c) /\ ~(pc[d] \in {"heap_table", "populate"} /\ call'[d] = call[d])
    <3> USE DEF FrameTypes
    <3>1. \A from, to : Goto(c, from, to) => pc[c] = from /\ pc'[c] = to
      BY DEF Goto
    <3>2. \A b : Grant(c, b) => pc'[c] \notin {"heap_table", "populate"}
      BY DEF Grant
    <3>3. \A b : dealloc(c, b) => pc'[c] \notin {"heap_table", "populate"}
      BY DEF dealloc
    <3>4. ~Lock(c) /\ ~Expect(c) /\ ~MmioStep(c) /\ ~TableStep(c)
      BY <1>5, <2>4, <3>1 DEF Lock, Expect, MmioStep, TableStep, OutOfMemory, AddressOverflow, expect_failed, map_mmio,
         mmio_reserve, mmio_mapped, lock_page_table, lock_free_memory, lock_for_table, take_table, lock_regions
    <3>5. ~AllocStep(c)
      <4>1. \A k : alloc(c, k) => pc'[c] = "pop"
        BY <3>1 DEF alloc
      <4>2. pop_reserve(c) \/ pop_populate(c) => pc'[c] \in {"heap_lock", "pop"}
        BY <3>1 DEF pop_reserve, pop_populate
      <4>3. pop_whole_page(c) \/ pop_node(c) \/ pop_slot(c) => \E b : Grant(c, b)
        BY DEF pop_whole_page, pop_node, pop_slot
      <4> QED
        BY <1>5, <2>4, <3>2, <3>3, <4>1, <4>2, <4>3 DEF AllocStep
    <3>6. ~RegionStep(c)
      BY <1>5, <2>4, <3>1 DEF RegionStep, region_new, allocate_again, allocate_fresh, take_run,
         region_reserve, map_region, region_drop, free, grow, grown
    <3> QED
      BY <3>4, <3>5, <3>6 DEF Step
  <2> QED
    BY <2>1, <2>2, <2>3, <2>4
<1> QED
  BY <1>4, <1>5 DEF BlocksMapped, Missing, MissingNext

(* A region is handed out once it is mapped, and kept in the Vec as it is. *)
LEMMA RegionsMappedKept ==
  ASSUME FrameTypes, PagesFresh, PagesKnown, RegionsMapped, CallsMapped, NEW c \in Cores, Lock(c) \/ Step(c)
  PROVE  RegionsMapped'
<1> USE DEF regionVars
<1> DEFINE Good(R, L) == /\ \A r \in L : StaysMapped(r)
                         /\ \A i \in DOMAIN R : StaysMapped(R[i])
<1>0. regions \in Seq(RegionType)
  BY DEF FrameTypes
<1>1. Good(regions, live_regions)
  BY MappedStays DEF RegionsMapped
<1>2. SUFFICES Good(regions', live_regions')
  BY DEF RegionsMapped, StaysMapped, IsMapped, FramesOf, Missing, MissingNext
<1>3. CASE allocate_again(c)
  <2>1. /\ regions # <<>> /\ regions' = SubSeq(regions, 1, Len(regions) - 1)
        /\ live_regions' = live_regions \cup {regions[Len(regions)]}
    BY <1>3 DEF allocate_again, Front, Last
  <2>2. Len(regions) # 0
    BY <1>0, <2>1
  <2>3. regions' = [i \in 1 .. Len(regions) - 1 |-> regions[i]]
    BY <1>0, <2>1, <2>2
  <2> QED
    BY <1>0, <1>1, <2>1, <2>2, <2>3
<1>4. CASE map_region(c)
  <2> DEFINE r == call[c].region
  <2>1. /\ pc[c] = "region_map" /\ live_regions' = live_regions \cup {r} /\ UNCHANGED <<regions, page_class>>
        /\ page_frames' = [page_frames EXCEPT ![r.page] = FramesOf(r)]
    BY <1>4 DEF map_region, Goto
  <2>2. r.page \in Pages /\ page_class[r.page] = "region" /\ r.frame \in Frames
    BY <2>1 DEF PagesFresh, CallsMapped, RegionUnmapped, AtRegion
  <2>3. MissingNext(r.page) = {}
    <3>1. Missing(r.page) = {}
      BY <1>4 DEF map_region
    <3> QED
      BY <3>1, TablesLast
  <2> HIDE DEF r
  <2>4. StaysMapped(r)
    BY <2>1, <2>2, <2>3 DEF StaysMapped, FrameTypes
  <2> QED
    BY <1>1, <2>1, <2>4
<1>5. ASSUME NEW region \in live_regions, region_drop(c, region) PROVE Good(regions', live_regions')
  BY <1>1, <1>5 DEF region_drop
<1>6. CASE free(c)
  <2>1. pc[c] = "free" /\ regions' = Append(regions, call[c].region) /\ live_regions' = live_regions
    BY <1>6 DEF free, Goto
  <2>2. /\ \A i \in DOMAIN regions' : i \in DOMAIN regions \/ i = Len(regions) + 1
        /\ \A i \in DOMAIN regions : regions'[i] = regions[i]
        /\ regions'[Len(regions) + 1] = call[c].region
    BY <1>0, <2>1
  <2>3. StaysMapped(call[c].region)
    BY <2>1, MappedStays DEF CallsMapped, HasRegion
  <2> QED
    BY <1>1, <2>1, <2>2, <2>3
<1> HIDE DEF Good
<1>7. CASE UNCHANGED <<regions, live_regions>>
  BY <1>1, <1>7
<1>8. CASE Lock(c) \/ Expect(c) \/ MmioStep(c) \/ TableStep(c)
  BY <1>7, <1>8 DEF Lock, Expect, MmioStep, TableStep, OutOfMemory, AddressOverflow, expect_failed, map_mmio,
     mmio_reserve, mmio_mapped, lock_page_table, lock_free_memory, lock_for_table, take_table, lock_regions
<1>9. CASE AllocStep(c)
  BY <1>7, <1>9 DEF AllocStep, alloc, dealloc, pop_populate, pop_whole_page, pop_node, pop_slot,
     pop_reserve, pop_map
<1>10. CASE region_new(c) \/ allocate_fresh(c) \/ take_run(c) \/ region_reserve(c) \/ grow(c) \/ grown(c)
  BY <1>7, <1>10 DEF region_new, allocate_fresh, take_run, region_reserve, grow, grown
<1> QED
  BY <1>3, <1>4, <1>5, <1>6, <1>8, <1>9, <1>10 DEF Step, RegionStep

(* Nobody else reserves or maps regions while a core does, and its page is no page of the heap. *)
LEMMA OthersCallsMapped ==
  ASSUME FrameTypes, PagesFresh, PagesKnown, RegionsInHand, CallsMapped, NEW c \in Cores, Lock(c) \/ Step(c),
         NEW d \in Cores \ {c}
  PROVE  /\ HasRegion(d)' => StaysMapped(call'[d].region)
         /\ pc'[d] \in AtRegion => RegionUnmapped(d)'
<1> USE DEF pageVars, AtRegion
<1>1. /\ pc'[d] = pc[d] /\ call'[d] = call[d]
      /\ regions_lock' = d => regions_lock = d
  BY OthersStayAndOwnKept, HeapAssumption DEF OthersStay
<1>2. HasRegion(d)' => HasRegion(d)
  BY <1>1 DEF HasRegion
<1>3. HasRegion(d)' => StaysMapped(call'[d].region)
  BY <1>1, <1>2, MappedStays DEF CallsMapped
<1>4. ASSUME pc[d] \in AtRegion
      PROVE  page_frames'[call[d].region.page] = page_frames[call[d].region.page]
  <2>1. call[d].region.page \in Pages /\ page_class[call[d].region.page] \notin Classes
    BY <1>4, HeapAssumption DEF PagesFresh
  <2>2. ~map_region(c)
    BY <1>4 DEF map_region, Goto, RegionsInHand, LockedRegions
  <2>3. CASE pop_map(c)
    <3>1. pc[c] = "heap_map" /\ \E S : page_frames' = [page_frames EXCEPT ![call[c].block[1]] = S]
      BY <2>3 DEF pop_map, Goto
    <3>2. page_class[call[c].block[1]] \in Classes
      BY <3>1 DEF PagesFresh, Mapping
    <3> QED
      BY <2>1, <3>1, <3>2 DEF FrameTypes
  <2>4. CASE Lock(c) \/ Expect(c) \/ MmioStep(c) \/ TableStep(c)
    BY <2>4 DEF Lock, Expect, MmioStep, TableStep, OutOfMemory, AddressOverflow, expect_failed, map_mmio,
       mmio_reserve, mmio_mapped, lock_page_table, lock_free_memory, lock_for_table, take_table, lock_regions
  <2>5. CASE AllocStep(c)
    BY <2>3, <2>5 DEF AllocStep, alloc, dealloc, pop_populate, pop_whole_page, pop_node, pop_slot,
       pop_reserve
  <2>6. CASE RegionStep(c)
    <3>1. \A region : region_drop(c, region) => UNCHANGED page_frames
      BY DEF region_drop
    <3> QED
      BY <2>2, <2>6, <3>1 DEF RegionStep, region_new, allocate_again, allocate_fresh, take_run,
         region_reserve, free, grow, grown
  <2> QED
    BY <2>4, <2>5, <2>6 DEF Step
<1>5. pc'[d] \in AtRegion => RegionUnmapped(d)'
  BY <1>1, <1>4 DEF CallsMapped, RegionUnmapped
<1> QED
  BY <1>3, <1>5

(* The core itself takes a mapped region to the Vec, and a fresh one to an unmapped page. *)
LEMMA OwnCallMapped ==
  ASSUME LockInv, FrameTypes, PagesFresh, PagesKnown, RegionsInHand, RegionsMapped, CallsMapped,
         NEW c \in Cores, Lock(c) \/ Step(c)
  PROVE  /\ HasRegion(c)' => StaysMapped(call'[c].region)
         /\ pc'[c] \in AtRegion => RegionUnmapped(c)'
<1> USE DEF listVars, pageVars, lockVars, regionVars, AtRegion
<1> DEFINE Right == /\ HasRegion(c)' => StaysMapped(call'[c].region)
                    /\ pc'[c] \in AtRegion => RegionUnmapped(c)'
<1>0. SUFFICES Right
  OBVIOUS
<1>1. /\ HasRegion(c) => StaysMapped(call[c].region)
      /\ pc[c] \in AtRegion => RegionUnmapped(c)
  BY MappedStays DEF CallsMapped
<1>2. pc = [d \in Cores |-> pc[d]] /\ call = [d \in Cores |-> call[d]] /\ c # NoCore
  BY HeapAssumption DEF FrameTypes
<1>3. \A from, to : Goto(c, from, to) => pc[c] = from /\ pc'[c] = to
  BY <1>2 DEF Goto
<1>4. \A k, b, r : CallBecomes(c, k, b, r) => call'[c].region = r
  <2> SUFFICES ASSUME NEW k, NEW b, NEW r, CallBecomes(c, k, b, r) PROVE call'[c].region = r
    OBVIOUS
  <2>1. call'[c] = [class |-> k, block |-> b, region |-> r]
    BY <1>2 DEF CallBecomes
  <2> QED
    BY <2>1
<1>5. CASE ~HasRegion(c)' /\ pc'[c] \notin AtRegion
  BY <1>5
<1>6. CASE /\ HasRegion(c)' => HasRegion(c)
           /\ call'[c].region = call[c].region /\ pc'[c] \notin AtRegion
  BY <1>1, <1>6
<1>7. CASE UNCHANGED <<call, page_frames, regions_lock>> /\ pc[c] \in AtRegion /\ pc'[c] \in AtRegion
  BY <1>1, <1>7 DEF HasRegion, RegionUnmapped, Allocating
<1> HIDE DEF Right
<1>8. CASE Lock(c)
  <2>1. UNCHANGED <<call, page_frames>>
    BY <1>8 DEF Lock, lock_page_table, lock_free_memory, lock_for_table, lock_regions
  <2>2. \/ pc[c] = "heap_lock" /\ pc'[c] = "frame_lock" /\ regions_lock' = regions_lock
        \/ pc[c] = "frame_lock" /\ pc'[c] = "heap_map" /\ regions_lock' = regions_lock
        \/ pc[c] = "populate" /\ pc'[c] = "heap_table" /\ regions_lock' = regions_lock
        \/ pc'[c] \in {"allocate", "take_run", "mmio_map", "mmio_table"}
        \/ pc[c] \in AtRegion /\ pc'[c] \in AtRegion /\ regions_lock' = regions_lock
        \/ pc[c] = "drop_lock" /\ pc'[c] = "free"
    BY <1>3, <1>8 DEF Lock, lock_page_table, lock_free_memory, lock_for_table, lock_regions
  <2> QED
    BY <1>5, <1>6, <1>7, <2>1, <2>2 DEF HasRegion, Allocating, Right
<1>9. CASE Expect(c)
  <2>1. pc'[c] = "panic"
    BY <1>3, <1>9 DEF Expect, OutOfMemory, AddressOverflow, expect_failed
  <2> QED
    BY <1>5, <2>1 DEF HasRegion, Allocating, Right
<1>10. CASE MmioStep(c)
  <2>1. pc'[c] \in {"mmio_reserve", "mmio_lock", "idle"}
    BY <1>3, <1>10 DEF MmioStep, map_mmio, mmio_reserve, mmio_mapped
  <2> QED
    BY <1>5, <2>1 DEF HasRegion, Allocating, Right
<1>11. ASSUME NEW k \in Classes, alloc(c, k) PROVE Right
  <2>1. pc[c] = "idle" /\ pc'[c] = "pop" /\ regions_lock' = regions_lock
    BY <1>3, <1>11 DEF alloc
  <2>2. regions_lock # c
    BY <2>1 DEF LockInv, Where, LockedRegions, Allocating
  <2> QED
    BY <1>5, <2>1, <2>2 DEF HasRegion, Right
<1>12. CASE pop_reserve(c)
  <2>1. pc[c] = "pop" /\ pc'[c] = "heap_lock" /\ regions_lock' = regions_lock
    BY <1>3, <1>12 DEF pop_reserve
  <2>2. call'[c].region = call[c].region
    BY <1>4, <1>12, CallsMove
  <2> QED
    BY <1>6, <2>1, <2>2 DEF HasRegion, Allocating, Right
<1>13. CASE pop_map(c) \/ pop_populate(c)
  <2>1. /\ \/ pc[c] = "heap_map" /\ pc'[c] = "populate"
           \/ pc[c] = "populate" /\ pc'[c] = "pop"
        /\ UNCHANGED <<call, regions_lock>>
    BY <1>3, <1>13 DEF pop_map, pop_populate
  <2> QED
    BY <1>6, <2>1 DEF HasRegion, Allocating, Right
<1>14. CASE pop_whole_page(c) \/ pop_node(c) \/ pop_slot(c)
  <2>1. PICK b : Grant(c, b)
    BY <1>14 DEF pop_whole_page, pop_node, pop_slot
  <2>2. UNCHANGED regions_lock /\ pc[c] \in {"pop", "populate"}
    BY <1>14 DEF pop_whole_page, pop_node, pop_slot
  <2>3. CASE regions_lock = c
    <3>1. call'[c].region = call[c].region
      BY <1>4, <2>1, <2>3, CallsMove
    <3>2. pc'[c] = "grown"
      BY <1>2, <2>1, <2>3 DEF Grant
    <3> QED
      BY <1>6, <2>2, <2>3, <3>1, <3>2 DEF HasRegion, Allocating, Right
  <2>4. CASE regions_lock # c
    <3>1. pc'[c] = "idle"
      BY <1>2, <2>1, <2>4 DEF Grant
    <3> QED
      BY <1>5, <3>1 DEF HasRegion, Allocating, Right
  <2> QED
    BY <2>3, <2>4
<1>15. ASSUME NEW b \in in_use, dealloc(c, b) PROVE Right
  <2>1. pc'[c] = "idle"
    BY <1>15 DEF dealloc
  <2> QED
    BY <1>5, <2>1 DEF HasRegion, Allocating, Right
<1>16. CASE region_new(c) \/ allocate_again(c) \/ allocate_fresh(c) \/ take_run(c) \/ map_region(c) \/ free(c)
  <2>1. pc'[c] \in {"new_lock", "idle", "run_lock", "region_reserve"}
    BY <1>3, <1>16 DEF region_new, allocate_again, allocate_fresh, take_run, map_region, free
  <2> QED
    BY <1>5, <2>1 DEF HasRegion, Allocating, Right
<1>17. CASE region_reserve(c)
  <2> DEFINE n == NEXT_HEAP_ADDRESS
  <2>1. pc[c] = "region_reserve" /\ pc'[c] = "region_lock" /\ n \in Pages /\ page_frames' = page_frames
    BY <1>3, <1>17 DEF region_reserve, reserve_virt_addr
  <2>2. call'[c].region = [page |-> n, frame |-> call[c].region.frame]
    BY <1>4, <1>17, CallsMove
  <2>3. call[c].region.frame \in Frames
    BY <2>1 DEF RegionsInHand
  <2>4. page_frames[n] = {}
    BY <2>1 DEF PagesFresh, FrameTypes
  <2> HIDE DEF n
  <2>5. call'[c].region.page = n /\ call'[c].region.frame = call[c].region.frame
    BY <2>2
  <2>6. RegionUnmapped(c)'
    BY <2>1, <2>3, <2>4, <2>5 DEF RegionUnmapped
  <2> QED
    BY <2>1, <2>6 DEF HasRegion, Allocating, Right
<1>18. ASSUME NEW region \in live_regions, region_drop(c, region) PROVE Right
  <2>1. pc'[c] = "drop_lock"
    BY <1>3, <1>18 DEF region_drop
  <2>2. call'[c].region = region
    BY <1>4, <1>18, CallsMove
  <2>3. StaysMapped(region)
    BY MappedStays DEF RegionsMapped
  <2> QED
    BY <2>1, <2>2, <2>3 DEF Right
<1>19. CASE grow(c)
  <2>1. pc[c] = "free" /\ pc'[c] = "pop" /\ call' = call
    BY <1>3, <1>19 DEF grow
  <2> QED
    BY <1>6, <2>1 DEF HasRegion, Right
<1>20. CASE grown(c)
  <2>1. pc[c] = "grown" /\ pc'[c] = "free"
    BY <1>3, <1>20 DEF grown
  <2>2. call'[c].region = call[c].region
    BY <1>4, <1>20, CallsMove
  <2> QED
    BY <1>6, <2>1, <2>2 DEF HasRegion, Right
<1>21. CASE AllocStep(c)
  BY <1>11, <1>12, <1>13, <1>14, <1>15, <1>21 DEF AllocStep
<1>22. CASE RegionStep(c)
  BY <1>16, <1>17, <1>18, <1>19, <1>20, <1>22 DEF RegionStep
<1>23. CASE TableStep(c)
  <2>1. UNCHANGED <<call, page_frames, regions_lock>>
    BY <1>23 DEF TableStep, take_table
  <2>2. \/ pc[c] = "heap_table" /\ pc'[c] = "populate"
        \/ pc[c] \in AtRegion /\ pc'[c] \in AtRegion
        \/ pc'[c] = "mmio_map"
    BY <1>3, <1>23 DEF TableStep, take_table
  <2> QED
    BY <1>5, <1>6, <1>7, <2>1, <2>2 DEF HasRegion, Allocating, Right
<1> QED
  BY <1>8, <1>9, <1>10, <1>21, <1>22, <1>23 DEF Step

LEMMA MemoryInvInit == Init => MemoryInv
<1> SUFFICES ASSUME Init PROVE MemoryInv
  OBVIOUS
<1>1. HeapBlocks = {}
  <2>1. \A b \in Blocks : page_class[b[1]] = "none"
    BY DEF Init, Blocks
  <2> QED
    BY <2>1, HeapAssumption DEF HeapBlocks
<1>2. \A c \in Cores : pc[c] = "idle"
  BY DEF Init
<1>3. live_regions = {} /\ regions = <<>> /\ DOMAIN regions = {}
  BY DEF Init
<1> QED
  BY <1>1, <1>2, <1>3 DEF MemoryInv, BlocksMapped, RegionsMapped, CallsMapped, HasRegion, Allocating, AtRegion

LEMMA MemoryInvStep == LockInv /\ FrameInv /\ BlockInv /\ MemoryInv /\ [Next]_vars => MemoryInv'
<1> SUFFICES ASSUME LockInv, FrameInv, BlockInv, MemoryInv, [Next]_vars PROVE MemoryInv'
  OBVIOUS
<1>1. /\ FrameTypes /\ PagesFresh /\ RegionsInHand /\ HandsInv /\ PagesKnown
      /\ BlocksMapped /\ RegionsMapped /\ CallsMapped
  BY DEF FrameInv, BlockInv, MemoryInv
<1>2. CASE Next
  <2>1. PICK c \in Cores : Lock(c) \/ Step(c)
    BY <1>2 DEF Next
  <2>2. ~Panicked
    BY <1>2 DEF Next
  <2>3. BlocksMapped' /\ RegionsMapped'
    BY <1>1, <2>1, <2>2, BlocksMappedKept, RegionsMappedKept
  <2>4. ASSUME NEW d \in Cores
        PROVE  /\ HasRegion(d)' => StaysMapped(call'[d].region)
               /\ pc'[d] \in AtRegion => RegionUnmapped(d)'
    <3>1. CASE d = c
      BY <1>1, <2>1, <3>1, OwnCallMapped
    <3>2. CASE d # c
      BY <1>1, <2>1, <3>2, OthersCallsMapped
    <3> QED
      BY <3>1, <3>2
  <2>5. CallsMapped'
    BY <2>4 DEF CallsMapped, StaysMapped, IsMapped, FramesOf, Missing, MissingNext
  <2> QED
    BY <2>3, <2>5 DEF MemoryInv
<1>3. CASE UNCHANGED vars
  <2> USE <1>3 DEF vars, listVars, pageVars, lockVars, regionVars
  <2>1. HeapBlocks' = HeapBlocks
    BY DEF HeapBlocks, BeingMapped
  <2>2. BlocksMapped'
    BY <1>1, <2>1 DEF BlocksMapped, Missing
  <2>3. RegionsMapped' /\ CallsMapped'
    BY <1>1 DEF RegionsMapped, CallsMapped, HasRegion, RegionUnmapped, IsMapped, FramesOf, Missing
  <2> QED
    BY <2>2, <2>3 DEF MemoryInv
<1> QED
  BY <1>2, <1>3

-----------------------------------------------------------------------------
(* What callers hold is apart: every frame has one owner. *)
BlocksApart ==
  /\ in_use \subseteq Blocks
  /\ \A b \in in_use : Reached(b[1]) # {}
  /\ \A b, d \in in_use : b[1] # d[1] => Reached(b[1]) \cap Reached(d[1]) = {}

RegionsApart ==
  /\ \A r \in live_regions : Reached(r.page) # {}
  /\ \A r, q \in live_regions : r # q => r.page # q.page /\ Reached(r.page) \cap Reached(q.page) = {}
  /\ \A b \in in_use, r \in live_regions : b[1] # r.page /\ Reached(b[1]) \cap Reached(r.page) = {}

LEMMA OwnersApart ==
  ASSUME FrameInv, BlockInv
  PROVE  /\ \A p \in Pages : \A f \in page_frames[p] : f \in Frames
         /\ \A p, q \in Pages : \A f \in page_frames[p] \cap page_frames[q] :
              page_class[p] \in Classes /\ page_class[q] \in Classes => p = q
         /\ \A r, q \in live_regions : \A f \in FramesOf(r) \cap FramesOf(q) : r = q
         /\ \A p \in Pages, r \in live_regions : \A f \in FramesOf(r) :
              page_class[p] \in Classes => f \notin page_frames[p]
<1>1. \A p \in Pages : \A f \in page_frames[p] : f \in Frames
  BY DEF BlockInv, BlockTypes
<1>2. \A r \in live_regions : \A f \in FramesOf(r) : f \in Frames
  BY DEF BlockInv, FramesKnown
<1>3. \A f \in Frames : /\ PagesWith(f) = {} \/ HeldWith(f) = {}
                        /\ \A x, y \in PagesWith(f) : x = y
                        /\ \A x, y \in HeldWith(f) : x = y
  <2> SUFFICES ASSUME NEW f \in Frames
               PROVE  /\ PagesWith(f) = {} \/ HeldWith(f) = {}
                      /\ \A x, y \in PagesWith(f) : x = y
                      /\ \A x, y \in HeldWith(f) : x = y
    OBVIOUS
  <2>1. OneOwner(f)
    BY DEF FrameInv
  <2>2. /\ PagesWith(f) = {} \/ HeldWith(f) = {}
        /\ PagesWith(f) = {} \/ Single(PagesWith(f))
        /\ HeldWith(f) = {} \/ Single(HeldWith(f))
    BY <2>1 DEF OneOwner, Free, OnPage, InTable, Held, Kept, InCall
  <2>3. \A S : Single(S) => \A x, y \in S : x = y
    BY DEF Single
  <2> QED
    BY <2>2, <2>3
<1>4. \A f : \A p \in Pages : page_class[p] \in Classes /\ f \in page_frames[p] => p \in PagesWith(f)
  BY DEF PagesWith
<1>5. \A f : \A r \in live_regions : f \in FramesOf(r) => r \in HeldWith(f)
  BY DEF HeldWith
<1> HIDE DEF FramesOf
<1>6. ASSUME NEW p \in Pages, NEW q \in Pages, NEW f \in page_frames[p] \cap page_frames[q],
             page_class[p] \in Classes, page_class[q] \in Classes
      PROVE  p = q
  BY <1>1, <1>3, <1>4, <1>6
<1>7. ASSUME NEW r \in live_regions, NEW q \in live_regions, NEW f \in FramesOf(r) \cap FramesOf(q)
      PROVE  r = q
  BY <1>2, <1>3, <1>5
<1>8. ASSUME NEW p \in Pages, NEW r \in live_regions, NEW f \in FramesOf(r), page_class[p] \in Classes
      PROVE  f \notin page_frames[p]
  BY <1>2, <1>3, <1>4, <1>5, <1>8
<1> QED
  BY <1>1, <1>6, <1>7, <1>8

HeldApart == BlocksApart /\ RegionsApart

LEMMA HoldersApart == FrameInv /\ BlockInv /\ MemoryInv => HeldApart
<1> SUFFICES ASSUME FrameInv, BlockInv, MemoryInv PROVE HeldApart
  OBVIOUS
<1>1. \A b \in in_use : /\ b \in Blocks /\ b[1] \in Pages /\ page_class[b[1]] \in Classes
                        /\ page_frames[b[1]] # {} /\ Reached(b[1]) = page_frames[b[1]]
  <2>1. in_use \subseteq HeapBlocks
    BY DEF BlockInv, ListInv
  <2>2. \A b \in HeapBlocks : b \in Blocks /\ page_class[b[1]] \in Classes
    BY DEF HeapBlocks
  <2>3. \A b \in Blocks : b[1] \in Pages
    BY DEF Blocks
  <2> QED
    BY <2>1, <2>2, <2>3 DEF MemoryInv, BlocksMapped, Reached
<1>2. \A r \in live_regions : /\ r.page \in Pages /\ page_class[r.page] \notin Classes
                              /\ page_frames[r.page] = FramesOf(r) /\ r.frame \in FramesOf(r)
                              /\ Reached(r.page) = page_frames[r.page]
  BY HeapAssumption, HasFrames DEF MemoryInv, RegionsMapped, IsMapped, Reached
<1> HIDE DEF FramesOf
<1>3. BlocksApart
  BY <1>1, OwnersApart DEF BlocksApart
<1>4. RegionsApart
  <2>1. \A r, q \in live_regions : r # q => r.page # q.page /\ Reached(r.page) \cap Reached(q.page) = {}
    BY <1>2, OwnersApart
  <2>2. \A b \in in_use, r \in live_regions : b[1] # r.page /\ Reached(b[1]) \cap Reached(r.page) = {}
    BY <1>1, <1>2, OwnersApart
  <2> QED
    BY <1>2, <2>1, <2>2 DEF RegionsApart
<1> QED
  BY <1>3, <1>4 DEF HeldApart

(* How the entries of the allocator follow from who holds what. *)
Entries == {BlockAndMemory(b) : b \in in_use} \cup {RegionAndMemory(r) : r \in live_regions}
ReachedNext(page) == IF MissingNext(page) = {} THEN page_frames'[page] ELSE {}
BlockNext(b) == [at |-> b, memory |-> ReachedNext(b[1]) \X {b[2]}]
RegionNext(r) == [at |-> <<r.page, 0>>, memory |-> ReachedNext(r.page) \X BlockIndexes]

EntriesApart ==
  /\ \A d \in Entries : d.memory # {}
  /\ \A d, e \in Entries : d # e => d.at # e.at /\ d.memory \cap e.memory = {}

LEMMA HeldEntriesApart == HeldApart => EntriesApart
<1> SUFFICES ASSUME HeldApart PROVE EntriesApart
  OBVIOUS
<1>1. \A b \in in_use : /\ b = <<b[1], b[2]>> /\ Reached(b[1]) # {}
                        /\ BlockAndMemory(b).at = b
                        /\ BlockAndMemory(b).memory = Reached(b[1]) \X {b[2]}
  BY DEF HeldApart, BlocksApart, Blocks, BlockAndMemory
<1>2. \A r \in live_regions : /\ Reached(r.page) # {}
                              /\ RegionAndMemory(r).at = <<r.page, 0>>
                              /\ RegionAndMemory(r).memory = Reached(r.page) \X BlockIndexes
  BY DEF HeldApart, RegionsApart, RegionAndMemory
<1>3. \A S, T : S # {} /\ T # {} => S \X T # {}
  <2> SUFFICES ASSUME NEW S, NEW T, S # {}, T # {} PROVE S \X T # {}
    OBVIOUS
  <2>1. PICK x \in S, y \in T : TRUE
    OBVIOUS
  <2>2. <<x, y>> \in S \X T
    OBVIOUS
  <2> QED
    BY <2>2
<1>4. \A S, T, U, V : S \cap T = {} \/ U \cap V = {} => (S \X U) \cap (T \X V) = {}
  OBVIOUS
<1>5. \A d \in Entries : d.memory # {}
  <2>1. BlockIndexes # {}
    BY Bounds
  <2>2. ASSUME NEW b \in in_use PROVE BlockAndMemory(b).memory # {}
    <3>1. Reached(b[1]) # {} /\ {b[2]} # {}
      BY <1>1
    <3>2. Reached(b[1]) \X {b[2]} # {}
      BY <1>3, <3>1
    <3> QED
      BY <1>1, <3>2
  <2>3. \A r \in live_regions : RegionAndMemory(r).memory # {}
    BY <1>2, <1>3, <2>1
  <2> QED
    BY <2>2, <2>3 DEF Entries
<1>6. ASSUME NEW b \in in_use, NEW d \in in_use, b # d
      PROVE  /\ BlockAndMemory(b).at # BlockAndMemory(d).at
             /\ BlockAndMemory(b).memory \cap BlockAndMemory(d).memory = {}
  <2>1. b[1] # d[1] \/ b[2] # d[2]
    BY <1>1, <1>6
  <2>2. b[1] # d[1] => Reached(b[1]) \cap Reached(d[1]) = {}
    BY DEF HeldApart, BlocksApart
  <2>3. b[2] # d[2] => {b[2]} \cap {d[2]} = {}
    OBVIOUS
  <2> QED
    BY <1>1, <1>4, <1>6, <2>1, <2>2, <2>3
<1>7. ASSUME NEW r \in live_regions, NEW q \in live_regions, r # q
      PROVE  /\ RegionAndMemory(r).at # RegionAndMemory(q).at
             /\ RegionAndMemory(r).memory \cap RegionAndMemory(q).memory = {}
  <2>1. r.page # q.page /\ Reached(r.page) \cap Reached(q.page) = {}
    BY <1>7 DEF HeldApart, RegionsApart
  <2> QED
    BY <1>2, <1>4, <2>1
<1>8. ASSUME NEW b \in in_use, NEW r \in live_regions
      PROVE  /\ BlockAndMemory(b).at # RegionAndMemory(r).at
             /\ BlockAndMemory(b).memory \cap RegionAndMemory(r).memory = {}
             /\ RegionAndMemory(r).memory \cap BlockAndMemory(b).memory = {}
  <2>1. b[1] # r.page /\ Reached(b[1]) \cap Reached(r.page) = {}
    BY DEF HeldApart, RegionsApart
  <2> QED
    BY <1>1, <1>2, <1>4, <2>1
<1> HIDE DEF BlockAndMemory, RegionAndMemory
<1>9. \A d, e \in Entries : d # e => d.at # e.at /\ d.memory \cap e.memory = {}
  <2> SUFFICES ASSUME NEW d \in Entries, NEW e \in Entries, d # e
               PROVE  d.at # e.at /\ d.memory \cap e.memory = {}
    OBVIOUS
  <2>1. CASE (\E b \in in_use : d = BlockAndMemory(b)) /\ (\E b \in in_use : e = BlockAndMemory(b))
    BY <1>6, <2>1
  <2>2. CASE (\E r \in live_regions : d = RegionAndMemory(r)) /\ (\E r \in live_regions : e = RegionAndMemory(r))
    BY <1>7, <2>2
  <2>3. CASE (\E b \in in_use : d = BlockAndMemory(b)) /\ (\E r \in live_regions : e = RegionAndMemory(r))
    BY <1>8, <2>3
  <2>4. CASE (\E r \in live_regions : d = RegionAndMemory(r)) /\ (\E b \in in_use : e = BlockAndMemory(b))
    BY <1>8, <2>4
  <2> QED
    BY <2>1, <2>2, <2>3, <2>4 DEF Entries
<1> QED
  BY <1>5, <1>9 DEF EntriesApart

(* One more holder or one fewer, and whoever had memory has it still. *)
HolderMoves ==
  \/ UNCHANGED <<in_use, live_regions>>
  \/ live_regions' = live_regions /\ \E b : in_use' = in_use \cup {b}
  \/ live_regions' = live_regions /\ \E b \in in_use : in_use' = in_use \ {b}
  \/ in_use' = in_use /\ \E r : live_regions' = live_regions \cup {r}
  \/ in_use' = in_use /\ \E r \in live_regions : live_regions' = live_regions \ {r}

LEMMA HoldersMove ==
  ASSUME BufferKnown, NEW c \in Cores, Lock(c) \/ Step(c)
  PROVE  HolderMoves
<1> USE DEF listVars, regionVars
<1>1. CASE UNCHANGED <<in_use, live_regions>>
  BY <1>1 DEF HolderMoves
<1>2. CASE Lock(c) \/ Expect(c) \/ MmioStep(c) \/ TableStep(c)
  BY <1>1, <1>2 DEF Lock, Expect, MmioStep, TableStep, OutOfMemory, AddressOverflow, expect_failed, map_mmio,
     mmio_reserve, mmio_mapped, lock_page_table, lock_free_memory, lock_for_table, take_table, lock_regions
<1>3. CASE pop_whole_page(c) \/ pop_node(c) \/ pop_slot(c)
  <2>1. /\ live_regions' = live_regions
        /\ \E b : Grant(c, b)
    BY <1>3 DEF pop_whole_page, pop_node, pop_slot
  <2> QED
    BY <2>1 DEF Grant, HolderMoves
<1>4. ASSUME NEW b \in in_use, dealloc(c, b) PROVE HolderMoves
  BY <1>4 DEF dealloc, HolderMoves
<1>5. CASE AllocStep(c)
  <2>1. \A k : alloc(c, k) => UNCHANGED <<in_use, live_regions>>
    BY DEF alloc
  <2> QED
    BY <1>1, <1>3, <1>4, <1>5, <2>1 DEF AllocStep, pop_populate, pop_reserve, pop_map
<1>6. CASE grown(c)
  <2>1. CASE buffer = Null
    BY <1>1, <1>6, <2>1 DEF grown
  <2>2. CASE buffer # Null
    BY <1>6, <2>2 DEF grown, BufferKnown, HolderMoves
  <2> QED
    BY <2>1, <2>2
<1>7. ASSUME NEW region \in live_regions, region_drop(c, region) PROVE HolderMoves
  BY <1>7 DEF region_drop, HolderMoves
<1>8. CASE allocate_again(c)
  BY <1>8 DEF allocate_again, HolderMoves
<1>9. CASE map_region(c)
  BY <1>9 DEF map_region, HolderMoves
<1>10. CASE RegionStep(c)
  BY <1>1, <1>6, <1>7, <1>8, <1>9, <1>10 DEF RegionStep, region_new, allocate_fresh, take_run,
     region_reserve, free, grow
<1> QED
  BY <1>2, <1>5, <1>10 DEF Step

EntryMoves ==
  \/ Entries' = Entries
  \/ \E e : Entries' = Entries \cup {e}
  \/ \E e \in Entries : Entries' = Entries \ {e}

LEMMA EntriesMove ==
  ASSUME HeldApart, HolderMoves,
         \A b \in in_use : BlockNext(b) = BlockAndMemory(b),
         \A r \in live_regions : RegionNext(r) = RegionAndMemory(r)
  PROVE  EntryMoves
<1>1. Entries' = {BlockNext(b) : b \in in_use'} \cup {RegionNext(r) : r \in live_regions'}
  BY DEF Entries, BlockNext, RegionNext, BlockAndMemory, RegionAndMemory, Reached, ReachedNext, Missing,
         MissingNext
<1>2. \A b, d \in in_use : b # d => BlockAndMemory(b) # BlockAndMemory(d)
  <2>1. \A b : BlockAndMemory(b).at = b
    BY DEF BlockAndMemory
  <2> QED
    BY <2>1
<1>3. \A r, q \in live_regions : r # q => RegionAndMemory(r) # RegionAndMemory(q)
  <2>1. \A r : RegionAndMemory(r).at = <<r.page, 0>>
    BY DEF RegionAndMemory
  <2>2. \A r, q \in live_regions : r # q => <<r.page, 0>> # <<q.page, 0>>
    BY DEF HeldApart, RegionsApart
  <2> QED
    BY <2>1, <2>2
<1>4. \A b \in in_use, r \in live_regions : BlockAndMemory(b) # RegionAndMemory(r)
  <2>1. \A b, r : BlockAndMemory(b).at = b /\ RegionAndMemory(r).at = <<r.page, 0>>
    BY DEF BlockAndMemory, RegionAndMemory
  <2>2. \A b \in in_use, r \in live_regions : b # <<r.page, 0>>
    BY DEF HeldApart, RegionsApart
  <2> QED
    BY <2>1, <2>2
<1> HIDE DEF BlockNext, RegionNext, BlockAndMemory, RegionAndMemory
<1>5. CASE UNCHANGED <<in_use, live_regions>>
  BY <1>1, <1>5 DEF EntryMoves, Entries
<1>6. ASSUME live_regions' = live_regions, NEW b, in_use' = in_use \cup {b}
      PROVE  Entries' = Entries \cup {BlockNext(b)}
  BY <1>1, <1>6 DEF Entries
<1>7. ASSUME live_regions' = live_regions, NEW b \in in_use, in_use' = in_use \ {b}
      PROVE  Entries' = Entries \ {BlockAndMemory(b)} /\ BlockAndMemory(b) \in Entries
  <2>1. \A e : e \in Entries <=> (\E d \in in_use : e = BlockAndMemory(d)) \/ (\E r \in live_regions : e = RegionAndMemory(r))
    BY DEF Entries
  <2>2. \A e : e \in Entries' <=> (\E d \in in_use' : e = BlockNext(d)) \/ (\E r \in live_regions' : e = RegionNext(r))
    BY <1>1
  <2>3. \A e : e \in Entries' <=> e \in Entries /\ e # BlockAndMemory(b)
    BY <1>2, <1>4, <1>7, <2>1, <2>2
  <2>4. Entries' = Entries \ {BlockAndMemory(b)}
    BY <2>3
  <2> QED
    BY <2>1, <2>4
<1>8. ASSUME in_use' = in_use, NEW r, live_regions' = live_regions \cup {r}
      PROVE  Entries' = Entries \cup {RegionNext(r)}
  BY <1>1, <1>8 DEF Entries
<1>9. ASSUME in_use' = in_use, NEW r \in live_regions, live_regions' = live_regions \ {r}
      PROVE  Entries' = Entries \ {RegionAndMemory(r)} /\ RegionAndMemory(r) \in Entries
  <2>1. \A e : e \in Entries <=> (\E b \in in_use : e = BlockAndMemory(b)) \/ (\E q \in live_regions : e = RegionAndMemory(q))
    BY DEF Entries
  <2>2. \A e : e \in Entries' <=> (\E b \in in_use' : e = BlockNext(b)) \/ (\E q \in live_regions' : e = RegionNext(q))
    BY <1>1
  <2>3. \A e : e \in Entries' <=> e \in Entries /\ e # RegionAndMemory(r)
    BY <1>3, <1>4, <1>9, <2>1, <2>2
  <2>4. Entries' = Entries \ {RegionAndMemory(r)}
    BY <2>3
  <2> QED
    BY <2>1, <2>4
<1> QED
  BY <1>5, <1>6, <1>7, <1>8, <1>9 DEF HolderMoves, EntryMoves

LEMMA StepsAllocate ==
  ASSUME EntriesApart', EntryMoves
  PROVE  AllocatorOfHeap!Next \/ UNCHANGED Entries
<1>1. \A d \in Entries' : d.memory # {}
  BY DEF EntriesApart
<1>2. \A d, e \in Entries' : d # e => d.at # e.at /\ d.memory \cap e.memory = {}
  BY DEF EntriesApart
<1>3. AllocatorOfHeap!Next <=>
        \/ \E e \in Entries' \ Entries : /\ e.memory # {}
                                         /\ \A d \in Entries : d.at # e.at /\ d.memory \cap e.memory = {}
                                         /\ Entries' = Entries \cup {e}
        \/ \E e \in Entries \ Entries' : Entries' = Entries \ {e}
  BY DEF AllocatorOfHeap!Next, AllocatorOfHeap!Allocate, AllocatorOfHeap!Free, Entries,
         BlockAndMemory, RegionAndMemory
<1> HIDE DEF Entries
<1>4. CASE Entries' = Entries
  BY <1>4
<1>5. ASSUME NEW e, Entries' = Entries \cup {e}, e \notin Entries PROVE AllocatorOfHeap!Next
  <2>1. e \in Entries' \ Entries /\ e.memory # {}
    BY <1>1, <1>5
  <2>2. \A d \in Entries : d.at # e.at /\ d.memory \cap e.memory = {}
    BY <1>2, <1>5
  <2> QED
    BY <1>3, <1>5, <2>1, <2>2
<1>6. ASSUME NEW e \in Entries, Entries' = Entries \ {e} PROVE AllocatorOfHeap!Next
  BY <1>3, <1>6
<1>7. \A e \in Entries : Entries \cup {e} = Entries
  OBVIOUS
<1> QED
  BY <1>4, <1>5, <1>6, <1>7 DEF EntryMoves

LEMMA HoldersImplement ==
  FrameInv /\ BlockInv /\ MemoryInv /\ HeldApart /\ EntriesApart' /\ [Next]_vars
    => AllocatorOfHeap!Next \/ UNCHANGED Entries
<1> SUFFICES ASSUME FrameInv, BlockInv, MemoryInv, HeldApart, EntriesApart', [Next]_vars
             PROVE  AllocatorOfHeap!Next \/ UNCHANGED Entries
  OBVIOUS
<1>1. CASE Next
  <2>1. PICK c \in Cores : Lock(c) \/ Step(c)
    BY <1>1 DEF Next
  <2>2. HolderMoves
    BY <2>1, HoldersMove DEF BlockInv
  <2>3. \A p \in Pages : Reached(p) # {} => ReachedNext(p) = Reached(p)
    <3>1. \A p \in Pages : page_frames[p] # {} => page_frames'[p] = page_frames[p]
      BY <2>1, MemoryStays DEF FrameInv, MemoryInv
    <3>2. \A p : Missing(p) = {} => MissingNext(p) = {}
      BY <2>1, TablesLast DEF FrameInv
    <3> QED
      BY <3>1, <3>2 DEF Reached, ReachedNext
  <2>4. ASSUME NEW b \in in_use PROVE BlockNext(b) = BlockAndMemory(b)
    <3>1. b[1] \in Pages /\ Reached(b[1]) # {}
      BY DEF HeldApart, BlocksApart, Blocks
    <3> QED
      BY <2>3, <3>1 DEF BlockNext, BlockAndMemory
  <2>5. ASSUME NEW r \in live_regions PROVE RegionNext(r) = RegionAndMemory(r)
    <3>1. r.page \in Pages /\ Reached(r.page) # {}
      BY DEF HeldApart, RegionsApart, MemoryInv, RegionsMapped, IsMapped
    <3> QED
      BY <2>3, <3>1 DEF RegionNext, RegionAndMemory
  <2>6. EntryMoves
    BY <2>2, <2>4, <2>5, EntriesMove
  <2> QED
    BY <2>6, StepsAllocate
<1>2. CASE UNCHANGED vars
  BY <1>2 DEF vars, listVars, pageVars, regionVars, Entries, BlockAndMemory, RegionAndMemory, Reached, Missing
<1> QED
  BY <1>1, <1>2

(* Heap and regions are an allocator, for any cores, sizes and amounts of memory: whatever the *)
(* cores do, what alloc and ContiguousRegion::new return is mapped memory behind no other      *)
(* address in use, and nobody maps anything else there until it is given back.                 *)
THEOREM HeapImplementsAllocator == Spec => ImplementsAllocator
<1>1. Spec => [](FrameInv /\ BlockInv /\ MemoryInv)
  BY BlockInvHolds, MemoryInvInit, MemoryInvStep, PTL DEF Spec
<1>2. Init => AllocatorOfHeap!Init
  BY DEF Init, AllocatorOfHeap!Init
<1>3. FrameInv /\ BlockInv /\ MemoryInv /\ HeldApart /\ EntriesApart' /\ [Next]_vars
        => [AllocatorOfHeap!Next]_({BlockAndMemory(b) : b \in in_use} \cup {RegionAndMemory(r) : r \in live_regions})
  BY HoldersImplement DEF Entries
<1> QED
  BY <1>1, <1>2, <1>3, HoldersApart, HeldEntriesApart, PTL
     DEF Spec, ImplementsAllocator, AllocatorOfHeap!Spec
=============================================================================
