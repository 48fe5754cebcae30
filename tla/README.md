# A TLA+ model of Flugzeug

Flugzeug is a small multiprocessor x86-64 operating system in Rust: a BIOS and a
UEFI bootloader, a kernel that brings up every core, and a hypervisor on AMD SVM.
This directory holds TLA+ modules that model the parts of it where several cores,
interrupts and panics meet, TLC configurations that check them on small systems,
and theorems about them that the TLA+ proof system checks for systems of any size.
Definitions carry the names of the Rust functions and fields they model;
`PROJECT.json` maps each of them to its lines.

## 1. The system

| Component | State | Operations | Talks to |
|---|---|---|---|
| Locks, `libs/lock` | `locked`, `lock_core` per lock | `lock`, `try_lock_unsafe`, `force_lock_unsafe`, the drop of a guard | the interrupt depth counters, through the `Interrupts` trait; one implementation in the bootloaders, two in the kernel |
| Core locals, `core_locals.rs` | per core: id, APIC id, the depth counters `interrupts_disable`, `in_interrupt`, `in_exception`, free lists, a reference to the boot block | `initialize`, `enable_interrupts`, `disable_interrupts`, enter and exit of handlers | everything, by the `core!` macro |
| Interrupts, `interrupts.rs` | IDT, TSS | `initialize`, `handle_interrupt`, `initial_enable` | depth counters, panic, APIC |
| Range set, `libs/rangeset` | at most 256 inclusive ranges | `insert`, `remove`, `allocate_limited`, `clear` | lives in the boot block (`free_memory`, `boot_memory`), under a lock |
| Boot block, `libs/boot_block` | free and boot memory, page table, AP entrypoint, framebuffer, ACPI pointers, each with its lock | - | shared by the bootloader and all cores; moved once by the BSP |
| Start-up, `main.rs`, `processors.rs` | `CORE_STATES`, `TOTAL_CORES`, `CORES_ONLINE` | `_start`, `initialize` (INIT-SIPI-SIPI per AP), `notify_core_online` | bootloader, APIC, panic |
| Memory manager, `mm.rs` | heap address counter, free lists, contiguous regions, `READY_CORES`, `NEW_BOOT_BLOCK` | `on_finished_boot_process`, `cleanup_bootloader`, heap, `map_mmio`, physical pages and regions | page table, range set, core locals |
| Page tables, `libs/page_table` | four levels of tables in frames | `map`, `map_init`, `map_raw`, `virt_to_phys`, `destroy` | memory manager, bootloaders, nested paging |
| Panic, `panic.rs` | `IS_PANICKING`, `EMERGENCY_WRITING_CORE` | `begin_panic`, the emergency writer, `halt` | NMIs to all online cores, `CORE_STATES`, locks by force |
| SVM, `vm/svm`, `vm/vkernel.rs` | VMCB, guest registers, nested page table, ASID bitmap | `new`, `run`, `inject_event`, `flush_tlb`, demand paging | contiguous regions, page tables, interrupts |
| APIC, clocks, console, ACPI | device registers, calibration results, the text framebuffer | initialisation, `ipi`, timer, printing | interrupts, locks |
| Bootloaders | memory map, `BOOT_BLOCK`, `CORE_ID`, stacks | firmware calls, loading of the kernel, entry of the APs | firmware, boot block |

What is hard in it: there is no scheduler, so all concurrency is between cores and
between a core's own thread, its interrupt handler and its panic handler. Interrupts
are masked by counters that nested critical sections share. During start-up the
shared counters that name a core change three times. The boot block is moved while
all cores may refer to it, and the memory of the code they came from is then reused.
A panic can hit several cores at any of these points and must stop the others. The
places where this bites are listed in `PROJECT.json` under `hazards`, with the
properties that would catch it.

What makes each component correct: a lock has one owner, a core is masked exactly
as long as it must be, a wrong acquisition is reported and a right one is not; the
range set is a set of addresses and grants a block once; start-up passes through two
barriers with one AP in flight, ids identify cores, and memory granted stays granted;
a panic stops every core and lets one of them write; a heap block is in one place of
one list or in use, a frame has one owner, the locks of the memory managers are nested
in one order; a page table translates what was mapped and nothing else, also for a core
that looks without the lock; a guest sees each event once and no stale translation, its
registers and the host's never mix; a bootloader leaves the kernel lists of free and boot
memory that are right, however the firmware behaves, and every core gets from its entry
point to the kernel on tables that map what it touches.

## 2. The modules

### `Mutex`, `KernelLock`: locks, interrupts and panics

`KernelLock` follows every core through `lock()` and the drop of a guard, one atomic
access at a time (`pc`: the deadlock assertion, the exchange on `locked`, the store to
`lock_core`, and back), in three frames per core: the thread, an interrupt handler on
top of it, and the panic handler on top of both. Actions are named after the functions
(`pre_lock_*`, `check_deadlock`, `take`, `claim`, `drop_guard`, `unlock`, `post_lock`,
`try_lock_unsafe`); `enter_interrupt`, `exit_interrupt`, `exception`, `panic` and `halt`
are what may come in between, at any instruction the processor allows. The depth
counters and the interrupt flag are variables of their own, so an unbalanced pair shows.

`Mutex` is what safe code relies on: a lock has at most one owner. `LockOwners` maps
the state of `KernelLock` to it; an owner is a frame of a core, from its successful
exchange to the store that clears `locked`.

Modelling decisions:
- The kernel's `Lock`, after the core's APIC is up (the panic path before that is in
  `KernelPanic`). No exception has a handler, so every exception is a panic.
- `force_lock_unsafe` returns a guard whose drop changes nothing, so it changes no
  state of the lock and is no action: exclusion is about guards from `lock()` and
  `try_lock_unsafe`, and a forced guard is outside what `Mutex` promises.
- A failed exchange changes nothing and is a stutter. Memory is sequentially
  consistent: the accesses that decide are `lock cmpxchg`, which orders on x86.
- `MaxGuards` bounds the guards alive on one frame.

### `FreeMemory`, `RangeSet`: the set of free memory

`RangeSet` keeps the array of entries in its order and runs each loop of `insert`,
`remove` and `allocate_limited` one iteration a step, in the order the code tests; it
computes at a width of `U64Max`, with the saturation, the wrapping of `size` and the
`checked_add` the code has. The assertion of `add_entry` sets `out_of_space` and ends
the behaviour: the kernel panics there. Callers hold a lock around each call, so one
call is in progress at a time. `FreeMemory` is the set of addresses the callers think
of; `FreeAddresses` maps the array, and the call in progress, to it. `asked` holds the
arguments of the call in progress as its caller passed them, and a step of `FreeMemory` is
told in terms of them: the range inserted or removed is the call's, and the block of `Grant`
has the size and the alignment of the call and ends at or below its limit and `usize::MAX`.

### `Barrier`, `BootProcess`: start-up

`BootProcess` takes every core through `_start`. A core is named by its APIC id; ids
may have gaps and the BSP need not be the lowest. `pc` names the position in the code,
one name per access to shared memory. It covers the launch of the APs, the three
identities under which a core takes the page table lock (`CORE_ID` in the bootloader,
`NEXT_FREE_CORE_ID - 1` in `core_locals::initialize`, `CoreLocals::id` after that),
`CORE_STATES` and the two rendezvous, and the whole of `on_finished_boot_process` and
`cleanup_bootloader`. `Barrier` is what a rendezvous promises and is instantiated twice.

Modelling decisions:
- Of the many allocations of a core one stands for each group (stack, core locals,
  heap before the rendezvous, new boot block, heap after it); each takes the lowest
  free frame of the boot block in use and runs under the page table lock.
- The second SIPI reaches a core that runs already and is ignored. The MADT is the
  constant `Cores`. Devices (framebuffer, ACPI, HPET) only add allocations.
- `load_translation` is the processor: as long as the physical region is mapped
  executable, a core running on that page table may load such a translation.
- A failed assertion is a state of its own (`assert_failed`, `deadlock`), so that the
  properties can exclude it.

### `KernelPanic`: panics during all of that

`KernelPanic` extends `BootProcess`: its steps are those of the start-up plus those of
`panic.rs`. A panic hits any core at any point of its kernel code, and again while it
writes its report. `begin_panic` decides by what the core has so far (core locals,
APIC); the loop over the APIC ids sends NMIs to online cores only, and its wait may
time out at any moment (`stop_waiting` has no guard on the state of the core waited
for). An NMI that was sent is delivered later, also much later.

Modelling decisions: a round of the loop that acquires the emergency writer is one
step (its only effect is one exchange); the locks the writer then takes by force are
the subject of `KernelLock`; a fault inside the NMI loop itself, whose body is loads, a
store and a busy-wait, is left out; bootloader panics stop the core before the kernel.

### `Allocator`, `Heap`: blocks, regions and the addresses they take

`Heap` follows each core through the calls of `mm.rs` once the kernel is up. A free list
is what the code has: a head, and nodes whose `next`, `free_slots` and slots are in the
free blocks themselves (`memory`). A block in use holds `Garbage`, so a list that still
reads it shows. `alloc` leads to `pop`, which takes the head node (`pop_node`), the top
of its stack (`pop_slot`), or a fresh page (`pop_reserve`, the two locks, `pop_map`,
then `pop_populate` or `pop_whole_page`). `dealloc` pushes to the list of the core that
calls it, whoever allocated the block. `ContiguousRegion` goes through `allocate_again`
or `allocate_fresh` to `map_region`, and through `region_drop` to `free`, where the Vec
may have to grow: `grow` enters `pop` with the regions still locked and `grown` frees
the old buffer. The locks of the regions, the page table and the free memory are
variables; every acquisition and release is a step. `map_raw` and `map`, which `pop`,
`ContiguousRegions::allocate` and `map_mmio` call with the page table locked, allocate the
page tables they do not find: `lock_for_table` takes the lock of the free memory inside that
of the page table, `take_table` takes a frame and gives the lock back, as often as a table is
`Missing` above the entry, and only then is the entry written. A failed `expect`, for want
of a frame for a page, for a table or for a run, or of addresses, stops the system with the
locks held.
`Allocator` is what those who allocate rely on: one step hands out an address with memory that
is behind no other address in use, another takes one back, and nothing else changes either.
`AllocatorOfHeap` maps the one to the other: the addresses are the blocks and regions that
callers hold, and their memory what the page table has there, a block's part of a frame or
all frames of a region.

Modelling decisions:
- A size of 4096 or more is a class with one block per page. A free list's own lock is
  left out: only its core takes it, and no handler allocates.
- `TablesOf` says which page tables an address of the heap needs; a frame that is once a
  table stays one. What a table holds is the subject of `PageTable`. A `map` of several
  pages is one page here (`map_init` allocates the page, then its tables, for each in turn).
- Any free frame or run may be chosen: which one `RangeSet` chooses is its own subject.
- The Vec grows from 1 by doubling, with buffers of one class; one region size.
- `MaxPages` is the number of reservations before the heap's address overflows, which
  the code turns into a panic.

### `AddressSpace`, `PageTable`: four levels of tables in frames

`PageTable` keeps the entries of every frame that is a table (`memory`) and runs
`map_init`, `map_raw` and `virt_to_phys` one access to an entry a step: `walk_down`,
`add_table` (allocate), `link_table` (zero the new table, then write its entry), `write_leaf`. A call that fails midway
(`fail`) leaves behind what it had in hand (`lost`) and what it had mapped. Mappers hold
the lock of the page table for a whole call; readers take none, as `mm::virt_to_phys`
does. A frame that is not a table holds `Garbage`, so a table linked before it was
cleared shows. `destroy` walks the whole tree at once: its owner is alone with it.
`AddressSpace` is what mapping code relies on: a partial function from pages to frames,
to which one step adds one aligned block. `AddressSpaceOfTables` maps the one to the other.

Modelling decisions:
- Addresses and frames are counted in 4K pages. Of an entry the frame, the large bit, the
  mark of frames to deallocate and the right to execute are kept; no translation or
  property depends on another flag.
- `is_canonical` is kept as the code has it, with the bits above the index that it lets
  vary (`Ignored`). What the processor would say to such an address is not modelled.
- A stale entry in a TLB is the subject of `BootProcess` and `Svm`.

### `VirtualMachine`, `Svm`: a machine that any core may run

`Svm` follows one machine from `new` to `drop`. `run` is cut where another core or the
processor may act: `run_begin` (SVM on, clean bits, flush, copies into the VMCB, the first
check of XCR0), `switch_in` (the host's registers put aside, `vmload`, the guest's loaded),
`vmrun`, the guest's own steps, `vmexit`, `switch_out`, `run_end`. `vmrun_invalid` is the
processor that does not accept the guest's state (VMEXIT_INVALID, VMSA_BUSY), which needs no
intercept and on which `run` panics. `run_refused`, the second outcome of `run_begin` and
`run_panic` are the assertions of `run`: interrupts disabled, an XCR0 that is not allowed
before or after the guest ran, and the refusals. The code treats the registers
independently, by three ways of reaching the guest (copied to the VMCB, loaded by `run`'s
assembly, loaded by `vmload`) and under seven clean bits; each behaviour follows one
register, chosen in `Init`, or the guest's page in the nested page table. `Others` are the
other machines: they take and return ASIDs and leave translations in the TLBs.
`VirtualMachine` is what the owner of a machine relies on: register and event change only
by the owner while it is stopped (`Set`, `Inject`, in mode "idle") and by the guest while it
runs. On the way in and out (modes "entering", "leaving") nobody changes them, so a switch
that lost or corrupted the guest's value would be no step of it; the event of an exit that
interrupted its delivery is reported as what was injected; a guest that is refused has not run.

Modelling decisions:
- The processor is modelled as far as the code relies on it: a core may keep a part of
  the VMCB as long as its clean bit is set (it then may have the old value or the one in
  memory); translations are tagged by ASID; an exit happens only for an intercept that is
  on. `AlwaysOn` and `Intercepts` are the codes of the bits the code sets by default and
  those of the enumeration, `Decoded` the arms of `run`'s match, `Refusals` the two codes
  that come without an intercept and have a panicking arm.
- Which registers come back: the assembly declares RAX, RCX, RDX, RSI, RDI, R8 to R15 lost
  (`Clobbered`), and an exit does not load the host's CR2, DR6 and DR7 (`NotReloaded`). They
  have any value after a run; the others must be the host's again.
- `run` is `run_begin` with what its owners do before: `FirstFlush` and `MoveFlush` say that
  an owner asks for a flush before the first run (`vm/mod.rs:127-130` and
  `vkernel.rs:121-133` do, by setting CR0, CR3 and EFER) and before a run on another core
  (nobody moves a machine). A reused ASID is thereby flushed by its owner, not by `vm/svm`.
- After an interrupted delivery the model's owner may inject the event again, inject another,
  or nothing; the owners in the repository panic (`vm/mod.rs:190`, `vkernel.rs:165`).
- Ports and MSR bitmaps, the layout of the VMCB and the XSAVE area's format are left out.

### `Loader`: from the firmware to the kernel

`Loader` has both bootloaders; `Init` chooses one. Under UEFI, `exit_try`,
`get_memory_map` and `exit_boot_services` are the loop that reads the memory map while
`firmware_changes_map` may change it and invalidate its key; under BIOS, `e820_entry` reads
the map twice, first what is free, then what is not, and `read_sector` the kernel with its
retries. After that both do the same in their own order: find the ACPI tables, take the AP
entrypoint below one megabyte, build the trampoline's and the kernel's tables, load the
image, create a stack for each core, enter. Each allocation takes the first frame of a
best fit, up to its limit, and notes in `use` what it is for; those of the loader go to
`boot_memory` too. In the end the kernel launches the other cores at `ap_entrypoint`,
takes memory of its own, and reclaims the boot memory.

Modelling decisions:
- A frame stands for all a structure needs (the tables of one mapping, the pages of the
  image). `RangeSet`, `PageTable` and `BootProcess` model the parts left out.
- The checksums of the kernel and of ACPI tables are outcomes. The conversion of a sector
  number to cylinder, head and sector is left out: the checksum decides.

### `MC*` and `*Proofs`

`MCKernelLock`, `MCRangeSet`, `MCBootProcess`, `MCKernelPanic`, `MCHeap`, `MCPageTable`,
`MCSvm` and `MCLoader` give the constants their values for TLC. `KernelLockProofs`,
`RangeSetProofs`, `BootProcessProofs`, `KernelPanicProofs` (which extends the last),
`HeapProofs`, `PageTableProofs`, `SvmProofs` and `LoaderProofs` hold theorems, each about the
module it is named after.

## 3. What the runs check

| Run | Question | Instance | Result |
|---|---|---|---|
| `lock_discipline` | Does the lock exclude, is its deadlock assertion right, do the counters account for the interrupt flag? | 2 cores, 1 preemptible and 1 non-preemptible lock, 2 guards per frame | holds, 224,000 states up to symmetry of the cores |
| `rangeset` | Is the range set a set, and its allocation a best fit? | 3-bit addresses, 3 entries, a `usize` limit below the top | holds, 159,000 states |
| `rangeset_refusal` | Is an allocation refused only when nothing fits? | same | violated, finding 1 |
| `boot` | Do all cores come up, through two barriers, with no memory granted twice? | APIC ids 0, 2, 3, 5, BSP 2 | holds, 13,000 states |
| `boot_stale_tlb` | Is the physical region non-executable on every core afterwards? | same | violated, finding 2 |
| `panic` | Does a panic stop every core, with one writer at a time? | APIC ids 0, 1, 2, up to 3 panics | holds, 102,000 states |
| `panic_sparse_ids` | ... also when APIC ids have gaps? | APIC ids 0, 2, 3 | violated, finding 3 |
| `heap` | Is each heap block in one place, and each frame with one owner? Is what callers get theirs alone? Do locks form a circle, does every call come back? | 2 cores, sizes of 2 and 1 blocks a page, 2 reservations, 1 missing page table, regions of 2 frames of 4 | holds, 834,461 states |
| `page_table` | Do the tables implement a function, also for a reader without the lock? | 1 mapper, 1 reader, 3 levels, 4 slots, 5 frames, up to 2 pages a call | holds, 160,629 states |
| `svm` | Does a machine keep its registers, events and translations apart from the host's and the other machines'? | 2 cores, 2 ASIDs, 10 registers of every kind or the page | holds, 1,297,332 states up to symmetry |
| `svm_moved` | Does a change of the nested table reach every core that ran the machine? | same, the page, owner asks for no flush on a move | violated, finding 4 |
| `loader` | Are the memory lists right, and do all cores get through? | both loaders, 3 cores, 16 frames, 2 UEFI and 6 E820 maps, 1 change by the firmware | holds, 62,900 states |

**`lock_discipline`.** `TypeOK` (with it: no depth counter goes below zero);
`LockCoreNamesAGuard` (no false alarm of
"Deadlock detected.": the name in `lock_core` is that of a core with a guard alive) and
`NoSilentSelfDeadlock` (no missed one: no core spins on a lock its own frames own, also
not in a handler that interrupted the owner);
`InterruptFlagAgrees` (what `CoreLocals::interrupts_enabled` asserts, in every state);
`StoppedCoresStayMasked` (an action property: the guards the panic handler drops never
turn interrupts on); `ImplementsMutex`. The console's locks, one of either kind, are an
instance: the framebuffer's masks interrupts, the serial port's asserts that no handler
takes it. Two cores and two locks are enough for the
cases: a lock contended between cores, held by the thread under a handler, nested in
another, and taken on the panic path. A core may stop for good with a lock held, so
deadlock is not checked.

**`rangeset`.** `EntriesApart` (with the types of the variables) in every state, between the steps of a merge too;
`OverflowOnlyWhenFull`; `BestFit` and `RefusalIsJustified` for the outcome of
`allocate_limited`; `EveryCallEnds`; `ImplementsFreeMemory`, which also ties each block to
the size, alignment and limit of the call that gets it. Eight addresses and three
entries hold a merge of three ranges into one, a split, a full array, saturation at
both ends and padding that is kept and dropped (`PadLimit` 2 for 512). Three entries
instead of 256 bound the array only; its loops do the same for each entry. The set of
sizes has a zero, that of alignments a non-power of two. After `out_of_space` the
program has stopped, so deadlock is not checked.

**`boot`.** `CoreIdsIdentifyCores` (under the three identities a core has one after the
other), `AssertionsHold`, `GrantedOnce` (over the copy of the boot block),
`ReclaimedMemoryUnused`, the two barriers and `EveryCoreBoots`. Four cores give an AP with
an id below the BSP's, neighbouring ids and a gap; there are frames for every
allocation, so running out of memory does not hide anything.

**`panic`.** `OneEmergencyWriter`, `NmiFindsHandler`, `EarlyPanicFindsOthersWaiting`
(the comment in `begin_panic`), `EveryCoreHalts`, `WriterIsNeverStuck`. Three panics
let two cores race while a third panics, or one panic twice. `CORE_UNKNOWN`, nested
panics and stolen writers all occur.

**`heap`.** `EveryBlockOnce`: every list ends, each block
of a mapped page is in use or in exactly one place of a list of its size.
`EveryFrameOnce`: free, behind one heap page, one page table, or of one region that is held,
kept or in a call. `ImplementsAllocator`: what is handed out is mapped, with no table above it missing, and shares no memory with anything
else in use, from the step that returns it to the one that takes it back; blocks and frames may
each be in order and this still fail, by a page that is returned before it is mapped, mapped
over, left on a list, or written to where no table leads. `NoCircularWait`, also when a
mapping waits for the free memory with the page table locked, and `CallsReturn` for every call that has the regions' lock or
needs none. Two reservations give the two lists a page each or one list two, so blocks
travel between cores, nodes fill up and a second node comes in front; one of them may be
a region's, which when dropped lets the Vec grow under its lock. The one missing table goes
to whichever mapping comes first; the frames are just enough for a region, a page and the
table, so each of the `expect`s also fails. The Vec grows once in
this instance; that its lock is never part of a circle is proved for any number. Two
cores are enough for two of any call to meet. The system stops after a panic, so deadlock
is not checked; `CallsReturn` excludes any other stop.

**`page_table`.** `EveryFrameOnePlace`: free, the root, linked once in the tree, part of
one leaf that owns it, in the hand of one call, or lost by one that failed with it in
hand; after a `map_init` that ran out of frames midway and a `destroy`, too.
`LockNotNeeded`: what the comment at `mm.rs:645` claims, of lookups beside mappings and
remappings. `ImplementsAddressSpace`. Levels of two, one and two entries give 4K leaves,
a large leaf above them and a level without choice; five frames make the third or fourth
allocation fail. A frame from outside (8) is mapped by `map_raw` and remapped, as the
physical region is. One mapper is enough, since mappers exclude each other by the lock.

**`svm`.** `SvmTypeOK` (an ASID is one the processor has, taken, and the machine's alone;
a guest runs only where SVM is on; `run`, which panics on an exit code it has no arm for,
meets none: no intercept that can be on has one and the processor's refusals have one,
`EveryExitDecoded`); `NoStaleTranslation`
(no translation of a nested table or paging mode that has changed, nor one another machine
with that ASID left); `HostRegistersRestored` (all but those `run` declares lost and those an
exit does not load); `ImplementsVirtualMachine`. The followed
registers are one of each way and each clean bit whose code differs, among them one that is
lost (`Rcx`), one an exit leaves alone (`Cr2`) and XCR0, which `run` asserts about. Two cores let a
machine move and return; two ASIDs of three let one be freed and taken by another. `run`
stops the program where it panics, so deadlock is not checked.

**`loader`.** `EveryFrameOneUse`: what is free holds nothing and was the firmware's to
give; boot memory holds all, and only, what is not needed once the kernel runs on all
cores; nothing is forgotten. `TrampolineReaches`: a core on the trampoline's tables
touches only what they map, wherever the firmware put the image. `EntrypointFirst`: the
first megabyte is not used up by something that could lie elsewhere. `LoadsOrPanics`.
The maps have a reserved entry before, across and after the free ones, overlapping and
repeated entries, too little memory, and a UEFI image across the 4G boundary. Three tries
instead of the code's number, and one change of the map on the firmware's own, give every
combination of a refused exit, a failed and a repeated map.

### Findings

1. `allocate_limited` (`libs/rangeset/src/lib.rs:185`) uses `?` where the end of a
   block overflows, which leaves the function, not the entry: a block that fits in one
   range is refused because of another near the top of the address space.
2. `on_finished_boot_process` (`kernel/src/mm.rs:544`) flushes each core's TLB once,
   not ordered after the BSP's remapping of the physical region: an AP may go on with
   executable translations of it.
3. `EmergencyWriter::new` (`kernel/src/panic.rs:69`) names a core without an APIC by
   its core id, which with gaps in the APIC ids is another core's name: two cores then
   write at once. It takes a fault that hits a starting AP and another core together,
   such as a broadcast machine check.
4. `run` (`kernel/src/vm/svm/mod.rs:766`) turns the machine's one flag for a changed
   nested table into a flush on the core it runs on next. A machine that goes from one
   core to another and back finds its old translations on the first. No code in the
   repository moves a machine yet; with a flush by the owner (`MoveFlush`) it is right.

A call that fails in `map_init` loses the frame it holds and keeps what it mapped. Nothing
promises otherwise and the callers panic, so this is part of the model and no finding.

### Fairness

- `RangeSet`: the steps of a call in progress (`LoopStep`); a call runs with the lock
  held and its loops wait for nothing. Nobody has to make another call.
- `BootProcess`: each core's own steps, weakly: a started processor goes on executing,
  and a spin loop whose condition has become true for good leaves. Each of those
  conditions stays true once true, and the page table lock has no second taker. `load_translation` has none.
- `KernelPanic`: the same for a core's start-up and panic steps together, and weak
  fairness of the delivery of a sent NMI. There is none for `panic`.
- `Heap`: each core's steps inside a call, weakly; nobody has to make a call. The locks
  are not fair, but page table and free memory are locked only to use up frames or
  addresses, so nobody is overtaken there for ever. At the lock of the regions a core
  may starve, in the code as in the model; `CallsReturn` starts behind it.
- `Loader`: each core's steps in the loader, weakly, and the launch of each core by the
  kernel. The firmware's changes have none, and its refusals are among the outcomes of the
  steps: that the loader does not try for ever comes from its counters.
- `Svm` and `PageTable` have none and no liveness property: a guest may run for ever, and
  a page table's calls are loops of bounded length.
- `KernelLock` has none and no liveness property: `compare_exchange` in a loop starves
  a core in theory, and the code has no ticket that would prevent it.

## 4. What is proved

The theorems hold for any set of cores, locks, frames, addresses, sizes, ASIDs and memory
maps. Each module of proofs assumes what its component's `ASSUME` says, which TLC evaluates
on the instance of every run: that sentinels are no cores, locks or values, that sets of
memory are finite, that counts are positive; and, in `Loader`, that the image lies in memory
the firmware calls the loader's. Two theorems have a hypothesis besides, `TranslationsCurrent`
and `OneWriter`; both are explained below, and for both a run shows what happens without it.
TLC checked each invariant on the instance of the component's run before it was proved.

`KernelLockProofs`, invariant `OwnershipInv`: types of the variables that decide
ownership; `OwnedIsLocked` (an owned lock has its flag set, so a successful exchange
finds no owner); `InFlightHasNoGuard` (a frame in the middle of an acquisition or
release has no guard of that lock, so the store that clears the flag ends the only
ownership); `MutualExclusion`. Mutual exclusion alone is not inductive: nothing would
keep a second exchange from succeeding. From it: `MutualExclusionHolds` and
`LockImplementsMutex`, where each step is an `Acquire`, a `Release` or a stutter.

Its second half has the invariant `MaskingInv`: it adds for each core `Nesting` (what may be alive in the frames below the running one) and `Accounting`: the counter
`interrupts_disable` equals the non-preemptible locks the running frame holds or is
busy with, plus one until `initial_enable`; the interrupt flag is set exactly for a
thread with a counter of zero. A handler therefore runs on top of a thread that is in
no non-preemptible lock, and takes only those; that is why a core cannot wait for
itself across frames. `GuardsNameTheirCore`, `SpinsWithoutGuard` and
`LockCoreNamesAGuard` tie `lock_core` to the guards. `MaskCount` counts guards with
`FiniteSetTheorems`; `SameView` says that a step of one core leaves another core's part
of the invariant alone, so each action is looked at for its own core. From it:
`TypesHold` (no depth counter drops below zero), `DeadlockAssertionIsRight`,
`NoCoreWaitsForItself`, `NonPreemptibleLocksMask`, `InterruptFlagIsAccountedFor`,
`StoppedCoresStayMaskedHolds`. Each invariant was checked by TLC on the instance of
`lock_discipline` before it was proved.

`RangeSetProofs`, invariant `Inv`: two entries are apart (`Apart`); what a loop has established
of the entries before its index (`Checked`: none of them touches the range to insert, or
overlaps the one to remove), so that the range it adds in the end is apart from all of them; the
candidate of `allocate_limited` is an entry that fits and that none of those seen beats
(`BestSoFar`); where a call is that found no room (`Stopped`). Apartness alone is not inductive,
because `insert` adds its range without looking at the array again. From it: `EntriesStayApart`,
`BestFitHolds`, `RefusalHolds`; `OverflowJustified`, by an injection from entries to the runs of
the set they cover; and `RangeSetIsFreeMemory`, where the addresses of the entries and of the
call in progress change only in the step that ends the call, or in the one in which an
allocation takes its block, whose start is aligned for the call and whose end is below the
call's limit because the candidate fits. The padding is computed with
`%`, and the capacity and the width of addresses are parameters, so this covers the 256 entries
and 64 bits of the code.

`BootProcessProofs`, invariant `Inv`: which core may be at which point (`Roles`); what state each
AP is in and that they are launched in order, one not yet online at most (`StatesFollow`,
`OneAtATime`); the counters of ids are the numbers of cores that took one, and no id was given
twice (`Ids`); those of the rendezvous are the numbers of cores that have arrived, and a core past
one has found all of them there (`Counters`);
who holds the page table lock (`LockHeld`); what the block in force offers and the cores own
(`Memory`). From it: `CoresAreIdentified`, `NoAssertionFails`, `MemoryGrantedOnce`,
`NobodyUsesReclaimedMemory`, and that both rendezvous implement `Barrier` (`OnlineIsBarrier`,
`ReadyIsBarrier`).

`KernelPanicProofs`, invariant `PanicInv`: much of the above fails once panics may hit, since a
core that stops leaves a counter short or a lock held. What remains: what a core has when it is
online (`Started`), that an AP which never arrives holds up the BSP (`Launching`), that the
first rendezvous is passed only when every core has its APIC (`Counts`), that a lock left held
is one nobody asks for again (`LockLost`), ids (`CoreIds`), and that the core that set
`IS_PANICKING` is one (`Reports`). From it: `NmiIsHandled` and `EarlyPanicIsAlone` for any set of
APIC ids. `OneWriter` assumes `ConsecutiveIds` (the APIC ids are 0, 1, ... and the BSP's is 0):
then a core's id is its APIC id and a writer without an APIC cannot bear another core's name.
Run `panic_sparse_ids` (finding 3) violates it where they are not.

`HeapProofs`, invariant `LockInv`: where a core may be while it holds each of the three
locks. A core that allocates with the regions locked stays in the allocator and returns
to the Vec, which is why `Grant` looks at that lock. Whoever holds the free memory waits
for nothing, whoever holds the page table for the free memory at most (for a page or for
a table that is missing), whoever holds the regions for one of those: `NeverCircular`. Invariant `FrameInv`: every frame has one owner
(`OneOwner`, one case for each kind of owner). It needs that a page was never mapped before the
counter of addresses reached it (`PagesFresh`), or `heap_map` could overwrite a frame; and
that a call has a region in hand only where it does not forget it (`RegionsInHand`): the
allocation for the Vec, which runs inside a drop of a region, is one that returns. From it:
`FramesOwnedOnce`.

Invariant `BlockInv`, for the blocks. `EveryBlockOnce` follows `next` through the blocks, up to
as many times as there are blocks; the proof has a witness instead: for each list the sequence of
its nodes (`Lists`), whose places are those of the free blocks, each once (`OneHome`). `push`
appends a node or fills a slot of the last one (`PushKeepsLists`), `pop` takes one off
(`PopNode`, `PopSlot`), and a fresh page is pushed block by block (`PopulatedList`, by least
counterexample). `ListsAreRight` leads back from the sequences to what `EveryBlockOnce` finds: that
the nodes are distinct is what bounds the number of links. Between the steps of a call the
invariant has what a core holds (`HandsInv`): a page with no block on a list, that is nobody
else's; a list that is not empty any more when `pop` comes back to it, so that it does not reserve a second
page while it has one in hand; and the new buffer of the Vec, which is in use and is not the old one. From it:
`BlocksHeldOnce`.

Invariant `MemoryInv`, for what callers have: the pages of blocks are mapped, and every region is
mapped to the frames it names, while a caller holds it (`RegionsMapped`), in the Vec, and in the
hand of a call that drops it (`CallsMapped`); the page of a region in the making is not mapped yet.
So a page that has frames keeps them (`MemoryStays`), and a table that is there stays
(`TablesLast`), so that what a page table leads to it always will; a block is pushed or returned,
and a region returned, only when nothing is `Missing` above it. What is held is apart because frames and
blocks have one owner (`HoldersApart`). A step adds one holder, takes one away or leaves them
(`HoldersMove`). From it: `HeapImplementsAllocator`.

`PageTableProofs`, invariant `Inv`. `TablesAt`, `LeafOf` and the size of an entry recurse over the
levels, so the module first unfolds them: `Upward` and `Downward` are induction over the four
levels, by least elements. `Path` is the walk from the other end, the table that an address
leads to at each level, and `PathFacts` and `LeafFacts` say that the leaf of an address is the
entry its path ends at. The invariant: `TreeInv` (tables are frames of the allocator, large
leaves are at the levels that have them), `OneUse` (which of six uses a frame has, and that it
has no other), one core maps at a time, and for each core `CallInv`: its table is on the path of
its address, a missing table is still missing when it is linked, an update meets a leaf of the
same frame, and what a reader saw when it began is still so. `EveryFrameOnePlace` alone is not
inductive: a second link to a table would be a second place for the frames below it, and that the
entry written is in nobody else's way follows from where the core is. `TreeGrows` and
`LeafWritten` say what a link and a leaf do to the tables, links and translations of all
addresses. From it: `FramesInOnePlace`, `LookupsNeedNoLock` and `TablesImplementAddressSpace`,
for which `EntryOfPages` shows that the addresses below an entry are one aligned block (indices
and division, `SameNumber`, `OnePathDown`). The number of entries of each level is a parameter.

`SvmProofs` has three invariants. `TypeInv` adds to `SvmTypes` where the host's and the
guest's value of the register are at each point of `run` (`HostValue`, `GuestValue`) and
that a run is on the core it noted (`Place`): `TypesHold` and `HostRegistersHold`, the latter
without the registers that are lost or not loaded. `StateInv` adds what the guest's value
needs on its way: a guest starts with what `vmrun` loaded, which may be what the core kept, so
the clean bit must imply that the core kept what is in memory (`CleanInv`), and all copies of
the register agree and the event is in one place (`CopiesAgree`). From it,
`SvmIsVirtualMachine`: what the owner does while the machine is stopped and what the guest does
are steps of a machine that has one value; a run enters, exits, is refused and returns without
changing it, and the steps in between are stutters. `DeliveryDecoded` says that the exit's
decoding undoes the injection's encoding. `CacheInv` adds to `StateInv` that the last core's
translations are current unless a flag says otherwise (`TlbInv`). From it,
`TranslationsCurrent`, under the assumption that the owner asks for a flush before the first
run and before a move (`FirstFlush`, `MoveFlush`): the first is what its changes of CR0, CR3
and EFER amount to, the second is what it does not do, and run `svm_moved` shows the
assumption to be needed. `ExitsDecoded` holds because the codes an intercept can cause and the
two refusals all have arms (`Exits`).

`LoaderProofs`, invariant `LoaderInv`: one core at a time is in a loader and the others find its
work done (`Order`); what the loaders know while they learn of the memory (`UefiLearns`: with a
valid key the lists are those of the firmware's map; `BiosLearns`: the free memory is what
the entries read so far say, `Listed`); where structures may be (`Places`); each frame has one use
(`OneUse`); the entry of the other cores is there until the kernel gives it up (`EntryThere`) and
the trampoline is mapped (`TrampolineThere`). A step of a loader panics, takes a frame for a part
of the work (`Works`, with what of `WorkUse` and `TakesFrame` the proofs need), or is one of the
others: `LoaderSteps`. From it: `FramesHaveOneUse`, `TrampolineSuffices`, and
`EntrypointComesFirst`, which also needs that the allocator finds a frame whenever one is
below the limit (`NothingBelow`, by least elements, since `RunLength` is a `CHOOSE`). That the entry
comes first is not implied by the frames' uses: it holds because at that point no frame has one.

Only model-checked: the liveness properties (`EveryCallEnds`, `EveryCoreBoots`,
`EveryCoreHalts`, `WriterIsNeverStuck`, `CallsReturn`, `LoadsOrPanics`), since liveness under
fairness and `ENABLED` are out of this prover's reach.

## 5. What is not modelled

- The timer tick (`interrupts.rs:334`) panics when the last one is too long ago: whether
  it does is a matter of real time. The PIC branch prints and returns; without a
  framebuffer its print fails an assertion of the serial port's lock, in one call and
  without any interleaving.
- A fault inside the NMI loop of `begin_panic`, and machine code the compiler produces
  (memory is sequentially consistent in all modules).
- Calibration of the clocks and the APIC timer (floating-point arithmetic on hardware
  counters), the port writes that mask the PIC.
- Drawing and fonts, ACPI and ELF parsing, the layouts of VMCB, permission bitmaps, IDT,
  TSS and XSAVE area, sector numbers as cylinder, head and sector, instruction wrappers,
  the example guest's image and its answers to single exits, build tools: layout, data
  formats, or pure input and output, without a state that several steps share.

## 6. Plan

Every safety property that a run checks is proved. What is left is outside of both tools' reach:
an instance of `Heap` in which the Vec grows twice takes four reservations and is too large to be
checked together with `CallsReturn`, and liveness cannot be proved.
