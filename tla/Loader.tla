------------------------------- MODULE Loader -------------------------------
(***************************************************************************)
(* The two bootloaders: how the UEFI one learns of the memory and leaves   *)
(* the firmware, how the BIOS one reads the E820 map and the kernel from   *)
(* disk, how both build the page tables and the entry of the other cores,  *)
(* and what of the memory they leave to the kernel, which launches the     *)
(* other cores through them and reclaims their memory at the end.          *)
(*                                                                         *)
(* Memory is a line of page frames, allocated by RangeSet's best fit.  One *)
(* frame stands for all a structure needs: the tables of one mapping, the  *)
(* pages of the kernel's image, the area of the AP entrypoint.  RangeSet   *)
(* itself, the page tables and the start-up in the kernel are modelled in  *)
(* the modules RangeSet, PageTable and BootProcess.                        *)
(***************************************************************************)
EXTENDS Integers, FiniteSets, Sequences, SequencesExt

CONSTANTS
  Cores, Bsp,      \* the core the firmware starts, and those the kernel launches
  Frames,          \* page frames, by address
  LowEnd,          \* the last frame of the first megabyte
  MAX_ADDRESS,     \* the last frame of the first four gigabytes
  UefiMaps,        \* what a UEFI firmware may report: frame to kind of memory
  E820Maps,        \* what a BIOS may report: sequences of entries
  UefiTables, BiosTables, \* what either may present as ACPI tables: sequences of kinds
  UefiImage, BiosImage,   \* the frames the bootloader was loaded to
  BiosEntrypoint,  \* 0x8000, where BIOS cores are launched
  Sectors,         \* length of the kernel on disk
  ExitTries,       \* attempts to leave the firmware end before this number
  ReadTries,       \* attempts to read one sector
  MaxEvents,       \* bound: allocations the firmware makes on its own
  MaxKernel        \* bound: frames the running kernel takes

Low == {f \in Frames : f <= LowEnd}
Kinds == {"Conventional", "Loader", "BootServices", "Runtime"}
EntryKinds == {"free", "reserved", "invalid", "overflow"}

ASSUME LoaderAssumption ==
  /\ Bsp \in Cores
  /\ IsFiniteSet(Frames) /\ Frames = 0 .. Cardinality(Frames) - 1
  /\ {LowEnd, MAX_ADDRESS} \subseteq Nat /\ LowEnd <= MAX_ADDRESS
  /\ UefiImage \subseteq Frames /\ BiosImage \cup {BiosEntrypoint} \subseteq Low
  /\ UefiMaps \subseteq [Frames -> Kinds]
  /\ \A map \in UefiMaps, f \in UefiImage : map[f] = "Loader"
  /\ E820Maps \subseteq Seq([frames : SUBSET Frames, kind : EntryKinds])
  /\ {Sectors, ExitTries} \subseteq Nat \ {0} /\ ReadTries \in Nat

VARIABLES
  loader,          \* which of the two was started
  pc,              \* where each core is
  memory,          \* UEFI: what each frame is to the firmware now; BIOS: is it memory
  key_valid,       \* the map key still names the firmware's memory map
  events,
  pool,            \* the buffer of the memory map
  tries,           \* failed attempts, of the loop that is running
  e820, pass, sequence,     \* the BIOS's map, which pass reads it, the next entry
  sector,          \* of the kernel, the next to be read
  free_memory, boot_memory, page_table, ap_entrypoint,  \* of the BOOT_BLOCK
  acpi_tables,
  INITIALIZED, KERNEL_ENTRY_DATA,
  trampoline,      \* the frames that the trampoline page table maps
  use,             \* what is kept in each frame
  stacks,          \* the index of the stack each core entered the kernel on
  NEXT_STACK,
  failed           \* what a panic of the bootloader was about

fwVars == <<memory, key_valid, events, pool>>
mapVars == <<e820, pass, sequence>>
listVars == <<free_memory, boot_memory, use>>
blockVars == <<page_table, ap_entrypoint, acpi_tables, INITIALIZED, KERNEL_ENTRY_DATA>>
stackVars == <<stacks, NEXT_STACK>>
vars == <<loader, pc, fwVars, tries, mapVars, sector, listVars, blockVars, trampoline,
          stackVars, failed>>

NoFrame == -1
Uefi == loader = "UEFI"
Image == IF Uefi THEN UefiImage ELSE BiosImage

(* The frames that only the way into the kernel needs.                      *)
BootUses == {"ap_entrypoint", "trampoline_table", "gdt", "trampoline_stack"}
KernelUses == {"kernel_table", "kernel_image", "stack", "kernel"}

(* RangeSet::allocate_limited on whole frames: the start of the shortest run *)
(* that begins below the limit; runs of one length are taken in any order.   *)
Runs(S) == {f \in S : f - 1 \notin S}
RunLength(S, f) == CHOOSE n \in 1 .. Cardinality(S) : f .. (f + n - 1) \subseteq S /\ f + n \notin S
allocate_limited(S, limit) ==
  LET fits == {f \in Runs(S) : f <= limit} IN
  {f \in fits : \A g \in fits : RunLength(S, f) <= RunLength(S, g)}

Goto(c, from, to) == pc[c] = from /\ failed = "none" /\ pc' = [pc EXCEPT ![c] = to]

Panic(c, from, reason) ==
  /\ pc[c] = from /\ failed = "none" /\ failed' = reason
  /\ UNCHANGED <<loader, pc, fwVars, tries, mapVars, sector, listVars, blockVars,
                 trampoline, stackVars>>

(* A frame below the limit for a purpose; boot memory is marked as well,    *)
(* so that the kernel gets it back.                                         *)
mark_boot_memory(f) == boot_memory' = boot_memory \cup {f}

Take(f, purpose) ==
  /\ free_memory' = free_memory \ {f}
  /\ use' = [use EXCEPT ![f] = purpose]

(* PhysicalMemory::alloc_phys: memory the kernel goes on using. *)
alloc_phys(purpose) ==
  \E f \in allocate_limited(free_memory, MAX_ADDRESS) :
    Take(f, purpose) /\ UNCHANGED boot_memory

(* BootPhysicalMemory::alloc_phys, allocate_boot_memory *)
allocate_boot_memory_internal(purpose, limit) ==
  \E f \in allocate_limited(free_memory, limit) : Take(f, purpose) /\ mark_boot_memory(f)

Exhausted(limit) == allocate_limited(free_memory, limit) = {}

(* One step of loading the kernel that takes a frame, or panics for want of one. *)
LoadUnchanged == UNCHANGED <<loader, fwVars, tries, mapVars, sector, blockVars, stackVars, failed>>

KernelFrame(c, from, to, purpose) ==
  \/ /\ Goto(c, from, to) /\ alloc_phys(purpose)
     /\ LoadUnchanged /\ UNCHANGED trampoline
  \/ Exhausted(MAX_ADDRESS) /\ Panic(c, from, purpose)

BootFrame(c, from, to, purpose, limit) ==
  \/ /\ Goto(c, from, to) /\ allocate_boot_memory_internal(purpose, limit)
     /\ LoadUnchanged /\ UNCHANGED trampoline
  \/ Exhausted(limit) /\ Panic(c, from, purpose)

-----------------------------------------------------------------------------
(* The order in which load_kernel and setup_kernel do their work.           *)
load_kernel_late_entrypoint ==      \* mutant: the entrypoint after the trampoline
  <<"parse", "trampoline_new", "ap_entrypoint", "trampoline_map", "gdt", "trampoline_stack",
    "kernel_new", "kernel_image", "physical_map", "register">>

load_kernel ==
  <<"ap_entrypoint", "parse", "trampoline_new", "trampoline_map", "gdt", "trampoline_stack",
    "kernel_new", "kernel_image", "physical_map", "register">>

setup_kernel ==
  <<"buffer", "read", "parse", "kernel_new", "trampoline_new", "kernel_image",
    "trampoline_map", "physical_map", "register">>

Work == IF Uefi THEN load_kernel ELSE setup_kernel
After(step) ==
  LET i == CHOOSE i \in DOMAIN Work : Work[i] = step
  IN IF i = Len(Work) THEN "stack" ELSE Work[i + 1]

(* The entry of either loader, on the first core and on launched ones.      *)
verify_cpu(c) ==
  LET first == IF Uefi THEN "acpi" ELSE "e820"
      again == IF KERNEL_ENTRY_DATA THEN "stack" ELSE Head(Work)
  IN \/ /\ Goto(c, "start", IF INITIALIZED THEN again ELSE first)
        /\ UNCHANGED <<loader, fwVars, tries, mapVars, sector, listVars, blockVars,
                       trampoline, stackVars, failed>>
     \/ Panic(c, "start", "cpu")

(* acpi_locator::locate: the tables of version 2 end the search.            *)
UefiAcpi(tables) ==
  LET v2 == \E i \in DOMAIN tables : tables[i] = "v2"
  IN [rsdt |-> v2 \/ \E i \in DOMAIN tables : tables[i] = "v1", xsdt |-> v2]

(* locate_acpi: the first RSDP with a signature and a sum, or two, that hold. *)
FirstRsdp(tables) == SelectInSeq(tables, LAMBDA kind : kind \in {"v1", "v2"})

locate_acpi(c) ==
  /\ Goto(c, "acpi", IF Uefi THEN "exit_try" ELSE Head(Work))
  /\ \/ Uefi /\ \E tables \in UefiTables : acpi_tables' = UefiAcpi(tables)
     \/ ~Uefi /\ \E tables \in BiosTables :
          /\ FirstRsdp(tables) # 0
          /\ acpi_tables' = [rsdt |-> TRUE, xsdt |-> tables[FirstRsdp(tables)] = "v2"]
  /\ INITIALIZED' = ~Uefi
  /\ ap_entrypoint' = IF Uefi THEN ap_entrypoint ELSE BiosEntrypoint
  /\ UNCHANGED <<loader, fwVars, tries, mapVars, sector, listVars, page_table,
                 KERNEL_ENTRY_DATA, trampoline, stackVars, failed>>

locate_acpi_fails(c) ==
  /\ ~Uefi /\ \E tables \in BiosTables : FirstRsdp(tables) = 0
  /\ Panic(c, "acpi", "acpi")

-----------------------------------------------------------------------------
(* UEFI: initialize_and_exit_boot_services.  The pool for the memory map is *)
(* part of the map; whatever the firmware does to the map after it was read *)
(* makes the key stale, and the firmware then refuses to be left.           *)
InitUnchanged ==
  UNCHANGED <<loader, events, mapVars, sector, use, blockVars, trampoline, stackVars, failed>>

allocate_pool(f) ==
  /\ memory[f] = "Conventional"
  /\ memory' = [memory EXCEPT ![f] = "Loader"]
  /\ pool' = f /\ key_valid' = FALSE

free_pool ==
  /\ memory' = [memory EXCEPT ![pool] = "Conventional"]
  /\ pool' = NoFrame /\ key_valid' = FALSE

exit_try_keeping_lists(c) ==        \* mutant: the lists of the last try are kept
  /\ Goto(c, "exit_try", "get_map")
  /\ tries + 1 < ExitTries /\ tries' = tries + 1
  /\ \E f \in Frames : allocate_pool(f)
  /\ UNCHANGED <<free_memory, boot_memory>>
  /\ InitUnchanged

exit_try_uncounted(c) ==            \* mutant: tries are not counted
  /\ Goto(c, "exit_try", "get_map")
  /\ free_memory' = {} /\ boot_memory' = {}
  /\ \E f \in Frames : allocate_pool(f)
  /\ UNCHANGED tries /\ InitUnchanged

exit_try(c) ==
  /\ Goto(c, "exit_try", "get_map")
  /\ tries + 1 < ExitTries /\ tries' = tries + 1
  /\ free_memory' = {} /\ boot_memory' = {}
  /\ \E f \in Frames : allocate_pool(f)
  /\ InitUnchanged

exit_try_fails(c) ==
  \/ tries + 1 >= ExitTries /\ Panic(c, "exit_try", "tries")
  \/ Panic(c, "exit_try", "pool")

get_memory_map(c) ==
  /\ Goto(c, "get_map", "exit")
  /\ key_valid' = TRUE
  /\ free_memory' = free_memory \cup {f \in Frames : memory[f] = "Conventional"}
  /\ boot_memory' = boot_memory \cup {f \in Frames : memory[f] \in {"Loader", "BootServices"}}
  /\ UNCHANGED <<memory, pool, tries>> /\ InitUnchanged

get_memory_map_fails(c) ==
  /\ Goto(c, "get_map", "exit_try")
  /\ free_pool
  /\ UNCHANGED <<free_memory, boot_memory, tries>> /\ InitUnchanged

exit_boot_services(c) ==
  /\ key_valid /\ Goto(c, "exit", Head(Work))
  /\ INITIALIZED' = TRUE /\ tries' = 0
  /\ UNCHANGED <<loader, fwVars, mapVars, sector, listVars, page_table, ap_entrypoint,
                 acpi_tables, KERNEL_ENTRY_DATA, trampoline, stackVars, failed>>

exit_boot_services_fails(c) ==
  /\ ~key_valid /\ Goto(c, "exit", "exit_try")
  /\ free_pool
  /\ UNCHANGED <<free_memory, boot_memory, tries>> /\ InitUnchanged

(* The firmware's own timers and drivers allocate and free.                  *)
firmware_changes_map(f, kind) ==
  /\ Uefi /\ failed = "none" /\ events < MaxEvents
  /\ pc[Bsp] \in {"start", "acpi", "exit_try", "get_map", "exit"}
  /\ \/ memory[f] = "Conventional" /\ kind \in {"BootServices", "Runtime"}
     \/ memory[f] = "BootServices" /\ kind = "Conventional"
  /\ memory' = [memory EXCEPT ![f] = kind]
  /\ key_valid' = FALSE /\ events' = events + 1
  /\ UNCHANGED <<loader, pc, pool, tries, mapVars, sector, listVars, blockVars, trampoline,
                 stackVars, failed>>

-----------------------------------------------------------------------------
(* BIOS: mm::initialize reads the E820 map twice; the first pass adds what  *)
(* is free, the second takes out what is not, however entries overlap.      *)
e820_entry(c) ==
  /\ pc[c] = "e820" /\ failed = "none" /\ sequence <= Len(e820)
  /\ e820[sequence].kind # "overflow"
  /\ LET entry == e820[sequence] IN
     free_memory' = CASE entry.kind = "free" /\ pass = 1 -> free_memory \cup entry.frames
                      [] entry.kind = "reserved" /\ pass = 2 -> free_memory \ entry.frames
                      [] OTHER -> free_memory
  /\ sequence' = sequence + 1
  /\ UNCHANGED <<loader, pc, fwVars, tries, e820, pass, sector, boot_memory, use, blockVars,
                 trampoline, stackVars, failed>>

e820_overflows(c) ==
  /\ sequence <= Len(e820) /\ e820[sequence].kind = "overflow"
  /\ Panic(c, "e820", "e820")

(* The end of the list; the first megabyte holds the bootloader itself.     *)
e820_end(c) ==
  /\ sequence > Len(e820) /\ sequence' = 1
  /\ \/ /\ pass = 1 /\ pass' = 2
        /\ Goto(c, "e820", "e820") /\ UNCHANGED free_memory
     \/ /\ pass = 2 /\ UNCHANGED pass
        /\ Goto(c, "e820", "acpi") /\ free_memory' = free_memory \ Low
  /\ UNCHANGED <<loader, fwVars, tries, e820, sector, boot_memory, use, blockVars, trampoline,
                 stackVars, failed>>

(* setup_kernel's buffer, a Vec in the free memory, and the reads into it.  *)
extended_reads_supported == {"read", "read_extended"}
allocate_buffer(c) ==
  \E how \in extended_reads_supported : KernelFrame(c, "buffer", how, "kernel_buffer")

(* After a failed attempt the disk is reset before the next one; a reset    *)
(* that fails is not tried again.                                           *)
Attempt(c, step, done) ==
  /\ tries < ReadTries
  /\ tries' = IF done THEN 0 ELSE tries + 1
  /\ sector' = IF done THEN sector + 1 ELSE sector
  /\ Goto(c, step, IF sector' = Sectors THEN After("read") ELSE step)
  /\ UNCHANGED <<loader, fwVars, mapVars, listVars, blockVars, trampoline, stackVars, failed>>

read_sector(c) ==
  \E carry \in BOOLEAN, count \in {0, 1} : Attempt(c, "read", ~carry /\ count = 1)

read_sector_extended(c) ==
  \E carry \in BOOLEAN : Attempt(c, "read_extended", ~carry)

disk_fails(c) == \E step \in extended_reads_supported :
  \/ tries = ReadTries /\ Panic(c, step, "read")
  \/ tries \in 1 .. ReadTries - 1 /\ Panic(c, step, "reset")

-----------------------------------------------------------------------------
(* load_kernel and setup_kernel.  UEFI: whatever is only needed until the   *)
(* end of the boot process is boot memory.  BIOS: nothing is.               *)
APEntrypoint_new(c) == BootFrame(c, "ap_entrypoint", After("ap_entrypoint"), "ap_entrypoint", LowEnd)

(* The checksum and the ELF file, the processor's page sizes.               *)
parse_kernel(c) ==
  \/ Goto(c, "parse", After("parse")) /\ LoadUnchanged /\ UNCHANGED <<listVars, trampoline>>
  \/ Panic(c, "parse", "kernel")

trampoline_frame(c, step) ==
  IF Uefi THEN BootFrame(c, step, After(step), "trampoline_table", MAX_ADDRESS)
          ELSE KernelFrame(c, step, After(step), "trampoline_table")

trampoline_new(c) == trampoline_frame(c, "trampoline_new")

(* UEFI: the first four gigabytes, and the pages of the bootloader above    *)
(* them.  BIOS: the first megabyte.                                         *)
Mapped_without_image == IF Uefi THEN {f \in Frames : f <= MAX_ADDRESS} ELSE Low   \* mutant

Mapped ==
  IF Uefi THEN {f \in Frames : f <= MAX_ADDRESS} \cup {f \in UefiImage : f > MAX_ADDRESS}
          ELSE Low

create_trampoline_page_table(c) ==
  LET step == "trampoline_map" IN
  \/ /\ Goto(c, step, After(step))
     /\ IF Uefi THEN allocate_boot_memory_internal("trampoline_table", MAX_ADDRESS)
                ELSE alloc_phys("trampoline_table")
     /\ trampoline' = Mapped
     /\ LoadUnchanged
  \/ Exhausted(MAX_ADDRESS) /\ Panic(c, step, "trampoline_table")

gdt(c) == BootFrame(c, "gdt", After("gdt"), "gdt", MAX_ADDRESS)
trampoline_stack(c) ==
  BootFrame(c, "trampoline_stack", After("trampoline_stack"), "trampoline_stack", MAX_ADDRESS)

(* The kernel's page table, its segments, the map of the physical memory.   *)
kernel_new(c) == KernelFrame(c, "kernel_new", After("kernel_new"), "kernel_table")
kernel_image(c) == KernelFrame(c, "kernel_image", After("kernel_image"), "kernel_image")
physical_map(c) == KernelFrame(c, "physical_map", After("physical_map"), "kernel_table")

(* finalize_and_register; the entry data and the page table for all cores.  *)
register(c) ==
  /\ Goto(c, "register", After("register"))
  /\ ap_entrypoint' = IF Uefi THEN CHOOSE f \in Frames : use[f] = "ap_entrypoint" ELSE ap_entrypoint
  /\ page_table' = TRUE /\ KERNEL_ENTRY_DATA' = TRUE
  /\ UNCHANGED <<loader, fwVars, tries, mapVars, sector, listVars, acpi_tables, INITIALIZED,
                 trampoline, stackVars, failed>>

create_kernel_stack(c) ==
  LET next == IF ~Uefi /\ \E f \in Frames : use[f] = "kernel_buffer" THEN "drop_buffer" ELSE "enter" IN
  \/ /\ page_table /\ Goto(c, "stack", next)
     /\ alloc_phys("stack")
     /\ stacks' = [stacks EXCEPT ![c] = NEXT_STACK] /\ NEXT_STACK' = NEXT_STACK + 1
     /\ UNCHANGED <<loader, fwVars, tries, mapVars, sector, blockVars, trampoline, failed>>
  \/ Exhausted(MAX_ADDRESS) /\ Panic(c, "stack", "stack")

(* GlobalAllocator::dealloc, when setup_kernel returns.                     *)
drop_buffer(c) ==
  LET buffer == {f \in Frames : use[f] = "kernel_buffer"} IN
  /\ Goto(c, "drop_buffer", "enter")
  /\ free_memory' = free_memory \cup buffer
  /\ use' = [f \in Frames |-> IF f \in buffer THEN "none" ELSE use[f]]
  /\ UNCHANGED boot_memory /\ LoadUnchanged /\ UNCHANGED trampoline

(* enter_kernel: over the trampoline page table to the kernel's.            *)
enter_kernel(c) ==
  /\ Goto(c, "enter", "kernel")
  /\ LoadUnchanged /\ UNCHANGED <<listVars, trampoline>>

-----------------------------------------------------------------------------
(* The kernel: it launches one core after the other at ap_entrypoint, takes *)
(* memory, also above four gigabytes, and when all are in, reclaims what    *)
(* was marked as boot memory.                                               *)
launch_ap(c) ==
  /\ pc[Bsp] = "kernel" /\ c # Bsp
  /\ \A d \in Cores : pc[d] \in {"off", "kernel"}
  /\ Goto(c, "off", "start")
  /\ LoadUnchanged /\ UNCHANGED <<listVars, trampoline>>

kernel_takes(f) ==
  /\ pc[Bsp] = "kernel" /\ failed = "none"
  /\ Cardinality({g \in Frames : use[g] = "kernel"}) < MaxKernel
  /\ f \in allocate_limited(free_memory, Cardinality(Frames))
  /\ Take(f, "kernel")
  /\ UNCHANGED <<pc, boot_memory, trampoline>> /\ LoadUnchanged

reclaim_boot_memory ==
  /\ failed = "none" /\ ap_entrypoint # NoFrame
  /\ \A c \in Cores : pc[c] = "kernel"
  /\ ap_entrypoint' = NoFrame
  /\ free_memory' = free_memory \cup boot_memory /\ UNCHANGED boot_memory
  /\ use' = [f \in Frames |-> IF use[f] \in BootUses /\ f \in boot_memory THEN "none" ELSE use[f]]
  /\ UNCHANGED <<loader, pc, fwVars, tries, mapVars, sector, page_table, acpi_tables, INITIALIZED,
                 KERNEL_ENTRY_DATA, trampoline, stackVars, failed>>

-----------------------------------------------------------------------------
(* Memory by the E820 map: some entry calls it free and none anything else. *)
E820Free(map) ==
  LET covered(kind) == UNION {map[i].frames : i \in {j \in DOMAIN map : map[j].kind = kind}}
  IN covered("free") \ covered("reserved")

Init ==
  /\ loader \in {"UEFI", "BIOS"}
  /\ pc = [c \in Cores |-> IF c = Bsp THEN "start" ELSE "off"]
  /\ \/ Uefi /\ memory \in UefiMaps /\ e820 = <<>>
     \/ /\ ~Uefi /\ e820 \in E820Maps
        /\ memory = [f \in Frames |->
             IF f \in E820Free(e820) \ Low THEN "Conventional" ELSE "Runtime"]
  /\ key_valid = FALSE /\ events = 0 /\ pool = NoFrame /\ tries = 0
  /\ pass = 1 /\ sequence = 1 /\ sector = 0
  /\ free_memory = {} /\ boot_memory = {} /\ trampoline = {}
  /\ page_table = FALSE /\ ap_entrypoint = NoFrame /\ acpi_tables = [rsdt |-> FALSE, xsdt |-> FALSE]
  /\ INITIALIZED = FALSE /\ KERNEL_ENTRY_DATA = FALSE
  /\ use = [f \in Frames |-> "none"]
  /\ stacks = [c \in Cores |-> NoFrame] /\ NEXT_STACK = 0 /\ failed = "none"

UefiStep(c) ==
  \/ exit_try(c) \/ exit_try_fails(c) \/ get_memory_map(c) \/ get_memory_map_fails(c)
  \/ exit_boot_services(c) \/ exit_boot_services_fails(c)
  \/ APEntrypoint_new(c) \/ gdt(c) \/ trampoline_stack(c)

BiosStep(c) ==
  \/ e820_entry(c) \/ e820_overflows(c) \/ e820_end(c) \/ locate_acpi_fails(c)
  \/ allocate_buffer(c) \/ read_sector(c) \/ read_sector_extended(c) \/ disk_fails(c)
  \/ drop_buffer(c)

LoaderStep(c) ==
  \/ Uefi /\ UefiStep(c)
  \/ ~Uefi /\ BiosStep(c)
  \/ verify_cpu(c) \/ locate_acpi(c) \/ parse_kernel(c)
  \/ trampoline_new(c) \/ create_trampoline_page_table(c)
  \/ kernel_new(c) \/ kernel_image(c) \/ physical_map(c) \/ register(c)
  \/ create_kernel_stack(c) \/ enter_kernel(c)

Next ==
  \/ \E c \in Cores : LoaderStep(c) \/ launch_ap(c)
  \/ \E f \in Frames, kind \in Kinds : firmware_changes_map(f, kind)
  \/ \E f \in Frames : kernel_takes(f)
  \/ reclaim_boot_memory

Spec ==
  /\ Init /\ [][Next]_vars
  /\ \A c \in Cores : WF_vars(LoaderStep(c)) /\ WF_vars(launch_ap(c))

-----------------------------------------------------------------------------
(* The types of the variables; the tables' addresses: an XSDT comes with an  *)
(* RSDT; a core has a stack of its own from the moment it enters the kernel. *)
Uses == BootUses \cup KernelUses \cup {"none", "kernel_buffer"}
LoaderTypeOK ==
  /\ memory \in [Frames -> Kinds] /\ use \in [Frames -> Uses]
  /\ free_memory \subseteq Frames /\ boot_memory \subseteq Frames
  /\ pool \in Frames \cup {NoFrame} /\ ap_entrypoint \in Low \cup {NoFrame}
  /\ tries \in 0 .. (IF Uefi THEN ExitTries - 1 ELSE ReadTries) /\ sector \in 0 .. Sectors
  /\ acpi_tables.xsdt => acpi_tables.rsdt
  /\ \A c \in Cores : pc[c] \in {"enter", "kernel"} => stacks[c] \in 0 .. NEXT_STACK - 1
  /\ \A c, d \in Cores : c # d /\ stacks[c] # NoFrame => stacks[c] # stacks[d]

(* Once the memory is known, each frame has one place: what is free holds    *)
(* nothing and belongs to nobody, in the map the firmware was left with or   *)
(* in all entries of the BIOS's; boot memory holds what only the way into    *)
(* the kernel needs, and all of it, so that the kernel may reclaim it; and   *)
(* no memory is forgotten.                                                   *)
MemoryKnown == pc[Bsp] \notin {"start", "acpi", "exit_try", "get_map", "exit", "e820"}
Reclaimed == pc[Bsp] = "kernel" /\ ap_entrypoint = NoFrame
EveryFrameOneUse == LoaderTypeOK /\ (MemoryKnown =>
  LET marked == IF Reclaimed THEN {} ELSE boot_memory IN
  /\ free_memory \cap marked = {}
  /\ \A f \in free_memory :
       /\ use[f] = "none"
       /\ memory[f] = "Conventional" \/ (Reclaimed /\ memory[f] # "Runtime")
  /\ \A f \in marked :
       use[f] \in BootUses \/ (use[f] = "none" /\ memory[f] \in {"Loader", "BootServices"})
  /\ \A f \in Frames :
       /\ Uefi /\ use[f] \in BootUses => f \in marked
       /\ use[f] = "none" /\ memory[f] # "Runtime" => f \in free_memory \cup marked)

(* Whatever a core touches while it runs on the trampoline page table is     *)
(* mapped there, wherever the firmware put the bootloader: its image, the    *)
(* GDT and stack of the transition, the entrypoint it was launched at and,   *)
(* under UEFI, the tables it maps its stack with.                            *)
Kept(uses) == {f \in Frames : use[f] \in uses}
Touched(c) ==
  CASE pc[c] = "enter" -> Image \cup Kept({"gdt", "trampoline_stack"})
    [] Uefi /\ c # Bsp /\ pc[c] \in {"start", "stack"} ->
         Image \cup {ap_entrypoint} \cup Kept(BootUses \cup {"kernel_table"})
    [] OTHER -> {}
TrampolineReaches == \A c \in Cores : Touched(c) \subseteq trampoline

(* The loader lacks memory for the entrypoint only if the firmware left none *)
(* in the first megabyte: nothing else has taken it before.                  *)
EntrypointFirst == failed = "ap_entrypoint" => \A f \in Low : memory[f] # "Conventional"

(* However often the firmware refuses and the disk fails, the loader does    *)
(* not try for ever: all cores reach the kernel, or it panics.               *)
LoadsOrPanics == <>(failed # "none" \/ \A c \in Cores : pc[c] = "kernel")
=============================================================================
