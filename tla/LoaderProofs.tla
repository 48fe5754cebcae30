---------------------------- MODULE LoaderProofs ----------------------------
(***************************************************************************)
(* Proofs about the two bootloaders, for any number of cores and frames,   *)
(* any map of the memory the firmware may report and any place of the      *)
(* bootloader's image: every frame has one use until the kernel reclaims   *)
(* those of the boot process, a core on the trampoline page table touches  *)
(* only what is mapped there, and the entry of the other cores is taken    *)
(* before anything else can use up the first megabyte.                     *)
(***************************************************************************)
EXTENDS Loader, FiniteSetTheorems, WellFoundedInduction, TLAPS

(* Where the first core is: before the memory is known, loading the kernel, *)
(* entering it; a launched core goes straight to its stack.                 *)
Learning == {"start", "acpi", "exit_try", "get_map", "exit", "e820"}
UefiWork == {"ap_entrypoint", "parse", "trampoline_new", "trampoline_map", "gdt", "trampoline_stack",
             "kernel_new", "kernel_image", "physical_map", "register"}
BiosWork == {"buffer", "read", "read_extended", "parse", "kernel_new", "trampoline_new",
             "kernel_image", "trampoline_map", "physical_map", "register"}
Entering == {"stack", "drop_buffer", "enter", "kernel"}
Launched == {"off", "start", "stack", "drop_buffer", "enter", "kernel"}
Waiting == {"off", "kernel"}

UefiPoints == {"start", "acpi", "exit_try", "get_map", "exit"} \cup UefiWork \cup Entering
BiosPoints == {"start", "acpi", "e820"} \cup BiosWork \cup Entering

(* One core at a time is in a bootloader, and the others find its work done. *)
Order ==
  /\ loader \in {"UEFI", "BIOS"}
  /\ pc = [c \in Cores |-> pc[c]]
  /\ pc[Bsp] \in IF Uefi THEN UefiPoints ELSE BiosPoints
  /\ \A c \in Cores \ {Bsp} : pc[c] \in Launched
  /\ pc[Bsp] # "kernel" => \A c \in Cores \ {Bsp} : pc[c] = "off"
  /\ \A c, d \in Cores : c # d /\ pc[c] \notin Waiting => pc[d] \in Waiting
  /\ INITIALIZED <=> pc[Bsp] \notin Learning
  /\ pc[Bsp] \in Entering => KERNEL_ENTRY_DATA

StacksApart ==
  /\ NEXT_STACK \in Nat /\ stacks = [c \in Cores |-> stacks[c]]
  /\ \A c \in Cores :
       /\ stacks[c] = NoFrame \/ stacks[c] \in 0 .. NEXT_STACK - 1
       /\ pc[c] \in {"drop_buffer", "enter", "kernel"} => stacks[c] # NoFrame
  /\ \A c, d \in Cores : c # d /\ stacks[c] # NoFrame => stacks[c] # stacks[d]

(* The attempts are counted, a sector is read while one is left. *)
Tries ==
  /\ tries \in 0 .. (IF Uefi THEN ExitTries - 1 ELSE ReadTries)
  /\ sector \in 0 .. Sectors
  /\ ~Uefi /\ pc[Bsp] \in {"start", "e820", "acpi", "buffer", "read", "read_extended"} => sector < Sectors

FrameTypes ==
  /\ memory \in [Frames -> Kinds] /\ use \in [Frames -> Uses]
  /\ free_memory \subseteq Frames /\ boot_memory \subseteq Frames
  /\ pool \in Frames \cup {NoFrame}
  /\ acpi_tables.xsdt => acpi_tables.rsdt

(* What the loaders know while they learn of the memory: *)
OfKind(kinds) == {f \in Frames : memory[f] \in kinds}

UefiLearns ==
  /\ pc[Bsp] \in Learning \cup {"ap_entrypoint"} => \A f \in Frames : use[f] = "none"
  /\ pc[Bsp] = "get_map" => free_memory = {} /\ boot_memory = {}
  /\ pc[Bsp] = "exit" /\ key_valid =>
       free_memory = OfKind({"Conventional"}) /\ boot_memory = OfKind({"Loader", "BootServices"})

(* the entries of a kind among the first n. *)
Listed(kind, n) == UNION {e820[i].frames : i \in {j \in 1 .. n : e820[j].kind = kind}}

BiosLearns ==
  /\ e820 \in Seq([frames : SUBSET Frames, kind : EntryKinds])
  /\ sequence \in 1 .. Len(e820) + 1 /\ pass \in {1, 2}
  /\ memory = [f \in Frames |-> IF f \in E820Free(e820) \ Low THEN "Conventional" ELSE "Runtime"]
  /\ boot_memory = {}
  /\ pc[Bsp] \in Learning => \A f \in Frames : use[f] = "none"
  /\ pc[Bsp] = "start" => pass = 1 /\ sequence = 1 /\ free_memory = {}
  /\ pc[Bsp] = "e820" =>
       free_memory = IF pass = 1 THEN Listed("free", sequence - 1)
                     ELSE Listed("free", Len(e820)) \ Listed("reserved", sequence - 1)
  /\ pc[Bsp] = "acpi" => free_memory = OfKind({"Conventional"})

Learns == IF Uefi THEN UefiLearns ELSE BiosLearns

(* Where the structures of the boot process may be. *)
Places ==
  \A f \in Frames :
    /\ use[f] # "none" => memory[f] # "Runtime"
    /\ use[f] = "kernel_buffer" => ~Uefi /\ memory[f] = "Conventional"
    /\ Uefi /\ use[f] \in BootUses \cup {"kernel_table"} => f <= MAX_ADDRESS
    /\ Uefi /\ use[f] = "ap_entrypoint" => f \in Low
    /\ ~Uefi => use[f] \notin {"ap_entrypoint", "gdt", "trampoline_stack"}
    /\ MemoryKnown /\ f \in boot_memory => memory[f] # "Runtime"

(* The last conjunct of EveryFrameOneUse with its parameters named. *)
Settled(marked, reclaimed) ==
  /\ free_memory \cap marked = {}
  /\ \A f \in free_memory :
       /\ use[f] = "none"
       /\ memory[f] = "Conventional" \/ (reclaimed /\ memory[f] # "Runtime")
  /\ \A f \in marked :
       use[f] \in BootUses \/ (use[f] = "none" /\ memory[f] \in {"Loader", "BootServices"})
  /\ \A f \in Frames :
       /\ Uefi /\ use[f] \in BootUses => f \in marked
       /\ use[f] = "none" /\ memory[f] # "Runtime" => f \in free_memory \cup marked

Marked == IF Reclaimed THEN {} ELSE boot_memory
OneUse == MemoryKnown => Settled(Marked, Reclaimed)

(* The entry of the other cores is in the first megabyte until the kernel gives it up. *)
EntryThere ==
  /\ ap_entrypoint \in Low \cup {NoFrame}
  /\ Uefi /\ pc[Bsp] \in UefiWork \ {"ap_entrypoint"} => \E f \in Frames : use[f] = "ap_entrypoint"
  /\ ~Uefi /\ pc[Bsp] \in BiosWork => ap_entrypoint # NoFrame
  /\ pc[Bsp] \in Entering /\ ap_entrypoint = NoFrame => \A c \in Cores : pc[c] = "kernel"

(* The first core maps the trampoline. *)
UefiMapped == {"gdt", "trampoline_stack", "kernel_new", "kernel_image", "physical_map", "register"}
BiosMapped == {"physical_map", "register"}
TrampolineThere ==
  pc[Bsp] \in (IF Uefi THEN UefiMapped ELSE BiosMapped) \cup Entering => trampoline = Mapped

LoaderInv ==
  /\ Order /\ StacksApart /\ Tries /\ FrameTypes /\ Learns /\ Places /\ OneUse /\ EntryThere
  /\ TrampolineThere /\ EntrypointFirst

-----------------------------------------------------------------------------
(* The order of the work, step by step. *)
LEMMA AfterIs ==
  ASSUME NEW i \in DOMAIN Work,
         \A j \in DOMAIN Work : Work[j] = Work[i] => j = i
  PROVE  After(Work[i]) = IF i = Len(Work) THEN "stack" ELSE Work[i + 1]
<1>1. (CHOOSE j \in DOMAIN Work : Work[j] = Work[i]) = i
  OBVIOUS
<1> QED
  BY <1>1 DEF After

LEMMA UefiOrder ==
  ASSUME Uefi
  PROVE  /\ Head(Work) = "ap_entrypoint"
         /\ After("ap_entrypoint") = "parse" /\ After("parse") = "trampoline_new"
         /\ After("trampoline_new") = "trampoline_map" /\ After("trampoline_map") = "gdt"
         /\ After("gdt") = "trampoline_stack" /\ After("trampoline_stack") = "kernel_new"
         /\ After("kernel_new") = "kernel_image" /\ After("kernel_image") = "physical_map"
         /\ After("physical_map") = "register" /\ After("register") = "stack"
<1>1. Work = load_kernel /\ Len(load_kernel) = 10 /\ DOMAIN load_kernel = 1 .. 10
  BY DEF Work, load_kernel
<1>2. /\ load_kernel[1] = "ap_entrypoint" /\ load_kernel[2] = "parse" /\ load_kernel[3] = "trampoline_new"
      /\ load_kernel[4] = "trampoline_map" /\ load_kernel[5] = "gdt" /\ load_kernel[6] = "trampoline_stack"
      /\ load_kernel[7] = "kernel_new" /\ load_kernel[8] = "kernel_image"
      /\ load_kernel[9] = "physical_map" /\ load_kernel[10] = "register"
  BY DEF load_kernel
<1>3. \A j \in 1 .. 10 : j \in {1, 2, 3, 4, 5, 6, 7, 8, 9, 10}
  OBVIOUS
<1>4. \A i, j \in 1 .. 10 : load_kernel[j] = load_kernel[i] => j = i
  BY <1>2, <1>3
<1>5. \A i \in 1 .. 10 : After(load_kernel[i]) = IF i = 10 THEN "stack" ELSE load_kernel[i + 1]
  BY <1>1, <1>4, AfterIs
<1>6. Head(load_kernel) = load_kernel[1]
  BY DEF load_kernel
<1> HIDE DEF load_kernel
<1> QED
  BY <1>1, <1>2, <1>5, <1>6

LEMMA BiosOrder ==
  ASSUME ~Uefi
  PROVE  /\ Head(Work) = "buffer"
         /\ After("buffer") = "read" /\ After("read") = "parse" /\ After("parse") = "kernel_new"
         /\ After("kernel_new") = "trampoline_new" /\ After("trampoline_new") = "kernel_image"
         /\ After("kernel_image") = "trampoline_map" /\ After("trampoline_map") = "physical_map"
         /\ After("physical_map") = "register" /\ After("register") = "stack"
<1>1. Work = setup_kernel /\ Len(setup_kernel) = 9 /\ DOMAIN setup_kernel = 1 .. 9
  BY DEF Work, setup_kernel
<1>2. /\ setup_kernel[1] = "buffer" /\ setup_kernel[2] = "read" /\ setup_kernel[3] = "parse"
      /\ setup_kernel[4] = "kernel_new" /\ setup_kernel[5] = "trampoline_new" /\ setup_kernel[6] = "kernel_image"
      /\ setup_kernel[7] = "trampoline_map" /\ setup_kernel[8] = "physical_map" /\ setup_kernel[9] = "register"
  BY DEF setup_kernel
<1>3. \A j \in 1 .. 9 : j \in {1, 2, 3, 4, 5, 6, 7, 8, 9}
  OBVIOUS
<1>4. \A i, j \in 1 .. 9 : setup_kernel[j] = setup_kernel[i] => j = i
  BY <1>2, <1>3
<1>5. \A i \in 1 .. 9 : After(setup_kernel[i]) = IF i = 9 THEN "stack" ELSE setup_kernel[i + 1]
  BY <1>1, <1>4, AfterIs
<1>6. Head(setup_kernel) = setup_kernel[1]
  BY DEF setup_kernel
<1> HIDE DEF setup_kernel
<1> QED
  BY <1>1, <1>2, <1>5, <1>6

-----------------------------------------------------------------------------
(* What the allocator of frames returns, and when it has nothing. *)
LEMMA FramesAreNumbers ==
  /\ Frames \subseteq Nat /\ Cardinality(Frames) \in Nat
  /\ \A f \in Frames : f < Cardinality(Frames)
<1>1. Frames = 0 .. Cardinality(Frames) - 1 /\ Cardinality(Frames) \in Nat
  BY LoaderAssumption, FS_CardinalityType
<1> QED
  BY <1>1

LEMMA Least ==
  ASSUME NEW S \in SUBSET Nat, S # {}
  PROVE  \E x \in S : \A y \in S : x <= y
<1>1. PICK x \in S : \A y \in S : <<y, x>> \notin OpToRel(<, Nat)
  BY WFMin, NatLessThanWellFounded
<1>2. ASSUME NEW y \in S, y < x PROVE FALSE
  BY <1>1, <1>2 DEF OpToRel
<1> QED
  BY <1>2

LEMMA Allocated ==
  ASSUME NEW S, NEW limit, NEW f \in allocate_limited(S, limit)
  PROVE  f \in S /\ f <= limit
  BY DEF allocate_limited, Runs

LEMMA RunLengthIsNumber ==
  ASSUME NEW S \in SUBSET Frames, NEW f \in S
  PROVE  RunLength(S, f) \in Nat
<1> DEFINE Ends == {n \in Nat \ {0} : f + n \notin S}
<1>1. f \in Nat /\ Cardinality(Frames) \in Ends
  BY FramesAreNumbers
<1>2. PICK m \in Ends : \A n \in Ends : m <= n
  BY <1>1, Least
<1>3. f .. (f + m - 1) \subseteq S
  <2>1. ASSUME NEW g \in f .. (f + m - 1), g # f, g \notin S PROVE FALSE
    <3>1. g - f \in Ends /\ g - f < m
      BY <1>1, <2>1
    <3> QED
      BY <1>2, <3>1
  <2> QED
    BY <2>1
<1>4. m \in 1 .. Cardinality(S)
  <2>1. IsFiniteSet(S) /\ Cardinality(S) \in Nat
    BY LoaderAssumption, FS_Subset, FS_CardinalityType
  <2>2. Cardinality(f .. (f + m - 1)) = m
    BY <1>1, FS_Interval
  <2>3. m <= Cardinality(S)
    BY <1>3, <2>1, <2>2, FS_Subset
  <2> QED
    BY <2>1, <2>3
<1>5. RunLength(S, f) \in 1 .. Cardinality(S)
  BY <1>3, <1>4 DEF RunLength
<1> QED
  BY <1>5

LEMMA NothingBelow ==
  ASSUME NEW S \in SUBSET Frames, NEW limit \in Nat, allocate_limited(S, limit) = {},
         NEW f \in S
  PROVE  ~(f <= limit)
<1> SUFFICES ASSUME f <= limit PROVE FALSE
  OBVIOUS
<1> DEFINE fits == {g \in Runs(S) : g <= limit}
<1>1. fits # {}
  <2> DEFINE T == {g \in S : g .. f \subseteq S}
  <2>0. f \in Nat /\ S \subseteq Nat
    BY FramesAreNumbers
  <2>5. f .. f = {f}
    BY <2>0
  <2>1. f \in T /\ T \subseteq Nat
    BY <2>0, <2>5
  <2>2. PICK m \in T : \A g \in T : m <= g
    BY <2>1, Least
  <2>3. m - 1 \notin S
    <3> SUFFICES ASSUME m - 1 \in S PROVE FALSE
      OBVIOUS
    <3>1. m \in Nat /\ \A g \in (m - 1) .. f : g = m - 1 \/ g \in m .. f
      BY <2>1
    <3>2. m - 1 \in T
      BY <3>1
    <3> QED
      BY <2>2, <3>1, <3>2
  <2>4. m \in Nat /\ f \in Nat /\ m <= f
    BY <2>1, <2>2
  <2> QED
    BY <2>3, <2>4 DEF Runs
<1>2. fits \subseteq S
  BY DEF Runs
<1> DEFINE lengths == {RunLength(S, g) : g \in fits}
<1>3. lengths \subseteq Nat /\ lengths # {}
  BY <1>1, <1>2, RunLengthIsNumber
<1>4. PICK n \in lengths : \A k \in lengths : n <= k
  BY <1>3, Least
<1>5. PICK g \in fits : RunLength(S, g) = n
  BY <1>4
<1>6. g \in allocate_limited(S, limit)
  BY <1>4, <1>5 DEF allocate_limited
<1> QED
  BY <1>6

-----------------------------------------------------------------------------
(* The steps of a loader: it panics, takes a frame for a part of its work, or one of the others. *)
Panics(c) ==
  \E from, reason :
    /\ Panic(c, from, reason)
    /\ reason = "ap_entrypoint" => Uefi /\ from = "ap_entrypoint" /\ Exhausted(LowEnd)

WorkUse(from, to, p) ==
  IF Uefi
  THEN /\ from \in UefiWork \ {"parse", "register"} /\ to \in UefiWork \ {"ap_entrypoint"}
       /\ p \in BootUses \cup {"kernel_table", "kernel_image"}
       /\ p = "ap_entrypoint" <=> from = "ap_entrypoint"
       /\ to \in UefiMapped <=> from \in UefiMapped \cup {"trampoline_map"}
  ELSE /\ from \in BiosWork \ {"read", "read_extended", "parse", "register"} /\ to \in BiosWork \ {"buffer"}
       /\ p \in {"kernel_buffer", "trampoline_table", "kernel_table", "kernel_image"}
       /\ to \in BiosMapped <=> from \in BiosMapped \cup {"trampoline_map"}
       /\ to \in {"read", "read_extended"} => from = "buffer"

TakesFrame(from, p, f) ==
  /\ f \in free_memory /\ f <= MAX_ADDRESS /\ Take(f, p)
  /\ p = "ap_entrypoint" => f <= LowEnd
  /\ boot_memory' = IF Uefi /\ p \in BootUses THEN boot_memory \cup {f} ELSE boot_memory
  /\ trampoline' = IF from = "trampoline_map" THEN Mapped ELSE trampoline

Works(c) ==
  \E from, to, p, f :
    Goto(c, from, to) /\ WorkUse(from, to, p) /\ TakesFrame(from, p, f) /\ LoadUnchanged

Verified(c) ==
  /\ Goto(c, "start", IF INITIALIZED THEN IF KERNEL_ENTRY_DATA THEN "stack" ELSE Head(Work)
                      ELSE IF Uefi THEN "acpi" ELSE "e820")
  /\ LoadUnchanged /\ UNCHANGED <<listVars, trampoline>>

Parsed(c) ==
  Goto(c, "parse", After("parse")) /\ LoadUnchanged /\ UNCHANGED <<listVars, trampoline>>

StackMade(c) ==
  /\ \E to \in {"drop_buffer", "enter"} : Goto(c, "stack", to)
  /\ \E f \in free_memory : Take(f, "stack") /\ UNCHANGED boot_memory
  /\ stacks' = [stacks EXCEPT ![c] = NEXT_STACK] /\ NEXT_STACK' = NEXT_STACK + 1
  /\ UNCHANGED <<loader, fwVars, tries, mapVars, sector, blockVars, trampoline, failed>>

UefiLearnStep(c) ==
  \/ exit_try(c) \/ get_memory_map(c) \/ get_memory_map_fails(c)
  \/ exit_boot_services(c) \/ exit_boot_services_fails(c)

BiosOtherStep(c) ==
  \/ e820_entry(c) \/ e820_end(c) \/ drop_buffer(c)
  \/ \E step \in {"read", "read_extended"}, done \in BOOLEAN : Attempt(c, step, done)

OtherStep(c) ==
  \/ Verified(c) \/ locate_acpi(c) \/ Parsed(c) \/ register(c) \/ StackMade(c) \/ enter_kernel(c)
  \/ Uefi /\ UefiLearnStep(c)
  \/ ~Uefi /\ BiosOtherStep(c)

LEMMA KernelFrameWorks ==
  ASSUME NEW c \in Cores, NEW from, NEW to, NEW p, KernelFrame(c, from, to, p),
         WorkUse(from, to, p), from # "trampoline_map", Uefi => p \notin BootUses
  PROVE  Panics(c) \/ Works(c)
<1>1. p # "ap_entrypoint"
  BY DEF WorkUse, BootUses
<1>2. CASE Exhausted(MAX_ADDRESS) /\ Panic(c, from, p)
  BY <1>1, <1>2 DEF Panics
<1>3. CASE /\ Goto(c, from, to) /\ alloc_phys(p)
           /\ LoadUnchanged /\ UNCHANGED trampoline
  <2>1. PICK f \in allocate_limited(free_memory, MAX_ADDRESS) : Take(f, p) /\ UNCHANGED boot_memory
    BY <1>3 DEF alloc_phys
  <2>2. TakesFrame(from, p, f)
    BY <1>1, <1>3, <2>1, Allocated DEF TakesFrame
  <2> QED
    BY <1>3, <2>2 DEF Works
<1> QED
  BY <1>2, <1>3 DEF KernelFrame

LEMMA BootFrameWorks ==
  ASSUME NEW c \in Cores, NEW from, NEW to, NEW p, NEW limit \in {LowEnd, MAX_ADDRESS},
         BootFrame(c, from, to, p, limit),
         Uefi, p \in BootUses, WorkUse(from, to, p), from # "trampoline_map",
         p = "ap_entrypoint" => limit = LowEnd, free_memory \subseteq Frames
  PROVE  Panics(c) \/ Works(c)
<1>1. p = "ap_entrypoint" => from = "ap_entrypoint"
  BY DEF WorkUse
<1>2. CASE Exhausted(limit) /\ Panic(c, from, p)
  BY <1>1, <1>2 DEF Panics
<1>3. CASE /\ Goto(c, from, to) /\ allocate_boot_memory_internal(p, limit)
           /\ LoadUnchanged /\ UNCHANGED trampoline
  <2>1. PICK f \in allocate_limited(free_memory, limit) : Take(f, p) /\ mark_boot_memory(f)
    BY <1>3 DEF allocate_boot_memory_internal
  <2>2. f \in free_memory /\ f <= limit
    BY <2>1, Allocated
  <2>3. f <= MAX_ADDRESS
    <3>1. f \in Nat /\ limit \in {LowEnd, MAX_ADDRESS}
      BY <2>2, FramesAreNumbers
    <3>2. LowEnd <= MAX_ADDRESS /\ LowEnd \in Nat /\ MAX_ADDRESS \in Nat
      BY LoaderAssumption
    <3> QED
      BY <2>2, <3>1, <3>2
  <2>4. TakesFrame(from, p, f)
    BY <1>3, <2>1, <2>2, <2>3 DEF TakesFrame, mark_boot_memory
  <2> QED
    BY <1>3, <2>4 DEF Works
<1> QED
  BY <1>2, <1>3 DEF BootFrame

LEMMA TrampolineWorks ==
  ASSUME NEW c \in Cores, create_trampoline_page_table(c),
         NEW to, to = After("trampoline_map"), WorkUse("trampoline_map", to, "trampoline_table")
  PROVE  Panics(c) \/ Works(c)
<1>1. CASE Exhausted(MAX_ADDRESS) /\ Panic(c, "trampoline_map", "trampoline_table")
  BY <1>1 DEF Panics
<1>2. CASE /\ Goto(c, "trampoline_map", to)
           /\ IF Uefi THEN allocate_boot_memory_internal("trampoline_table", MAX_ADDRESS)
                      ELSE alloc_phys("trampoline_table")
           /\ trampoline' = Mapped
           /\ LoadUnchanged
  <2>1. PICK f \in allocate_limited(free_memory, MAX_ADDRESS) :
          /\ Take(f, "trampoline_table")
          /\ boot_memory' = IF Uefi THEN boot_memory \cup {f} ELSE boot_memory
    BY <1>2 DEF allocate_boot_memory_internal, alloc_phys, mark_boot_memory
  <2>2. TakesFrame("trampoline_map", "trampoline_table", f)
    BY <1>2, <2>1, Allocated DEF TakesFrame, BootUses
  <2> QED
    BY <1>2, <2>2 DEF Works
<1> QED
  BY <1>1, <1>2 DEF create_trampoline_page_table

LEMMA LoaderSteps ==
  ASSUME NEW c \in Cores, LoaderStep(c), free_memory \subseteq Frames
  PROVE  Panics(c) \/ Works(c) \/ OtherStep(c)
<1>1. CASE Uefi /\ UefiStep(c)
  <2>1. CASE exit_try_fails(c)
    BY <2>1 DEF exit_try_fails, Panics
  <2>2. CASE APEntrypoint_new(c)
    <3>1. WorkUse("ap_entrypoint", After("ap_entrypoint"), "ap_entrypoint") /\ "ap_entrypoint" \in BootUses
      BY <1>1, UefiOrder DEF WorkUse, UefiWork, UefiMapped, BootUses
    <3> QED
      BY <1>1, <2>2, <3>1, BootFrameWorks DEF APEntrypoint_new
  <2>3. CASE gdt(c)
    <3>1. WorkUse("gdt", After("gdt"), "gdt") /\ "gdt" \in BootUses
      BY <1>1, UefiOrder DEF WorkUse, UefiWork, UefiMapped, BootUses
    <3> QED
      BY <1>1, <2>3, <3>1, BootFrameWorks DEF gdt
  <2>4. CASE trampoline_stack(c)
    <3>1. /\ WorkUse("trampoline_stack", After("trampoline_stack"), "trampoline_stack")
          /\ "trampoline_stack" \in BootUses
      BY <1>1, UefiOrder DEF WorkUse, UefiWork, UefiMapped, BootUses
    <3> QED
      BY <1>1, <2>4, <3>1, BootFrameWorks DEF trampoline_stack
  <2> QED
    BY <1>1, <2>1, <2>2, <2>3, <2>4 DEF UefiStep, OtherStep, UefiLearnStep
<1>2. CASE ~Uefi /\ BiosStep(c)
  <2>1. CASE e820_overflows(c) \/ locate_acpi_fails(c) \/ disk_fails(c)
    BY <2>1 DEF e820_overflows, locate_acpi_fails, disk_fails, Panics
  <2>2. CASE allocate_buffer(c)
    <3>1. PICK how \in {"read", "read_extended"} : KernelFrame(c, "buffer", how, "kernel_buffer")
      BY <2>2 DEF allocate_buffer, extended_reads_supported
    <3>2. WorkUse("buffer", how, "kernel_buffer")
      BY <1>2 DEF WorkUse, BiosWork, BiosMapped
    <3> QED
      BY <1>2, <3>1, <3>2, KernelFrameWorks
  <2>3. CASE read_sector(c) \/ read_sector_extended(c)
    <3>1. \E step \in {"read", "read_extended"}, done \in BOOLEAN : Attempt(c, step, done)
      BY <2>3 DEF read_sector, read_sector_extended
    <3> QED
      BY <1>2, <3>1 DEF OtherStep, BiosOtherStep
  <2> QED
    BY <1>2, <2>1, <2>2, <2>3 DEF BiosStep, OtherStep, BiosOtherStep
<1>3. CASE verify_cpu(c)
  <2>1. Panic(c, "start", "cpu") => Panics(c)
    BY DEF Panics
  <2> QED
    BY <1>3, <2>1 DEF verify_cpu, OtherStep, Verified, LoadUnchanged
<1>4. CASE parse_kernel(c)
  <2>1. Panic(c, "parse", "kernel") => Panics(c)
    BY DEF Panics
  <2> QED
    BY <1>4, <2>1 DEF parse_kernel, OtherStep, Parsed
<1>5. CASE trampoline_new(c)
  <2>1. WorkUse("trampoline_new", After("trampoline_new"), "trampoline_table") /\ "trampoline_table" \in BootUses
    BY UefiOrder, BiosOrder DEF WorkUse, UefiWork, UefiMapped, BiosWork, BiosMapped, BootUses
  <2> QED
    BY <1>5, <2>1, BootFrameWorks, KernelFrameWorks DEF trampoline_new, trampoline_frame
<1>6. CASE create_trampoline_page_table(c)
  <2>1. WorkUse("trampoline_map", After("trampoline_map"), "trampoline_table")
    BY UefiOrder, BiosOrder DEF WorkUse, UefiWork, UefiMapped, BiosWork, BiosMapped, BootUses
  <2> QED
    BY <1>6, <2>1, TrampolineWorks
<1>7. CASE kernel_new(c)
  <2>1. WorkUse("kernel_new", After("kernel_new"), "kernel_table")
    BY UefiOrder, BiosOrder DEF WorkUse, UefiWork, UefiMapped, BiosWork, BiosMapped, BootUses
  <2> QED
    BY <1>7, <2>1, KernelFrameWorks DEF kernel_new, BootUses
<1>8. CASE kernel_image(c)
  <2>1. WorkUse("kernel_image", After("kernel_image"), "kernel_image")
    BY UefiOrder, BiosOrder DEF WorkUse, UefiWork, UefiMapped, BiosWork, BiosMapped, BootUses
  <2> QED
    BY <1>8, <2>1, KernelFrameWorks DEF kernel_image, BootUses
<1>9. CASE physical_map(c)
  <2>1. WorkUse("physical_map", After("physical_map"), "kernel_table")
    BY UefiOrder, BiosOrder DEF WorkUse, UefiWork, UefiMapped, BiosWork, BiosMapped, BootUses
  <2> QED
    BY <1>9, <2>1, KernelFrameWorks DEF physical_map, BootUses
<1>10. CASE create_kernel_stack(c)
  <2>1. Panic(c, "stack", "stack") => Panics(c)
    BY DEF Panics
  <2>2. alloc_phys("stack") => \E f \in free_memory : Take(f, "stack") /\ UNCHANGED boot_memory
    BY Allocated DEF alloc_phys
  <2> QED
    BY <1>10, <2>1, <2>2 DEF create_kernel_stack, OtherStep, StackMade
<1> QED
  BY <1>1, <1>2, <1>3, <1>4, <1>5, <1>6, <1>7, <1>8, <1>9, <1>10 DEF LoaderStep, OtherStep

-----------------------------------------------------------------------------
(* The order of the cores. *)
LEMMA OnlyTheFirst ==
  ASSUME Order, NEW c \in Cores, pc[c] \notin Launched
  PROVE  c = Bsp
  BY DEF Order

LEMMA OrderByMove ==
  ASSUME Order, NEW c \in Cores, NEW from, NEW to, Goto(c, from, to), from \notin Waiting, loader' = loader,
         to # "off",
         c = Bsp => /\ to \in IF Uefi THEN UefiPoints ELSE BiosPoints
                    /\ INITIALIZED' <=> to \notin Learning
                    /\ to \in Entering => KERNEL_ENTRY_DATA',
         c # Bsp => to \in Launched /\ (INITIALIZED' <=> INITIALIZED) /\ (KERNEL_ENTRY_DATA' <=> KERNEL_ENTRY_DATA)
  PROVE  Order'
<1>1. /\ pc[c] = from /\ pc[c] \notin Waiting
      /\ pc' = [d \in Cores |-> pc'[d]] /\ pc'[c] = to /\ \A d \in Cores \ {c} : pc'[d] = pc[d]
      /\ Bsp \in Cores
  BY LoaderAssumption DEF Goto, Order
<1>2. \A d \in Cores \ {c} : pc'[d] \in Waiting
  BY <1>1 DEF Order
<1>3. \A d, e \in Cores : d # e /\ pc'[d] \notin Waiting => pc'[e] \in Waiting
  BY <1>2
<1>4. Uefi' <=> Uefi
  BY DEF Uefi
<1>5. c # Bsp => pc'[Bsp] = "kernel" /\ pc[Bsp] = "kernel"
  <2> SUFFICES ASSUME c # Bsp PROVE pc'[Bsp] = "kernel" /\ pc[Bsp] = "kernel"
    OBVIOUS
  <2>1. pc[c] # "off"
    BY <1>1 DEF Waiting
  <2> QED
    BY <2>1, <1>1 DEF Order
<1>6. c = Bsp => \A d \in Cores \ {Bsp} : pc'[d] = "off"
  <2> SUFFICES ASSUME c = Bsp PROVE \A d \in Cores \ {Bsp} : pc'[d] = "off"
    OBVIOUS
  <2>1. pc[Bsp] # "kernel"
    BY <1>1 DEF Waiting
  <2> QED
    BY <2>1, <1>1 DEF Order
<1>7. \A d \in Cores \ {Bsp} : pc'[d] \in Launched
  BY <1>1 DEF Order
<1>8. pc'[Bsp] \in IF Uefi' THEN UefiPoints ELSE BiosPoints
  BY <1>1, <1>4 DEF Order
<1>9. pc'[Bsp] # "kernel" => \A d \in Cores \ {Bsp} : pc'[d] = "off"
  BY <1>5, <1>6
<1>10. (INITIALIZED' <=> pc'[Bsp] \notin Learning) /\ (pc'[Bsp] \in Entering => KERNEL_ENTRY_DATA')
  <2>1. CASE c = Bsp
    BY <1>1, <2>1
  <2>2. CASE c # Bsp
    BY <1>1, <1>5, <2>2 DEF Order
  <2> QED
    BY <2>1, <2>2
<1>11. loader' \in {"UEFI", "BIOS"}
  BY DEF Order
<1> QED
  BY <1>1, <1>3, <1>7, <1>8, <1>9, <1>10, <1>11 DEF Order

LEMMA WorksIsFirst ==
  ASSUME Order, NEW c \in Cores, NEW from, NEW to, NEW p, Goto(c, from, to), WorkUse(from, to, p)
  PROVE  /\ c = Bsp /\ pc[Bsp] = from /\ pc'[Bsp] = to
         /\ from \notin Learning \cup Entering \cup Waiting /\ to \notin Learning \cup Entering
         /\ to \in IF Uefi THEN UefiWork ELSE BiosWork
<1>1. from \in UefiWork \cup BiosWork /\ to \in IF Uefi THEN UefiWork ELSE BiosWork
  BY DEF WorkUse
<1>2. from \notin Launched /\ from \notin Learning
  BY <1>1 DEF Launched, UefiWork, BiosWork, Learning
<1>3. c = Bsp /\ pc[Bsp] = from
  BY <1>2, OnlyTheFirst DEF Goto
<1>4. pc'[Bsp] = to
  BY <1>3 DEF Goto, Order
<1>5. Entering \subseteq Launched /\ Waiting \subseteq Launched
  BY DEF Entering, Launched, Waiting
<1>6. to \notin Learning \cup Entering
  BY <1>1 DEF UefiWork, BiosWork, Learning, Entering
<1> QED
  BY <1>1, <1>2, <1>3, <1>4, <1>5, <1>6

LEMMA OrderByWork ==
  ASSUME Order, NEW c \in Cores, Works(c)
  PROVE  Order'
<1>1. PICK from, to, p, f : Goto(c, from, to) /\ WorkUse(from, to, p) /\ LoadUnchanged
  BY DEF Works
<1>2. /\ c = Bsp /\ from \notin Waiting /\ to \notin Learning \cup Entering /\ pc[Bsp] = from /\ from \notin Learning
      /\ to \in IF Uefi THEN UefiWork ELSE BiosWork
  BY <1>1, WorksIsFirst
<1>3. to # "off"
  BY <1>2 DEF UefiWork, BiosWork
<1>4. INITIALIZED' <=> to \notin Learning
  BY <1>1, <1>2 DEF Order, LoadUnchanged, blockVars
<1> QED
  BY <1>1, <1>2, <1>3, <1>4, OrderByMove DEF LoadUnchanged, UefiPoints, BiosPoints

LEMMA OrderByOther ==
  ASSUME Order, NEW c \in Cores, OtherStep(c)
  PROVE  Order'
<1> USE DEF LoadUnchanged, blockVars
<1>1. CASE Verified(c)
  <2>1. CASE c = Bsp
    <3>1. pc[c] = "start"
      BY <1>1 DEF Verified, Goto
    <3>2. ~INITIALIZED
      BY <2>1, <3>1 DEF Order, Learning
    <3>3. Goto(c, "start", IF Uefi THEN "acpi" ELSE "e820") /\ loader' = loader /\ INITIALIZED' = INITIALIZED
      BY <1>1, <3>2 DEF Verified
    <3>4. CASE Uefi
      <4>1. Goto(c, "start", "acpi")
        BY <3>3, <3>4
      <4>2. "acpi" \in UefiPoints /\ "acpi" \in Learning /\ "acpi" \notin Entering
        BY DEF UefiPoints, Learning, Entering
      <4> QED
        BY <4>1, <4>2, <3>2, <3>3, <3>4, <2>1, OrderByMove DEF Waiting
    <3>5. CASE ~Uefi
      <4>1. Goto(c, "start", "e820")
        BY <3>3, <3>5
      <4>2. "e820" \in BiosPoints /\ "e820" \in Learning /\ "e820" \notin Entering
        BY DEF BiosPoints, Learning, Entering
      <4> QED
        BY <4>1, <4>2, <3>2, <3>3, <3>5, <2>1, OrderByMove DEF Waiting
    <3> QED
      BY <3>4, <3>5
  <2>2. CASE c # Bsp
    <3>1. pc[c] # "off"
      BY <1>1 DEF Verified, Goto
    <3>2. pc[Bsp] = "kernel"
      BY <2>2, <3>1 DEF Order
    <3>3. INITIALIZED /\ KERNEL_ENTRY_DATA
      BY <3>2 DEF Order, Learning, Entering
    <3>4. Goto(c, "start", "stack") /\ UNCHANGED <<loader, INITIALIZED, KERNEL_ENTRY_DATA>>
      BY <1>1, <3>3 DEF Verified
    <3> QED
      BY <3>4, <2>2, OrderByMove DEF Launched, Waiting
  <2> QED
    BY <2>1, <2>2
<1>2. CASE locate_acpi(c)
  <2>1. Goto(c, "acpi", IF Uefi THEN "exit_try" ELSE Head(Work)) /\ loader' = loader /\ INITIALIZED' = ~Uefi
    BY <1>2 DEF locate_acpi
  <2>2. c = Bsp
    BY <2>1, OnlyTheFirst DEF Goto, Launched
  <2>3. CASE Uefi
    <3>1. Goto(c, "acpi", "exit_try") /\ INITIALIZED' = FALSE
      BY <2>1, <2>3
    <3> QED
      BY <3>1, <2>1, <2>2, <2>3, OrderByMove DEF Waiting, UefiPoints, Learning, Entering
  <2>4. CASE ~Uefi
    <3>1. Goto(c, "acpi", "buffer") /\ INITIALIZED' = TRUE
      BY <2>1, <2>4, BiosOrder
    <3> QED
      BY <3>1, <2>1, <2>2, <2>4, OrderByMove DEF Waiting, BiosPoints, BiosWork, Learning, Entering
  <2> QED
    BY <2>3, <2>4
<1>3. CASE Parsed(c)
  <2>1. Goto(c, "parse", After("parse")) /\ UNCHANGED <<loader, INITIALIZED, KERNEL_ENTRY_DATA>>
    BY <1>3 DEF Parsed
  <2>2. c = Bsp /\ pc[Bsp] = "parse"
    BY <2>1, OnlyTheFirst DEF Goto, Launched
  <2>3. INITIALIZED
    BY <2>2 DEF Order, Learning
  <2>4. After("parse") \in {"trampoline_new", "kernel_new"}
    BY UefiOrder, BiosOrder
  <2>5. PICK to \in {"trampoline_new", "kernel_new"} : Goto(c, "parse", to)
    BY <2>1, <2>4
  <2>6. to \in UefiPoints /\ to \in BiosPoints /\ to \notin Learning /\ to \notin Entering /\ to # "off"
    BY DEF UefiPoints, BiosPoints, UefiWork, BiosWork, Learning, Entering
  <2> QED
    BY <2>1, <2>2, <2>3, <2>5, <2>6, OrderByMove DEF Waiting
<1>4. CASE register(c)
  <2>1. /\ Goto(c, "register", After("register")) /\ UNCHANGED <<loader, INITIALIZED>>
        /\ KERNEL_ENTRY_DATA'
    BY <1>4 DEF register
  <2>2. c = Bsp /\ pc[Bsp] = "register"
    BY <2>1, OnlyTheFirst DEF Goto, Launched
  <2>3. INITIALIZED
    BY <2>2 DEF Order, Learning
  <2>4. After("register") = "stack"
    BY UefiOrder, BiosOrder
  <2> QED
    BY <2>1, <2>2, <2>3, <2>4, OrderByMove DEF Waiting, UefiPoints, BiosPoints, Learning, Entering
<1>5. CASE StackMade(c) \/ enter_kernel(c) \/ drop_buffer(c)
  <2>1. PICK from \in {"stack", "drop_buffer", "enter"}, to \in {"drop_buffer", "enter", "kernel"} : Goto(c, from, to)
    BY <1>5 DEF StackMade, enter_kernel, drop_buffer
  <2>2. UNCHANGED <<loader, INITIALIZED, KERNEL_ENTRY_DATA>>
    BY <1>5 DEF StackMade, enter_kernel, drop_buffer
  <2>3. c = Bsp => INITIALIZED /\ KERNEL_ENTRY_DATA
    BY <2>1 DEF Goto, Order, Learning, Entering
  <2>4. /\ to \in UefiPoints /\ to \in BiosPoints /\ to \notin Learning /\ to # "off" /\ to \in Launched
        /\ from \notin Waiting
    BY <2>1 DEF UefiPoints, BiosPoints, Entering, Learning, Launched, Waiting
  <2> QED
    BY <2>1, <2>2, <2>3, <2>4, OrderByMove
<1>6. CASE Uefi /\ UefiLearnStep(c) /\ ~exit_boot_services(c)
  <2>1. PICK from \in {"exit_try", "get_map", "exit"}, to \in {"exit_try", "get_map", "exit"} : Goto(c, from, to)
    BY <1>6 DEF UefiLearnStep, exit_try, get_memory_map, get_memory_map_fails, exit_boot_services_fails
  <2>2. UNCHANGED <<loader, INITIALIZED, KERNEL_ENTRY_DATA>>
    BY <1>6 DEF UefiLearnStep, exit_try, get_memory_map, get_memory_map_fails, exit_boot_services_fails,
       InitUnchanged
  <2>3. c = Bsp
    BY <2>1, OnlyTheFirst DEF Goto, Launched
  <2>4. ~INITIALIZED
    BY <2>1, <2>3 DEF Goto, Order, Learning
  <2>5. to \in UefiPoints /\ to \in Learning /\ to \notin Entering /\ to # "off" /\ from \notin Waiting
    BY <2>1 DEF UefiPoints, Learning, Entering, Waiting
  <2> QED
    BY <1>6, <2>1, <2>2, <2>3, <2>4, <2>5, OrderByMove
<1>7. CASE Uefi /\ exit_boot_services(c)
  <2>1. Goto(c, "exit", "ap_entrypoint") /\ loader' = loader /\ INITIALIZED' = TRUE
    BY <1>7, UefiOrder DEF exit_boot_services
  <2>2. c = Bsp
    BY <2>1, OnlyTheFirst DEF Goto, Launched
  <2> QED
    BY <1>7, <2>1, <2>2, OrderByMove DEF Waiting, UefiPoints, UefiWork, Learning, Entering
<1>8. CASE ~Uefi /\ e820_entry(c)
  BY <1>8 DEF e820_entry, Order, Uefi
<1>9. CASE ~Uefi /\ e820_end(c)
  <2>1. PICK to \in {"e820", "acpi"} : Goto(c, "e820", to)
    BY <1>9 DEF e820_end
  <2>2. UNCHANGED <<loader, INITIALIZED, KERNEL_ENTRY_DATA>>
    BY <1>9 DEF e820_end
  <2>3. c = Bsp
    BY <2>1, OnlyTheFirst DEF Goto, Launched
  <2>4. ~INITIALIZED
    BY <2>1, <2>3 DEF Goto, Order, Learning
  <2>5. to \in BiosPoints /\ to \in Learning /\ to \notin Entering /\ to # "off"
    BY <2>1 DEF BiosPoints, Learning, Entering
  <2> QED
    BY <1>9, <2>1, <2>2, <2>3, <2>4, <2>5, OrderByMove DEF Waiting
<1>10. ASSUME ~Uefi, NEW step \in {"read", "read_extended"}, NEW done \in BOOLEAN, Attempt(c, step, done)
       PROVE  Order'
  <2>1. PICK to \in {"parse", step} : Goto(c, step, to)
    BY <1>10, BiosOrder DEF Attempt
  <2>2. UNCHANGED <<loader, INITIALIZED, KERNEL_ENTRY_DATA>>
    BY <1>10 DEF Attempt
  <2>3. c = Bsp
    BY <2>1, OnlyTheFirst DEF Goto, Launched
  <2>4. INITIALIZED
    BY <2>1, <2>3 DEF Goto, Order, Learning
  <2>5. to \in BiosPoints /\ to \notin Learning /\ to \notin Entering /\ to # "off" /\ step \notin Waiting
    BY <2>1 DEF BiosPoints, BiosWork, Learning, Entering, Waiting
  <2> QED
    BY <1>10, <2>1, <2>2, <2>3, <2>4, <2>5, OrderByMove
<1> QED
  BY <1>1, <1>2, <1>3, <1>4, <1>5, <1>6, <1>7, <1>8, <1>9, <1>10 DEF OtherStep, UefiLearnStep, BiosOtherStep

LEMMA OrderByRest ==
  ASSUME Order
  PROVE  /\ \A c \in Cores : Panics(c) => Order'
         /\ \A c \in Cores : launch_ap(c) => Order'
         /\ \A f \in Frames, kind \in Kinds : firmware_changes_map(f, kind) => Order'
         /\ \A f \in Frames : kernel_takes(f) => Order'
         /\ reclaim_boot_memory => Order'
<1> USE DEF LoadUnchanged, blockVars
<1>1. UNCHANGED <<loader, pc, INITIALIZED, KERNEL_ENTRY_DATA>> => Order'
  BY DEF Order, Uefi
<1>2. ASSUME NEW c \in Cores, launch_ap(c) PROVE Order'
  <2>1. /\ pc[Bsp] = "kernel" /\ c # Bsp /\ pc[c] = "off" /\ Bsp \in Cores
        /\ \A d \in Cores : pc[d] \in Waiting
        /\ UNCHANGED <<loader, INITIALIZED, KERNEL_ENTRY_DATA>>
    BY <1>2, LoaderAssumption DEF launch_ap, Goto, Waiting
  <2>2. pc' = [d \in Cores |-> pc'[d]] /\ pc'[c] = "start" /\ \A d \in Cores \ {c} : pc'[d] = pc[d]
    BY <1>2 DEF launch_ap, Goto, Order
  <2>3. "start" \in Launched
    BY DEF Launched
  <2>4. \A d, e \in Cores : d # e /\ pc'[d] \notin Waiting => pc'[e] \in Waiting
    BY <2>1, <2>2
  <2>5. (Uefi' <=> Uefi) /\ pc'[Bsp] = pc[Bsp]
    BY <2>1, <2>2 DEF Uefi
  <2>6. \A d \in Cores \ {Bsp} : pc'[d] \in Launched
    BY <2>2, <2>3 DEF Order
  <2>7. (INITIALIZED' <=> pc'[Bsp] \notin Learning) /\ (pc'[Bsp] \in Entering => KERNEL_ENTRY_DATA')
    BY <2>1, <2>5 DEF Order
  <2>8. pc'[Bsp] = "kernel" /\ loader' \in {"UEFI", "BIOS"} /\ pc'[Bsp] \in IF Uefi' THEN UefiPoints ELSE BiosPoints
    BY <2>1, <2>5 DEF Order
  <2> QED
    BY <2>2, <2>4, <2>6, <2>7, <2>8 DEF Order
<1> QED
  BY <1>1, <1>2 DEF Panics, Panic, firmware_changes_map, kernel_takes, reclaim_boot_memory

-----------------------------------------------------------------------------
(* The stacks: only create_kernel_stack leads past the making of one. *)
Inside == {"drop_buffer", "enter", "kernel"}

LEMMA StacksStay ==
  ASSUME Order, StacksApart, UNCHANGED stackVars,
         \A c \in Cores : pc'[c] \in Inside => pc[c] \in Inside
  PROVE  StacksApart'
  BY DEF StacksApart, stackVars, Inside

LEMMA StacksByMove ==
  ASSUME Order, StacksApart, UNCHANGED stackVars, NEW c \in Cores, NEW from, NEW to, Goto(c, from, to),
         to \in Inside => from \in Inside
  PROVE  StacksApart'
<1>1. \A d \in Cores : pc'[d] \in Inside => pc[d] \in Inside
  BY DEF Goto, Order
<1> QED
  BY <1>1, StacksStay

LEMMA StacksKept ==
  ASSUME Order, StacksApart, NEW c \in Cores, Works(c) \/ OtherStep(c)
  PROVE  StacksApart'
<1> USE DEF LoadUnchanged
<1>1. CASE Works(c)
  <2>1. PICK from, to, p, f : Goto(c, from, to) /\ WorkUse(from, to, p) /\ LoadUnchanged
    BY <1>1 DEF Works
  <2>2. to \notin Inside
    BY <2>1, WorksIsFirst DEF Inside, Entering
  <2> QED
    BY <2>1, <2>2, StacksByMove
<1>2. CASE Verified(c)
  <2>1. Head(Work) \in {"ap_entrypoint", "buffer"}
    BY UefiOrder, BiosOrder
  <2>2. PICK to \in {"stack", "ap_entrypoint", "buffer", "acpi", "e820"} : Goto(c, "start", to) /\ UNCHANGED stackVars
    BY <1>2, <2>1 DEF Verified
  <2> QED
    BY <2>2, StacksByMove DEF Inside
<1>3. CASE locate_acpi(c)
  <2>1. Head(Work) \in {"ap_entrypoint", "buffer"}
    BY UefiOrder, BiosOrder
  <2>2. PICK to \in {"exit_try", "ap_entrypoint", "buffer"} : Goto(c, "acpi", to) /\ UNCHANGED stackVars
    BY <1>3, <2>1 DEF locate_acpi
  <2> QED
    BY <2>2, StacksByMove DEF Inside
<1>4. CASE Parsed(c)
  <2>1. After("parse") \in {"trampoline_new", "kernel_new"}
    BY UefiOrder, BiosOrder
  <2>2. PICK to \in {"trampoline_new", "kernel_new"} : Goto(c, "parse", to) /\ UNCHANGED stackVars
    BY <1>4, <2>1 DEF Parsed
  <2> QED
    BY <2>2, StacksByMove DEF Inside
<1>5. CASE register(c)
  <2>1. Goto(c, "register", "stack") /\ UNCHANGED stackVars
    BY <1>5, UefiOrder, BiosOrder DEF register
  <2> QED
    BY <2>1, StacksByMove DEF Inside
<1>6. CASE enter_kernel(c) \/ drop_buffer(c)
  <2>1. PICK from \in {"drop_buffer", "enter"}, to \in {"enter", "kernel"} : Goto(c, from, to)
    BY <1>6 DEF enter_kernel, drop_buffer
  <2> QED
    BY <1>6, <2>1, StacksByMove DEF Inside, enter_kernel, drop_buffer
<1>7. CASE StackMade(c)
  <2>1. /\ stacks' = [stacks EXCEPT ![c] = NEXT_STACK] /\ NEXT_STACK' = NEXT_STACK + 1
        /\ \A d \in Cores \ {c} : pc'[d] = pc[d]
    BY <1>7 DEF StackMade, Goto, Order
  <2>2. NEXT_STACK \in Nat /\ stacks = [d \in Cores |-> stacks[d]]
    BY DEF StacksApart
  <2>3. /\ stacks'[c] = NEXT_STACK /\ stacks' = [d \in Cores |-> stacks'[d]]
        /\ \A d \in Cores \ {c} : stacks'[d] = stacks[d]
    BY <2>1, <2>2
  <2>4. \A d \in Cores : stacks'[d] = NoFrame \/ stacks'[d] \in 0 .. NEXT_STACK' - 1
    BY <2>1, <2>2, <2>3 DEF StacksApart
  <2>5. \A d \in Cores : pc'[d] \in Inside => stacks'[d] # NoFrame
    BY <2>1, <2>2, <2>3 DEF StacksApart, Inside, NoFrame
  <2>6. \A d \in Cores : stacks[d] # NEXT_STACK
    BY <2>2 DEF StacksApart, NoFrame
  <2>7. \A d, e \in Cores : d # e /\ stacks'[d] # NoFrame => stacks'[d] # stacks'[e]
    BY <2>3, <2>6 DEF StacksApart
  <2>8. NEXT_STACK' \in Nat
    BY <2>1, <2>2
  <2> QED
    BY <2>3, <2>4, <2>5, <2>7, <2>8 DEF StacksApart, Inside
<1>8. CASE UefiLearnStep(c)
  <2>1. Head(Work) \in {"ap_entrypoint", "buffer"}
    BY UefiOrder, BiosOrder
  <2>2. PICK from, to \in {"exit_try", "get_map", "exit", "ap_entrypoint", "buffer"} : Goto(c, from, to)
    BY <1>8, <2>1 DEF UefiLearnStep, exit_try, get_memory_map, get_memory_map_fails, exit_boot_services,
       exit_boot_services_fails
  <2>3. UNCHANGED stackVars
    BY <1>8 DEF UefiLearnStep, exit_try, get_memory_map, get_memory_map_fails, exit_boot_services,
       exit_boot_services_fails, InitUnchanged
  <2> QED
    BY <2>2, <2>3, StacksByMove DEF Inside
<1>9. CASE e820_entry(c)
  BY <1>9, StacksStay DEF e820_entry
<1>10. CASE e820_end(c)
  <2>1. PICK to \in {"e820", "acpi"} : Goto(c, "e820", to)
    BY <1>10 DEF e820_end
  <2>2. UNCHANGED stackVars
    BY <1>10 DEF e820_end
  <2> QED
    BY <2>1, <2>2, StacksByMove DEF Inside
<1>11. ASSUME ~Uefi, NEW step \in {"read", "read_extended"}, NEW done \in BOOLEAN, Attempt(c, step, done)
       PROVE  StacksApart'
  <2>1. PICK to \in {"parse", step} : Goto(c, step, to) /\ UNCHANGED stackVars
    BY <1>11, BiosOrder DEF Attempt
  <2> QED
    BY <2>1, StacksByMove DEF Inside
<1> QED
  BY <1>1, <1>2, <1>3, <1>4, <1>5, <1>6, <1>7, <1>8, <1>9, <1>10, <1>11 DEF OtherStep, BiosOtherStep

LEMMA StacksKeptByRest ==
  ASSUME Order, StacksApart
  PROVE  /\ \A c \in Cores : Panics(c) => StacksApart'
         /\ \A c \in Cores : launch_ap(c) => StacksApart'
         /\ \A f \in Frames, kind \in Kinds : firmware_changes_map(f, kind) => StacksApart'
         /\ \A f \in Frames : kernel_takes(f) => StacksApart'
         /\ reclaim_boot_memory => StacksApart'
<1> USE DEF LoadUnchanged
<1>1. UNCHANGED <<pc, stackVars>> => StacksApart'
  BY StacksStay
<1>2. ASSUME NEW c \in Cores, launch_ap(c) PROVE StacksApart'
  BY <1>2, StacksByMove DEF launch_ap, Inside
<1> QED
  BY <1>1, <1>2 DEF Panics, Panic, firmware_changes_map, kernel_takes, reclaim_boot_memory

-----------------------------------------------------------------------------
(* The attempts. *)
Reading == {"start", "e820", "acpi", "buffer", "read", "read_extended"}

LEMMA CountsAreNumbers ==
  /\ Sectors \in Nat /\ Sectors > 0 /\ ExitTries \in Nat /\ ExitTries > 0 /\ ReadTries \in Nat
  /\ LowEnd \in Nat /\ MAX_ADDRESS \in Nat /\ LowEnd <= MAX_ADDRESS
<1>1. Sectors \in Nat \ {0} /\ ExitTries \in Nat \ {0} /\ ReadTries \in Nat
  BY LoaderAssumption
<1>2. LowEnd \in Nat /\ MAX_ADDRESS \in Nat /\ LowEnd <= MAX_ADDRESS
  BY LoaderAssumption
<1> QED
  BY <1>1, <1>2

LEMMA TriesStay ==
  ASSUME Tries, UNCHANGED <<loader, tries, sector>>,
         ~Uefi /\ pc'[Bsp] \in Reading => pc[Bsp] \in Reading
  PROVE  Tries'
<1>1. Uefi' <=> Uefi
  BY DEF Uefi
<1> QED
  BY <1>1 DEF Tries, Reading

LEMMA TriesByMove ==
  ASSUME Order, Tries, UNCHANGED <<loader, tries, sector>>, NEW c \in Cores, NEW from, NEW to,
         Goto(c, from, to), ~Uefi /\ c = Bsp /\ to \in Reading => from \in Reading
  PROVE  Tries'
<1>1. pc'[Bsp] = IF c = Bsp THEN to ELSE pc[Bsp]
  BY LoaderAssumption DEF Goto, Order
<1> QED
  BY <1>1, TriesStay DEF Goto

LEMMA TriesKept ==
  ASSUME Order, Tries, NEW c \in Cores, Works(c) \/ OtherStep(c)
  PROVE  Tries'
<1> USE DEF LoadUnchanged
<1>1. CASE Works(c)
  <2>1. PICK from, to, p, f : Goto(c, from, to) /\ WorkUse(from, to, p) /\ LoadUnchanged
    BY <1>1 DEF Works
  <2>2. ~Uefi /\ to \in Reading => from \in Reading
    BY <2>1 DEF WorkUse, BiosWork, Reading
  <2> QED
    BY <2>1, <2>2, TriesByMove
<1>2. CASE Verified(c)
  <2>1. PICK to : Goto(c, "start", to)
    BY <1>2 DEF Verified
  <2> QED
    BY <1>2, <2>1, TriesByMove DEF Reading, Verified
<1>3. CASE locate_acpi(c)
  <2>1. PICK to : Goto(c, "acpi", to)
    BY <1>3 DEF locate_acpi
  <2> QED
    BY <1>3, <2>1, TriesByMove DEF Reading, locate_acpi
<1>4. CASE Parsed(c)
  <2>1. After("parse") \in {"trampoline_new", "kernel_new"}
    BY UefiOrder, BiosOrder
  <2>2. PICK to \in {"trampoline_new", "kernel_new"} : Goto(c, "parse", to)
    BY <1>4, <2>1 DEF Parsed
  <2> QED
    BY <1>4, <2>2, TriesByMove DEF Reading, Parsed
<1>5. CASE register(c)
  <2>1. Goto(c, "register", "stack")
    BY <1>5, UefiOrder, BiosOrder DEF register
  <2> QED
    BY <1>5, <2>1, TriesByMove DEF Reading, register
<1>6. CASE StackMade(c) \/ enter_kernel(c) \/ drop_buffer(c)
  <2>1. PICK from \in {"stack", "drop_buffer", "enter"}, to \in {"drop_buffer", "enter", "kernel"} : Goto(c, from, to)
    BY <1>6 DEF StackMade, enter_kernel, drop_buffer
  <2> QED
    BY <1>6, <2>1, TriesByMove DEF Reading, StackMade, enter_kernel, drop_buffer
<1>7. CASE Uefi /\ UefiLearnStep(c)
  <2>1. /\ Uefi' <=> Uefi
        /\ sector' = sector
    BY <1>7 DEF Uefi, UefiLearnStep, exit_try, get_memory_map, get_memory_map_fails, exit_boot_services,
       exit_boot_services_fails, InitUnchanged
  <2>2. \/ tries' = tries \/ tries' = 0
        \/ tries + 1 < ExitTries /\ tries' = tries + 1
    BY <1>7 DEF UefiLearnStep, exit_try, get_memory_map, get_memory_map_fails, exit_boot_services,
       exit_boot_services_fails
  <2>3. tries \in 0 .. ExitTries - 1
    BY <1>7 DEF Tries
  <2>4. tries' \in 0 .. ExitTries - 1
    BY <2>2, <2>3, CountsAreNumbers
  <2> QED
    BY <1>7, <2>1, <2>4 DEF Tries
<1>8. CASE e820_entry(c)
  BY <1>8, TriesStay DEF e820_entry
<1>9. CASE e820_end(c)
  <2>1. PICK to : Goto(c, "e820", to)
    BY <1>9 DEF e820_end
  <2> QED
    BY <1>9, <2>1, TriesByMove DEF Reading, e820_end
<1>10. ASSUME ~Uefi, NEW step \in {"read", "read_extended"}, NEW done \in BOOLEAN, Attempt(c, step, done)
       PROVE  Tries'
  <2>1. /\ tries < ReadTries /\ tries' = IF done THEN 0 ELSE tries + 1
        /\ sector' = IF done THEN sector + 1 ELSE sector
        /\ Goto(c, step, IF sector' = Sectors THEN After("read") ELSE step)
        /\ Uefi' <=> Uefi
    BY <1>10 DEF Attempt, Uefi
  <2>2. c = Bsp /\ pc[Bsp] = step
    BY <2>1, OnlyTheFirst DEF Goto, Launched
  <2>3. tries \in 0 .. ReadTries /\ sector \in 0 .. Sectors /\ sector < Sectors
    BY <1>10, <2>2 DEF Tries
  <2>4. tries' \in 0 .. ReadTries /\ sector' \in 0 .. Sectors
    BY <2>1, <2>3, CountsAreNumbers
  <2>5. CASE sector' = Sectors
    <3>1. pc'[Bsp] = "parse"
      BY <1>10, <2>1, <2>2, <2>5, BiosOrder DEF Goto, Order
    <3> QED
      BY <1>10, <2>1, <2>4, <3>1 DEF Tries
  <2>6. CASE sector' # Sectors
    <3>1. sector' < Sectors
      BY <2>4, <2>6, CountsAreNumbers
    <3> QED
      BY <1>10, <2>1, <2>4, <3>1 DEF Tries
  <2> QED
    BY <2>5, <2>6
<1> QED
  BY <1>1, <1>2, <1>3, <1>4, <1>5, <1>6, <1>7, <1>8, <1>9, <1>10 DEF OtherStep, BiosOtherStep

LEMMA TriesKeptByRest ==
  ASSUME Order, Tries
  PROVE  /\ \A c \in Cores : Panics(c) => Tries'
         /\ \A c \in Cores : launch_ap(c) => Tries'
         /\ \A f \in Frames, kind \in Kinds : firmware_changes_map(f, kind) => Tries'
         /\ \A f \in Frames : kernel_takes(f) => Tries'
         /\ reclaim_boot_memory => Tries'
<1> USE DEF LoadUnchanged
<1>1. UNCHANGED <<loader, pc, tries, sector>> => Tries'
  BY TriesStay
<1>2. ASSUME NEW c \in Cores, launch_ap(c) PROVE Tries'
  BY <1>2, TriesByMove DEF launch_ap
<1> QED
  BY <1>1, <1>2 DEF Panics, Panic, firmware_changes_map, kernel_takes, reclaim_boot_memory

-----------------------------------------------------------------------------
(* The types of what is known about the frames. *)
LEMMA UsesAreUses ==
  /\ BootUses \subseteq Uses /\ KernelUses \subseteq Uses /\ {"none", "kernel_buffer"} \subseteq Uses
  /\ \A from, to, p : WorkUse(from, to, p) => p \in Uses
  BY DEF Uses, BootUses, KernelUses, WorkUse

LEMMA ElementType ==
  ASSUME NEW T, NEW s \in Seq(T), NEW i \in 1 .. Len(s)
  PROVE  s[i] \in T
  OBVIOUS

LEMMA TakeTypes ==
  ASSUME FrameTypes, NEW f \in Frames, NEW p \in Uses, Take(f, p)
  PROVE  use' \in [Frames -> Uses] /\ free_memory' \subseteq Frames
  BY DEF FrameTypes, Take

LEMMA FrameTypesKept ==
  ASSUME Order, FrameTypes, NEW c \in Cores, Works(c) \/ OtherStep(c),
         ~Uefi => e820 \in Seq([frames : SUBSET Frames, kind : EntryKinds]) /\ sequence \in Nat \ {0}
  PROVE  FrameTypes'
<1> USE DEF LoadUnchanged, fwVars, listVars, blockVars
<1>1. CASE Works(c)
  <2>1. PICK from, to, p, f : WorkUse(from, to, p) /\ TakesFrame(from, p, f) /\ LoadUnchanged
    BY <1>1 DEF Works
  <2>2. f \in Frames /\ p \in Uses /\ Take(f, p) /\ boot_memory' \in {boot_memory, boot_memory \cup {f}}
    BY <2>1, UsesAreUses DEF TakesFrame, FrameTypes
  <2> QED
    BY <2>1, <2>2, TakeTypes DEF FrameTypes
<1>2. CASE Verified(c) \/ Parsed(c) \/ register(c) \/ enter_kernel(c)
  BY <1>2 DEF Verified, Parsed, register, enter_kernel, FrameTypes
<1>3. CASE locate_acpi(c)
  <2>1. acpi_tables'.xsdt => acpi_tables'.rsdt
    <3>1. CASE Uefi
      <4>1. PICK tables : acpi_tables' = UefiAcpi(tables)
        BY <1>3, <3>1 DEF locate_acpi
      <4> QED
        BY <4>1 DEF UefiAcpi
    <3>2. CASE ~Uefi
      <4>1. PICK tables : acpi_tables' = [rsdt |-> TRUE, xsdt |-> tables[FirstRsdp(tables)] = "v2"]
        BY <1>3, <3>2 DEF locate_acpi
      <4> QED
        BY <4>1
    <3> QED
      BY <3>1, <3>2
  <2> QED
    BY <1>3, <2>1 DEF locate_acpi, FrameTypes
<1>4. CASE StackMade(c)
  <2>1. PICK f \in free_memory : Take(f, "stack") /\ UNCHANGED boot_memory
    BY <1>4 DEF StackMade
  <2>2. f \in Frames /\ "stack" \in Uses
    BY <2>1, UsesAreUses DEF FrameTypes, KernelUses
  <2> QED
    BY <1>4, <2>1, <2>2, TakeTypes DEF StackMade, FrameTypes
<1>5. CASE drop_buffer(c)
  <2> DEFINE buffer == {f \in Frames : use[f] = "kernel_buffer"}
  <2>1. /\ free_memory' = free_memory \cup buffer
        /\ use' = [f \in Frames |-> IF f \in buffer THEN "none" ELSE use[f]]
    BY <1>5 DEF drop_buffer
  <2>2. use' \in [Frames -> Uses]
    BY <2>1, UsesAreUses DEF FrameTypes
  <2> QED
    BY <1>5, <2>1, <2>2 DEF drop_buffer, FrameTypes
<1>6. CASE exit_try(c)
  <2>1. PICK f \in Frames : allocate_pool(f)
    BY <1>6 DEF exit_try
  <2>2. memory' \in [Frames -> Kinds] /\ pool' \in Frames
    BY <2>1 DEF allocate_pool, FrameTypes, Kinds
  <2> QED
    BY <1>6, <2>2 DEF exit_try, InitUnchanged, FrameTypes
<1>7. CASE get_memory_map_fails(c) \/ exit_boot_services_fails(c)
  <2>1. free_pool
    BY <1>7 DEF get_memory_map_fails, exit_boot_services_fails
  <2>2. memory' \in [Frames -> Kinds] /\ pool' = NoFrame
    BY <2>1 DEF free_pool, FrameTypes, Kinds
  <2> QED
    BY <1>7, <2>2 DEF get_memory_map_fails, exit_boot_services_fails, InitUnchanged, FrameTypes
<1>8. CASE get_memory_map(c)
  BY <1>8 DEF get_memory_map, InitUnchanged, FrameTypes
<1>9. CASE exit_boot_services(c)
  BY <1>9 DEF exit_boot_services, FrameTypes
<1>10. CASE ~Uefi /\ e820_entry(c)
  <2>0. sequence \in 1 .. Len(e820)
    BY <1>10 DEF e820_entry
  <2>1. e820[sequence].frames \subseteq Frames
    <3>1. e820[sequence] \in [frames : SUBSET Frames, kind : EntryKinds]
      BY <1>10, <2>0, ElementType
    <3> QED
      BY <3>1
  <2>2. free_memory' \in {free_memory, free_memory \cup e820[sequence].frames, free_memory \ e820[sequence].frames}
    BY <1>10 DEF e820_entry
  <2> QED
    BY <1>10, <2>1, <2>2 DEF e820_entry, FrameTypes
<1>11. CASE e820_end(c)
  BY <1>11 DEF e820_end, FrameTypes
<1>12. ASSUME NEW step, NEW done, Attempt(c, step, done) PROVE FrameTypes'
  BY <1>12 DEF Attempt, FrameTypes
<1> QED
  BY <1>1, <1>2, <1>3, <1>4, <1>5, <1>6, <1>7, <1>8, <1>9, <1>10, <1>11, <1>12
  DEF OtherStep, UefiLearnStep, BiosOtherStep

LEMMA FrameTypesKeptByRest ==
  ASSUME FrameTypes
  PROVE  /\ \A c \in Cores : Panics(c) => FrameTypes'
         /\ \A c \in Cores : launch_ap(c) => FrameTypes'
         /\ \A f \in Frames, kind \in Kinds : firmware_changes_map(f, kind) => FrameTypes'
         /\ \A f \in Frames : kernel_takes(f) => FrameTypes'
         /\ reclaim_boot_memory => FrameTypes'
<1> USE DEF LoadUnchanged, fwVars, listVars, blockVars
<1>1. \A c \in Cores : Panics(c) \/ launch_ap(c) => FrameTypes'
  BY DEF Panics, Panic, launch_ap, FrameTypes
<1>2. ASSUME NEW f \in Frames, NEW kind \in Kinds, firmware_changes_map(f, kind) PROVE FrameTypes'
  BY <1>2 DEF firmware_changes_map, FrameTypes
<1>3. ASSUME NEW f \in Frames, kernel_takes(f) PROVE FrameTypes'
  <2>1. "kernel" \in Uses
    BY UsesAreUses DEF KernelUses
  <2> QED
    BY <1>3, <2>1, TakeTypes DEF kernel_takes, FrameTypes
<1>4. CASE reclaim_boot_memory
  <2>1. /\ free_memory' = free_memory \cup boot_memory
        /\ use' = [f \in Frames |-> IF use[f] \in BootUses /\ f \in boot_memory THEN "none" ELSE use[f]]
    BY <1>4 DEF reclaim_boot_memory
  <2>2. use' \in [Frames -> Uses]
    BY <2>1, UsesAreUses DEF FrameTypes
  <2> QED
    BY <1>4, <2>1, <2>2 DEF reclaim_boot_memory, FrameTypes
<1> QED
  BY <1>1, <1>2, <1>3, <1>4

-----------------------------------------------------------------------------
(* What is learned of the memory.  No step but those of learning leads back to it. *)
Early == Learning \cup {"ap_entrypoint"}

LEMMA LaterStep ==
  ASSUME Order, NEW c \in Cores,
         Parsed(c) \/ register(c) \/ StackMade(c) \/ enter_kernel(c) \/ drop_buffer(c)
  PROVE  pc'[Bsp] \notin Early
<1>1. PICK from \in {"parse", "register", "stack", "drop_buffer", "enter"},
           to \in {"trampoline_new", "kernel_new", "stack", "drop_buffer", "enter", "kernel"} : Goto(c, from, to)
  <2>1. After("parse") \in {"trampoline_new", "kernel_new"} /\ After("register") = "stack"
    BY UefiOrder, BiosOrder
  <2> QED
    BY <2>1 DEF Parsed, register, StackMade, enter_kernel, drop_buffer
<1>2. CASE c = Bsp
  BY <1>1, <1>2 DEF Goto, Order, Early, Learning
<1>3. CASE c # Bsp
  <2>1. pc[c] # "off" /\ pc[Bsp] = pc'[Bsp]
    BY <1>1, <1>3, LoaderAssumption DEF Goto, Order
  <2>2. pc'[Bsp] = "kernel"
    BY <1>3, <2>1 DEF Order
  <2> QED
    BY <2>2 DEF Early, Learning
<1> QED
  BY <1>2, <1>3

LEMMA WorkIsLater ==
  ASSUME Order, NEW c \in Cores, Works(c)
  PROVE  pc'[Bsp] \notin Early
<1>1. PICK from, to, p, f : Goto(c, from, to) /\ WorkUse(from, to, p)
  BY DEF Works
<1>2. pc'[Bsp] = to /\ to \notin Learning
  BY <1>1, WorksIsFirst
<1>3. to # "ap_entrypoint"
  BY <1>1 DEF WorkUse, BiosWork
<1> QED
  BY <1>2, <1>3 DEF Early

LEMMA LaterKnowsUefi ==
  ASSUME pc'[Bsp] \notin Early
  PROVE  UefiLearns'
  BY DEF UefiLearns, Early, Learning

LEMMA UefiLearnsKept ==
  ASSUME Order, Uefi, FrameTypes, UefiLearns, NEW c \in Cores, Works(c) \/ OtherStep(c)
  PROVE  UefiLearns'
<1> USE DEF LoadUnchanged, fwVars, listVars
<1>1. CASE \/ Works(c) \/ Parsed(c) \/ register(c) \/ StackMade(c) \/ enter_kernel(c)
  BY <1>1, LaterStep, WorkIsLater, LaterKnowsUefi
<1>2. ASSUME pc[Bsp] \in Early, use' = use PROVE \A f \in Frames : use'[f] = "none"
  BY <1>2 DEF UefiLearns, Early
<1>3. \A from, to : c = Bsp /\ Goto(c, from, to) => pc[Bsp] = from /\ pc'[Bsp] = to
  BY DEF Goto, Order
<1>4. CASE Verified(c)
  <2>1. CASE c = Bsp
    <3>1. pc[Bsp] = "start"
      BY <1>4, <2>1 DEF Verified, Goto
    <3>2. ~INITIALIZED
      BY <3>1 DEF Order, Learning
    <3>3. pc'[Bsp] = "acpi" /\ use' = use
      BY <1>3, <1>4, <2>1, <3>2 DEF Verified
    <3> QED
      BY <1>2, <3>1, <3>3 DEF UefiLearns, Early, Learning
  <2>2. CASE c # Bsp
    <3>1. pc[c] # "off" /\ pc'[Bsp] = pc[Bsp]
      BY <1>4, <2>2, LoaderAssumption DEF Verified, Goto, Order
    <3>2. pc'[Bsp] = "kernel"
      BY <2>2, <3>1 DEF Order
    <3> QED
      BY <3>2, LaterKnowsUefi DEF Early, Learning
  <2> QED
    BY <2>1, <2>2
<1>5. CASE locate_acpi(c)
  <2>1. c = Bsp
    BY <1>5, OnlyTheFirst DEF locate_acpi, Goto, Launched
  <2>2. pc[Bsp] = "acpi" /\ pc'[Bsp] = "exit_try" /\ use' = use
    BY <1>3, <1>5, <2>1 DEF locate_acpi
  <2> QED
    BY <1>2, <2>2 DEF UefiLearns, Early, Learning
<1>6. CASE exit_try(c)
  <2>1. c = Bsp
    BY <1>6, OnlyTheFirst DEF exit_try, Goto, Launched
  <2>2. pc[Bsp] = "exit_try" /\ pc'[Bsp] = "get_map" /\ use' = use /\ free_memory' = {} /\ boot_memory' = {}
    BY <1>3, <1>6, <2>1 DEF exit_try, InitUnchanged
  <2> QED
    BY <1>2, <2>2 DEF UefiLearns, Early, Learning
<1>7. CASE get_memory_map(c)
  <2>1. c = Bsp
    BY <1>7, OnlyTheFirst DEF get_memory_map, Goto, Launched
  <2>2. /\ pc[Bsp] = "get_map" /\ pc'[Bsp] = "exit" /\ use' = use /\ memory' = memory
        /\ free_memory' = free_memory \cup {f \in Frames : memory[f] = "Conventional"}
        /\ boot_memory' = boot_memory \cup {f \in Frames : memory[f] \in {"Loader", "BootServices"}}
    BY <1>3, <1>7, <2>1 DEF get_memory_map, InitUnchanged
  <2>3. free_memory = {} /\ boot_memory = {}
    BY <2>2 DEF UefiLearns
  <2>4. free_memory' = OfKind({"Conventional"})' /\ boot_memory' = OfKind({"Loader", "BootServices"})'
    BY <2>2, <2>3 DEF OfKind
  <2> QED
    BY <1>2, <2>2, <2>4 DEF UefiLearns, Early, Learning
<1>8. CASE get_memory_map_fails(c) \/ exit_boot_services_fails(c)
  <2>1. c = Bsp
    BY <1>8, OnlyTheFirst DEF get_memory_map_fails, exit_boot_services_fails, Goto, Launched
  <2>2. pc[Bsp] \in {"get_map", "exit"} /\ pc'[Bsp] = "exit_try" /\ use' = use
    BY <1>3, <1>8, <2>1 DEF get_memory_map_fails, exit_boot_services_fails, InitUnchanged
  <2> QED
    BY <1>2, <2>2 DEF UefiLearns, Early, Learning
<1>9. CASE exit_boot_services(c)
  <2>1. c = Bsp
    BY <1>9, OnlyTheFirst DEF exit_boot_services, Goto, Launched
  <2>2. pc[Bsp] = "exit" /\ pc'[Bsp] = "ap_entrypoint" /\ use' = use
    BY <1>3, <1>9, <2>1, UefiOrder DEF exit_boot_services
  <2> QED
    BY <1>2, <2>2 DEF UefiLearns, Early, Learning
<1> QED
  BY <1>1, <1>4, <1>5, <1>6, <1>7, <1>8, <1>9 DEF OtherStep, UefiLearnStep

LEMMA ListedNext ==
  ASSUME NEW n \in Nat \ {0}, NEW kind
  PROVE  Listed(kind, n) = Listed(kind, n - 1) \cup (IF e820[n].kind = kind THEN e820[n].frames ELSE {})
<1>1. \A i : i \in 1 .. n <=> i \in 1 .. n - 1 \/ i = n
  OBVIOUS
<1> QED
  BY <1>1 DEF Listed

LEMMA ListedNone == \A kind : Listed(kind, 0) = {}
  BY DEF Listed

LEMMA ListedAll ==
  ASSUME e820 \in Seq([frames : SUBSET Frames, kind : EntryKinds])
  PROVE  E820Free(e820) = Listed("free", Len(e820)) \ Listed("reserved", Len(e820))
<1>1. DOMAIN e820 = 1 .. Len(e820)
  OBVIOUS
<1> QED
  BY <1>1 DEF E820Free, Listed

LEMMA ListedFrames ==
  ASSUME e820 \in Seq([frames : SUBSET Frames, kind : EntryKinds]), NEW kind
  PROVE  Listed(kind, Len(e820)) \subseteq Frames
<1>1. \A i \in 1 .. Len(e820) : e820[i] \in [frames : SUBSET Frames, kind : EntryKinds]
  BY ElementType
<1>2. \A i \in 1 .. Len(e820) : e820[i].frames \subseteq Frames
  BY <1>1
<1> QED
  BY <1>2 DEF Listed

(* The part of BiosLearns that every step keeps but those of the E820 list. *)
LEMMA BiosLearnsStay ==
  ASSUME BiosLearns, UNCHANGED <<e820, pass, sequence, memory, boot_memory>>,
         \/ pc'[Bsp] \notin Learning
         \/ pc'[Bsp] = pc[Bsp] /\ UNCHANGED <<free_memory, use>>
  PROVE  BiosLearns'
<1>1. \A kind, n : Listed(kind, n)' = Listed(kind, n)
  BY DEF Listed
<1>2. OfKind({"Conventional"})' = OfKind({"Conventional"})
  BY DEF OfKind
<1>3. CASE pc'[Bsp] \notin Learning
  BY <1>3 DEF BiosLearns, Learning
<1>4. CASE pc'[Bsp] = pc[Bsp] /\ UNCHANGED <<free_memory, use>>
  BY <1>1, <1>2, <1>4 DEF BiosLearns
<1> QED
  BY <1>3, <1>4

LEMMA EntryIsListed ==
  ASSUME Order, ~Uefi, FrameTypes, BiosLearns, NEW c \in Cores, e820_entry(c)
  PROVE  BiosLearns'
<1> USE DEF fwVars
<1> DEFINE n == sequence  entry == e820[sequence]
<1>1. pc[c] = "e820" /\ pc' = pc /\ c = Bsp
  BY OnlyTheFirst DEF e820_entry, Launched
<1>2. /\ UNCHANGED <<e820, pass, memory, boot_memory, use>> /\ sequence' = n + 1
      /\ n \in 1 .. Len(e820) /\ n \in Nat \ {0} /\ pass \in {1, 2} /\ sequence' \in 1 .. Len(e820) + 1
  <2>1. n \in Nat \ {0} /\ Len(e820) \in Nat /\ n <= Len(e820) /\ pass \in {1, 2}
    BY DEF e820_entry, BiosLearns
  <2> QED
    BY <2>1 DEF e820_entry
<1>3. free_memory = IF pass = 1 THEN Listed("free", n - 1)
                    ELSE Listed("free", Len(e820)) \ Listed("reserved", n - 1)
  BY <1>1 DEF BiosLearns
<1>4. free_memory' = IF entry.kind = "free" /\ pass = 1 THEN free_memory \cup entry.frames
                     ELSE IF entry.kind = "reserved" /\ pass = 2 THEN free_memory \ entry.frames
                     ELSE free_memory
  BY DEF e820_entry
<1>5. \A kind : Listed(kind, n) = Listed(kind, n - 1) \cup (IF entry.kind = kind THEN entry.frames ELSE {})
  BY <1>2, ListedNext
<1>6. \A kind, m : Listed(kind, m)' = Listed(kind, m)
  BY <1>2 DEF Listed
<1> HIDE DEF n, entry
<1>8. sequence' - 1 = n
  BY <1>2
<1>9. ASSUME free_memory' = IF pass' = 1 THEN Listed("free", sequence - 1)'
                            ELSE Listed("free", Len(e820))' \ Listed("reserved", sequence - 1)'
      PROVE  BiosLearns'
  BY <1>1, <1>2, <1>9 DEF BiosLearns, Learning
<1>7. CASE pass = 1
  <2>1. free_memory' = Listed("free", n)
    <3>1. CASE entry.kind = "free"
      BY <1>3, <1>4, <1>5, <1>7, <3>1
    <3>2. CASE entry.kind # "free"
      <4>1. Listed("free", n) = Listed("free", n - 1)
        BY <1>5, <3>2
      <4> QED
        BY <1>3, <1>4, <1>7, <3>2, <4>1
    <3> QED
      BY <3>1, <3>2
  <2>2. Listed("free", sequence - 1)' = Listed("free", n)
    BY <1>2, <1>8 DEF Listed
  <2> QED
    BY <1>1, <1>2, <1>7, <2>1, <2>2, <1>9
<1>10. CASE pass = 2
  <2>1. free_memory' = Listed("free", Len(e820)) \ Listed("reserved", n)
    <3>1. CASE entry.kind = "reserved"
      <4>1. Listed("reserved", n) = Listed("reserved", n - 1) \cup entry.frames
        BY <1>5, <3>1
      <4>2. free_memory' = (Listed("free", Len(e820)) \ Listed("reserved", n - 1)) \ entry.frames
        BY <1>3, <1>4, <1>10, <3>1
      <4> QED
        BY <4>1, <4>2
    <3>2. CASE entry.kind # "reserved"
      <4>1. Listed("reserved", n) = Listed("reserved", n - 1)
        BY <1>5, <3>2
      <4> QED
        BY <1>3, <1>4, <1>10, <3>2, <4>1
    <3> QED
      BY <3>1, <3>2
  <2>2. Listed("reserved", sequence - 1)' = Listed("reserved", n)
    BY <1>2, <1>8 DEF Listed
  <2>3. Listed("free", Len(e820))' = Listed("free", Len(e820))
    BY <1>2 DEF Listed
  <2> QED
    BY <1>1, <1>2, <1>10, <2>1, <2>2, <2>3, <1>9
<1> QED
  BY <1>2, <1>7, <1>10

LEMMA ListEnds ==
  ASSUME Order, ~Uefi, FrameTypes, BiosLearns, NEW c \in Cores, e820_end(c)
  PROVE  BiosLearns'
<1> USE DEF fwVars
<1>1. c = Bsp /\ pc[Bsp] = "e820"
  <2>1. pc[c] = "e820"
    BY DEF e820_end, Goto
  <2> QED
    BY <2>1, OnlyTheFirst DEF Launched
<1>2. /\ UNCHANGED <<e820, memory, boot_memory, use>> /\ sequence' = 1 /\ sequence > Len(e820)
      /\ e820 \in Seq([frames : SUBSET Frames, kind : EntryKinds])
      /\ sequence \in 1 .. Len(e820) + 1 /\ pass \in {1, 2}
      /\ memory = [f \in Frames |-> IF f \in E820Free(e820) \ Low THEN "Conventional" ELSE "Runtime"]
  BY DEF e820_end, BiosLearns
<1>3. Len(e820) \in Nat
  BY <1>2
<1>4. sequence - 1 = Len(e820) /\ sequence' \in 1 .. Len(e820') + 1
  BY <1>2, <1>3
<1>5. free_memory = IF pass = 1 THEN Listed("free", Len(e820))
                    ELSE Listed("free", Len(e820)) \ Listed("reserved", Len(e820))
  BY <1>1, <1>4 DEF BiosLearns
<1>6. \A kind, m : Listed(kind, m)' = Listed(kind, m)
  BY <1>2 DEF Listed
<1>7. /\ boot_memory' = {} /\ \A f \in Frames : use'[f] = "none"
      /\ e820' \in Seq([frames : SUBSET Frames, kind : EntryKinds])
      /\ memory' = [f \in Frames |-> IF f \in E820Free(e820') \ Low THEN "Conventional" ELSE "Runtime"]
  BY <1>1, <1>2 DEF BiosLearns, Learning
<1>8. CASE pass = 1 /\ pass' = 2 /\ Goto(c, "e820", "e820") /\ UNCHANGED free_memory
  <2>1. pc'[Bsp] = "e820"
    BY <1>1, <1>8 DEF Goto, Order
  <2>2. Listed("reserved", 0) = {}
    BY ListedNone
  <2>3. free_memory' = Listed("free", Len(e820)) \ Listed("reserved", 0)
    BY <1>5, <1>8, <2>2
  <2>4. sequence' - 1 = 0
    BY <1>2
  <2>5. Listed("reserved", sequence - 1)' = Listed("reserved", 0)
    BY <1>2, <2>4 DEF Listed
  <2>6. Listed("free", Len(e820))' = Listed("free", Len(e820))
    BY <1>2 DEF Listed
  <2>7. pass' # 1 /\ free_memory' = Listed("free", Len(e820))' \ Listed("reserved", sequence - 1)'
    BY <1>8, <2>3, <2>5, <2>6
  <2> QED
    BY <1>4, <1>7, <1>8, <2>1, <2>7 DEF BiosLearns
<1>9. CASE pass = 2 /\ UNCHANGED pass /\ Goto(c, "e820", "acpi") /\ free_memory' = free_memory \ Low
  <2>1. pc'[Bsp] = "acpi"
    BY <1>1, <1>9 DEF Goto, Order
  <2>2. free_memory' = E820Free(e820) \ Low
    BY <1>2, <1>5, <1>9, ListedAll
  <2>3. E820Free(e820) \subseteq Frames
    BY <1>2, ListedAll, ListedFrames
  <2>4. \A f \in Frames : memory'[f] = "Conventional" <=> f \in E820Free(e820) \ Low
    BY <1>2, <1>7
  <2>5. free_memory' = OfKind({"Conventional"})'
    BY <2>2, <2>3, <2>4 DEF OfKind
  <2> QED
    BY <1>4, <1>7, <1>9, <2>1, <2>5 DEF BiosLearns
<1> QED
  BY <1>8, <1>9 DEF e820_end

LEMMA BiosLearnsKept ==
  ASSUME Order, ~Uefi, FrameTypes, BiosLearns, NEW c \in Cores, Works(c) \/ OtherStep(c)
  PROVE  BiosLearns'
<1> USE DEF LoadUnchanged, fwVars, listVars, mapVars
<1>0. Learning \subseteq Early
  BY DEF Early
<1>1. CASE Works(c)
  <2>1. pc'[Bsp] \notin Learning
    BY <1>0, <1>1, WorkIsLater
  <2>2. boot_memory' = boot_memory /\ UNCHANGED <<e820, pass, sequence, memory>>
    BY <1>1 DEF Works, TakesFrame
  <2> QED
    BY <2>1, <2>2, BiosLearnsStay
<1>2. CASE Parsed(c) \/ register(c) \/ StackMade(c) \/ enter_kernel(c) \/ drop_buffer(c)
  <2>1. pc'[Bsp] \notin Learning
    BY <1>0, <1>2, LaterStep
  <2>2. boot_memory' = boot_memory /\ UNCHANGED <<e820, pass, sequence, memory>>
    BY <1>2 DEF Parsed, register, StackMade, enter_kernel, drop_buffer
  <2> QED
    BY <2>1, <2>2, BiosLearnsStay
<1>3. \A from, to : c = Bsp /\ Goto(c, from, to) => pc[Bsp] = from /\ pc'[Bsp] = to
  BY DEF Goto, Order
<1>4. CASE Verified(c)
  <2>0. UNCHANGED <<e820, pass, sequence, memory, boot_memory, free_memory, use>>
    BY <1>4 DEF Verified
  <2>1. CASE c = Bsp
    <3>1. pc[Bsp] = "start"
      BY <1>4, <2>1 DEF Verified, Goto
    <3>2. ~INITIALIZED
      BY <3>1 DEF Order, Learning
    <3>3. pc'[Bsp] = "e820"
      BY <1>3, <1>4, <2>1, <3>2 DEF Verified
    <3>4. pass = 1 /\ sequence = 1 /\ free_memory = {}
      BY <3>1 DEF BiosLearns
    <3>5. Listed("free", sequence - 1)' = {}
      BY <2>0, <3>4, ListedNone DEF Listed
    <3> QED
      BY <2>0, <3>1, <3>3, <3>4, <3>5 DEF BiosLearns, Learning
  <2>2. CASE c # Bsp
    <3>1. pc[c] # "off" /\ pc'[Bsp] = pc[Bsp]
      BY <1>4, <2>2, LoaderAssumption DEF Verified, Goto, Order
    <3> QED
      BY <2>0, <3>1, BiosLearnsStay
  <2> QED
    BY <2>1, <2>2
<1>5. CASE locate_acpi(c)
  <2>1. c = Bsp
    BY <1>5, OnlyTheFirst DEF locate_acpi, Goto, Launched
  <2>2. pc'[Bsp] = "buffer" /\ UNCHANGED <<e820, pass, sequence, memory, boot_memory>>
    BY <1>3, <1>5, <2>1, BiosOrder DEF locate_acpi
  <2> QED
    BY <2>2, BiosLearnsStay DEF Learning
<1>6. ASSUME NEW step \in {"read", "read_extended"}, NEW done \in BOOLEAN, Attempt(c, step, done)
      PROVE  BiosLearns'
  <2>1. PICK to \in {"parse", step} : Goto(c, step, to)
    BY <1>6, BiosOrder DEF Attempt
  <2>2. c = Bsp
    BY <2>1, OnlyTheFirst DEF Goto, Launched
  <2>3. pc'[Bsp] \notin Learning
    BY <1>3, <2>1, <2>2 DEF Learning
  <2>4. UNCHANGED <<e820, pass, sequence, memory, boot_memory>>
    BY <1>6 DEF Attempt
  <2> QED
    BY <2>3, <2>4, BiosLearnsStay
<1> QED
  BY <1>1, <1>2, <1>4, <1>5, <1>6, EntryIsListed, ListEnds DEF OtherStep, BiosOtherStep

-----------------------------------------------------------------------------
(* The loader stays the one that was started; nothing follows a panic. *)
LEMMA LoaderStays ==
  ASSUME NEW c \in Cores, Works(c) \/ OtherStep(c) \/ launch_ap(c)
  PROVE  loader' = loader /\ (Uefi' <=> Uefi) /\ failed = "none" /\ failed' = "none"
<1> USE DEF LoadUnchanged, Goto
<1>1. loader' = loader /\ failed = "none" /\ failed' = failed
  <2>1. CASE Works(c) \/ launch_ap(c)
    BY <2>1 DEF Works, launch_ap
  <2>2. CASE Verified(c) \/ locate_acpi(c) \/ Parsed(c) \/ register(c) \/ StackMade(c) \/ enter_kernel(c)
    BY <2>2 DEF Verified, locate_acpi, Parsed, register, StackMade, enter_kernel
  <2>3. CASE UefiLearnStep(c)
    BY <2>3 DEF UefiLearnStep, exit_try, get_memory_map, get_memory_map_fails, exit_boot_services,
       exit_boot_services_fails, InitUnchanged
  <2>4. CASE BiosOtherStep(c)
    BY <2>4 DEF BiosOtherStep, e820_entry, e820_end, drop_buffer, Attempt
  <2> QED
    BY <2>1, <2>2, <2>3, <2>4 DEF OtherStep
<1> QED
  BY <1>1 DEF Uefi

LEMMA LoaderStaysInRest ==
  /\ \A c \in Cores : Panics(c) => loader' = loader
  /\ \A f \in Frames, kind \in Kinds :
       firmware_changes_map(f, kind) => loader' = loader /\ failed = "none" /\ failed' = "none"
  /\ \A f \in Frames : kernel_takes(f) => loader' = loader /\ failed = "none" /\ failed' = "none"
  /\ reclaim_boot_memory => loader' = loader /\ failed = "none" /\ failed' = "none"
  BY DEF Panics, Panic, firmware_changes_map, kernel_takes, reclaim_boot_memory, LoadUnchanged

LEMMA LearnsKept ==
  ASSUME Order, FrameTypes, Learns, NEW c \in Cores, Works(c) \/ OtherStep(c)
  PROVE  Learns'
<1>1. CASE Uefi
  BY <1>1, UefiLearnsKept, LoaderStays DEF Learns
<1>2. CASE ~Uefi
  BY <1>2, BiosLearnsKept, LoaderStays DEF Learns
<1> QED
  BY <1>1, <1>2

LEMMA LaterKnows ==
  ASSUME Learns, UNCHANGED <<loader, e820, pass, sequence, memory, boot_memory>>, pc'[Bsp] \notin Early
  PROVE  Learns'
<1>1. Uefi' <=> Uefi
  BY DEF Uefi
<1>2. ~Uefi => BiosLearns'
  BY BiosLearnsStay DEF Learns, Early
<1> QED
  BY <1>1, <1>2, LaterKnowsUefi DEF Learns

LEMMA KernelIsLater ==
  ASSUME Order, pc[Bsp] = "kernel"
  PROVE  /\ pc' = pc => pc'[Bsp] \notin Early
         /\ \A c \in Cores : launch_ap(c) => pc'[Bsp] = "kernel" /\ pc'[Bsp] \notin Early
<1>1. ASSUME NEW c \in Cores, launch_ap(c) PROVE pc'[Bsp] = "kernel"
  BY <1>1, LoaderAssumption DEF launch_ap, Goto, Order
<1> QED
  BY <1>1 DEF Early, Learning

LEMMA LearnsKeptByRest ==
  ASSUME Order, Learns
  PROVE  /\ \A c \in Cores : Panics(c) => Learns'
         /\ \A c \in Cores : launch_ap(c) => Learns'
         /\ \A f \in Frames, kind \in Kinds : firmware_changes_map(f, kind) => Learns'
         /\ \A f \in Frames : kernel_takes(f) => Learns'
         /\ reclaim_boot_memory => Learns'
<1> USE DEF LoadUnchanged, fwVars, listVars, mapVars
<1>1. ASSUME NEW c \in Cores, Panics(c) PROVE Learns'
  <2>1. UNCHANGED <<loader, pc, key_valid, e820, pass, sequence, memory, boot_memory, free_memory, use>>
    BY <1>1 DEF Panics, Panic
  <2>2. Uefi' <=> Uefi
    BY <2>1 DEF Uefi
  <2>3. CASE Uefi
    BY <2>1, <2>2, <2>3 DEF Learns, UefiLearns, OfKind
  <2>4. CASE ~Uefi
    BY <2>1, <2>2, <2>4, BiosLearnsStay DEF Learns
  <2> QED
    BY <2>3, <2>4
<1>2. ASSUME NEW c \in Cores, launch_ap(c) PROVE Learns'
  <2>1. pc'[Bsp] \notin Early
    BY <1>2, KernelIsLater DEF launch_ap
  <2> QED
    BY <1>2, <2>1, LaterKnows DEF launch_ap
<1>3. ASSUME NEW f \in Frames, NEW kind \in Kinds, firmware_changes_map(f, kind) PROVE Learns'
  <2>1. UNCHANGED <<loader, pc, boot_memory, free_memory, use>> /\ Uefi /\ key_valid' = FALSE
    BY <1>3 DEF firmware_changes_map
  <2>2. Uefi'
    BY <2>1 DEF Uefi
  <2> QED
    BY <2>1, <2>2 DEF Learns, UefiLearns
<1>4. ASSUME NEW f \in Frames, kernel_takes(f) PROVE Learns'
  <2>1. pc'[Bsp] \notin Early
    BY <1>4, KernelIsLater DEF kernel_takes
  <2> QED
    BY <1>4, <2>1, LaterKnows DEF kernel_takes
<1>5. ASSUME reclaim_boot_memory PROVE Learns'
  <2>1. pc'[Bsp] \notin Early
    BY <1>5, KernelIsLater, LoaderAssumption DEF reclaim_boot_memory
  <2> QED
    BY <1>5, <2>1, LaterKnows DEF reclaim_boot_memory
<1> QED
  BY <1>1, <1>2, <1>3, <1>4, <1>5

-----------------------------------------------------------------------------
(* Where the structures are kept. *)
LEMMA KnownIs == MemoryKnown <=> pc[Bsp] \notin Learning
  BY DEF MemoryKnown, Learning

LEMMA PlacesStay ==
  ASSUME Places, UNCHANGED <<loader, memory, use, boot_memory>>, MemoryKnown' => MemoryKnown
  PROVE  Places'
<1>1. Uefi' <=> Uefi
  BY DEF Uefi
<1> QED
  BY <1>1 DEF Places

(* Nothing has a use yet. *)
LEMMA PlacesUnused ==
  ASSUME \A f \in Frames : use'[f] = "none",
         MemoryKnown' => \A f \in boot_memory' : memory'[f] # "Runtime"
  PROVE  Places'
<1>1. "none" \notin BootUses \cup {"kernel_table", "kernel_buffer", "ap_entrypoint", "gdt", "trampoline_stack"}
  BY DEF BootUses
<1> QED
  BY <1>1 DEF Places

(* A frame is taken from what is free. *)
LEMMA PlacesByTake ==
  ASSUME FrameTypes, Places, UNCHANGED <<loader, memory>>, NEW f \in Frames, NEW p, Take(f, p),
         p # "kernel_buffer" => memory[f] # "Runtime",
         p = "kernel_buffer" => ~Uefi /\ memory[f] = "Conventional",
         Uefi /\ p \in BootUses \cup {"kernel_table"} => f <= MAX_ADDRESS,
         Uefi /\ p = "ap_entrypoint" => f \in Low,
         ~Uefi => p \notin {"ap_entrypoint", "gdt", "trampoline_stack"},
         MemoryKnown, boot_memory' \subseteq boot_memory \cup {f}, memory[f] # "Runtime"
  PROVE  Places'
<1>1. Uefi' <=> Uefi
  BY DEF Uefi
<1>2. use'[f] = p /\ \A g \in Frames : g # f => use'[g] = use[g]
  BY DEF Take, FrameTypes
<1>3. \A g \in Frames : g \in boot_memory' => memory[g] # "Runtime"
  BY DEF Places
<1> SUFFICES ASSUME NEW g \in Frames
             PROVE  /\ use'[g] # "none" => memory'[g] # "Runtime"
                    /\ use'[g] = "kernel_buffer" => ~Uefi /\ memory'[g] = "Conventional"
                    /\ Uefi /\ use'[g] \in BootUses \cup {"kernel_table"} => g <= MAX_ADDRESS
                    /\ Uefi /\ use'[g] = "ap_entrypoint" => g \in Low
                    /\ ~Uefi => use'[g] \notin {"ap_entrypoint", "gdt", "trampoline_stack"}
  BY <1>1, <1>3 DEF Places
<1>4. CASE g = f
  BY <1>2, <1>4
<1>5. CASE g # f
  <2>1. use'[g] = use[g]
    BY <1>2, <1>5
  <2> QED
    BY <2>1 DEF Places
<1> QED
  BY <1>4, <1>5

LEMMA FreeIsMemory ==
  ASSUME MemoryKnown, OneUse, NEW f \in free_memory
  PROVE  /\ use[f] = "none" /\ memory[f] # "Runtime"
         /\ pc[Bsp] # "kernel" => memory[f] = "Conventional"
  BY DEF OneUse, Settled, Reclaimed

LEMMA PlacesKept ==
  ASSUME Order, FrameTypes, Learns, Places, OneUse, NEW c \in Cores, Works(c) \/ OtherStep(c)
  PROVE  Places'
<1> USE DEF LoadUnchanged, fwVars, listVars
<1>0. loader' = loader
  BY LoaderStays
<1>1. CASE Works(c)
  <2>1. PICK from, to, p, f :
          Goto(c, from, to) /\ WorkUse(from, to, p) /\ TakesFrame(from, p, f) /\ LoadUnchanged
    BY <1>1 DEF Works
  <2>2. pc[Bsp] \notin Learning /\ pc[Bsp] # "kernel"
    BY <2>1, WorksIsFirst DEF Waiting
  <2>3. MemoryKnown /\ f \in free_memory /\ memory[f] = "Conventional"
    BY <2>1, <2>2, KnownIs, FreeIsMemory DEF TakesFrame
  <2>4. /\ f <= MAX_ADDRESS /\ Take(f, p) /\ (p = "ap_entrypoint" => f <= LowEnd)
        /\ boot_memory' \subseteq boot_memory \cup {f}
        /\ f \in Frames
    BY <2>1 DEF TakesFrame, FrameTypes
  <2>5. memory' = memory
    BY <2>1
  <2>6. /\ Uefi => p # "kernel_buffer"
        /\ ~Uefi => p \notin {"ap_entrypoint", "gdt", "trampoline_stack"}
    BY <2>1 DEF WorkUse, BootUses
  <2> QED
    BY <1>0, <2>3, <2>4, <2>5, <2>6, PlacesByTake DEF Low
<1>2. CASE StackMade(c)
  <2>1. PICK f \in free_memory : Take(f, "stack") /\ UNCHANGED boot_memory
    BY <1>2 DEF StackMade
  <2>2. pc[c] = "stack"
    BY <1>2 DEF StackMade, Goto
  <2>3. pc[Bsp] \notin Learning
    BY <2>2 DEF Order, Learning
  <2>4. MemoryKnown /\ f \in Frames /\ memory[f] # "Runtime"
    BY <2>3, KnownIs, FreeIsMemory DEF FrameTypes
  <2>5. memory' = memory
    BY <1>2 DEF StackMade
  <2> QED
    BY <1>0, <2>1, <2>4, <2>5, PlacesByTake DEF BootUses
<1>3. CASE drop_buffer(c)
  <2>1. \A f \in Frames : use'[f] = use[f] \/ use'[f] = "none"
    BY <1>3 DEF drop_buffer
  <2>2. UNCHANGED <<memory, boot_memory>> /\ pc[c] = "drop_buffer"
    BY <1>3 DEF drop_buffer, Goto
  <2>3. MemoryKnown
    BY <2>2, KnownIs DEF Order, Learning
  <2>4. "none" \notin BootUses \cup {"kernel_table", "kernel_buffer", "ap_entrypoint", "gdt", "trampoline_stack"}
    BY DEF BootUses
  <2>5. Uefi' <=> Uefi
    BY <1>0 DEF Uefi
  <2> QED
    BY <2>1, <2>2, <2>3, <2>4, <2>5 DEF Places
<1>4. CASE Parsed(c) \/ register(c) \/ enter_kernel(c)
  <2>1. UNCHANGED <<memory, use, boot_memory>>
    BY <1>4 DEF Parsed, register, enter_kernel
  <2>2. pc[c] \in {"parse", "register", "enter"}
    BY <1>4 DEF Parsed, register, enter_kernel, Goto
  <2>3. MemoryKnown
    BY <2>2, KnownIs DEF Order, Learning
  <2> QED
    BY <1>0, <2>1, <2>3, PlacesStay
<1>5. CASE Verified(c)
  <2>1. UNCHANGED <<memory, use, boot_memory>>
    BY <1>5 DEF Verified
  <2>2. MemoryKnown' => MemoryKnown
    <3>1. CASE c = Bsp
      <4>1. ~INITIALIZED
        BY <1>5, <3>1 DEF Verified, Goto, Order, Learning
      <4>2. pc'[Bsp] \in {"acpi", "e820"}
        BY <1>5, <3>1, <4>1 DEF Verified, Goto, Order
      <4> QED
        BY <4>2 DEF MemoryKnown
    <3>2. CASE c # Bsp
      <4>1. pc'[Bsp] = pc[Bsp]
        BY <1>5, <3>2, LoaderAssumption DEF Verified, Goto, Order
      <4> QED
        BY <4>1 DEF MemoryKnown
    <3> QED
      BY <3>1, <3>2
  <2> QED
    BY <1>0, <2>1, <2>2, PlacesStay
<1>6. \A from, to : Goto(c, from, to) /\ from \in Learning \ {"start"} => pc[Bsp] = from /\ pc'[Bsp] = to
  BY OnlyTheFirst DEF Goto, Order, Learning, Launched
<1>7. pc[Bsp] \in Learning /\ use' = use => \A f \in Frames : use'[f] = "none"
  BY DEF Learns, UefiLearns, BiosLearns
<1>8. CASE locate_acpi(c)
  <2>1. pc[Bsp] = "acpi" /\ UNCHANGED <<memory, use, boot_memory>>
    BY <1>6, <1>8 DEF locate_acpi, Learning
  <2>2. CASE Uefi
    <3>1. pc'[Bsp] = "exit_try"
      BY <1>6, <1>8, <2>2 DEF locate_acpi, Learning
    <3> QED
      BY <1>0, <2>1, <3>1, PlacesStay DEF MemoryKnown
  <2>3. CASE ~Uefi
    <3>1. boot_memory' = {}
      BY <2>1, <2>3 DEF Learns, BiosLearns
    <3> QED
      BY <1>7, <2>1, <3>1, PlacesUnused DEF Learning
  <2> QED
    BY <2>2, <2>3
<1>9. CASE Uefi /\ UefiLearnStep(c)
  <2>1. CASE exit_boot_services(c)
    <3>1. pc[Bsp] = "exit" /\ key_valid /\ UNCHANGED <<memory, use, boot_memory>>
      BY <1>6, <2>1 DEF exit_boot_services, Learning
    <3>2. boot_memory' = OfKind({"Loader", "BootServices"})
      BY <1>9, <3>1 DEF Learns, UefiLearns
    <3> QED
      BY <1>7, <3>1, <3>2, PlacesUnused DEF Learning, OfKind
  <2>2. CASE ~exit_boot_services(c)
    <3>1. PICK from \in {"exit_try", "get_map", "exit"}, to \in {"exit_try", "get_map", "exit"} : Goto(c, from, to)
      BY <1>9, <2>2 DEF UefiLearnStep, exit_try, get_memory_map, get_memory_map_fails, exit_boot_services_fails
    <3>2. use' = use
      BY <1>9, <2>2 DEF UefiLearnStep, exit_try, get_memory_map, get_memory_map_fails, exit_boot_services_fails,
         InitUnchanged
    <3>3. pc[Bsp] \in Learning /\ pc'[Bsp] \in {"exit_try", "get_map", "exit"}
      BY <1>6, <3>1 DEF Learning
    <3>4. ~MemoryKnown'
      BY <3>3 DEF MemoryKnown
    <3> QED
      BY <1>7, <3>2, <3>3, <3>4, PlacesUnused
  <2> QED
    BY <2>1, <2>2
<1>10. CASE ~Uefi /\ (e820_entry(c) \/ e820_end(c))
  <2>1. UNCHANGED <<memory, use, boot_memory>>
    BY <1>10 DEF e820_entry, e820_end
  <2>2. pc'[Bsp] \in {"e820", "acpi"}
    <3>1. CASE e820_entry(c)
      BY <3>1, OnlyTheFirst DEF e820_entry, Launched
    <3>2. CASE e820_end(c)
      BY <1>6, <3>2 DEF e820_end, Learning
    <3> QED
      BY <1>10, <3>1, <3>2
  <2> QED
    BY <1>0, <2>1, <2>2, PlacesStay DEF MemoryKnown
<1>11. ASSUME NEW step \in {"read", "read_extended"}, NEW done \in BOOLEAN, Attempt(c, step, done)
       PROVE  Places'
  <2>1. UNCHANGED <<memory, use, boot_memory>> /\ pc[c] = step
    BY <1>11 DEF Attempt, Goto
  <2>2. MemoryKnown
    BY <2>1, KnownIs DEF Order, Learning
  <2> QED
    BY <1>0, <2>1, <2>2, PlacesStay
<1> QED
  BY <1>1, <1>2, <1>3, <1>4, <1>5, <1>8, <1>9, <1>10, <1>11 DEF OtherStep, BiosOtherStep

LEMMA PlacesKeptByRest ==
  ASSUME Order, FrameTypes, Learns, Places, OneUse
  PROVE  /\ \A c \in Cores : Panics(c) => Places'
         /\ \A c \in Cores : launch_ap(c) => Places'
         /\ \A f \in Frames, kind \in Kinds : firmware_changes_map(f, kind) => Places'
         /\ \A f \in Frames : kernel_takes(f) => Places'
         /\ reclaim_boot_memory => Places'
<1> USE DEF LoadUnchanged, fwVars, listVars
<1>1. ASSUME NEW c \in Cores, Panics(c) PROVE Places'
  BY <1>1, PlacesStay DEF Panics, Panic, MemoryKnown
<1>2. ASSUME NEW c \in Cores, launch_ap(c) PROVE Places'
  BY <1>2, PlacesStay DEF launch_ap, MemoryKnown
<1>3. ASSUME NEW f \in Frames, NEW kind \in Kinds, firmware_changes_map(f, kind) PROVE Places'
  <2>1. pc[Bsp] \in Learning /\ pc' = pc /\ use' = use
    BY <1>3 DEF firmware_changes_map, Learning
  <2>2. ~MemoryKnown'
    BY <2>1 DEF MemoryKnown, Learning
  <2>3. \A g \in Frames : use'[g] = "none"
    BY <2>1 DEF Learns, UefiLearns, BiosLearns
  <2> QED
    BY <2>2, <2>3, PlacesUnused
<1>4. ASSUME NEW f \in Frames, kernel_takes(f) PROVE Places'
  <2>1. Take(f, "kernel") /\ MemoryKnown /\ UNCHANGED <<loader, memory, boot_memory>>
    BY <1>4 DEF kernel_takes, MemoryKnown
  <2>2. f \in free_memory
    BY <1>4, Allocated DEF kernel_takes
  <2>3. memory[f] # "Runtime"
    BY <2>1, <2>2, FreeIsMemory
  <2> QED
    BY <2>1, <2>2, <2>3, PlacesByTake DEF BootUses
<1>5. ASSUME reclaim_boot_memory PROVE Places'
  <2>1. \A f \in Frames : use'[f] = use[f] \/ use'[f] = "none"
    BY <1>5 DEF reclaim_boot_memory
  <2>2. UNCHANGED <<loader, memory, boot_memory, pc>> /\ (Uefi' <=> Uefi)
    BY <1>5 DEF reclaim_boot_memory, Uefi
  <2>3. MemoryKnown' <=> MemoryKnown
    BY <2>2 DEF MemoryKnown
  <2>4. "none" \notin BootUses \cup {"kernel_table", "kernel_buffer", "ap_entrypoint", "gdt", "trampoline_stack"}
    BY DEF BootUses
  <2> QED
    BY <2>1, <2>2, <2>3, <2>4 DEF Places
<1> QED
  BY <1>1, <1>2, <1>3, <1>4, <1>5

-----------------------------------------------------------------------------
(* Every frame has one use. *)
Steady == UNCHANGED <<loader, memory>> /\ (Reclaimed' <=> Reclaimed)

LEMMA OneUseStays ==
  ASSUME OneUse, Steady, UNCHANGED listVars, MemoryKnown' => MemoryKnown
  PROVE  OneUse'
<1>1. (Uefi' <=> Uefi) /\ Marked' = Marked
  BY DEF Uefi, Steady, Marked, listVars
<1>2. CASE MemoryKnown /\ MemoryKnown'
  <2>1. Settled(Marked, Reclaimed)
    BY <1>2 DEF OneUse
  <2> QED
    BY <1>1, <2>1 DEF OneUse, Settled, Steady, listVars
<1>3. CASE ~MemoryKnown'
  BY <1>3 DEF OneUse
<1> QED
  BY <1>2, <1>3

LEMMA OneUseByTake ==
  ASSUME FrameTypes, OneUse, MemoryKnown, Steady, NEW f \in free_memory, NEW p, Take(f, p), p # "none",
         memory[f] = "Conventional" \/ p \notin BootUses,
         boot_memory' = IF Uefi /\ p \in BootUses THEN boot_memory \cup {f} ELSE boot_memory,
         p \in BootUses => ~Reclaimed
  PROVE  OneUse'
<1>1. /\ (Uefi' <=> Uefi)
      /\ Marked' = IF Uefi /\ p \in BootUses THEN Marked \cup {f} ELSE Marked
  BY DEF Uefi, Steady, Marked
<1>2. /\ f \in Frames /\ use'[f] = p /\ \A g \in Frames : g # f => use'[g] = use[g]
      /\ free_memory' = free_memory \ {f} /\ memory' = memory
  BY DEF Take, FrameTypes, Steady
<1>3. Settled(Marked, Reclaimed) /\ Marked \subseteq Frames /\ free_memory \subseteq Frames
  BY DEF OneUse, Marked, FrameTypes
<1>4. f \notin Marked
  BY <1>3 DEF Settled
<1>5. free_memory' \cap Marked' = {}
  BY <1>1, <1>2, <1>3, <1>4 DEF Settled
<1>6. ASSUME NEW g \in free_memory'
      PROVE  use'[g] = "none" /\ (memory'[g] = "Conventional" \/ (Reclaimed' /\ memory'[g] # "Runtime"))
  <2>1. g \in free_memory /\ use'[g] = use[g]
    BY <1>2, <1>3, <1>6
  <2> QED
    BY <1>2, <1>3, <2>1 DEF Settled, Steady
<1>7. ASSUME NEW g \in Marked'
      PROVE  use'[g] \in BootUses \/ (use'[g] = "none" /\ memory'[g] \in {"Loader", "BootServices"})
  <2>1. CASE g = f
    BY <1>1, <1>2, <1>4, <1>7, <2>1
  <2>2. CASE g # f
    <3>1. g \in Marked /\ use'[g] = use[g]
      BY <1>1, <1>2, <1>3, <1>7, <2>2
    <3> QED
      BY <1>2, <1>3, <3>1 DEF Settled
  <2> QED
    BY <2>1, <2>2
<1>8. ASSUME NEW g \in Frames
      PROVE  /\ Uefi' /\ use'[g] \in BootUses => g \in Marked'
             /\ use'[g] = "none" /\ memory'[g] # "Runtime" => g \in free_memory' \cup Marked'
  <2>1. CASE g = f
    BY <1>1, <1>2, <2>1
  <2>2. CASE g # f
    <3>1. use'[g] = use[g]
      BY <1>2, <2>2
    <3> QED
      BY <1>1, <1>2, <1>3, <2>2, <3>1 DEF Settled
  <2> QED
    BY <2>1, <2>2
<1> QED
  BY <1>5, <1>6, <1>7, <1>8 DEF OneUse, Settled

(* The memory has become known, and nothing is in use. *)
LEMMA OneUseBegins ==
  ASSUME FrameTypes', pc'[Bsp] # "kernel", \A f \in Frames : use'[f] = "none",
         free_memory' = OfKind({"Conventional"})', boot_memory' \subseteq OfKind({"Loader", "BootServices"})',
         \A f \in Frames : memory'[f] \in {"Loader", "BootServices"} => f \in boot_memory'
  PROVE  OneUse'
<1>1. ~Reclaimed'
  BY DEF Reclaimed
<1>2. Marked' = boot_memory'
  BY <1>1 DEF Marked
<1>3. free_memory' \subseteq Frames /\ boot_memory' \subseteq Frames
  BY DEF FrameTypes
<1>4. /\ \A f \in free_memory' : memory'[f] = "Conventional"
      /\ \A f \in boot_memory' : memory'[f] \in {"Loader", "BootServices"}
      /\ \A f \in Frames : memory'[f] = "Conventional" => f \in free_memory'
  BY DEF OfKind
<1>5. \A f \in Frames : memory'[f] \in {"Conventional", "Loader", "BootServices", "Runtime"}
  BY DEF FrameTypes, Kinds
<1>6. free_memory' \cap boot_memory' = {}
  BY <1>4
<1>7. "none" \notin BootUses
  BY DEF BootUses
<1> QED
  BY <1>1, <1>2, <1>3, <1>4, <1>5, <1>6, <1>7 DEF OneUse, Settled

LEMMA OneUseKept ==
  ASSUME Order, FrameTypes, FrameTypes', Learns, Places, OneUse, EntryThere, NEW c \in Cores, Works(c) \/ OtherStep(c)
  PROVE  OneUse'
<1> USE DEF LoadUnchanged, fwVars, blockVars
<1>0. loader' = loader
  BY LoaderStays
<1>1. CASE Works(c)
  <2>1. PICK from, to, p, f :
          Goto(c, from, to) /\ WorkUse(from, to, p) /\ TakesFrame(from, p, f) /\ LoadUnchanged
    BY <1>1 DEF Works
  <2>2. pc[Bsp] \notin Learning /\ pc[Bsp] # "kernel" /\ pc'[Bsp] # "kernel"
    BY <2>1, WorksIsFirst DEF Waiting, Entering
  <2>3. MemoryKnown /\ f \in free_memory /\ memory[f] = "Conventional"
    BY <2>1, <2>2, KnownIs, FreeIsMemory DEF TakesFrame
  <2>4. Steady /\ ~Reclaimed
    BY <1>0, <2>1, <2>2 DEF Steady, Reclaimed
  <2>5. p # "none"
    BY <2>1 DEF WorkUse, BootUses
  <2> QED
    BY <2>1, <2>3, <2>4, <2>5, OneUseByTake DEF TakesFrame
<1>2. CASE StackMade(c)
  <2>1. PICK f \in free_memory : Take(f, "stack") /\ UNCHANGED boot_memory
    BY <1>2 DEF StackMade
  <2>2. PICK to \in {"drop_buffer", "enter"} : Goto(c, "stack", to)
    BY <1>2 DEF StackMade
  <2>3. MemoryKnown
    BY <2>2, KnownIs DEF Goto, Order, Learning
  <2>4. (pc'[Bsp] = "kernel") <=> (pc[Bsp] = "kernel")
    BY <2>2, LoaderAssumption DEF Goto, Order
  <2>5. UNCHANGED <<memory, ap_entrypoint>>
    BY <1>2 DEF StackMade
  <2>6. Steady
    BY <1>0, <2>4, <2>5 DEF Steady, Reclaimed
  <2> QED
    BY <2>1, <2>3, <2>6, OneUseByTake DEF BootUses
<1>3. CASE ~Uefi /\ drop_buffer(c)
  <2> DEFINE buffer == {f \in Frames : use[f] = "kernel_buffer"}
  <2>1. /\ Goto(c, "drop_buffer", "enter") /\ UNCHANGED <<memory, ap_entrypoint, boot_memory>>
        /\ free_memory' = free_memory \cup buffer
        /\ use' = [f \in Frames |-> IF f \in buffer THEN "none" ELSE use[f]]
    BY <1>3 DEF drop_buffer
  <2>2. MemoryKnown
    BY <2>1, KnownIs DEF Goto, Order, Learning
  <2>3. (pc'[Bsp] = "kernel") <=> (pc[Bsp] = "kernel")
    BY <2>1, LoaderAssumption DEF Goto, Order
  <2>4. Steady /\ ~Uefi'
    BY <1>0, <1>3, <2>1, <2>3 DEF Steady, Reclaimed, Uefi
  <2>5. Marked = {} /\ Marked' = {}
    BY <1>3, <2>1 DEF Learns, BiosLearns, Marked
  <2>6. \A f \in buffer : memory[f] = "Conventional"
    BY DEF Places
  <2>7. Settled(Marked, Reclaimed)
    BY <2>2 DEF OneUse
  <2>8. ASSUME NEW f \in free_memory'
        PROVE  use'[f] = "none" /\ (memory'[f] = "Conventional" \/ (Reclaimed' /\ memory'[f] # "Runtime"))
    <3>1. CASE f \in buffer
      BY <2>1, <2>6, <3>1
    <3>2. CASE f \in free_memory /\ f \notin buffer
      <4>1. f \in Frames /\ use'[f] = use[f]
        BY <2>1, <3>2 DEF FrameTypes
      <4> QED
        BY <2>1, <2>4, <2>7, <3>2, <4>1 DEF Settled, Steady
    <3> QED
      BY <2>1, <2>8, <3>1, <3>2
  <2>9. ASSUME NEW f \in Frames, use'[f] = "none", memory'[f] # "Runtime" PROVE f \in free_memory'
    <3>1. CASE f \in buffer
      BY <2>1, <3>1
    <3>2. CASE f \notin buffer
      <4>1. use[f] = "none"
        BY <2>1, <2>9, <3>2
      <4> QED
        BY <2>1, <2>5, <2>7, <2>9, <4>1 DEF Settled
    <3> QED
      BY <3>1, <3>2
  <2> QED
    BY <2>4, <2>5, <2>8, <2>9 DEF OneUse, Settled
<1>4. CASE Parsed(c)
  <2>1. UNCHANGED <<memory, ap_entrypoint>> /\ UNCHANGED listVars
    BY <1>4 DEF Parsed, listVars
  <2>2. Goto(c, "parse", After("parse")) /\ After("parse") # "kernel"
    BY <1>4, UefiOrder, BiosOrder DEF Parsed
  <2>3. MemoryKnown /\ pc[Bsp] # "kernel" /\ pc'[Bsp] # "kernel"
    <3>1. c = Bsp
      BY <2>2, OnlyTheFirst DEF Goto, Launched
    <3> QED
      BY <2>2, <3>1, KnownIs DEF Goto, Order, Learning
  <2> QED
    BY <1>0, <2>1, <2>3, OneUseStays DEF Steady, Reclaimed
<1>5. CASE register(c)
  <2>1. UNCHANGED memory /\ UNCHANGED listVars
    BY <1>5 DEF register, listVars
  <2>2. Goto(c, "register", "stack")
    BY <1>5, UefiOrder, BiosOrder DEF register
  <2>3. MemoryKnown /\ pc[Bsp] # "kernel" /\ pc'[Bsp] # "kernel"
    <3>1. c = Bsp
      BY <2>2, OnlyTheFirst DEF Goto, Launched
    <3> QED
      BY <2>2, <3>1, KnownIs DEF Goto, Order, Learning
  <2> QED
    BY <1>0, <2>1, <2>3, OneUseStays DEF Steady, Reclaimed
<1>6. CASE enter_kernel(c)
  <2>1. UNCHANGED <<memory, ap_entrypoint>> /\ UNCHANGED listVars /\ Goto(c, "enter", "kernel")
    BY <1>6 DEF enter_kernel, listVars
  <2>2. MemoryKnown
    BY <2>1, KnownIs DEF Goto, Order, Learning
  <2>3. Reclaimed' <=> Reclaimed
    <3>1. CASE c = Bsp
      <4>1. pc[Bsp] = "enter" /\ pc[Bsp] # "kernel"
        BY <2>1, <3>1 DEF Goto
      <4>2. ap_entrypoint # NoFrame
        BY <3>1, <4>1 DEF EntryThere, Entering
      <4> QED
        BY <2>1, <4>1, <4>2 DEF Reclaimed
    <3>2. CASE c # Bsp
      BY <2>1, <3>2, LoaderAssumption DEF Goto, Order, Reclaimed
    <3> QED
      BY <3>1, <3>2
  <2> QED
    BY <1>0, <2>1, <2>2, <2>3, OneUseStays DEF Steady
<1>7. CASE Verified(c)
  <2>1. UNCHANGED <<memory, ap_entrypoint>> /\ UNCHANGED listVars
    BY <1>7 DEF Verified, listVars
  <2>2. CASE c = Bsp
    <3>1. ~INITIALIZED
      BY <1>7, <2>2 DEF Verified, Goto, Order, Learning
    <3>2. pc'[Bsp] \in {"acpi", "e820"}
      BY <1>7, <2>2, <3>1 DEF Verified, Goto, Order
    <3> QED
      BY <3>2 DEF OneUse, MemoryKnown
  <2>3. CASE c # Bsp
    <3>1. pc'[Bsp] = pc[Bsp]
      BY <1>7, <2>3, LoaderAssumption DEF Verified, Goto, Order
    <3> QED
      BY <1>0, <2>1, <3>1, OneUseStays DEF Steady, Reclaimed, MemoryKnown
  <2> QED
    BY <2>2, <2>3
<1>8. \A from, to : Goto(c, from, to) /\ from \in Learning \ {"start"} => pc[Bsp] = from /\ pc'[Bsp] = to
  BY OnlyTheFirst DEF Goto, Order, Learning, Launched
<1>9. pc[Bsp] \in Learning /\ use' = use => \A f \in Frames : use'[f] = "none"
  BY DEF Learns, UefiLearns, BiosLearns
<1>10. CASE locate_acpi(c)
  <2>1. pc[Bsp] = "acpi" /\ UNCHANGED <<memory, use, boot_memory, free_memory>>
    BY <1>8, <1>10 DEF locate_acpi, Learning, listVars
  <2>2. CASE Uefi
    <3>1. pc'[Bsp] = "exit_try"
      BY <1>8, <1>10, <2>2 DEF locate_acpi, Learning
    <3> QED
      BY <3>1 DEF OneUse, MemoryKnown
  <2>3. CASE ~Uefi
    <3>1. pc'[Bsp] = "buffer"
      BY <1>8, <1>10, <2>3, BiosOrder DEF locate_acpi, Learning
    <3>2. boot_memory' = {} /\ free_memory' = OfKind({"Conventional"})'
      BY <2>1, <2>3 DEF Learns, BiosLearns, OfKind
    <3>3. \A f \in Frames : memory'[f] \in {"Conventional", "Runtime"}
      BY <2>1, <2>3 DEF Learns, BiosLearns
    <3>4. \A f \in Frames : use'[f] = "none"
      BY <1>9, <2>1 DEF Learning
    <3> QED
      BY <3>1, <3>2, <3>3, <3>4, OneUseBegins
  <2> QED
    BY <2>2, <2>3
<1>11. CASE Uefi /\ UefiLearnStep(c)
  <2>1. CASE exit_boot_services(c)
    <3>1. pc[Bsp] = "exit" /\ pc'[Bsp] = "ap_entrypoint" /\ key_valid /\ UNCHANGED <<memory, use, boot_memory, free_memory>>
      BY <1>8, <1>11, <2>1, UefiOrder DEF exit_boot_services, Learning, listVars
    <3>2. boot_memory' = OfKind({"Loader", "BootServices"})' /\ free_memory' = OfKind({"Conventional"})'
      BY <1>11, <3>1 DEF Learns, UefiLearns, OfKind
    <3>3. \A f \in Frames : use'[f] = "none"
      BY <1>9, <3>1 DEF Learning
    <3>4. \A f \in Frames : memory'[f] \in {"Loader", "BootServices"} => f \in boot_memory'
      BY <3>2 DEF OfKind
    <3> QED
      BY <3>1, <3>2, <3>3, <3>4, OneUseBegins
  <2>2. CASE ~exit_boot_services(c)
    <3>1. PICK from \in {"exit_try", "get_map", "exit"}, to \in {"exit_try", "get_map", "exit"} : Goto(c, from, to)
      BY <1>11, <2>2 DEF UefiLearnStep, exit_try, get_memory_map, get_memory_map_fails, exit_boot_services_fails
    <3>2. pc'[Bsp] \in {"exit_try", "get_map", "exit"}
      BY <1>8, <3>1 DEF Learning
    <3> QED
      BY <3>2 DEF OneUse, MemoryKnown
  <2> QED
    BY <2>1, <2>2
<1>12. CASE e820_entry(c) \/ e820_end(c)
  <2>1. pc'[Bsp] \in {"e820", "acpi"}
    <3>1. CASE e820_entry(c)
      BY <3>1, OnlyTheFirst DEF e820_entry, Launched
    <3>2. CASE e820_end(c)
      BY <1>8, <3>2 DEF e820_end, Learning
    <3> QED
      BY <1>12, <3>1, <3>2
  <2> QED
    BY <2>1 DEF OneUse, MemoryKnown
<1>13. ASSUME ~Uefi, NEW step \in {"read", "read_extended"}, NEW done \in BOOLEAN, Attempt(c, step, done)
       PROVE  OneUse'
  <2>1. UNCHANGED <<memory, ap_entrypoint>> /\ UNCHANGED listVars
    BY <1>13 DEF Attempt
  <2>2. PICK to \in {"parse", step} : Goto(c, step, to)
    BY <1>13, BiosOrder DEF Attempt
  <2>3. c = Bsp
    BY <2>2, OnlyTheFirst DEF Goto, Launched
  <2>4. MemoryKnown /\ pc[Bsp] # "kernel" /\ pc'[Bsp] # "kernel"
    BY <2>2, <2>3, KnownIs DEF Goto, Order, Learning
  <2> QED
    BY <1>0, <2>1, <2>4, OneUseStays DEF Steady, Reclaimed
<1> QED
  BY <1>1, <1>2, <1>3, <1>4, <1>5, <1>6, <1>7, <1>10, <1>11, <1>12, <1>13 DEF OtherStep, BiosOtherStep

LEMMA OneUseKeptByRest ==
  ASSUME Order, FrameTypes, Learns, Places, OneUse
  PROVE  /\ \A c \in Cores : Panics(c) => OneUse'
         /\ \A c \in Cores : launch_ap(c) => OneUse'
         /\ \A f \in Frames, kind \in Kinds : firmware_changes_map(f, kind) => OneUse'
         /\ \A f \in Frames : kernel_takes(f) => OneUse'
         /\ reclaim_boot_memory => OneUse'
<1> USE DEF LoadUnchanged, fwVars, blockVars
<1>1. ASSUME NEW c \in Cores, Panics(c) PROVE OneUse'
  BY <1>1, OneUseStays DEF Panics, Panic, MemoryKnown, Steady, Reclaimed
<1>2. ASSUME NEW c \in Cores, launch_ap(c) PROVE OneUse'
  <2>1. pc'[Bsp] = pc[Bsp]
    BY <1>2, LoaderAssumption DEF launch_ap, Goto, Order
  <2> QED
    BY <1>2, <2>1, OneUseStays DEF launch_ap, MemoryKnown, Steady, Reclaimed, listVars
<1>3. ASSUME NEW f \in Frames, NEW kind \in Kinds, firmware_changes_map(f, kind) PROVE OneUse'
  <2>1. pc[Bsp] \in Learning /\ pc' = pc
    BY <1>3 DEF firmware_changes_map, Learning
  <2> QED
    BY <2>1 DEF OneUse, MemoryKnown, Learning
<1>4. ASSUME NEW f \in Frames, kernel_takes(f) PROVE OneUse'
  <2>1. Take(f, "kernel") /\ MemoryKnown /\ UNCHANGED <<boot_memory>> /\ Steady
    BY <1>4 DEF kernel_takes, MemoryKnown, Steady, Reclaimed
  <2>2. f \in free_memory
    BY <1>4, Allocated DEF kernel_takes
  <2> QED
    BY <2>1, <2>2, OneUseByTake DEF BootUses
<1>5. ASSUME reclaim_boot_memory PROVE OneUse'
  <2>1. /\ pc[Bsp] = "kernel" /\ pc' = pc /\ ap_entrypoint # NoFrame /\ ap_entrypoint' = NoFrame
        /\ free_memory' = free_memory \cup boot_memory /\ memory' = memory /\ (Uefi' <=> Uefi)
        /\ use' = [f \in Frames |-> IF use[f] \in BootUses /\ f \in boot_memory THEN "none" ELSE use[f]]
    BY <1>5, LoaderAssumption DEF reclaim_boot_memory, Uefi
  <2>2. MemoryKnown /\ ~Reclaimed /\ Reclaimed'
    BY <2>1 DEF MemoryKnown, Reclaimed
  <2>3. Marked = boot_memory /\ Marked' = {}
    BY <2>2 DEF Marked
  <2>4. Settled(boot_memory, FALSE)
    BY <2>2, <2>3 DEF OneUse, Settled
  <2>5. free_memory \subseteq Frames /\ boot_memory \subseteq Frames
    BY DEF FrameTypes
  <2>6. \A f \in boot_memory : memory[f] # "Runtime"
    BY <2>2, <2>5 DEF Places
  <2>7. ASSUME NEW f \in free_memory' PROVE use'[f] = "none" /\ memory'[f] # "Runtime"
    <3>1. CASE f \in boot_memory
      BY <2>1, <2>4, <2>5, <2>6, <3>1 DEF Settled
    <3>2. CASE f \in free_memory /\ f \notin boot_memory
      BY <2>1, <2>4, <2>5, <3>2 DEF Settled
    <3> QED
      BY <2>1, <2>7, <3>1, <3>2
  <2>8. ASSUME NEW f \in Frames
        PROVE  /\ ~(Uefi /\ use'[f] \in BootUses)
               /\ use'[f] = "none" /\ memory[f] # "Runtime" => f \in free_memory'
    <3>0. "none" \notin BootUses
      BY DEF BootUses
    <3>1. CASE use[f] \in BootUses /\ f \in boot_memory
      BY <2>1, <3>0, <3>1
    <3>2. CASE ~(use[f] \in BootUses /\ f \in boot_memory)
      BY <2>1, <2>4, <3>2 DEF Settled
    <3> QED
      BY <3>1, <3>2
  <2> QED
    BY <2>1, <2>2, <2>3, <2>7, <2>8 DEF OneUse, Settled
<1> QED
  BY <1>1, <1>2, <1>3, <1>4, <1>5

-----------------------------------------------------------------------------
(* The entry of the other cores. *)
LEMMA NotNoFrame == \A f \in Frames : f # NoFrame
<1>1. \A f \in Nat : f # -1
  OBVIOUS
<1> QED
  BY <1>1, FramesAreNumbers DEF NoFrame

LEMMA EntryStays ==
  ASSUME EntryThere, UNCHANGED <<loader, pc, ap_entrypoint>>,
         (\E f \in Frames : use[f] = "ap_entrypoint") => (\E f \in Frames : use'[f] = "ap_entrypoint")
  PROVE  EntryThere'
<1>1. Uefi' <=> Uefi
  BY DEF Uefi
<1> QED
  BY <1>1 DEF EntryThere

(* Where the entry is not needed yet, or known. *)
LEMMA EntryIsKnown ==
  ASSUME loader' = loader, ap_entrypoint' \in Low \cup {NoFrame},
         pc'[Bsp] \notin UefiWork \cup BiosWork, pc'[Bsp] \in Entering => ap_entrypoint' # NoFrame
  PROVE  EntryThere'
  BY DEF EntryThere

LEMMA EntryKept ==
  ASSUME Order, FrameTypes, Learns, Places, OneUse, EntryThere, NEW c \in Cores, Works(c) \/ OtherStep(c)
  PROVE  EntryThere'
<1> USE DEF LoadUnchanged, fwVars, blockVars, listVars
<1>0. loader' = loader /\ (Uefi' <=> Uefi)
  BY LoaderStays
<1>1. CASE Works(c)
  <2>1. PICK from, to, p, f :
          Goto(c, from, to) /\ WorkUse(from, to, p) /\ TakesFrame(from, p, f) /\ LoadUnchanged
    BY <1>1 DEF Works
  <2>2. /\ pc[Bsp] = from /\ pc'[Bsp] = to /\ to \notin Entering /\ pc[Bsp] \notin Learning
        /\ to \in IF Uefi THEN UefiWork ELSE BiosWork
    BY <2>1, WorksIsFirst
  <2>3. MemoryKnown /\ f \in free_memory /\ use[f] = "none" /\ f \in Frames
    BY <2>1, <2>2, KnownIs, FreeIsMemory DEF TakesFrame, FrameTypes
  <2>4. use'[f] = p /\ \A g \in Frames : g # f => use'[g] = use[g]
    BY <2>1, <2>3 DEF TakesFrame, Take, FrameTypes
  <2>5. ap_entrypoint' = ap_entrypoint
    BY <2>1
  <2>6. CASE Uefi
    <3>1. \E g \in Frames : use'[g] = "ap_entrypoint"
      <4>1. CASE from = "ap_entrypoint"
        BY <2>1, <2>3, <2>4, <2>6, <4>1 DEF WorkUse
      <4>2. CASE from # "ap_entrypoint"
        <5>1. PICK g \in Frames : use[g] = "ap_entrypoint"
          BY <2>1, <2>2, <2>6, <4>2 DEF EntryThere, WorkUse
        <5> QED
          BY <2>3, <2>4, <5>1
      <4> QED
        BY <4>1, <4>2
    <3> QED
      BY <1>0, <2>2, <2>5, <2>6, <3>1 DEF EntryThere
  <2>7. CASE ~Uefi
    <3>1. ap_entrypoint # NoFrame
      BY <2>1, <2>2, <2>7 DEF EntryThere, WorkUse
    <3> QED
      BY <1>0, <2>2, <2>5, <2>7, <3>1 DEF EntryThere
  <2> QED
    BY <2>6, <2>7
<1>2. ASSUME NEW from \in Entering, NEW to \in Entering, Goto(c, from, to), from # "kernel", ap_entrypoint' = ap_entrypoint
      PROVE  EntryThere'
  <2>1. pc[Bsp] \in Entering /\ pc'[Bsp] \in Entering
    BY <1>2, LoaderAssumption DEF Goto, Order, Entering
  <2>2. pc[c] # "kernel"
    BY <1>2 DEF Goto
  <2>3. ap_entrypoint # NoFrame
    BY <2>1, <2>2 DEF EntryThere
  <2>4. pc'[Bsp] \notin UefiWork \cup BiosWork
    BY <2>1 DEF Entering, UefiWork, BiosWork
  <2> QED
    BY <1>0, <1>2, <2>3, <2>4, EntryIsKnown DEF EntryThere
<1>3. CASE StackMade(c) \/ enter_kernel(c) \/ drop_buffer(c)
  <2>1. PICK from \in {"stack", "drop_buffer", "enter"}, to \in {"drop_buffer", "enter", "kernel"} : Goto(c, from, to)
    BY <1>3 DEF StackMade, enter_kernel, drop_buffer
  <2>2. ap_entrypoint' = ap_entrypoint
    BY <1>3 DEF StackMade, enter_kernel, drop_buffer
  <2> QED
    BY <1>2, <2>1, <2>2 DEF Entering
<1>4. CASE Verified(c)
  <2>1. UNCHANGED <<ap_entrypoint, use>>
    BY <1>4 DEF Verified
  <2>2. CASE c = Bsp
    <3>1. ~INITIALIZED
      BY <1>4, <2>2 DEF Verified, Goto, Order, Learning
    <3>2. pc'[Bsp] \in {"acpi", "e820"}
      BY <1>4, <2>2, <3>1 DEF Verified, Goto, Order
    <3> QED
      BY <1>0, <2>1, <3>2, EntryIsKnown DEF EntryThere, UefiWork, BiosWork, Entering
  <2>3. CASE c # Bsp
    <3>1. pc[Bsp] = "kernel" /\ pc'[Bsp] = "kernel" /\ pc[c] # "kernel"
      BY <1>4, <2>3, LoaderAssumption DEF Verified, Goto, Order
    <3>2. ap_entrypoint # NoFrame
      BY <3>1 DEF EntryThere, Entering
    <3> QED
      BY <1>0, <2>1, <3>1, <3>2, EntryIsKnown DEF EntryThere, UefiWork, BiosWork
  <2> QED
    BY <2>2, <2>3
<1>5. \A from, to : Goto(c, from, to) /\ from \notin Launched => pc[Bsp] = from /\ pc'[Bsp] = to
  BY OnlyTheFirst DEF Goto, Order
<1>6. CASE Parsed(c)
  <2>1. pc[Bsp] = "parse" /\ pc'[Bsp] \in {"trampoline_new", "kernel_new"}
    BY <1>5, <1>6, UefiOrder, BiosOrder DEF Parsed, Launched
  <2> QED
    BY <1>0, <1>6, <2>1 DEF Parsed, EntryThere, UefiWork, BiosWork, Entering
<1>7. CASE register(c)
  <2>1. pc[Bsp] = "register" /\ pc'[Bsp] = "stack"
    BY <1>5, <1>7, UefiOrder, BiosOrder DEF register, Launched
  <2>2. ap_entrypoint' \in Low
    <3>1. CASE Uefi
      <4>1. \E f \in Frames : use[f] = "ap_entrypoint"
        BY <2>1, <3>1 DEF EntryThere, UefiWork
      <4>2. PICK f \in Frames : use[f] = "ap_entrypoint" /\ ap_entrypoint' = f
        BY <1>7, <3>1, <4>1 DEF register
      <4> QED
        BY <3>1, <4>2 DEF Places
    <3>2. CASE ~Uefi
      BY <1>7, <2>1, <3>2 DEF register, EntryThere, BiosWork
    <3> QED
      BY <3>1, <3>2
  <2>3. ap_entrypoint' # NoFrame
    BY <2>2, NotNoFrame DEF Low
  <2> QED
    BY <1>0, <2>1, <2>2, <2>3, EntryIsKnown DEF UefiWork, BiosWork
<1>8. CASE locate_acpi(c)
  <2>1. pc[Bsp] = "acpi" /\ pc'[Bsp] = IF Uefi THEN "exit_try" ELSE "buffer"
    BY <1>5, <1>8, BiosOrder DEF locate_acpi, Launched
  <2>2. CASE Uefi
    <3>1. ap_entrypoint' = ap_entrypoint
      BY <1>8, <2>2 DEF locate_acpi
    <3> QED
      BY <1>0, <2>1, <2>2, <3>1, EntryIsKnown DEF EntryThere, UefiWork, BiosWork, Entering
  <2>3. CASE ~Uefi
    <3>1. ap_entrypoint' = BiosEntrypoint
      BY <1>8, <2>3 DEF locate_acpi
    <3>2. ap_entrypoint' \in Low
      BY <3>1, LoaderAssumption
    <3>3. ap_entrypoint' # NoFrame
      BY <3>2, NotNoFrame DEF Low
    <3> QED
      BY <1>0, <2>1, <2>3, <3>2, <3>3 DEF EntryThere, Entering
  <2> QED
    BY <2>2, <2>3
<1>9. CASE Uefi /\ UefiLearnStep(c)
  <2>1. PICK from \in {"exit_try", "get_map", "exit"}, to \in {"exit_try", "get_map", "exit", "ap_entrypoint"} : Goto(c, from, to)
    BY <1>9, UefiOrder DEF UefiLearnStep, exit_try, get_memory_map, get_memory_map_fails, exit_boot_services_fails,
       exit_boot_services
  <2>2. ap_entrypoint' = ap_entrypoint
    BY <1>9 DEF UefiLearnStep, exit_try, get_memory_map, get_memory_map_fails, exit_boot_services_fails,
       exit_boot_services, InitUnchanged
  <2>3. pc'[Bsp] \in {"exit_try", "get_map", "exit", "ap_entrypoint"}
    BY <1>5, <2>1 DEF Launched
  <2>4. pc'[Bsp] \notin UefiWork \ {"ap_entrypoint"} /\ pc'[Bsp] \notin Entering
    BY <2>3 DEF UefiWork, Entering
  <2> QED
    BY <1>0, <1>9, <2>2, <2>4 DEF EntryThere
<1>10. CASE ~Uefi /\ (e820_entry(c) \/ e820_end(c))
  <2>1. pc'[Bsp] \in {"e820", "acpi"}
    <3>1. CASE e820_entry(c)
      BY <3>1, OnlyTheFirst DEF e820_entry, Launched
    <3>2. CASE e820_end(c)
      BY <1>5, <3>2 DEF e820_end, Launched
    <3> QED
      BY <1>10, <3>1, <3>2
  <2>2. ap_entrypoint' = ap_entrypoint
    BY <1>10 DEF e820_entry, e820_end
  <2> QED
    BY <1>0, <2>1, <2>2, EntryIsKnown DEF EntryThere, UefiWork, BiosWork, Entering
<1>11. ASSUME ~Uefi, NEW step \in {"read", "read_extended"}, NEW done \in BOOLEAN, Attempt(c, step, done)
       PROVE  EntryThere'
  <2>1. ap_entrypoint' = ap_entrypoint
    BY <1>11 DEF Attempt
  <2>2. PICK to \in {"parse", step} : Goto(c, step, to)
    BY <1>11, BiosOrder DEF Attempt
  <2>3. pc[Bsp] = step /\ pc'[Bsp] = to
    BY <1>5, <2>2 DEF Launched
  <2> QED
    BY <1>0, <1>11, <2>1, <2>3 DEF EntryThere, BiosWork, Entering
<1> QED
  BY <1>1, <1>3, <1>4, <1>6, <1>7, <1>8, <1>9, <1>10, <1>11 DEF OtherStep, BiosOtherStep

LEMMA EntryKeptByRest ==
  ASSUME Order, FrameTypes, OneUse, EntryThere
  PROVE  /\ \A c \in Cores : Panics(c) => EntryThere'
         /\ \A c \in Cores : launch_ap(c) => EntryThere'
         /\ \A f \in Frames, kind \in Kinds : firmware_changes_map(f, kind) => EntryThere'
         /\ \A f \in Frames : kernel_takes(f) => EntryThere'
         /\ reclaim_boot_memory => EntryThere'
<1> USE DEF LoadUnchanged, fwVars, blockVars, listVars
<1>1. ASSUME NEW c \in Cores, Panics(c) PROVE EntryThere'
  BY <1>1, EntryStays DEF Panics, Panic
<1>2. ASSUME NEW c \in Cores, launch_ap(c) PROVE EntryThere'
  <2>1. pc'[Bsp] = "kernel" /\ pc[Bsp] = "kernel" /\ pc[c] # "kernel"
    BY <1>2, LoaderAssumption DEF launch_ap, Goto, Order
  <2>2. ap_entrypoint' = ap_entrypoint /\ ap_entrypoint # NoFrame /\ loader' = loader
    BY <1>2, <2>1 DEF launch_ap, EntryThere, Entering
  <2> QED
    BY <2>1, <2>2, EntryIsKnown DEF EntryThere, UefiWork, BiosWork
<1>3. ASSUME NEW f \in Frames, NEW kind \in Kinds, firmware_changes_map(f, kind) PROVE EntryThere'
  BY <1>3, EntryStays DEF firmware_changes_map
<1>4. ASSUME NEW f \in Frames, kernel_takes(f) PROVE EntryThere'
  <2>1. pc[Bsp] = "kernel" /\ UNCHANGED <<loader, pc, ap_entrypoint>>
    BY <1>4 DEF kernel_takes
  <2> QED
    BY <2>1 DEF EntryThere, UefiWork, BiosWork, Uefi
<1>5. ASSUME reclaim_boot_memory PROVE EntryThere'
  <2>1. pc[Bsp] = "kernel" /\ UNCHANGED <<loader, pc>> /\ ap_entrypoint' = NoFrame /\ \A c \in Cores : pc[c] = "kernel"
    BY <1>5, LoaderAssumption DEF reclaim_boot_memory
  <2> QED
    BY <2>1 DEF EntryThere, UefiWork, BiosWork, Uefi
<1> QED
  BY <1>1, <1>2, <1>3, <1>4, <1>5

-----------------------------------------------------------------------------
(* The trampoline is mapped once, before the first core needs it. *)
LEMMA TrampolineStays ==
  ASSUME TrampolineThere, UNCHANGED <<loader, trampoline>>,
         \/ pc'[Bsp] = pc[Bsp]
         \/ pc'[Bsp] \in UefiMapped \cup BiosMapped \cup Entering =>
              pc[Bsp] \in (IF Uefi THEN UefiMapped ELSE BiosMapped) \cup Entering
  PROVE  TrampolineThere'
<1>1. (Uefi' <=> Uefi) /\ Mapped' = Mapped
  BY DEF Uefi, Mapped
<1> QED
  BY <1>1 DEF TrampolineThere

LEMMA TrampolineKept ==
  ASSUME Order, TrampolineThere, NEW c \in Cores, Works(c) \/ OtherStep(c)
  PROVE  TrampolineThere'
<1> USE DEF LoadUnchanged
<1>0. loader' = loader /\ (Uefi' <=> Uefi) /\ Mapped' = Mapped
  BY LoaderStays DEF Mapped, Uefi
<1>1. CASE Works(c)
  <2>1. PICK from, to, p, f :
          Goto(c, from, to) /\ WorkUse(from, to, p) /\ TakesFrame(from, p, f)
    BY <1>1 DEF Works
  <2>2. pc[Bsp] = from /\ pc'[Bsp] = to /\ to \notin Entering
    BY <2>1, WorksIsFirst
  <2>3. CASE to \in (IF Uefi THEN UefiMapped ELSE BiosMapped)
    <3>1. from = "trampoline_map" \/ from \in (IF Uefi THEN UefiMapped ELSE BiosMapped)
      BY <2>1, <2>3 DEF WorkUse
    <3>2. trampoline' = Mapped
      BY <2>1, <2>2, <3>1 DEF TrampolineThere, TakesFrame
    <3> QED
      BY <1>0, <3>2 DEF TrampolineThere
  <2>4. CASE to \notin (IF Uefi THEN UefiMapped ELSE BiosMapped)
    BY <1>0, <2>2, <2>4 DEF TrampolineThere
  <2> QED
    BY <2>3, <2>4
<1>2. trampoline' = trampoline \/ Works(c)
  BY DEF OtherStep, Verified, locate_acpi, Parsed, register, StackMade, enter_kernel, UefiLearnStep, BiosOtherStep,
     exit_try, get_memory_map, get_memory_map_fails, exit_boot_services_fails, exit_boot_services, InitUnchanged,
     e820_entry, e820_end, drop_buffer, Attempt
<1>3. \A from, to : Goto(c, from, to) =>
        pc'[Bsp] = pc[Bsp] \/ (c = Bsp /\ pc[Bsp] = from /\ pc'[Bsp] = to)
  BY LoaderAssumption DEF Goto, Order
<1>4. ASSUME NEW from, NEW to, Goto(c, from, to), trampoline' = trampoline,
             c = Bsp /\ to \in UefiMapped \cup BiosMapped \cup Entering =>
               from \in (IF Uefi THEN UefiMapped ELSE BiosMapped) \cup Entering
      PROVE  TrampolineThere'
  BY <1>0, <1>3, <1>4, TrampolineStays
<1>5. CASE StackMade(c) \/ enter_kernel(c) \/ drop_buffer(c) \/ register(c)
  <2>0. After("register") = "stack"
    BY UefiOrder, BiosOrder
  <2>1. PICK from \in {"register", "stack", "drop_buffer", "enter"},
             to \in {"stack", "drop_buffer", "enter", "kernel"} : Goto(c, from, to)
    BY <1>5, <2>0 DEF StackMade, enter_kernel, drop_buffer, register
  <2>2. trampoline' = trampoline
    BY <1>5 DEF StackMade, enter_kernel, drop_buffer, register
  <2>3. from \in (IF Uefi THEN UefiMapped ELSE BiosMapped) \cup Entering
    BY <2>1 DEF UefiMapped, BiosMapped, Entering
  <2> QED
    BY <1>4, <2>1, <2>2, <2>3
<1>6. CASE Verified(c)
  <2>1. trampoline' = trampoline
    BY <1>6 DEF Verified
  <2>2. CASE c = Bsp
    <3>1. ~INITIALIZED
      BY <1>6, <2>2 DEF Verified, Goto, Order, Learning
    <3>2. pc'[Bsp] \in {"acpi", "e820"}
      BY <1>6, <2>2, <3>1 DEF Verified, Goto, Order
    <3> QED
      BY <1>0, <2>1, <3>2, TrampolineStays DEF UefiMapped, BiosMapped, Entering
  <2>3. CASE c # Bsp
    <3>1. pc'[Bsp] = pc[Bsp]
      BY <1>6, <2>3, LoaderAssumption DEF Verified, Goto, Order
    <3> QED
      BY <1>0, <2>1, <3>1, TrampolineStays
  <2> QED
    BY <2>2, <2>3
<1>7. CASE Parsed(c)
  <2>1. PICK to \in {"trampoline_new", "kernel_new"} : Goto(c, "parse", to) /\ (to = "kernel_new" => ~Uefi)
    BY <1>7, UefiOrder, BiosOrder DEF Parsed
  <2>2. pc[c] = "parse"
    BY <2>1 DEF Goto
  <2>3. c = Bsp
    BY <2>2, OnlyTheFirst DEF Launched
  <2>4. trampoline' = trampoline /\ pc'[Bsp] = to
    BY <1>7, <2>1, <2>3 DEF Parsed, Goto, Order
  <2> QED
    BY <1>0, <2>1, <2>4 DEF TrampolineThere, UefiMapped, BiosMapped, Entering
<1>8. CASE locate_acpi(c)
  <2>1. PICK to \in {"exit_try", "buffer"} : Goto(c, "acpi", to)
    BY <1>8, BiosOrder DEF locate_acpi
  <2>2. trampoline' = trampoline
    BY <1>8 DEF locate_acpi
  <2> QED
    BY <1>4, <2>1, <2>2 DEF UefiMapped, BiosMapped, Entering
<1>9. CASE Uefi /\ UefiLearnStep(c)
  <2>1. PICK from, to \in {"exit_try", "get_map", "exit", "ap_entrypoint"} : Goto(c, from, to)
    BY <1>9, UefiOrder DEF UefiLearnStep, exit_try, get_memory_map, get_memory_map_fails, exit_boot_services_fails,
       exit_boot_services
  <2>2. trampoline' = trampoline
    BY <1>9 DEF UefiLearnStep, exit_try, get_memory_map, get_memory_map_fails, exit_boot_services_fails,
       exit_boot_services, InitUnchanged
  <2> QED
    BY <1>4, <2>1, <2>2 DEF UefiMapped, BiosMapped, Entering
<1>10. CASE ~Uefi /\ (e820_entry(c) \/ e820_end(c))
  <2>1. trampoline' = trampoline
    BY <1>10 DEF e820_entry, e820_end
  <2>2. CASE e820_entry(c)
    BY <1>0, <2>1, <2>2, TrampolineStays DEF e820_entry
  <2>3. CASE e820_end(c)
    <3>1. PICK to \in {"e820", "acpi"} : Goto(c, "e820", to)
      BY <2>3 DEF e820_end
    <3> QED
      BY <1>4, <2>1, <3>1 DEF UefiMapped, BiosMapped, Entering
  <2> QED
    BY <1>10, <2>2, <2>3
<1>11. ASSUME ~Uefi, NEW step \in {"read", "read_extended"}, NEW done \in BOOLEAN, Attempt(c, step, done)
       PROVE  TrampolineThere'
  <2>1. trampoline' = trampoline
    BY <1>11 DEF Attempt
  <2>2. PICK to \in {"parse", step} : Goto(c, step, to)
    BY <1>11, BiosOrder DEF Attempt
  <2> QED
    BY <1>4, <2>1, <2>2 DEF UefiMapped, BiosMapped, Entering
<1> QED
  BY <1>1, <1>5, <1>6, <1>7, <1>8, <1>9, <1>10, <1>11 DEF OtherStep, BiosOtherStep

LEMMA TrampolineKeptByRest ==
  ASSUME Order, TrampolineThere
  PROVE  /\ \A c \in Cores : Panics(c) => TrampolineThere'
         /\ \A c \in Cores : launch_ap(c) => TrampolineThere'
         /\ \A f \in Frames, kind \in Kinds : firmware_changes_map(f, kind) => TrampolineThere'
         /\ \A f \in Frames : kernel_takes(f) => TrampolineThere'
         /\ reclaim_boot_memory => TrampolineThere'
<1> USE DEF LoadUnchanged
<1>1. ASSUME NEW c \in Cores, launch_ap(c) PROVE TrampolineThere'
  <2>1. pc'[Bsp] = pc[Bsp]
    BY <1>1, LoaderAssumption DEF launch_ap, Goto, Order
  <2> QED
    BY <1>1, <2>1, TrampolineStays DEF launch_ap
<1>2. UNCHANGED <<loader, pc, trampoline>> => TrampolineThere'
  BY TrampolineStays
<1> QED
  BY <1>1, <1>2 DEF Panics, Panic, firmware_changes_map, kernel_takes, reclaim_boot_memory

-----------------------------------------------------------------------------
(* A loader that lacks memory for the entry finds all of it in use by the firmware. *)
LEMMA EntrypointLacks ==
  ASSUME Order, FrameTypes, Learns, OneUse, NEW c \in Cores, Panics(c)
  PROVE  EntrypointFirst'
<1>1. PICK from, reason :
        /\ Panic(c, from, reason)
        /\ reason = "ap_entrypoint" => Uefi /\ from = "ap_entrypoint" /\ Exhausted(LowEnd)
  BY DEF Panics
<1>2. failed' = reason /\ memory' = memory /\ pc[c] = from
  BY <1>1 DEF Panic, fwVars
<1>3. ASSUME reason = "ap_entrypoint", NEW f \in Low, memory[f] = "Conventional" PROVE FALSE
  <2>1. Uefi /\ pc[c] = "ap_entrypoint" /\ allocate_limited(free_memory, LowEnd) = {}
    BY <1>1, <1>2, <1>3 DEF Exhausted
  <2>2. c = Bsp
    BY <2>1, OnlyTheFirst DEF Launched
  <2>3. f \in Frames /\ f <= LowEnd
    BY <1>3 DEF Low
  <2>4. use[f] = "none"
    BY <2>1, <2>2, <2>3 DEF Learns, UefiLearns
  <2>5. MemoryKnown /\ ~Reclaimed
    BY <2>1, <2>2 DEF MemoryKnown, Reclaimed
  <2>6. f \in free_memory \cup boot_memory
    BY <1>3, <2>3, <2>4, <2>5 DEF OneUse, Settled, Marked
  <2>7. "none" \notin BootUses
    BY DEF BootUses
  <2>8. f \notin boot_memory
    BY <1>3, <2>4, <2>5, <2>7 DEF OneUse, Settled, Marked
  <2> QED
    BY <2>1, <2>3, <2>6, <2>8, NothingBelow, CountsAreNumbers DEF FrameTypes
<1> QED
  BY <1>2, <1>3 DEF EntrypointFirst, Low

LEMMA NotFailed == failed' = "none" => EntrypointFirst'
  BY DEF EntrypointFirst

-----------------------------------------------------------------------------
LEMMA LoaderInvInit == Init => LoaderInv
<1> SUFFICES ASSUME Init PROVE LoaderInv
  OBVIOUS
<1>0. pc[Bsp] = "start" /\ \A f \in Frames : use[f] = "none"
  BY LoaderAssumption DEF Init
<1>1. Order
  BY <1>0 DEF Init, Order, Learning, Entering, Launched, Waiting, UefiPoints, BiosPoints
<1>2. StacksApart
  BY DEF Init, StacksApart
<1>3. Tries
  <2>1. tries = 0 /\ sector = 0
    BY DEF Init
  <2> QED
    BY <2>1, CountsAreNumbers DEF Tries
<1>4. FrameTypes
  <2>1. memory \in [Frames -> Kinds]
    BY LoaderAssumption DEF Init, Kinds
  <2>2. use \in [Frames -> Uses]
    BY UsesAreUses DEF Init
  <2> QED
    BY <2>1, <2>2 DEF Init, FrameTypes
<1>5. Learns
  <2>1. CASE Uefi
    BY <1>0, <2>1 DEF Init, Learns, UefiLearns
  <2>2. CASE ~Uefi
    <3>1. e820 \in Seq([frames : SUBSET Frames, kind : EntryKinds])
      BY <2>2, LoaderAssumption DEF Init
    <3>2. Len(e820) \in Nat
      BY <3>1
    <3>3. sequence = 1 /\ sequence \in 1 .. Len(e820) + 1
      BY <3>2 DEF Init
    <3> QED
      BY <1>0, <2>2, <3>1, <3>3 DEF Init, Learns, BiosLearns
  <2> QED
    BY <2>1, <2>2
<1>6. ~MemoryKnown
  BY <1>0 DEF MemoryKnown
<1>7. Places
  <2>1. "none" \notin BootUses \cup {"kernel_table", "kernel_buffer", "ap_entrypoint", "gdt", "trampoline_stack"}
    BY DEF BootUses
  <2> QED
    BY <1>0, <1>6, <2>1 DEF Places
<1>8. OneUse
  BY <1>6 DEF OneUse
<1>9. EntryThere
  BY <1>0 DEF Init, EntryThere, UefiWork, BiosWork, Entering
<1>10. TrampolineThere
  BY <1>0 DEF TrampolineThere, UefiMapped, BiosMapped, Entering
<1>11. EntrypointFirst
  BY DEF Init, EntrypointFirst
<1> QED
  BY <1>1, <1>2, <1>3, <1>4, <1>5, <1>7, <1>8, <1>9, <1>10, <1>11 DEF LoaderInv

LEMMA LoaderInvStep == LoaderInv /\ [Next]_vars => LoaderInv'
<1> SUFFICES ASSUME LoaderInv, [Next]_vars PROVE LoaderInv'
  OBVIOUS
<1>0. /\ Order /\ StacksApart /\ Tries /\ FrameTypes /\ Learns /\ Places /\ OneUse /\ EntryThere
      /\ TrampolineThere /\ EntrypointFirst
  BY DEF LoaderInv
<1>1. ASSUME NEW c \in Cores, Works(c) \/ OtherStep(c) PROVE LoaderInv'
  <2>1. ~Uefi => e820 \in Seq([frames : SUBSET Frames, kind : EntryKinds]) /\ sequence \in Nat \ {0}
    <3>1. CASE ~Uefi
      <4>1. e820 \in Seq([frames : SUBSET Frames, kind : EntryKinds]) /\ sequence \in 1 .. Len(e820) + 1
        BY <1>0, <3>1 DEF Learns, BiosLearns
      <4>2. Len(e820) \in Nat
        BY <4>1
      <4> QED
        BY <4>1, <4>2
    <3> QED
      BY <3>1
  <2>2. Order'
    BY <1>0, <1>1, OrderByWork, OrderByOther
  <2>3. FrameTypes'
    BY <1>0, <1>1, <2>1, FrameTypesKept
  <2>4. StacksApart' /\ Tries' /\ Learns' /\ Places'
    BY <1>0, <1>1, StacksKept, TriesKept, LearnsKept, PlacesKept
  <2>5. OneUse' /\ EntryThere' /\ TrampolineThere'
    BY <1>0, <1>1, <2>3, OneUseKept, EntryKept, TrampolineKept
  <2>6. EntrypointFirst'
    BY <1>1, LoaderStays, NotFailed
  <2> QED
    BY <2>2, <2>3, <2>4, <2>5, <2>6 DEF LoaderInv
<1>2. ASSUME NEW c \in Cores, Panics(c) PROVE LoaderInv'
  BY <1>0, <1>2, OrderByRest, StacksKeptByRest, TriesKeptByRest, FrameTypesKeptByRest, LearnsKeptByRest,
     PlacesKeptByRest, OneUseKeptByRest, EntryKeptByRest, TrampolineKeptByRest, EntrypointLacks DEF LoaderInv
<1>3. ASSUME NEW c \in Cores, launch_ap(c) PROVE LoaderInv'
  <2>1. EntrypointFirst'
    BY <1>3, LoaderStays, NotFailed
  <2> QED
    BY <1>0, <1>3, <2>1, OrderByRest, StacksKeptByRest, TriesKeptByRest, FrameTypesKeptByRest, LearnsKeptByRest,
       PlacesKeptByRest, OneUseKeptByRest, EntryKeptByRest, TrampolineKeptByRest DEF LoaderInv
<1>4. ASSUME NEW f \in Frames, NEW kind \in Kinds, firmware_changes_map(f, kind) PROVE LoaderInv'
  <2>1. EntrypointFirst'
    BY <1>4, LoaderStaysInRest, NotFailed
  <2> QED
    BY <1>0, <1>4, <2>1, OrderByRest, StacksKeptByRest, TriesKeptByRest, FrameTypesKeptByRest, LearnsKeptByRest,
       PlacesKeptByRest, OneUseKeptByRest, EntryKeptByRest, TrampolineKeptByRest DEF LoaderInv
<1>5. ASSUME NEW f \in Frames, kernel_takes(f) PROVE LoaderInv'
  <2>1. EntrypointFirst'
    BY <1>5, LoaderStaysInRest, NotFailed
  <2> QED
    BY <1>0, <1>5, <2>1, OrderByRest, StacksKeptByRest, TriesKeptByRest, FrameTypesKeptByRest, LearnsKeptByRest,
       PlacesKeptByRest, OneUseKeptByRest, EntryKeptByRest, TrampolineKeptByRest DEF LoaderInv
<1>6. ASSUME reclaim_boot_memory PROVE LoaderInv'
  <2>1. EntrypointFirst'
    BY <1>6, LoaderStaysInRest, NotFailed
  <2> QED
    BY <1>0, <1>6, <2>1, OrderByRest, StacksKeptByRest, TriesKeptByRest, FrameTypesKeptByRest, LearnsKeptByRest,
       PlacesKeptByRest, OneUseKeptByRest, EntryKeptByRest, TrampolineKeptByRest DEF LoaderInv
<1>7. ASSUME UNCHANGED vars PROVE LoaderInv'
  <2>1. /\ UNCHANGED <<loader, pc, fwVars, tries, mapVars, sector, listVars, blockVars, trampoline, stackVars, failed>>
        /\ Uefi' <=> Uefi
    BY <1>7 DEF vars, Uefi
  <2>2. Order' /\ StacksApart' /\ Tries'
    BY <1>0, <2>1 DEF Order, StacksApart, Tries, blockVars, stackVars
  <2>3. FrameTypes'
    BY <1>0, <2>1 DEF FrameTypes, fwVars, listVars, blockVars
  <2>4. Learns'
    <3>1. CASE Uefi
      BY <1>0, <2>1, <3>1 DEF Learns, UefiLearns, OfKind, fwVars, listVars
    <3>2. CASE ~Uefi
      BY <1>0, <2>1, <3>2, BiosLearnsStay DEF Learns, fwVars, listVars, mapVars
    <3> QED
      BY <3>1, <3>2
  <2>5. Places'
    BY <1>0, <2>1, PlacesStay DEF fwVars, listVars, MemoryKnown
  <2>6. OneUse'
    BY <1>0, <2>1, OneUseStays DEF Steady, fwVars, blockVars, MemoryKnown, Reclaimed
  <2>7. EntryThere'
    BY <1>0, <2>1, EntryStays DEF blockVars, listVars
  <2>8. TrampolineThere' /\ EntrypointFirst'
    BY <1>0, <2>1, TrampolineStays DEF EntrypointFirst, fwVars
  <2> QED
    BY <2>2, <2>3, <2>4, <2>5, <2>6, <2>7, <2>8 DEF LoaderInv
<1>8. ASSUME NEW c \in Cores, LoaderStep(c) PROVE LoaderInv'
  <2>1. Panics(c) \/ Works(c) \/ OtherStep(c)
    BY <1>0, <1>8, LoaderSteps DEF FrameTypes
  <2> QED
    BY <1>1, <1>2, <2>1
<1> QED
  BY <1>3, <1>4, <1>5, <1>6, <1>7, <1>8 DEF Next

(* What the loaders know of the memory, in every state. *)
THEOREM LoaderInvHolds == Spec => []LoaderInv
  BY LoaderInvInit, LoaderInvStep, PTL DEF Spec

-----------------------------------------------------------------------------
(* Once the memory is known, every frame has one use: what a loader and the  *)
(* kernel it starts take is nobody else's, whatever the firmware reported,   *)
(* and what is marked as boot memory may be reclaimed and is all there is.   *)
THEOREM FramesHaveOneUse == Spec => []EveryFrameOneUse
<1>1. LoaderInv => EveryFrameOneUse
  <2> SUFFICES ASSUME LoaderInv PROVE EveryFrameOneUse
    OBVIOUS
  <2>1. LoaderTypeOK
    <3>1. /\ memory \in [Frames -> Kinds] /\ use \in [Frames -> Uses]
          /\ free_memory \subseteq Frames /\ boot_memory \subseteq Frames
          /\ pool \in Frames \cup {NoFrame}
          /\ acpi_tables.xsdt => acpi_tables.rsdt
          /\ ap_entrypoint \in Low \cup {NoFrame}
      BY DEF LoaderInv, FrameTypes, EntryThere
    <3>2. tries \in 0 .. (IF Uefi THEN ExitTries - 1 ELSE ReadTries) /\ sector \in 0 .. Sectors
      BY DEF LoaderInv, Tries
    <3>3. /\ \A c \in Cores : pc[c] \in {"enter", "kernel"} => stacks[c] \in 0 .. NEXT_STACK - 1
          /\ \A c, d \in Cores : c # d /\ stacks[c] # NoFrame => stacks[c] # stacks[d]
      BY DEF LoaderInv, StacksApart
    <3> QED
      BY <3>1, <3>2, <3>3 DEF LoaderTypeOK
  <2> QED
    BY <2>1 DEF LoaderInv, EveryFrameOneUse, OneUse, Settled, Marked
<1> QED
  BY <1>1, LoaderInvHolds, PTL

(* A core that runs on the trampoline page table, the first one on its way   *)
(* into the kernel or one that was just launched, touches only what is       *)
(* mapped there, wherever the firmware put the bootloader and its memory.    *)
THEOREM TrampolineSuffices == Spec => []TrampolineReaches
<1>1. LoaderInv => TrampolineReaches
  <2> SUFFICES ASSUME LoaderInv, NEW c \in Cores PROVE Touched(c) \subseteq trampoline
    BY DEF TrampolineReaches
  <2>0. Order /\ Places /\ EntryThere /\ TrampolineThere
    BY DEF LoaderInv
  <2>1. Low \subseteq Mapped /\ Image \subseteq Mapped
    <3>1. \A f \in Frames : (f <= LowEnd => f <= MAX_ADDRESS) /\ (f <= MAX_ADDRESS \/ f > MAX_ADDRESS)
      BY FramesAreNumbers, CountsAreNumbers
    <3>2. UefiImage \subseteq Frames /\ BiosImage \subseteq Low
      BY LoaderAssumption
    <3> QED
      BY <3>1, <3>2 DEF Low, Mapped, Image
  <2>2. CASE pc[c] = "enter"
    <3>1. trampoline = Mapped
      BY <2>0, <2>2 DEF Order, TrampolineThere, Entering
    <3>2. Kept({"gdt", "trampoline_stack"}) \subseteq Mapped
      BY <2>0 DEF Places, Kept, Mapped, BootUses
    <3> QED
      BY <2>1, <2>2, <3>1, <3>2 DEF Touched
  <2>3. CASE Uefi /\ c # Bsp /\ pc[c] \in {"start", "stack"}
    <3>1. pc[Bsp] = "kernel"
      BY <2>0, <2>3 DEF Order
    <3>2. trampoline = Mapped
      BY <2>0, <3>1 DEF TrampolineThere, Entering
    <3>3. ap_entrypoint \in Low
      BY <2>0, <2>3, <3>1 DEF EntryThere, Entering
    <3>4. Kept(BootUses \cup {"kernel_table"}) \subseteq Mapped
      BY <2>0, <2>3 DEF Places, Kept, Mapped
    <3> QED
      BY <2>1, <2>3, <3>2, <3>3, <3>4 DEF Touched
  <2>4. CASE pc[c] # "enter" /\ ~(Uefi /\ c # Bsp /\ pc[c] \in {"start", "stack"})
    BY <2>4 DEF Touched
  <2> QED
    BY <2>2, <2>3, <2>4
<1> QED
  BY <1>1, LoaderInvHolds, PTL

(* The UEFI loader lacks memory for the entry of the other cores only if the *)
(* firmware left none in the first megabyte: it takes that frame first, and  *)
(* the allocator finds one wherever there is one.                            *)
THEOREM EntrypointComesFirst == Spec => []EntrypointFirst
<1>1. LoaderInv => EntrypointFirst
  BY DEF LoaderInv
<1> QED
  BY <1>1, LoaderInvHolds, PTL
=============================================================================
