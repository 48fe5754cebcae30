-------------------------------- MODULE Svm --------------------------------
(***************************************************************************)
(* A virtual machine of kernel/src/vm/svm, which its owner configures      *)
(* while it is stopped and runs on any core, one run at a time (run takes  *)
(* &mut self). The code treats each register on its own: the model follows *)
(* one, reg, chosen once and for all, with the clean bit and the flushes   *)
(* that the others share with it; or it follows the guest's page in the    *)
(* nested page table. The processor is modelled as far as the code relies  *)
(* on it: a core may keep a part of the VMCB while its clean bit says so,  *)
(* translations are tagged by ASID, and an exit happens only for an        *)
(* intercept that is on, or because the processor refuses the guest.       *)
(***************************************************************************)
EXTENDS Integers, FiniteSets, FiniteSetsExt

CONSTANTS
  Cores,
  Followed,    \* registers to follow, or "Page"
  Values,      \* values of a register; different ones differ in the paging mode
  Zero,        \* the value in a new machine
  AllowedXcr0, \* values of XCR0 with the x87 bit, and no bit that the host has off
  Frames,      \* host frames that may back the guest's page
  NrAsids,     \* ASIDs of the processor, with the host's
  MaxVms,      \* MAX_CONCURRENT_VMS
  VmcbClean, FlushByAsid,  \* processor features
  FirstFlush,  \* the owner asks for a flush before a new machine runs
  MoveFlush,   \* and before a machine runs on another core than the last time
  Host,        \* the host's value of a register
  Nothing

ASSUME SvmAssumption ==
  /\ Zero \in Values /\ Host \notin Values
  /\ AllowedXcr0 \subseteq Values /\ Zero \notin AllowedXcr0
  /\ NrAsids \in Nat \ {0} /\ MaxVms \in Nat \ {0}
  /\ {VmcbClean, FlushByAsid, FirstFlush, MoveFlush} \subseteq BOOLEAN
  /\ Nothing \notin Cores \cup Frames \cup Values /\ Nothing \notin {"exit", "panic", "unreachable"}

----------------------------------------------------------------------------
(* Registers, by the way they reach the guest. *)

\* In guest_registers and copied to the VMCB; in guest_registers and loaded by run's assembly.
Copied == {"Rax", "Rsp", "Rip", "Rflags"}
Gprs == {"Rbx", "Rbp", "Rcx", "Rdx", "Rsi", "Rdi", "R8_R15", "Xcr0"}
Cached == Copied \cup Gprs
ControlRegs == {"Efer", "Cr0", "Cr2", "Cr3", "Cr4", "Dr6", "Dr7", "Pat"}
MsrRegs == {"Star", "Lstar", "Cstar", "Sfmask", "KernelGsBase", "SysenterCs", "SysenterEsp", "SysenterEip"}
Segments == {"Es", "Cs", "Ss", "Ds", "Fs", "Gs", "Ldt", "Tr"}
Tables == {"Idt", "Gdt"}

\* Those vmload and vmsave transfer; vmrun transfers the others of the VMCB.
Vmloaded == MsrRegs \cup {"Fs", "Gs", "Ldt", "Tr"}

\* The registers that run's assembly leaves with any value, as it tells the compiler (of
\* RFLAGS the status bits), and those that an exit does not load with the host's value.
Clobbered == {"Rax", "Rcx", "Rdx", "Rsi", "Rdi", "R8_R15", "Rflags"}
NotReloaded == {"Cr2", "Dr6", "Dr7"}

\* Mutant: CR2 is taken for one of the other control registers.
CleanBit_of_control_registers(r) ==
  CASE r \in ControlRegs \ {"Dr6", "Dr7", "Pat"} -> "CR"
    [] r \in {"Dr6", "Dr7"} -> "DR"
    [] r = "Pat" -> "NP"
    [] r \in Segments -> "SEG"
    [] r \in Tables -> "DT"
    [] r \in {"Intercepts", "TscOffset"} -> "INTERCEPTS_AND_TSC"
    [] OTHER -> Nothing

\* The clean bit the code gives up when it changes a register.
CleanBit(r) ==
  CASE r \in {"Efer", "Cr0", "Cr3", "Cr4"} -> "CR"
    [] r = "Cr2" -> "CR2"
    [] r \in {"Dr6", "Dr7"} -> "DR"
    [] r = "Pat" -> "NP"
    [] r \in Segments -> "SEG"
    [] r \in Tables -> "DT"
    [] r \in {"Intercepts", "TscOffset"} -> "INTERCEPTS_AND_TSC"
    [] OTHER -> Nothing

\* The clean bit under which the processor keeps one.
KeptUnder ==
  [CR |-> {"Efer", "Cr0", "Cr3", "Cr4"}, CR2 |-> {"Cr2"}, DR |-> {"Dr6", "Dr7"}, NP |-> {"Pat"},
   SEG |-> {"Es", "Cs", "Ss", "Ds", "Cpl"}, DT |-> Tables,
   INTERCEPTS_AND_TSC |-> {"Intercepts", "TscOffset"}]

Kept == UNION {KeptUnder[bit] : bit \in DOMAIN KeptUnder}

ASSUME CleanBitAssumption == Nothing \notin DOMAIN KeptUnder

\* Registers whose bits set_reg masks for a TLB flush.
Flushing == {"Efer", "Cr0", "Cr3", "Cr4"}

\* What a translation is made from: they, and the nested page table.
Translating == Flushing \cup {"Page"}

----------------------------------------------------------------------------
(* Intercepts, as the exit codes they cause: the code of bit n of a field is the field's
   first code plus n. *)

Codes(first, bits) == {first + n : n \in bits}

AlwaysOn ==
  Codes(96, {0, 1, 2, 3, 26, 27, 28, 31}) \cup Codes(128, {0} \cup (2 .. 6)) \cup {1024}

\* Mutant: the bit of a task switch, which run does not decode, for that of FERR_FREEZE.
Intercepts_misnumbered == {125}

\* enum Intercept.
Intercepts ==
  UNION {Codes(96, {4, 30} \cup (6 .. 25)), Codes(128, {1, 13, 14} \cup (7 .. 11)), Codes(160, {2, 3}),
         Codes(0, {0, 2, 3, 4, 8}), Codes(16, {0, 2, 3, 4, 8}),
         Codes(32, {6, 7} \cup (0 .. 3)), Codes(48, {6, 7} \cup (0 .. 3)),
         Codes(64, {0, 1} \cup (3 .. 8) \cup (10 .. 14) \cup (16 .. 19))}

\* Codes that run turns into a VmExit; it panics on the others.
Decoded ==
  UNION {0 .. 65, 67 .. 72, 74 .. 78, 80 .. 83, 96 .. 100, 102 .. 124, {126, 127}, 128 .. 139,
         {141, 142}, {162, 163}, {1024}}

\* The exits that need no intercept: INVALID_STATE and VMSA_BUSY, as signed numbers.
Refusals == {-1, -2}

\* run panics on a refusal; on every other code it takes for granted that it cannot come.
decode(code) ==
  CASE code \in Decoded -> "exit" [] code \in Refusals -> "panic" [] OTHER -> "unreachable"
DefaultExits == {decode(code) : code \in AlwaysOn}
AllExits == {decode(code) : code \in AlwaysOn \cup Intercepts}

VARIABLES
  reg,              \* the register that is followed
  bitmap,           \* ASIDs in use (BITMAP_ENTRIES)
  asid,             \* that of this machine
  guest_registers,  \* the register, if the machine caches it
  vmcb,             \* the register in the VMCB
  clean,            \* the clean bit it is kept under is set
  tlb_control,
  event_injection,
  exit_int_info,
  exit,             \* what the last exit was decoded to
  last_core,
  npt,              \* frame of the guest's page in the nested page table
  invalidated_tlb,
  pc,               \* where new, run and drop are
  here,             \* core of the run in progress
  svm_enabled,      \* cores with SVM on and a host save area
  core,             \* the register in the core that runs the machine
  saved,            \* the host's value, put aside
  delivering,       \* event the guest is taking
  fresh,            \* cores whose kept part of the VMCB, if any, is that in memory
  tlb               \* per core, translation of the guest's page

settings == <<guest_registers, vmcb, clean, tlb_control, event_injection, last_core, npt, invalidated_tlb>>
processor == <<core, saved, delivering, fresh, tlb>>
place == <<reg, bitmap, asid, svm_enabled>>
vars == <<place, settings, processor, exit_int_info, exit, pc, here>>

\* An interrupt, a page fault and a software interrupt, as EVENTINJ and EXITINTINFO have them.
Events == {"intr", "pf", "soft"}
Encoded ==
  [intr |-> [typ |-> 0, vector |-> 32], pf |-> [typ |-> 3, vector |-> 14], soft |-> [typ |-> 4, vector |-> 128]]
EncodedEvents == {Encoded[e] : e \in Events}

ASSUME EventAssumption == Nothing \notin Events /\ Nothing \notin EncodedEvents

\* Mutant: a software interrupt is taken for an exception.
intercepted_delivery_of_exceptions(info) ==
  IF info = Nothing THEN Nothing ELSE IF info.typ = 0 THEN "intr" ELSE "pf"

\* The event such a field holds.
intercepted_delivery(info) ==
  IF info = Nothing THEN Nothing
  ELSE IF info.typ = 0 THEN "intr" ELSE IF info.typ = 4 THEN "soft" ELSE "pf"

Asids == 1 .. (NrAsids - 1)

Init ==
  /\ reg \in Followed
  /\ bitmap = {} /\ asid = 0 /\ svm_enabled = {}
  /\ guest_registers = Zero /\ vmcb = Zero /\ clean = FALSE
  /\ tlb_control = FALSE /\ event_injection = Nothing /\ last_core = Nothing
  /\ npt = Nothing /\ invalidated_tlb = FALSE
  /\ exit_int_info = Nothing /\ exit = Nothing
  /\ pc = "absent" /\ here = Nothing
  /\ core = Host /\ saved = Nothing /\ delivering = Nothing
  /\ fresh = {} /\ tlb = [c \in Cores |-> Nothing]

----------------------------------------------------------------------------
(* Creation and drop. Other machines take and return ASIDs and run on the other cores. *)

\* Mutant: SVM is enabled on the first core only.
enable_svm_once(c) == svm_enabled' = IF svm_enabled = {} THEN {c} ELSE svm_enabled

enable_svm(c) == svm_enabled' = svm_enabled \cup {c}

\* Asid::new takes the lowest free bit, if that is an ASID the processor has.
FreeAsids == (1 .. MaxVms) \ bitmap
AsidFree == FreeAsids # {} /\ Min(FreeAsids) < NrAsids
take_asid == AsidFree /\ bitmap' = bitmap \cup {Min(FreeAsids)}

initialize ==
  /\ guest_registers' = Zero /\ vmcb' = Zero /\ clean' = FALSE
  /\ tlb_control' = FALSE /\ event_injection' = Nothing /\ last_core' = Nothing
  /\ npt' = Nothing /\ invalidated_tlb' = FALSE
  /\ exit_int_info' = Nothing /\ exit' = Nothing /\ fresh' = {}

new(c) ==
  /\ pc = "absent"
  /\ enable_svm(c)
  /\ \/ take_asid /\ asid' = Min(FreeAsids) /\ initialize /\ pc' = "stopped"
     \/ /\ ~AsidFree
        /\ UNCHANGED <<bitmap, asid, settings, exit_int_info, exit, fresh, pc>>
  /\ UNCHANGED <<reg, here, core, saved, delivering, tlb>>

drop ==
  /\ pc = "stopped"
  /\ bitmap' = bitmap \ {asid} /\ asid' = 0
  /\ pc' = "absent"
  /\ UNCHANGED <<reg, here, svm_enabled, settings, processor, exit_int_info, exit>>

Others ==
  /\ \/ take_asid /\ UNCHANGED tlb
     \/ (\E a \in bitmap \ {asid} : bitmap' = bitmap \ {a}) /\ UNCHANGED tlb
     \/ \E c \in Cores \ {here}, a \in bitmap \ {asid} :
          /\ reg \in Translating
          /\ tlb' = [tlb EXCEPT ![c] = [asid |-> a, seen |-> Host]]
          /\ UNCHANGED bitmap
  /\ pc # "panicked"
  /\ UNCHANGED <<reg, asid, svm_enabled, settings, core, saved, delivering, fresh, exit_int_info, exit, pc, here>>

----------------------------------------------------------------------------
(* Configuration of a stopped machine. *)

Configure(step) ==
  /\ pc = "stopped" /\ step
  /\ UNCHANGED <<place, last_core, core, saved, delivering, tlb, exit_int_info, exit, pc, here>>

vmcb_dirty(bit) ==
  clean' = (clean /\ ~(bit # Nothing /\ reg \in KeptUnder[bit]))

\* The VMCB's copy of a register is assigned; what the cores keep of it is then old.
assign(registers, x) ==
  IF reg \in registers
  THEN vmcb' = x /\ fresh' = IF x # vmcb THEN {} ELSE fresh
  ELSE UNCHANGED <<vmcb, fresh>>

\* A change of another register with a mask may or may not be in its mask.
set_reg(r, x) ==
  /\ IF r \in Cached
     THEN /\ guest_registers' = IF r = reg THEN x ELSE guest_registers
          /\ UNCHANGED <<vmcb, fresh, clean, tlb_control>>
     ELSE /\ assign({r}, x)
          /\ vmcb_dirty(CleanBit(r))
          /\ tlb_control' \in {tlb_control \/ (r \in Flushing /\ changed) :
                                 changed \in IF r = reg THEN {x # vmcb} ELSE BOOLEAN}
          /\ UNCHANGED guest_registers
  /\ UNCHANGED <<event_injection, npt, invalidated_tlb>>

\* CS brings the privilege level with it.
set_segment_reg(s, x) ==
  /\ assign({s} \cup (IF s = "Cs" THEN {"Cpl"} ELSE {}), x)
  /\ vmcb_dirty(CleanBit(s))
  /\ UNCHANGED <<guest_registers, tlb_control, event_injection, npt, invalidated_tlb>>

set_table_reg(t, x) ==
  /\ assign({t}, x)
  /\ vmcb_dirty(CleanBit(t))
  /\ UNCHANGED <<guest_registers, tlb_control, event_injection, npt, invalidated_tlb>>

intercept(x) ==
  /\ assign({"Intercepts"}, x)
  /\ vmcb_dirty(CleanBit("Intercepts"))
  /\ UNCHANGED <<guest_registers, tlb_control, event_injection, npt, invalidated_tlb>>

set_tsc_offset(x) ==
  /\ assign({"TscOffset"}, x)
  /\ vmcb_dirty(CleanBit("TscOffset"))
  /\ UNCHANGED <<guest_registers, tlb_control, event_injection, npt, invalidated_tlb>>

\* A page fault brings its address in CR2.
inject_event(e, x) ==
  /\ event_injection' = Encoded[e]
  /\ IF e = "pf" THEN assign({"Cr2"}, x) /\ vmcb_dirty(CleanBit("Cr2"))
     ELSE UNCHANGED <<vmcb, fresh, clean>>
  /\ UNCHANGED <<guest_registers, tlb_control, npt, invalidated_tlb>>

flush_tlb ==
  /\ tlb_control' = TRUE
  /\ UNCHANGED <<guest_registers, vmcb, clean, fresh, event_injection, npt, invalidated_tlb>>

\* Mutant: the flag is not raised.
npt_map_raw_unflagged(f) ==
  /\ npt' = IF reg = "Page" THEN f ELSE npt
  /\ UNCHANGED <<guest_registers, vmcb, clean, fresh, tlb_control, event_injection, invalidated_tlb>>

\* A change of a present entry of the nested page table, of this page or another.
npt_map_raw(f) ==
  /\ IF reg = "Page"
     THEN npt # f /\ npt' = f /\ invalidated_tlb' = (invalidated_tlb \/ npt # Nothing)
     ELSE UNCHANGED npt /\ invalidated_tlb' \in {invalidated_tlb, TRUE}
  /\ UNCHANGED <<guest_registers, vmcb, clean, fresh, tlb_control, event_injection>>

----------------------------------------------------------------------------
(* run. From clgi to stgi nothing can interrupt it. *)

\* Whether the guest's XCR0 passes validate_xcr0.
xcr0_valid == IF reg = "Xcr0" THEN {guest_registers \in AllowedXcr0} ELSE BOOLEAN

\* Interrupts are disabled.
run_refused ==
  /\ pc = "stopped" /\ pc' = "panicked"
  /\ UNCHANGED <<place, settings, processor, exit_int_info, exit, here>>

run_begin(c) ==
  /\ pc = "stopped"
  /\ pc' \in {IF valid THEN "entering" ELSE "panicked" : valid \in xcr0_valid}
  /\ here' = c /\ enable_svm(c)
  /\ clean' = (clean /\ c = last_core)
  /\ last_core' = c
  /\ tlb_control' = (tlb_control \/ invalidated_tlb)
  /\ assign(Copied, guest_registers)
  /\ UNCHANGED <<reg, bitmap, asid, guest_registers, event_injection, npt, invalidated_tlb,
                 core, saved, delivering, tlb, exit_int_info, exit>>

\* What the owners of machines do before they run one: a new machine gets its paging mode
\* by set_reg, which asks for a flush.
FlushDue(c) == c # last_core /\ IF last_core = Nothing THEN FirstFlush ELSE MoveFlush
run(c) == (FlushDue(c) => tlb_control) /\ run_begin(c)

\* Mutant: no vmsave of the host.
switch_in_without_vmsave ==
  /\ pc = "entering" /\ pc' = "switched"
  /\ saved' = IF reg \in Vmloaded \cup Clobbered \cup NotReloaded THEN Nothing ELSE core
  /\ core' = CASE reg \in Gprs -> guest_registers
               [] reg \in Vmloaded -> vmcb
               [] OTHER -> core
  /\ UNCHANGED <<place, settings, delivering, fresh, tlb, exit_int_info, exit, here>>

\* The host's registers that are to come back are put aside, by the assembly, vmsave or vmrun,
\* and those vmrun does not load are loaded.
switch_in ==
  /\ pc = "entering" /\ pc' = "switched"
  /\ saved' = IF reg \in Clobbered \cup NotReloaded THEN Nothing ELSE core
  /\ core' = CASE reg \in Gprs -> guest_registers
               [] reg \in Vmloaded -> vmcb
               [] OTHER -> core
  /\ UNCHANGED <<place, settings, delivering, fresh, tlb, exit_int_info, exit, here>>

\* The processor flushes on request, loads the guest from what it has kept or from memory,
\* and takes the event over.
vmrun ==
  /\ pc = "switched" /\ pc' = "guest"
  /\ core' \in IF reg \in Gprs \cup Vmloaded THEN {core}
               ELSE IF reg \in Kept /\ clean /\ here \notin fresh THEN Values ELSE {vmcb}
  /\ tlb' = IF tlb_control /\ tlb[here] # Nothing /\ (~FlushByAsid \/ tlb[here].asid = asid)
            THEN [tlb EXCEPT ![here] = Nothing] ELSE tlb
  /\ delivering' = event_injection /\ event_injection' = Nothing
  /\ UNCHANGED <<place, guest_registers, vmcb, clean, tlb_control, last_core, npt, invalidated_tlb,
                 saved, fresh, exit_int_info, exit, here>>

\* The processor does not accept the guest's state: it is back at once.
vmrun_invalid ==
  /\ pc = "switched" /\ pc' = "exited"
  /\ exit' \in {decode(code) : code \in Refusals}
  /\ core' \in IF reg \in NotReloaded THEN Values ELSE {core}
  /\ UNCHANGED <<place, settings, saved, delivering, fresh, tlb, exit_int_info, here>>

Guest(step) ==
  /\ pc = "guest" /\ step
  /\ UNCHANGED <<place, settings, saved, fresh, exit_int_info, exit, pc, here>>

Usable == tlb[here] # Nothing /\ tlb[here].asid = asid

\* A change of its paging mode drops the guest's own translations.
guest_writes(x) ==
  /\ reg \notin {"Intercepts", "TscOffset", "Page"} /\ core' = x
  /\ tlb' = IF reg \in Flushing /\ x # core /\ Usable THEN [tlb EXCEPT ![here] = Nothing] ELSE tlb
  /\ UNCHANGED delivering

Walked == IF reg = "Page" THEN npt ELSE core

guest_walks ==
  /\ reg \in Translating /\ ~Usable /\ Walked # Nothing
  /\ tlb' = [tlb EXCEPT ![here] = [asid |-> asid, seen |-> Walked]]
  /\ UNCHANGED <<core, delivering>>

guest_takes_event ==
  /\ delivering # Nothing /\ delivering' = Nothing
  /\ UNCHANGED <<core, tlb>>

\* vmrun's own registers go to the VMCB, and the host's come back as far as an exit loads them.
vmexit ==
  /\ pc = "guest" /\ pc' = "exited"
  /\ IF reg \in Gprs \cup Vmloaded THEN UNCHANGED <<vmcb, core>>
     ELSE /\ vmcb' = core
          /\ core' \in IF reg \in Clobbered \cup NotReloaded THEN Values ELSE {saved}
  /\ fresh' = {here}
  /\ exit_int_info' = delivering /\ delivering' = Nothing
  /\ exit' \in (IF reg = "Intercepts" /\ core = Zero THEN DefaultExits ELSE AllExits)
  /\ UNCHANGED <<place, guest_registers, clean, tlb_control, event_injection, last_core, npt,
                 invalidated_tlb, saved, tlb, here>>

\* Mutant: the guest's stays where the processor has it, for vmload to overwrite.
switch_out_without_vmsave ==
  /\ pc = "exited" /\ pc' = "leaving"
  /\ guest_registers' = IF reg \in Gprs THEN core ELSE guest_registers
  /\ vmcb' = vmcb
  /\ core' \in IF reg \in Clobbered \ Copied THEN Values
               ELSE IF reg \in Gprs \cup Vmloaded THEN {saved} ELSE {core}
  /\ saved' = Nothing
  /\ UNCHANGED <<place, clean, tlb_control, event_injection, last_core, npt, invalidated_tlb,
                 delivering, fresh, tlb, exit_int_info, exit, here>>

\* The guest's registers are put aside and the host's come back, by vmload, from the stack,
\* or not at all.
switch_out ==
  /\ pc = "exited" /\ pc' = "leaving"
  /\ guest_registers' = IF reg \in Gprs THEN core ELSE guest_registers
  /\ vmcb' = IF reg \in Vmloaded THEN core ELSE vmcb
  /\ core' \in IF reg \in Clobbered THEN Values
               ELSE IF reg \in Gprs \cup Vmloaded THEN {saved} ELSE {core}
  /\ saved' = Nothing
  /\ UNCHANGED <<place, clean, tlb_control, event_injection, last_core, npt, invalidated_tlb,
                 delivering, fresh, tlb, exit_int_info, exit, here>>

\* XCR0 is the host's again, and what the guest has left in its own is allowed.
xcr0_sound == IF reg = "Xcr0" THEN {core = Host /\ guest_registers \in AllowedXcr0} ELSE BOOLEAN

run_panic ==
  /\ pc = "leaving" /\ pc' = "panicked"
  /\ FALSE \in xcr0_sound \/ exit # "exit"
  /\ UNCHANGED <<place, settings, processor, exit_int_info, exit, here>>

run_end ==
  /\ pc = "leaving" /\ pc' = "stopped"
  /\ TRUE \in xcr0_sound /\ exit = "exit"
  /\ guest_registers' = IF reg \in Copied THEN vmcb ELSE guest_registers
  /\ tlb_control' = FALSE /\ invalidated_tlb' = FALSE
  /\ clean' = (VmcbClean /\ reg \in Kept)
  /\ here' = Nothing
  /\ UNCHANGED <<place, vmcb, event_injection, last_core, npt, processor, exit_int_info, exit>>

Next ==
  \/ \E c \in Cores : new(c) \/ run(c)
  \/ drop \/ Others
  \/ Configure(flush_tlb)
  \/ \E r \in Cached \cup ControlRegs \cup MsrRegs :
       \E x \in IF r = reg THEN Values ELSE {Zero} : Configure(set_reg(r, x))
  \/ \E x \in Values :
       \/ \E s \in Segments : Configure(set_segment_reg(s, x))
       \/ \E t \in Tables : Configure(set_table_reg(t, x))
       \/ Configure(intercept(x)) \/ Configure(set_tsc_offset(x))
       \/ \E e \in Events : Configure(inject_event(e, x))
       \/ Guest(guest_writes(x))
  \/ \E f \in Frames \cup {Nothing} : Configure(npt_map_raw(f))
  \/ run_refused \/ switch_in \/ vmrun \/ vmrun_invalid
  \/ vmexit \/ switch_out \/ run_panic \/ run_end
  \/ Guest(guest_walks) \/ Guest(guest_takes_event)

Spec == Init /\ [][Next]_vars

----------------------------------------------------------------------------
(* The ranges of the variables. *)
SvmTypes ==
  /\ reg \in Followed
  /\ bitmap \subseteq 1 .. MaxVms
  /\ asid \in {0} \cup (bitmap \cap Asids) /\ (asid = 0 <=> pc = "absent")
  /\ {guest_registers, vmcb} \subseteq Values
  /\ {clean, tlb_control, invalidated_tlb} \subseteq BOOLEAN
  /\ {event_injection, exit_int_info, delivering} \subseteq EncodedEvents \cup {Nothing}
  /\ last_core \in Cores \cup {Nothing} /\ npt \in Frames \cup {Nothing}
  /\ pc \in {"absent", "stopped", "entering", "switched", "guest", "exited", "leaving", "panicked"}
  /\ here \in (IF pc \in {"absent", "stopped"} THEN {Nothing} ELSE svm_enabled \cup {n \in {Nothing} : pc = "panicked"})
  /\ core \in Values \cup {Host} /\ saved \in {Host, Nothing} /\ fresh \subseteq Cores

(* run takes the codes of other exits for impossible (mod.rs:982-1156, "unreachable!" and
   "Unknown VM exit code"): they are those of intercepts that nobody can turn on. The two
   refusals of the processor, which need no intercept, have an arm of their own. *)
EveryExitDecoded == exit # "unreachable"

(* Type invariant of Svm. The ASID of a machine is one that is taken, run enters the guest
   only on a core whose SVM is on, and comes back with an exit it has an arm for. *)
SvmTypeOK == SvmTypes /\ EveryExitDecoded

\* The event that was put in such a field.
Injected(info) == IF info = Nothing THEN Nothing ELSE CHOOSE e \in Events : Encoded[e] = info

(* The clean bits (mod.rs:633, 751, 976), the cache of registers (mod.rs:770, 966), the
   switch (mod.rs:781-945) and the injection of events (mod.rs:571, 1364) do what a virtual
   machine promises: the guest starts with the value its owner gave a register last and the
   owner reads the value the guest left, on whichever core it runs, by whichever of the
   three ways the register is loaded and saved, and whatever the core has kept of the VMCB;
   an event is taken once or reported as what it was by the exit that interrupted it; a
   guest that the processor refuses is never reported to have run. *)
Machine ==
  INSTANCE VirtualMachine WITH
    mode <- CASE pc = "absent" -> "absent" [] pc = "stopped" -> "idle"
              [] pc \in {"entering", "switched"} -> "entering" [] pc = "guest" -> "running"
              [] pc \in {"exited", "leaving"} -> IF exit = "panic" THEN "refused" ELSE "leaving"
              [] OTHER -> "failed",
    value <- IF pc = "guest" \/ (pc = "exited" /\ reg \in Gprs \cup Vmloaded) THEN core
             ELSE IF reg \in Gprs \/ (reg \in Copied /\ pc \notin {"exited", "leaving"})
                  THEN guest_registers ELSE vmcb,
    pending <- Injected(IF pc = "guest" THEN delivering ELSE event_injection),
    reported <- intercepted_delivery(exit_int_info)
ImplementsVirtualMachine == Machine!Spec

(* "If any NPT operation modified the TLB we need to flush it." (mod.rs:765): the guest
   never uses a translation made with a nested page table or a paging mode that has
   changed since, or by another machine that had the same ASID. *)
NoStaleTranslation ==
  pc = "guest" /\ Usable => tlb[here].seen = Walked

(* The same of the machine's own changes of its nested page table only. *)
NptChangesFlushed ==
  pc = "guest" /\ Usable /\ reg = "Page" => tlb[here].seen \in {npt, Host}

(* Once a run has switched back (mod.rs:866-945) the core has its own value again of every
   register that the assembly does not declare lost (mod.rs:940-958) and that an exit
   brings back: RBX, RBP and XCR0 from the stack, those of vmload, and those of vmrun. It is
   what mod.rs:961 asserts of XCR0, told of the others too. *)
HostRegistersRestored ==
  pc \in {"absent", "stopped", "leaving", "panicked"} /\ reg \notin Clobbered \cup NotReloaded => core = Host
=============================================================================
