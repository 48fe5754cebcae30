----------------------------- MODULE SvmProofs -----------------------------
(***************************************************************************)
(* Proofs about a virtual machine of vm/svm, for any number of cores,      *)
(* ASIDs and machines: the types of its state, that the registers of the   *)
(* host that are to come back do, that it implements VirtualMachine, that  *)
(* run has an arm for every exit, and that its guest never uses a          *)
(* translation that is gone when its owner asks for a flush before the     *)
(* first run and on a move.                                                *)
(***************************************************************************)
EXTENDS Svm, WellFoundedInduction, TLAPS

Running == {"entering", "switched", "guest", "exited", "leaving"}

(* Where the host's value of the register is, if it comes back, and the guest's. *)
HostValue ==
  reg \notin Clobbered \cup NotReloaded =>
    /\ pc \in {"absent", "stopped", "entering", "leaving", "panicked"} => core = Host
    /\ pc \in {"switched", "guest", "exited"} => saved = Host
    /\ pc \in {"switched", "exited"} /\ reg \notin Gprs \cup Vmloaded => core = Host
GuestValue ==
  /\ pc = "guest" => core \in Values
  /\ pc \in {"switched", "exited"} /\ reg \in Gprs \cup Vmloaded => core \in Values

(* A run is on the core that run noted, and SVM is on there. *)
Place ==
  /\ svm_enabled \subseteq Cores
  /\ pc \in Running => here = last_core /\ here \in Cores

TypeInv == SvmTypes /\ HostValue /\ GuestValue /\ Place

(* A clean bit is set only if what the last core keeps is what is in memory. *)
CleanInv ==
  reg \in Kept =>
    /\ clean => last_core \in fresh
    /\ pc \in {"exited", "leaving"} /\ exit # "panic" => here \in fresh

(* While a run switches to the guest, every copy of a register is the guest's, and the
   event is at one place. *)
CopiesAgree ==
  /\ pc \in {"entering", "switched"} /\ reg \in Copied => vmcb = guest_registers
  /\ pc = "switched" /\ reg \in Gprs => core = guest_registers
  /\ pc = "switched" /\ reg \in Vmloaded => core = vmcb
  /\ pc = "guest" => event_injection = Nothing

StateInv == TypeInv /\ CleanInv /\ CopiesAgree

(* What the guest's translations are made from, as the machine has it. *)
Backing == IF reg = "Page" THEN npt ELSE vmcb

Tagged(c) == tlb[c] # Nothing /\ tlb[c].asid = asid

(* The core of the last run keeps current translations, unless it is told to flush; of
   the others nothing is said. *)
TlbInv ==
  /\ tlb = [c \in Cores |-> tlb[c]]
  /\ \A c \in Cores : tlb[c] # Nothing => reg \in Translating
  /\ pc \in {"entering", "switched"} /\ invalidated_tlb => tlb_control
  /\ /\ pc \in {"stopped", "entering", "switched"} /\ last_core \in Cores
     /\ Tagged(last_core) /\ ~tlb_control /\ ~invalidated_tlb
     => tlb[last_core].seen = Backing /\ Backing # Nothing
  /\ pc = "guest" /\ Tagged(here) => tlb[here].seen = Walked /\ Walked # Nothing
  /\ pc \in {"exited", "leaving"} /\ exit # "panic" /\ Tagged(here) =>
       tlb[here].seen = Backing /\ Backing # Nothing

-----------------------------------------------------------------------------
(* Asid::new takes one of the free ASIDs. *)
LEMMA LowestIsFree ==
  ASSUME FreeAsids # {}
  PROVE  Min(FreeAsids) \in FreeAsids
<1>1. FreeAsids \subseteq Nat
  BY SvmAssumption DEF FreeAsids
<1>2. PICK x \in FreeAsids : \A y \in FreeAsids : <<y, x>> \notin OpToRel(<, Nat)
  BY <1>1, WFMin, NatLessThanWellFounded
<1>3. \A y \in FreeAsids : x <= y
  <2>1. ASSUME NEW y \in FreeAsids, y < x PROVE FALSE
    BY <1>1, <1>2, <2>1 DEF OpToRel
  <2> QED
    BY <1>1, <2>1
<1> QED
  BY <1>1, <1>3 DEF Min

-----------------------------------------------------------------------------
(* The steps of its owner, and of a run. *)
OwnerStep ==
  \/ Configure(flush_tlb)
  \/ \E r \in Cached \cup ControlRegs \cup MsrRegs :
       \E x \in IF r = reg THEN Values ELSE {Zero} : Configure(set_reg(r, x))
  \/ \E x \in Values :
       \/ \E s \in Segments : Configure(set_segment_reg(s, x))
       \/ \E t \in Tables : Configure(set_table_reg(t, x))
       \/ Configure(intercept(x)) \/ Configure(set_tsc_offset(x))
       \/ \E e \in Events : Configure(inject_event(e, x))
  \/ \E f \in Frames \cup {Nothing} : Configure(npt_map_raw(f))

RunStep ==
  \/ \E c \in Cores : run(c)
  \/ run_refused \/ switch_in \/ vmrun \/ vmrun_invalid
  \/ vmexit \/ switch_out \/ run_panic \/ run_end
  \/ \E x \in Values : Guest(guest_writes(x))
  \/ Guest(guest_walks) \/ Guest(guest_takes_event)

LEMMA Steps == Next => (\E c \in Cores : new(c)) \/ drop \/ Others \/ OwnerStep \/ RunStep
  BY SvmAssumption DEF Next, OwnerStep, RunStep

LEMMA OwnerStays ==
  OwnerStep => /\ pc = "stopped"
               /\ UNCHANGED <<reg, asid, bitmap, last_core, core, saved, delivering, tlb, exit_int_info, exit, pc, here>>
  BY DEF OwnerStep, Configure, place

-----------------------------------------------------------------------------
(* The types, and where the host's register is, at the start, *)
LEMMA TypeInvInit == Init => TypeInv
  BY SvmAssumption
  DEF Init, TypeInv, SvmTypes, HostValue, GuestValue, Place, Running

(* while machines come and go, *)
LEMMA LifeKeepsTypes ==
  ASSUME TypeInv, (\E c \in Cores : new(c)) \/ drop \/ Others
  PROVE  TypeInv'
<1> USE SvmAssumption DEF TypeInv, SvmTypes, HostValue, GuestValue, Place, Running, settings, processor
<1>1. ASSUME NEW c \in Cores, new(c) PROVE TypeInv'
  <2>1. CASE AsidFree
    <3>1. Min(FreeAsids) \in FreeAsids /\ Min(FreeAsids) < NrAsids
      BY <2>1, LowestIsFree DEF AsidFree
    <3>2. Min(FreeAsids) \in 1 .. MaxVms /\ Min(FreeAsids) \in Asids /\ Min(FreeAsids) # 0
      BY <3>1 DEF FreeAsids, Asids
    <3> QED
      BY <1>1, <2>1, <3>2 DEF new, take_asid, enable_svm, initialize
  <2>2. CASE ~AsidFree
    BY <1>1, <2>2 DEF new, take_asid, enable_svm
  <2> QED
    BY <2>1, <2>2
<1>2. CASE drop
  BY <1>2 DEF drop, Asids
<1>3. CASE Others
  <2>1. take_asid => bitmap \subseteq bitmap' /\ bitmap' \subseteq 1 .. MaxVms
    BY LowestIsFree DEF take_asid, AsidFree, FreeAsids
  <2>2. bitmap' \subseteq 1 .. MaxVms /\ (asid \in bitmap => asid \in bitmap')
    BY <1>3, <2>1 DEF Others
  <2> QED
    BY <1>3, <2>2 DEF Others, Asids
<1> QED
  BY <1>1, <1>2, <1>3

(* while its owner configures the machine, *)
LEMMA ConfigureKeepsTypes ==
  ASSUME TypeInv, Configure(TRUE),
         guest_registers' \in Values, vmcb' \in Values, {clean', tlb_control', invalidated_tlb'} \subseteq BOOLEAN,
         event_injection' \in EncodedEvents \cup {Nothing}, npt' \in Frames \cup {Nothing}, fresh' \subseteq Cores
  PROVE  TypeInv'
  BY DEF Configure, TypeInv, SvmTypes, HostValue, GuestValue, Place, Running, place

LEMMA OwnerKeepsTypes ==
  ASSUME TypeInv, OwnerStep
  PROVE  TypeInv'
<1> DEFINE Step == /\ guest_registers' \in Values /\ vmcb' \in Values
                   /\ {clean', tlb_control', invalidated_tlb'} \subseteq BOOLEAN
                   /\ event_injection' \in EncodedEvents \cup {Nothing} /\ npt' \in Frames \cup {Nothing}
                   /\ fresh' \subseteq Cores
<1>1. /\ guest_registers \in Values /\ vmcb \in Values
      /\ {clean, tlb_control, invalidated_tlb} \subseteq BOOLEAN
      /\ event_injection \in EncodedEvents \cup {Nothing} /\ npt \in Frames \cup {Nothing}
      /\ fresh \subseteq Cores /\ Zero \in Values
  BY SvmAssumption DEF TypeInv, SvmTypes
<1>2. ASSUME NEW R, NEW x \in Values, assign(R, x) PROVE vmcb' \in Values /\ fresh' \subseteq Cores
  BY <1>1, <1>2 DEF assign
<1>3. ASSUME NEW bit, vmcb_dirty(bit) PROVE clean' \in BOOLEAN
  BY <1>3 DEF vmcb_dirty
<1>4. ASSUME Configure(flush_tlb) PROVE TypeInv'
  <2>1. Step
    BY <1>1, <1>4 DEF Configure, flush_tlb
  <2> QED
    BY <1>4, <2>1, ConfigureKeepsTypes DEF Configure
<1>5. ASSUME NEW r, NEW x \in Values, Configure(set_reg(r, x)) PROVE TypeInv'
  <2>1. CASE r \in Cached
    BY <1>1, <1>5, <2>1, ConfigureKeepsTypes DEF Configure, set_reg
  <2>2. CASE r \notin Cached
    <3>1. assign({r}, x) /\ vmcb_dirty(CleanBit(r)) /\ tlb_control' \in BOOLEAN
      BY <1>1, <1>5, <2>2 DEF Configure, set_reg
    <3> QED
      BY <1>1, <1>2, <1>3, <1>5, <2>2, <3>1, ConfigureKeepsTypes DEF Configure, set_reg
  <2> QED
    BY <2>1, <2>2
<1>6. ASSUME NEW x \in Values, NEW s, Configure(set_segment_reg(s, x)) PROVE TypeInv'
  BY <1>1, <1>2, <1>3, <1>6, ConfigureKeepsTypes DEF Configure, set_segment_reg
<1>7. ASSUME NEW x \in Values, NEW t, Configure(set_table_reg(t, x)) PROVE TypeInv'
  BY <1>1, <1>2, <1>3, <1>7, ConfigureKeepsTypes DEF Configure, set_table_reg
<1>8. ASSUME NEW x \in Values, Configure(intercept(x)) PROVE TypeInv'
  BY <1>1, <1>2, <1>3, <1>8, ConfigureKeepsTypes DEF Configure, intercept
<1>9. ASSUME NEW x \in Values, Configure(set_tsc_offset(x)) PROVE TypeInv'
  BY <1>1, <1>2, <1>3, <1>9, ConfigureKeepsTypes DEF Configure, set_tsc_offset
<1>10. ASSUME NEW x \in Values, NEW e \in Events, Configure(inject_event(e, x)) PROVE TypeInv'
  <2>1. vmcb' \in Values /\ fresh' \subseteq Cores /\ clean' \in BOOLEAN
    BY <1>1, <1>2, <1>3, <1>10 DEF Configure, inject_event
  <2>2. event_injection' \in EncodedEvents
    BY <1>10 DEF Configure, inject_event, EncodedEvents
  <2> QED
    BY <1>1, <1>10, <2>1, <2>2, ConfigureKeepsTypes DEF Configure, inject_event
<1>11. ASSUME NEW f \in Frames \cup {Nothing}, Configure(npt_map_raw(f)) PROVE TypeInv'
  <2>1. npt' \in Frames \cup {Nothing} /\ invalidated_tlb' \in BOOLEAN
    BY <1>1, <1>11 DEF Configure, npt_map_raw
  <2> QED
    BY <1>1, <1>11, <2>1, ConfigureKeepsTypes DEF Configure, npt_map_raw
<1> QED
  BY <1>1, <1>4, <1>5, <1>6, <1>7, <1>8, <1>9, <1>10, <1>11 DEF OwnerStep

(* and while it runs. *)
LEMMA RunKeepsTypes ==
  ASSUME TypeInv, RunStep
  PROVE  TypeInv'
<1> USE SvmAssumption DEF TypeInv, SvmTypes, HostValue, GuestValue, Place, Running, settings, processor, place
<1>0. /\ Gprs \cap Vmloaded = {} /\ (Gprs \cup Vmloaded) \cap NotReloaded = {} /\ Vmloaded \cap Clobbered = {}
  BY DEF Gprs, Vmloaded, MsrRegs, NotReloaded, Clobbered
<1>1. ASSUME NEW c \in Cores, run(c) PROVE TypeInv'
  BY <1>1 DEF run, run_begin, enable_svm, assign
<1>2. CASE switch_in
  BY <1>0, <1>2 DEF switch_in
<1>3. CASE vmrun
  BY <1>0, <1>3 DEF vmrun
<1>4. CASE vmexit
  BY <1>0, <1>4 DEF vmexit
<1>5. CASE switch_out
  BY <1>0, <1>5 DEF switch_out
<1>6. CASE run_end
  BY <1>6 DEF run_end
<1>10. CASE run_refused \/ run_panic
  BY <1>10 DEF run_refused, run_panic
<1>11. CASE vmrun_invalid
  BY <1>0, <1>11 DEF vmrun_invalid
<1>7. ASSUME NEW x \in Values, Guest(guest_writes(x)) PROVE TypeInv'
  BY <1>7 DEF Guest, guest_writes
<1>8. CASE Guest(guest_walks)
  BY <1>8 DEF Guest, guest_walks
<1>9. CASE Guest(guest_takes_event)
  BY <1>9 DEF Guest, guest_takes_event
<1> QED
  BY <1>1, <1>2, <1>3, <1>4, <1>5, <1>6, <1>7, <1>8, <1>9, <1>10, <1>11 DEF RunStep

LEMMA TypeInvStep == TypeInv /\ [Next]_vars => TypeInv'
<1> SUFFICES ASSUME TypeInv, [Next]_vars PROVE TypeInv'
  OBVIOUS
<1>1. CASE UNCHANGED vars
  BY <1>1 DEF TypeInv, SvmTypes, HostValue, GuestValue, Place, Running, vars, place, settings, processor
<1>2. CASE Next
  BY <1>2, Steps, LifeKeepsTypes, OwnerKeepsTypes, RunKeepsTypes
<1> QED
  BY <1>1, <1>2

-----------------------------------------------------------------------------
(* run's match on the exit code (mod.rs:982-1156). *)
LEMMA DecodedCodes ==
  \A k \in Int : k \in Decoded <=>
    \/ k \in 0 .. 65 \/ k \in 67 .. 72 \/ k \in 74 .. 78 \/ k \in 80 .. 83 \/ k \in 96 .. 100 \/ k \in 102 .. 124
    \/ k \in {126, 127, 141, 142, 162, 163, 1024} \/ k \in 128 .. 139
  BY DEF Decoded

LEMMA CodesDecoded ==
  AlwaysOn \cup Intercepts \subseteq Decoded /\ Refusals \cap Decoded = {}
<1>1. ASSUME NEW k \in AlwaysOn PROVE k \in Decoded
  BY <1>1, DecodedCodes DEF AlwaysOn, Codes
<1>2. ASSUME NEW k \in Intercepts PROVE k \in Decoded
  BY <1>2, DecodedCodes DEF Intercepts, Codes
<1>3. ASSUME NEW k \in Refusals PROVE k \notin Decoded
  BY <1>3, DecodedCodes DEF Refusals
<1> QED
  BY <1>1, <1>2, <1>3

LEMMA Exits ==
  /\ DefaultExits \subseteq {"exit"} /\ AllExits \subseteq {"exit"}
  /\ {decode(k) : k \in Refusals} = {"panic"}
<1>1. DefaultExits \subseteq {"exit"} /\ AllExits \subseteq {"exit"}
  BY CodesDecoded DEF DefaultExits, AllExits, decode
<1>2. \A k \in Refusals : decode(k) = "panic"
  BY CodesDecoded DEF decode
<1>3. -1 \in Refusals
  BY DEF Refusals
<1> QED
  BY <1>1, <1>2, <1>3

LEMMA RefusalPanics == vmrun_invalid => exit' = "panic" /\ pc' = "exited" /\ pc = "switched"
  BY Exits DEF vmrun_invalid

-----------------------------------------------------------------------------
(* The clean bits. Those that the code gives up when it changes a register (vmcb_dirty in  *)
(* set_reg, set_segment_reg, set_table_reg, intercept and set_tsc_offset, mod.rs) are those *)
(* under which the processor keeps it.                                                     *)
LEMMA KeptRegisters ==
  Kept = {"Efer", "Cr0", "Cr3", "Cr4", "Cr2", "Dr6", "Dr7", "Pat", "Es", "Cs", "Ss", "Ds", "Cpl", "Idt", "Gdt",
          "Intercepts", "TscOffset"}
  BY DEF Kept, KeptUnder, Tables

LEMMA CleanBitsGivenUp ==
  \A r \in ControlRegs \cup MsrRegs \cup Segments \cup Tables \cup {"Intercepts", "TscOffset"} :
    r \in Kept => CleanBit(r) # Nothing /\ r \in KeptUnder[CleanBit(r)]
  BY CleanBitAssumption, KeptRegisters DEF ControlRegs, MsrRegs, Segments, Tables, CleanBit, KeptUnder

LEMMA NotKept == Kept \cap (Cached \cup Vmloaded \cup {"Page"}) = {} /\ Flushing \subseteq Kept
  BY KeptRegisters DEF Cached, Copied, Gprs, Vmloaded, MsrRegs, Flushing

LEMMA StateInvInit == Init => StateInv
<1>1. Init => CleanInv /\ CopiesAgree
  BY DEF Init, CleanInv, CopiesAgree
<1> QED
  BY <1>1, TypeInvInit DEF StateInv

LEMMA LifeKeepsState ==
  ASSUME StateInv, (\E c \in Cores : new(c)) \/ drop \/ Others
  PROVE  CleanInv' /\ CopiesAgree'
<1> USE DEF StateInv, TypeInv, SvmTypes, CleanInv, CopiesAgree, settings, processor
<1>1. ASSUME NEW c \in Cores, new(c) PROVE CleanInv' /\ CopiesAgree'
  BY <1>1 DEF new, initialize
<1>2. CASE drop
  BY <1>2 DEF drop
<1>3. CASE Others
  BY <1>3 DEF Others
<1> QED
  BY <1>1, <1>2, <1>3

(* What a core keeps is old once memory is assigned, and then the clean bit is given up. *)
LEMMA AssignedIsDirty ==
  ASSUME CleanInv, UNCHANGED <<reg, last_core, pc, here>>, pc = "stopped", clean \in BOOLEAN,
         NEW R, NEW bit, NEW x, assign(R, x), vmcb_dirty(bit),
         reg \in R \cap Kept => bit # Nothing /\ reg \in KeptUnder[bit]
  PROVE  CleanInv'
<1>1. CASE reg \in R \cap Kept
  <2>1. clean' = FALSE
    BY <1>1 DEF vmcb_dirty
  <2> QED
    BY <2>1 DEF CleanInv
<1>2. CASE reg \notin R
  <2>1. fresh' = fresh /\ (clean' => clean)
    BY <1>2 DEF assign, vmcb_dirty
  <2> QED
    BY <2>1 DEF CleanInv
<1>3. CASE reg \notin Kept
  BY <1>3 DEF CleanInv
<1> QED
  BY <1>1, <1>2, <1>3

LEMMA OwnerKeepsState ==
  ASSUME StateInv, OwnerStep
  PROVE  CleanInv' /\ CopiesAgree'
<1>1. pc = "stopped" /\ UNCHANGED <<reg, asid, last_core, core, tlb, pc, here>>
  BY DEF OwnerStep, Configure, place
<1>2. CopiesAgree'
  BY <1>1 DEF CopiesAgree
<1>3. CleanInv /\ clean \in BOOLEAN
  BY DEF StateInv, TypeInv, SvmTypes
<1>4. ASSUME UNCHANGED <<clean, fresh>> PROVE CleanInv'
  BY <1>1, <1>3, <1>4 DEF CleanInv
<1>5. ASSUME NEW r \in Cached \cup ControlRegs \cup MsrRegs, NEW x, Configure(set_reg(r, x)) PROVE CleanInv'
  <2>1. CASE r \in Cached
    BY <1>4, <1>5, <2>1 DEF Configure, set_reg
  <2>2. CASE r \notin Cached
    <3>1. assign({r}, x) /\ vmcb_dirty(CleanBit(r))
      BY <1>5, <2>2 DEF Configure, set_reg
    <3>2. reg \in {r} \cap Kept => CleanBit(r) # Nothing /\ reg \in KeptUnder[CleanBit(r)]
      BY <2>2, CleanBitsGivenUp
    <3> QED
      BY <1>1, <1>3, <3>1, <3>2, AssignedIsDirty
  <2> QED
    BY <2>1, <2>2
<1>6. ASSUME NEW x, NEW s \in Segments, Configure(set_segment_reg(s, x)) PROVE CleanInv'
  <2> DEFINE R == {s} \cup (IF s = "Cs" THEN {"Cpl"} ELSE {})
  <2>1. assign(R, x) /\ vmcb_dirty(CleanBit(s))
    BY <1>6 DEF Configure, set_segment_reg
  <2>2. reg \in R \cap Kept => CleanBit(s) # Nothing /\ reg \in KeptUnder[CleanBit(s)]
    <3>0. CleanBit("Cs") = "SEG"
      BY DEF CleanBit, Segments, Tables, ControlRegs
    <3>1. "Cpl" \in KeptUnder[CleanBit("Cs")]
      BY <3>0 DEF KeptUnder
    <3>2. CleanBit("Cs") # Nothing
      BY CleanBitsGivenUp, KeptRegisters DEF Segments
    <3> QED
      BY <3>1, <3>2, CleanBitsGivenUp
  <2> HIDE DEF R
  <2> QED
    BY <1>1, <1>3, <2>1, <2>2, AssignedIsDirty
<1>7. ASSUME NEW x, NEW t \in Tables, Configure(set_table_reg(t, x)) PROVE CleanInv'
  <2>1. assign({t}, x) /\ vmcb_dirty(CleanBit(t))
    BY <1>7 DEF Configure, set_table_reg
  <2> QED
    BY <1>1, <1>3, <2>1, AssignedIsDirty, CleanBitsGivenUp
<1>8. ASSUME NEW x, NEW r \in {"Intercepts", "TscOffset"}, assign({r}, x), vmcb_dirty(CleanBit(r)) PROVE CleanInv'
  BY <1>1, <1>3, <1>8, AssignedIsDirty, CleanBitsGivenUp
<1>9. ASSUME NEW x, NEW e, Configure(inject_event(e, x)) PROVE CleanInv'
  <2>1. UNCHANGED <<clean, fresh>> \/ (assign({"Cr2"}, x) /\ vmcb_dirty(CleanBit("Cr2")))
    BY <1>9 DEF Configure, inject_event
  <2> QED
    BY <1>1, <1>3, <1>4, <2>1, AssignedIsDirty, CleanBitsGivenUp DEF ControlRegs
<1>10. ASSUME NEW f, Configure(npt_map_raw(f)) PROVE CleanInv'
  BY <1>4, <1>10 DEF Configure, npt_map_raw
<1>11. ASSUME Configure(flush_tlb) PROVE CleanInv'
  BY <1>4, <1>11 DEF Configure, flush_tlb
<1> QED
  BY <1>2, <1>5, <1>6, <1>7, <1>8, <1>9, <1>10, <1>11 DEF OwnerStep, Configure, intercept, set_tsc_offset

LEMMA RunKeepsState ==
  ASSUME StateInv, RunStep
  PROVE  CleanInv' /\ CopiesAgree'
<1> USE NotKept DEF StateInv, TypeInv, SvmTypes, Place, Running, CleanInv, CopiesAgree, settings, processor, place
<1>1. ASSUME NEW c \in Cores, run(c) PROVE CleanInv' /\ CopiesAgree'
  <2>1. /\ pc = "stopped" /\ pc' \in {"entering", "panicked"} /\ UNCHANGED <<reg, guest_registers>>
        /\ clean' = (clean /\ c = last_core) /\ last_core' = c /\ assign(Copied, guest_registers)
    BY <1>1 DEF run, run_begin
  <2>2. reg \in Copied => vmcb' = guest_registers'
    BY <2>1 DEF assign
  <2>3. reg \in Kept => fresh' = fresh
    BY <2>1 DEF assign, Cached
  <2>4. clean' => clean /\ last_core' = last_core
    BY <2>1
  <2> QED
    BY <2>1, <2>2, <2>3, <2>4
<1>2. CASE switch_in
  <2>1. reg \in Vmloaded => reg \notin Gprs
    BY DEF Vmloaded, MsrRegs, Gprs
  <2> QED
    BY <1>2, <2>1 DEF switch_in
<1>3. CASE vmrun
  BY <1>3 DEF vmrun
<1>4. CASE vmexit
  BY <1>4 DEF vmexit
<1>5. CASE switch_out
  BY <1>5 DEF switch_out
<1>6. CASE run_end
  BY <1>6 DEF run_end
<1>7. ASSUME NEW step, Guest(step) PROVE CleanInv' /\ CopiesAgree'
  BY <1>7 DEF Guest
<1>8. CASE run_refused \/ run_panic
  <2>1. pc' = "panicked" /\ UNCHANGED <<reg, clean, last_core, fresh, here>>
    BY <1>8 DEF run_refused, run_panic
  <2> QED
    BY <2>1
<1>9. CASE vmrun_invalid
  <2>1. exit' = "panic" /\ pc' = "exited" /\ pc = "switched"
    BY <1>9, RefusalPanics
  <2>2. UNCHANGED <<reg, clean, last_core, fresh, here, event_injection>>
    BY <1>9 DEF vmrun_invalid
  <2> QED
    BY <2>1, <2>2
<1> QED
  BY <1>1, <1>2, <1>3, <1>4, <1>5, <1>6, <1>7, <1>8, <1>9 DEF RunStep

LEMMA StateInvStep == StateInv /\ [Next]_vars => StateInv'
<1> SUFFICES ASSUME StateInv, [Next]_vars PROVE StateInv'
  OBVIOUS
<1>1. TypeInv'
  BY TypeInvStep DEF StateInv
<1>2. CASE UNCHANGED vars
  BY <1>1, <1>2 DEF StateInv, CleanInv, CopiesAgree, vars, place, settings, processor
<1>3. CASE Next
  BY <1>1, <1>3, Steps, LifeKeepsState, OwnerKeepsState, RunKeepsState DEF StateInv
<1> QED
  BY <1>2, <1>3

-----------------------------------------------------------------------------
(* What the cores keep of translations.                                               *)
LEMMA FlushingRegisters ==
  /\ Flushing \cap (Cached \cup Vmloaded \cup Segments \cup Tables \cup {"Cpl", "Cr2", "Intercepts", "TscOffset", "Page"}) = {}
  /\ Flushing \subseteq Kept
  BY NotKept DEF Flushing, Cached, Copied, Gprs, Vmloaded, MsrRegs, Segments, Tables

CacheInv == StateInv /\ TlbInv

LEMMA CacheInvInit == Init => CacheInv
<1> SUFFICES ASSUME Init PROVE CacheInv
  OBVIOUS
<1>1. TlbInv
  BY SvmAssumption DEF Init, TlbInv, Tagged
<1> QED
  BY <1>1, StateInvInit DEF CacheInv

LEMMA LifeKeepsCache ==
  ASSUME CacheInv, StateInv', (\E c \in Cores : new(c)) \/ drop \/ Others
  PROVE  TlbInv'
<1> USE SvmAssumption DEF CacheInv, StateInv, TypeInv, SvmTypes, Place, Running, CleanInv, TlbInv, Tagged, Backing, settings, processor
<1>1. ASSUME NEW c \in Cores, new(c) PROVE TlbInv'
  BY <1>1 DEF new, initialize
<1>2. CASE drop
  BY <1>2 DEF drop
<1>3. CASE Others
  <2>1. CASE UNCHANGED tlb
    BY <1>3, <2>1 DEF Others, Walked
  <2>2. ASSUME NEW c \in Cores \ {here}, NEW a \in bitmap \ {asid}, reg \in Translating,
               tlb' = [tlb EXCEPT ![c] = [asid |-> a, seen |-> Host]]
        PROVE  TlbInv'
    <3>1. tlb'[c] = [asid |-> a, seen |-> Host] /\ \A d \in Cores \ {c} : tlb'[d] = tlb[d]
      BY <2>2
    <3>2. asid' = asid /\ tlb'[c].asid # asid
      BY <1>3, <2>2, <3>1 DEF Others
    <3>3. tlb' = [d \in Cores |-> tlb'[d]]
      BY <2>2
    <3>4. \A d \in Cores : Tagged(d)' => d # c /\ Tagged(d) /\ tlb'[d] = tlb[d]
      BY <3>1, <3>2
    <3> QED
      BY <1>3, <2>2, <3>3, <3>4 DEF Others, Walked
  <2> QED
    BY <1>3, <2>1, <2>2 DEF Others
<1> QED
  BY <1>1, <1>2, <1>3

(* A change of such a register that the cores or the translations depend on is flagged. *)
LEMMA OwnerKeepsCache ==
  ASSUME CacheInv, StateInv', OwnerStep
  PROVE  TlbInv'
<1> DEFINE Quiet == /\ reg \in Flushing => UNCHANGED vmcb
                    /\ UNCHANGED <<npt, invalidated_tlb>> /\ (tlb_control => tlb_control')
<1>1. pc = "stopped" /\ UNCHANGED <<reg, asid, last_core, core, tlb, pc, here>>
  BY OwnerStays
<1>2. ASSUME Quiet PROVE TlbInv'
  BY <1>1, <1>2 DEF CacheInv, StateInv, TypeInv, SvmTypes, CleanInv, TlbInv, Tagged, Backing, Walked, Translating
<1>4. ASSUME NEW R, NEW x, R \cap Flushing = {}, assign(R, x) PROVE reg \in Flushing => UNCHANGED vmcb
  BY <1>4 DEF assign
<1>5. ASSUME Configure(flush_tlb) PROVE TlbInv'
  BY <1>2, <1>5 DEF Configure, flush_tlb
<1>6. ASSUME NEW r, NEW x, Configure(set_reg(r, x)) PROVE TlbInv'
  <2>1. CASE r \in Cached
    BY <1>2, <1>6, <2>1 DEF Configure, set_reg
  <2>2. CASE r \notin Cached
    <3>1. /\ assign({r}, x) /\ vmcb_dirty(CleanBit(r)) /\ UNCHANGED <<npt, invalidated_tlb>>
          /\ tlb_control' \in {tlb_control \/ (r \in Flushing /\ changed) :
                                 changed \in IF r = reg THEN {x # vmcb} ELSE BOOLEAN}
      BY <1>6, <2>2 DEF Configure, set_reg
    <3>2. tlb_control => tlb_control'
      BY <3>1
    <3>3. CASE r # reg \/ r \notin Flushing
      <4>1. reg \in Flushing => UNCHANGED vmcb
        BY <3>1, <3>3 DEF assign
      <4> QED
        BY <1>2, <3>1, <3>2, <4>1
    <3>4. CASE r = reg /\ r \in Flushing
      <4>1. CASE x = vmcb
        <5>1. UNCHANGED vmcb
          BY <3>1, <4>1 DEF assign
        <5> QED
          BY <1>2, <3>1, <3>2, <5>1
      <4>2. CASE x # vmcb
        <5>1. tlb_control' = TRUE
          BY <3>1, <3>4, <4>2
        <5> QED
          BY <1>1, <5>1 DEF CacheInv, TlbInv, Tagged
      <4> QED
        BY <4>1, <4>2
    <3> QED
      BY <3>3, <3>4
  <2> QED
    BY <2>1, <2>2
<1>7. ASSUME NEW x, NEW s \in Segments, Configure(set_segment_reg(s, x)) PROVE TlbInv'
  <2>1. ({s} \cup (IF s = "Cs" THEN {"Cpl"} ELSE {})) \cap Flushing = {}
    BY FlushingRegisters
  <2> QED
    BY <1>2, <1>4, <1>7, <2>1 DEF Configure, set_segment_reg
<1>8. ASSUME NEW x, NEW t \in Tables, Configure(set_table_reg(t, x)) PROVE TlbInv'
  <2>1. {t} \cap Flushing = {}
    BY FlushingRegisters
  <2> QED
    BY <1>2, <1>4, <1>8, <2>1 DEF Configure, set_table_reg
<1>9. ASSUME NEW x, Configure(intercept(x)) PROVE TlbInv'
  <2>1. {"Intercepts"} \cap Flushing = {}
    BY FlushingRegisters
  <2> QED
    BY <1>2, <1>4, <1>9, <2>1 DEF Configure, intercept
<1>10. ASSUME NEW x, Configure(set_tsc_offset(x)) PROVE TlbInv'
  <2>1. {"TscOffset"} \cap Flushing = {}
    BY FlushingRegisters
  <2> QED
    BY <1>2, <1>4, <1>10, <2>1 DEF Configure, set_tsc_offset
<1>11. ASSUME NEW x, NEW e, Configure(inject_event(e, x)) PROVE TlbInv'
  <2>1. {"Cr2"} \cap Flushing = {}
    BY FlushingRegisters
  <2>2. reg \in Flushing => UNCHANGED vmcb
    BY <1>4, <1>11, <2>1 DEF Configure, inject_event
  <2> QED
    BY <1>2, <1>11, <2>2 DEF Configure, inject_event
<1>12. ASSUME NEW f, Configure(npt_map_raw(f)) PROVE TlbInv'
  <2>1. UNCHANGED <<vmcb, clean, fresh, tlb_control>>
    BY <1>12 DEF Configure, npt_map_raw
  <2>2. CASE reg # "Page"
    <3>1. UNCHANGED npt /\ (invalidated_tlb => invalidated_tlb')
      BY <1>12, <2>2 DEF Configure, npt_map_raw
    <3> QED
      BY <1>1, <2>1, <2>2, <3>1 DEF CacheInv, TlbInv, Tagged, Backing
  <2>3. CASE reg = "Page"
    <3>1. invalidated_tlb' = (invalidated_tlb \/ npt # Nothing)
      BY <1>12, <2>3 DEF Configure, npt_map_raw
    <3> QED
      BY <1>1, <2>1, <2>3, <3>1, FlushingRegisters DEF CacheInv, TlbInv, Tagged, Backing
  <2> QED
    BY <2>2, <2>3
<1> QED
  BY <1>5, <1>6, <1>7, <1>8, <1>9, <1>10, <1>11, <1>12 DEF OwnerStep

(* A run flushes what it must, and the guest's own steps keep its translations current. *)
LEMMA RunKeepsCache ==
  ASSUME FirstFlush, MoveFlush, CacheInv, StateInv', RunStep
  PROVE  TlbInv'
<1> USE SvmAssumption
    DEF CacheInv, StateInv, TypeInv, SvmTypes, Place, Running, CleanInv, TlbInv, Tagged, Backing, Walked,
        settings, processor, place
<1>0. reg \in Flushing => reg \notin Copied \cup Gprs \cup Vmloaded /\ reg # "Page"
  BY FlushingRegisters DEF Cached
<1>01. "Page" \notin Copied \cup Gprs \cup Vmloaded \cup Flushing
  BY DEF Copied, Gprs, Vmloaded, MsrRegs, Flushing
<1>1. ASSUME NEW c \in Cores, run(c) PROVE TlbInv'
  <2>1. reg \in Translating => UNCHANGED vmcb
    BY <1>0, <1>01, <1>1 DEF run, run_begin, assign, Translating
  <2>2. c # last_core => tlb_control
    BY <1>1 DEF run, FlushDue
  <2>3. tlb_control' = (tlb_control \/ invalidated_tlb) /\ last_core' = c /\ clean' = (clean /\ c = last_core)
    BY <1>1 DEF run, run_begin
  <2>4. pc = "stopped" /\ pc' \in {"entering", "panicked"} /\ UNCHANGED <<reg, asid, tlb, npt, invalidated_tlb>>
    BY <1>1 DEF run, run_begin
  <2> QED
    BY <2>1, <2>2, <2>3, <2>4 DEF Translating
<1>2. CASE switch_in
  BY <1>2 DEF switch_in
<1>3. CASE vmrun
  <2>1. /\ pc = "switched" /\ pc' = "guest"
        /\ UNCHANGED <<reg, asid, vmcb, clean, last_core, npt, here, fresh, tlb_control, invalidated_tlb>>
    BY <1>3 DEF vmrun
  <2>2. reg \in Flushing => core' = vmcb
    BY <1>0, <1>3 DEF vmrun
  <2>3. CASE tlb_control /\ Tagged(here)
    <3>1. tlb' = [tlb EXCEPT ![here] = Nothing]
      BY <1>3, <2>3 DEF vmrun
    <3> QED
      BY <2>1, <3>1
  <2>4. CASE ~(tlb_control /\ Tagged(here))
    <3>1. \A c \in Cores : tlb'[c] # Nothing => tlb'[c] = tlb[c]
      BY <1>3 DEF vmrun
    <3>2. tlb' = [c \in Cores |-> tlb'[c]]
      BY <1>3 DEF vmrun
    <3>3. Tagged(here)' => Tagged(here) /\ ~tlb_control /\ ~invalidated_tlb /\ tlb'[here] = tlb[here]
      BY <2>1, <2>4, <3>1
    <3> QED
      BY <2>1, <2>2, <3>1, <3>2, <3>3 DEF Translating
  <2> QED
    BY <2>3, <2>4
<1>4. CASE vmexit
  <2>1. reg \in Flushing => vmcb' = core
    BY <1>0, <1>4 DEF vmexit
  <2> QED
    BY <1>4, <2>1 DEF vmexit, Translating
<1>5. CASE switch_out
  <2>1. reg \in Translating => UNCHANGED vmcb
    BY <1>0, <1>01, <1>5 DEF switch_out, Translating
  <2> QED
    BY <1>5, <2>1 DEF switch_out, Translating
<1>6. CASE run_end
  BY <1>6 DEF run_end
<1>7. ASSUME NEW x \in Values, Guest(guest_writes(x)) PROVE TlbInv'
  <2>1. /\ pc = "guest" /\ reg # "Page" /\ core' = x
        /\ UNCHANGED <<reg, asid, vmcb, clean, last_core, npt, here, fresh, tlb_control, invalidated_tlb, pc>>
    BY <1>7 DEF Guest, guest_writes
  <2>2. CASE reg \in Flushing /\ x # core /\ Usable
    <3>1. tlb' = [tlb EXCEPT ![here] = Nothing]
      BY <1>7, <2>2 DEF Guest, guest_writes
    <3> QED
      BY <2>1, <3>1
  <2>3. CASE ~(reg \in Flushing /\ x # core /\ Usable)
    <3>1. UNCHANGED tlb
      BY <1>7, <2>3 DEF Guest, guest_writes
    <3> QED
      BY <2>1, <2>3, <3>1 DEF Usable, Translating
  <2> QED
    BY <2>2, <2>3
<1>8. CASE Guest(guest_walks)
  <2>1. /\ pc = "guest" /\ reg \in Translating /\ Walked # Nothing
        /\ tlb' = [tlb EXCEPT ![here] = [asid |-> asid, seen |-> Walked]]
        /\ UNCHANGED <<reg, asid, vmcb, clean, last_core, npt, here, core, fresh, tlb_control, invalidated_tlb, pc>>
    BY <1>8 DEF Guest, guest_walks
  <2>2. tlb'[here] = [asid |-> asid, seen |-> Walked] /\ tlb' = [c \in Cores |-> tlb'[c]]
    BY <2>1
  <2> QED
    BY <2>1, <2>2
<1>9. CASE Guest(guest_takes_event)
  BY <1>9 DEF Guest, guest_takes_event
<1>10. CASE run_refused \/ run_panic
  BY <1>10 DEF run_refused, run_panic
<1>11. CASE vmrun_invalid
  BY <1>11, Exits DEF vmrun_invalid
<1> QED
  BY <1>1, <1>2, <1>3, <1>4, <1>5, <1>6, <1>7, <1>8, <1>9, <1>10, <1>11 DEF RunStep

LEMMA CacheInvStep ==
  ASSUME FirstFlush, MoveFlush
  PROVE  CacheInv /\ [Next]_vars => CacheInv'
<1> SUFFICES ASSUME CacheInv, [Next]_vars PROVE CacheInv'
  OBVIOUS
<1>1. StateInv'
  BY StateInvStep DEF CacheInv
<1>2. CASE UNCHANGED vars
  <2>1. TlbInv'
    BY <1>2 DEF CacheInv, TlbInv, Tagged, Backing, Walked, vars, place, settings, processor
  <2> QED
    BY <1>1, <2>1 DEF CacheInv
<1>3. CASE Next
  <2>1. TlbInv'
    BY <1>1, <1>3, Steps, LifeKeepsCache, OwnerKeepsCache, RunKeepsCache
  <2> QED
    BY <1>1, <2>1 DEF CacheInv
<1> QED
  BY <1>2, <1>3

-----------------------------------------------------------------------------
(* After a run, in its caller and when run panics, the core has the host's value of every  *)
(* register that an exit, vmload and the stack bring back, for whatever the guest did to    *)
(* it (mod.rs:866-937), that is of all but those declared lost (mod.rs:940-958) and CR2, DR6 *)
(* and DR7.                                                                                  *)
THEOREM HostRegistersHold == Spec => []HostRegistersRestored
<1>1. TypeInv => HostRegistersRestored
  BY DEF TypeInv, HostValue, HostRegistersRestored
<1> QED
  BY <1>1, TypeInvInit, TypeInvStep, PTL DEF Spec

(* If the owner asks for a flush before the first run and before a run on another core,   *)
(* the flush after changes of the nested page table (mod.rs:766) and of the paging mode   *)
(* (mod.rs:1233) is enough: the guest never uses a translation that is gone.                *)
THEOREM TranslationsCurrent ==
  ASSUME FirstFlush, MoveFlush
  PROVE  Spec => []NoStaleTranslation
<1>1. CacheInv => NoStaleTranslation
  BY DEF CacheInv, StateInv, TypeInv, Place, Running, TlbInv, Tagged, NoStaleTranslation, Usable
<1> QED
  BY <1>1, CacheInvInit, CacheInvStep, PTL DEF Spec

-----------------------------------------------------------------------------
(* Whatever the owner intercepts, and also when the processor refuses the guest, run has   *)
(* an arm for the exit code and does not reach its unreachable! (mod.rs:982-1156).          *)
THEOREM ExitsDecoded == Spec => []EveryExitDecoded
<1>1. Init => EveryExitDecoded
  BY SvmAssumption DEF Init, EveryExitDecoded
<1>2. EveryExitDecoded /\ [Next]_vars => EveryExitDecoded'
  <2> SUFFICES ASSUME EveryExitDecoded, [Next]_vars, exit' # exit PROVE exit' # "unreachable"
    BY DEF EveryExitDecoded
  <2>1. CASE vmexit
    BY <2>1, Exits DEF vmexit
  <2>2. CASE vmrun_invalid
    BY <2>2, Exits DEF vmrun_invalid
  <2>3. ASSUME NEW c \in Cores, new(c) PROVE exit' # "unreachable"
    BY <2>3, SvmAssumption DEF new, initialize
  <2>4. ~OwnerStep
    BY OwnerStays
  <2>5. CASE RunStep
    BY <2>1, <2>2, <2>5 DEF RunStep, run, run_begin, run_refused, switch_in, vmrun, switch_out, run_panic, run_end, Guest
  <2> QED
    BY <2>3, <2>4, <2>5, Steps DEF drop, Others, vars
<1> QED
  BY <1>1, <1>2, PTL DEF Spec

(* A machine that exists has an ASID of the processor's that its bitmap marks as taken,   *)
(* a run is on a core whose SVM is on and comes back with an exit it has an arm for, for    *)
(* any number of cores, ASIDs and machines (Asid::new and Drop, utils.rs:167-211).          *)
THEOREM TypesHold == Spec => []SvmTypeOK
<1>1. TypeInv /\ EveryExitDecoded => SvmTypeOK
  BY DEF TypeInv, SvmTypeOK
<1> QED
  BY <1>1, TypeInvInit, TypeInvStep, ExitsDecoded, PTL DEF Spec

-----------------------------------------------------------------------------
(* What the caller of the machine sees of it: the refinement mapping of Machine. *)
Mode == CASE pc = "absent" -> "absent" [] pc = "stopped" -> "idle"
          [] pc \in {"entering", "switched"} -> "entering" [] pc = "guest" -> "running"
          [] pc \in {"exited", "leaving"} -> IF exit = "panic" THEN "refused" ELSE "leaving"
          [] OTHER -> "failed"
Value == IF pc = "guest" \/ (pc = "exited" /\ reg \in Gprs \cup Vmloaded) THEN core
         ELSE IF reg \in Gprs \/ (reg \in Copied /\ pc \notin {"exited", "leaving"})
              THEN guest_registers ELSE vmcb
Pending == Injected(IF pc = "guest" THEN delivering ELSE event_injection)
Reported == intercepted_delivery(exit_int_info)
Seen == <<Mode, Value, Pending, Reported>>

(* The event that a field was written with is the one intercepted_delivery finds in it. *)
LEMMA DeliveryDecoded ==
  /\ intercepted_delivery(Nothing) = Nothing /\ Injected(Nothing) = Nothing
  /\ \A e \in Events : Injected(Encoded[e]) = e
  /\ \A info \in EncodedEvents : Injected(info) # Nothing /\ intercepted_delivery(info) = Injected(info)
<1>1. \A e \in Events : Encoded[e].typ = CASE e = "intr" -> 0 [] e = "pf" -> 3 [] e = "soft" -> 4
  BY DEF Events, Encoded
<1>2. \A e \in Events : Encoded[e] # Nothing
  BY EventAssumption DEF EncodedEvents
<1>3. \A e, d \in Events : Encoded[e] = Encoded[d] => e = d
  BY <1>1 DEF Events
<1>4. \A e \in Events : Injected(Encoded[e]) = e
  BY <1>2, <1>3 DEF Injected
<1>5. \A e \in Events : intercepted_delivery(Encoded[e]) = e
  BY <1>1, <1>2 DEF intercepted_delivery, Events
<1>6. \A info \in EncodedEvents : \E e \in Events : info = Encoded[e]
  BY DEF EncodedEvents
<1> QED
  BY <1>4, <1>5, <1>6, EventAssumption DEF intercepted_delivery, Injected

LEMMA InitIsAbstract == Init => Machine!Init
  BY SvmAssumption, DeliveryDecoded DEF Init, Machine!Init

LEMMA ValueIsOne == StateInv' => Value' \in Values
  BY DEF StateInv, TypeInv, SvmTypes, GuestValue, Value

LEMMA LifeIsAbstract ==
  ASSUME StateInv, StateInv', (\E c \in Cores : new(c)) \/ drop \/ Others
  PROVE  [Machine!Next]_Seen
<1>1. ASSUME NEW c \in Cores, new(c) PROVE [Machine!Next]_Seen
  <2>1. CASE take_asid
    <3>1. /\ Mode = "absent" /\ Mode' = "idle" /\ Value' \in Values
          /\ Pending' = Nothing /\ Reported' = Nothing
      BY <1>1, <2>1, ValueIsOne, DeliveryDecoded DEF new, take_asid, initialize, Mode, Pending, Reported
    <3>2. Machine!Create
      BY <3>1 DEF Machine!Create, Machine!Becomes, Mode, Value, Pending, Reported
    <3> QED
      BY <3>2 DEF Machine!Next
  <2>2. CASE ~take_asid
    BY <1>1, <2>2 DEF new, Seen, Mode, Value, Pending, Reported, settings
  <2> QED
    BY <2>1, <2>2
<1>2. CASE drop
  <2>1. /\ Mode = "idle" /\ Mode' = "absent"
        /\ Value' = Value /\ Pending' = Pending /\ Reported' = Reported
    BY <1>2 DEF drop, settings, processor, Mode, Value, Pending, Reported
  <2>2. Machine!Drop
    BY <2>1 DEF Machine!Drop, Machine!Becomes, Mode, Value, Pending, Reported
  <2> QED
    BY <2>2 DEF Machine!Next
<1>3. CASE Others
  BY <1>3 DEF Others, settings, Seen, Mode, Value, Pending, Reported
<1> QED
  BY <1>1, <1>2, <1>3

(* Only a stopped machine is configured, and only with values and events that exist. *)
LEMMA OwnerIsAbstract ==
  ASSUME StateInv, StateInv', OwnerStep
  PROVE  [Machine!Next]_Seen
<1>1. /\ Mode = "idle" /\ Mode' = "idle" /\ Reported' = Reported
      /\ Pending = Injected(event_injection)
      /\ Pending' = Injected(event_injection') /\ Value' \in Values
  BY OwnerStays, ValueIsOne DEF Mode, Pending, Reported
<1>2. event_injection' = event_injection \/ \E e \in Events : event_injection' = Encoded[e]
  BY DEF OwnerStep, Configure, flush_tlb, set_reg, set_segment_reg, set_table_reg, intercept, set_tsc_offset,
     inject_event, npt_map_raw
<1>3. CASE event_injection' = event_injection
  <2>1. Machine!Set(Value')
    BY <1>1, <1>3 DEF Machine!Set, Mode, Value, Pending, Reported
  <2> QED
    BY <1>1, <2>1 DEF Machine!Next
<1>4. ASSUME NEW e \in Events, event_injection' = Encoded[e] PROVE [Machine!Next]_Seen
  <2>1. Pending' = e
    BY <1>1, <1>4, DeliveryDecoded
  <2>2. Machine!Inject(e, Value')
    BY <1>1, <2>1 DEF Machine!Inject, Mode, Value, Pending, Reported
  <2> QED
    BY <1>1, <2>2 DEF Machine!Next
<1> QED
  BY <1>2, <1>3, <1>4

(* run takes the register to the core and starts the guest, *)
LEMMA EntryIsAbstract ==
  ASSUME StateInv, StateInv', (\E c \in Cores : run(c)) \/ run_refused \/ switch_in \/ vmrun \/ vmrun_invalid
  PROVE  [Machine!Next]_Seen
<1> USE DEF settings, processor, place
<1>0. Gprs \cap Copied = {} /\ Gprs \cap Vmloaded = {} /\ Copied \cap Vmloaded = {}
  BY DEF Gprs, Copied, Vmloaded, MsrRegs
<1>1. ASSUME NEW c \in Cores, run(c) PROVE [Machine!Next]_Seen
  <2>1. /\ pc = "stopped" /\ pc' \in {"entering", "panicked"} /\ assign(Copied, guest_registers)
        /\ UNCHANGED <<reg, guest_registers, event_injection, exit_int_info>>
    BY <1>1 DEF run, run_begin
  <2>2. reg \notin Copied => vmcb' = vmcb
    BY <2>1 DEF assign
  <2>3. Mode = "idle" /\ Value' = Value /\ Pending' = Pending /\ Reported' = Reported
    BY <2>1, <2>2 DEF Mode, Value, Pending, Reported
  <2>4. CASE pc' = "entering"
    <3>1. Machine!Start
      BY <2>3, <2>4 DEF Machine!Start, Machine!Becomes, Mode, Value, Pending, Reported
    <3> QED
      BY <3>1 DEF Machine!Next
  <2>5. CASE pc' = "panicked"
    <3>1. Machine!Fail
      BY <2>3, <2>5, ValueIsOne DEF Machine!Fail, Mode, Value, Pending, Reported
    <3> QED
      BY <3>1 DEF Machine!Next
  <2> QED
    BY <2>1, <2>4, <2>5
<1>2. CASE run_refused
  <2>1. /\ Mode = "idle" /\ Mode' = "failed" /\ Value' \in Values /\ Pending' = Pending /\ Reported' = Reported
    BY <1>2, ValueIsOne DEF run_refused, Mode, Pending, Reported
  <2>2. Machine!Fail
    BY <2>1 DEF Machine!Fail, Mode, Value, Pending, Reported
  <2> QED
    BY <2>2 DEF Machine!Next
<1>3. CASE switch_in
  BY <1>3 DEF switch_in, Seen, Mode, Value, Pending, Reported
<1>4. CASE vmrun
  <2>1. /\ pc = "switched" /\ pc' = "guest" /\ delivering' = event_injection
        /\ UNCHANGED <<reg, guest_registers, vmcb, exit_int_info>>
    BY <1>4 DEF vmrun
  <2>2. reg \in Gprs => core' = guest_registers
    BY <1>4 DEF vmrun, StateInv, CopiesAgree
  <2>3. reg \in Vmloaded => core' = vmcb
    BY <1>4 DEF vmrun, StateInv, CopiesAgree
  <2>4. reg \in Copied => vmcb = guest_registers
    BY <2>1 DEF StateInv, CopiesAgree
  <2>5. reg \notin Gprs \cup Vmloaded => core' = vmcb
    <3>1. reg \in Kept /\ clean => here \in fresh
      BY <2>1 DEF StateInv, TypeInv, Place, Running, CleanInv
    <3> QED
      BY <1>4, <3>1 DEF vmrun
  <2>6. Value' = Value
    BY <1>0, <2>1, <2>2, <2>3, <2>4, <2>5 DEF Value
  <2>7. Mode = "entering" /\ Mode' = "running" /\ Pending' = Pending /\ Reported' = Reported
    BY <2>1 DEF Mode, Pending, Reported
  <2>8. Machine!Enter
    BY <2>6, <2>7 DEF Machine!Enter, Machine!Becomes, Mode, Value, Pending, Reported
  <2> QED
    BY <2>8 DEF Machine!Next
<1>5. CASE vmrun_invalid
  <2>1. /\ pc = "switched" /\ pc' = "exited" /\ exit' = "panic"
        /\ UNCHANGED <<reg, guest_registers, vmcb, event_injection, exit_int_info>>
    BY <1>5, Exits DEF vmrun_invalid
  <2>2. Mode = "entering" /\ Mode' = "refused" /\ Pending' = Pending /\ Reported' = Reported
    BY <2>1 DEF Mode, Pending, Reported
  <2>3. /\ reg \in Gprs \cup Vmloaded => core' = core
        /\ reg \in Gprs => core = guest_registers
        /\ reg \in Vmloaded => core = vmcb
    BY <1>5 DEF vmrun_invalid, StateInv, CopiesAgree, NotReloaded, Gprs, Vmloaded, MsrRegs
  <2>4. reg \in Copied => vmcb = guest_registers
    BY <2>1 DEF StateInv, CopiesAgree
  <2>5. Value' = Value
    BY <1>0, <2>1, <2>3, <2>4 DEF Value
  <2>6. Machine!Refuse
    BY <2>2, <2>5 DEF Machine!Refuse, Machine!Becomes, Mode, Value, Pending, Reported
  <2> QED
    BY <2>6 DEF Machine!Next
<1> QED
  BY <1>1, <1>2, <1>3, <1>4, <1>5

(* and takes it back to where the owner finds it. *)
LEMMA ReturnIsAbstract ==
  ASSUME StateInv, StateInv', vmexit \/ switch_out \/ run_panic \/ run_end
  PROVE  [Machine!Next]_Seen
<1> USE DEF settings, processor, place
<1>0. Gprs \cap Copied = {} /\ Gprs \cap Vmloaded = {} /\ Copied \cap Vmloaded = {}
  BY DEF Gprs, Copied, Vmloaded, MsrRegs
<1>1. CASE vmexit
  <2>1. /\ pc = "guest" /\ pc' = "exited" /\ exit_int_info' = delivering /\ exit' # "panic"
        /\ UNCHANGED <<reg, event_injection>> /\ event_injection = Nothing
    BY <1>1, Exits DEF vmexit, StateInv, CopiesAgree
  <2>2. Value' = core
    BY <1>0, <1>1 DEF vmexit, Value
  <2>3. Value = core /\ Mode = "running" /\ Mode' = "leaving"
    BY <2>1 DEF Mode, Value
  <2>0. delivering \in EncodedEvents \cup {Nothing}
    BY DEF StateInv, TypeInv, SvmTypes
  <2>4. Pending = Injected(delivering) /\ Pending' = Nothing /\ Reported' = Pending
    BY <2>0, <2>1, DeliveryDecoded DEF Pending, Reported
  <2>5. Machine!Exit
    BY <2>2, <2>3, <2>4 DEF Machine!Exit, Machine!Becomes, Mode, Value, Pending, Reported
  <2> QED
    BY <2>5 DEF Machine!Next
<1>2. CASE switch_out
  BY <1>0, <1>2 DEF switch_out, Seen, Mode, Value, Pending, Reported
<1>3. CASE run_panic
  <2>1. /\ Mode \in {"leaving", "refused"} /\ Mode' = "failed" /\ Value' \in Values
        /\ Pending' = Pending /\ Reported' = Reported
    BY <1>3, ValueIsOne DEF run_panic, Mode, Pending, Reported
  <2>2. Machine!Fail
    BY <2>1 DEF Machine!Fail, Mode, Value, Pending, Reported
  <2> QED
    BY <2>2 DEF Machine!Next
<1>4. CASE run_end
  <2>1. Mode = "leaving" /\ Mode' = "idle" /\ Pending' = Pending /\ Reported' = Reported
    BY <1>4 DEF run_end, Mode, Pending, Reported
  <2>2. Value' = Value
    BY <1>0, <1>4 DEF run_end, Value
  <2>3. Machine!Return
    BY <2>1, <2>2 DEF Machine!Return, Machine!Becomes, Mode, Value, Pending, Reported
  <2> QED
    BY <2>3 DEF Machine!Next
<1> QED
  BY <1>1, <1>2, <1>3, <1>4

LEMMA GuestIsAbstract ==
  ASSUME StateInv, StateInv',
         (\E x \in Values : Guest(guest_writes(x))) \/ Guest(guest_walks) \/ Guest(guest_takes_event)
  PROVE  [Machine!Next]_Seen
<1> USE DEF settings, processor, place
<1>1. ASSUME NEW x \in Values, Guest(guest_writes(x)) PROVE [Machine!Next]_Seen
  <2>1. /\ Mode = "running" /\ Mode' = "running" /\ Value' = x
        /\ Pending' = Pending /\ Reported' = Reported
    BY <1>1 DEF Guest, guest_writes, Mode, Value, Pending, Reported
  <2>2. Machine!Write(x)
    BY <2>1 DEF Machine!Write, Mode, Value, Pending, Reported
  <2> QED
    BY <2>2 DEF Machine!Next
<1>2. CASE Guest(guest_walks)
  BY <1>2 DEF Guest, guest_walks, Seen, Mode, Value, Pending, Reported
<1>3. CASE Guest(guest_takes_event)
  <2>1. Mode = "running" /\ Mode' = "running" /\ Value' = Value /\ Reported' = Reported
    BY <1>3 DEF Guest, guest_takes_event, Mode, Value, Reported
  <2>2. pc = "guest" /\ pc' = "guest" /\ delivering # Nothing /\ delivering' = Nothing
    BY <1>3 DEF Guest, guest_takes_event
  <2>3. delivering \in EncodedEvents
    BY <2>2 DEF StateInv, TypeInv, SvmTypes
  <2>4. Pending # Nothing /\ Pending' = Nothing
    BY <2>2, <2>3, DeliveryDecoded DEF Pending
  <2>5. Machine!Deliver
    BY <2>1, <2>4 DEF Machine!Deliver, Mode, Value, Pending, Reported
  <2> QED
    BY <2>5 DEF Machine!Next
<1> QED
  BY <1>1, <1>2, <1>3

(* The guest starts with the value its owner gave the register last and the owner finds the *)
(* value the guest left, and nobody else changes it on the way, whatever way the register is *)
(* loaded (mod.rs:770-966), whatever the cores keep of the VMCB under its clean bits         *)
(* (mod.rs:633, 751, 976) and whichever core the machine runs on; an event is taken once or   *)
(* the next exit reports that very event (mod.rs:571, 1364); a guest that the processor        *)
(* refuses never counts as one that ran (mod.rs:1153).                                         *)
THEOREM SvmIsVirtualMachine == Spec => ImplementsVirtualMachine
<1>1. StateInv /\ StateInv' /\ [Next]_vars => [Machine!Next]_Seen
  <2>1. CASE UNCHANGED vars
    BY <2>1 DEF vars, place, settings, processor, Seen, Mode, Value, Pending, Reported
  <2>2. StateInv /\ StateInv' /\ RunStep => [Machine!Next]_Seen
    BY EntryIsAbstract, ReturnIsAbstract, GuestIsAbstract DEF RunStep
  <2> QED
    BY <2>1, <2>2, Steps, LifeIsAbstract, OwnerIsAbstract
<1>2. StateInv /\ StateInv' /\ [Next]_vars => [Machine!Next]_Machine!vars
  BY <1>1 DEF Machine!vars, Seen, Mode, Value, Pending, Reported
<1> QED
  BY <1>2, InitIsAbstract, StateInvInit, StateInvStep, PTL DEF Spec, ImplementsVirtualMachine, Machine!Spec
=============================================================================
