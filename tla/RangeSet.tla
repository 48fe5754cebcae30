------------------------------ MODULE RangeSet ------------------------------
(***************************************************************************)
(* libs/rangeset: a set of addresses kept as an unordered array of at most *)
(* 256 inclusive ranges.  insert merges, remove trims and splits,          *)
(* allocate_limited carves an aligned block out of the best range.  Each   *)
(* iteration of their loops is a step, in the order the code tests.  The   *)
(* callers hold a Lock around every call, so calls do not overlap.         *)
(***************************************************************************)
EXTENDS Integers, Sequences, FiniteSets

CONSTANTS
  U64Max,       \* u64::MAX
  UsizeMax,     \* usize::MAX: u64::MAX in the kernel, u32::MAX in the BIOS bootloader
  Capacity,     \* length of RangeSet::ranges
  PadLimit,     \* 512: padding that long stays in the set
  Sizes,        \* sizes, alignments and limits the callers pass
  Aligns,
  Limits

Addr == 0 .. U64Max

ASSUME RangeSetAssumption ==
  /\ U64Max \in Nat \ {0} /\ UsizeMax \in Addr
  /\ Capacity \in Nat \ {0} /\ PadLimit \in Nat \ {0}
  /\ Sizes \subseteq Addr /\ Aligns \subseteq Addr /\ Limits \subseteq Addr

VARIABLES
  ranges,       \* entries(): the used part of the array, in its order
  op,           \* the call in progress, or "idle"
  asked,        \* the arguments of that call as its caller passed them, or NoCall
  range,        \* the argument of insert or remove, as far as it has been merged
  idx,          \* the loop index, from 1
  request,      \* the arguments of allocate_limited
  best,         \* its best candidate so far
  granted,      \* what the last call returned: a block, or NoBlock
  out_of_space  \* the assertion of add_entry has failed

vars == <<ranges, op, asked, range, idx, request, best, granted, out_of_space>>
callVars == <<asked, range, request, best>>

Ranges == {r \in [start : Addr, end : Addr] : r.start <= r.end}
Interval(r) == r.start .. r.end

NoCall == [call |-> "none"]
Calls ==
  {NoCall} \cup [call : {"insert", "remove"}, start : Addr, end : Addr]
           \cup [call : {"allocate"}, size : Addr, align : Addr, max : Addr]
NoRange == [start |-> 0, end |-> 0]
NoBlock == [start |-> 0, size |-> 0]
NoRequest == [size |-> 0, align |-> 0, max |-> 0]
NoCandidate == [padding |-> 0, start |-> 0, end |-> 0, size |-> 0, found |-> FALSE]

Smaller(a, b) == IF a <= b THEN a ELSE b
Larger(a, b) == IF a >= b THEN a ELSE b
SaturatingInc(a) == Smaller(a + 1, U64Max)
SaturatingDec(a) == Larger(a - 1, 0)
WrappedSize(r) == (r.end - r.start + 1) % (U64Max + 1)

overlaps(a, b) == a.start <= b.end /\ b.start <= a.end
contains(a, b) == b.start >= a.start /\ b.end <= a.end
Widened(r) == [r EXCEPT !.end = SaturatingInc(@)]
touches_overlapping_only(a, b) == overlaps(a, b)    \* mutant: neighbours stay apart
touches(a, b) == overlaps(Widened(a), Widened(b))

delete_entry(i) ==
  [j \in 1 .. Len(ranges) - 1 |-> IF j < i THEN ranges[j] ELSE ranges[j + 1]]

Init ==
  /\ ranges = <<>>
  /\ op = "idle" /\ asked = NoCall
  /\ range = NoRange
  /\ idx = 1
  /\ request = NoRequest
  /\ best = NoCandidate
  /\ granted = NoBlock
  /\ out_of_space = FALSE

Scanning(o) == op = o /\ ~out_of_space /\ idx <= Len(ranges)
Scanned(o) == op = o /\ ~out_of_space /\ idx > Len(ranges)

Advance == idx' = idx + 1 /\ UNCHANGED <<op, callVars, granted, out_of_space>>
Restart == idx' = 1 /\ UNCHANGED <<op, asked, request, best, granted, out_of_space>>

(* The call returns. *)
Finish ==
  /\ op' = "idle" /\ asked' = NoCall
  /\ idx' = 1
  /\ range' = NoRange /\ request' = NoRequest /\ best' = NoCandidate
  /\ UNCHANGED out_of_space

(* assert!(self.used < self.ranges.len()): the program stops while the      *)
(* caller holds the lock, so nobody sees what the call has done so far.      *)
Overflow ==
  /\ out_of_space' = TRUE
  /\ UNCHANGED <<ranges, op, idx, callVars, granted>>

-----------------------------------------------------------------------------
insert(r) ==
  /\ op = "idle"
  /\ asked' = [call |-> "insert", start |-> r.start, end |-> r.end]
  /\ op' = "insert" /\ range' = r /\ granted' = NoBlock
  /\ UNCHANGED <<ranges, idx, request, best, out_of_space>>

insert_skip ==
  /\ Scanning("insert")
  /\ ~touches(range, ranges[idx])
  /\ Advance /\ UNCHANGED ranges

insert_merge_keeping ==                      \* mutant: the merged entry stays
  /\ Scanning("insert")
  /\ touches(range, ranges[idx])
  /\ range' = [start |-> Smaller(range.start, ranges[idx].start),
               end   |-> Larger(range.end, ranges[idx].end)]
  /\ Restart /\ UNCHANGED ranges

insert_merge ==
  /\ Scanning("insert")
  /\ touches(range, ranges[idx])
  /\ range' = [start |-> Smaller(range.start, ranges[idx].start),
               end   |-> Larger(range.end, ranges[idx].end)]
  /\ ranges' = delete_entry(idx)
  /\ Restart

insert_add ==
  /\ Scanned("insert")
  /\ Len(ranges) < Capacity
  /\ ranges' = Append(ranges, range)
  /\ Finish /\ UNCHANGED granted

insert_overflow_early ==                     \* mutant: room is needed before the merge
  /\ op = "insert" /\ ~out_of_space
  /\ Len(ranges) = Capacity
  /\ Overflow

insert_overflow ==
  /\ Scanned("insert")
  /\ Len(ranges) = Capacity
  /\ Overflow

-----------------------------------------------------------------------------
remove(r) ==
  /\ op = "idle"
  /\ asked' = [call |-> "remove", start |-> r.start, end |-> r.end]
  /\ op' = "remove" /\ range' = r /\ granted' = NoBlock
  /\ UNCHANGED <<ranges, idx, request, best, out_of_space>>

remove_skip ==
  /\ Scanning("remove")
  /\ ~overlaps(range, ranges[idx])
  /\ Advance /\ UNCHANGED ranges

remove_delete ==
  /\ Scanning("remove")
  /\ contains(range, ranges[idx])
  /\ ranges' = delete_entry(idx)
  /\ Restart /\ UNCHANGED range

(* A partial overlap at the front or at the back of the entry, or inside it. *)
PartlyOverlapped ==
  /\ Scanning("remove")
  /\ overlaps(range, ranges[idx]) /\ ~contains(range, ranges[idx])

remove_front ==
  /\ PartlyOverlapped
  /\ range.start <= ranges[idx].start
  /\ ranges' = [ranges EXCEPT ![idx].start = SaturatingInc(range.end)]
  /\ Advance

remove_back ==
  /\ PartlyOverlapped
  /\ range.start > ranges[idx].start /\ range.end >= ranges[idx].end
  /\ ranges' = [ranges EXCEPT ![idx].end = SaturatingDec(range.start)]
  /\ Advance

InsideEntry ==
  /\ PartlyOverlapped
  /\ range.start > ranges[idx].start /\ range.end < ranges[idx].end

remove_split ==
  /\ InsideEntry
  /\ Len(ranges) < Capacity
  /\ ranges' = Append([ranges EXCEPT ![idx].start = SaturatingInc(range.end)],
                      [start |-> ranges[idx].start, end |-> SaturatingDec(range.start)])
  /\ Restart /\ UNCHANGED range

remove_overflow ==
  /\ InsideEntry
  /\ Len(ranges) = Capacity
  /\ Overflow

remove_done ==
  /\ Scanned("remove")
  /\ Finish /\ UNCHANGED <<ranges, granted>>

-----------------------------------------------------------------------------
IsPowerOfTwo(a) == a > 0 /\ \E k \in 0 .. a : a = 2 ^ k

(* allocate_limited, up to its loop: a zero size and an alignment that is    *)
(* not a power of two are refused. *)
allocate_limited(size, align, max) ==
  /\ op = "idle"
  /\ size > 0 /\ IsPowerOfTwo(align)
  /\ asked' = [call |-> "allocate", size |-> size, align |-> align, max |-> max]
  /\ op' = "allocate" /\ granted' = NoBlock
  /\ request' = [size |-> size, align |-> align, max |-> Smaller(max, UsizeMax)]
  /\ UNCHANGED <<ranges, idx, range, best, out_of_space>>

allocate_invalid(size, align) ==
  /\ op = "idle"
  /\ size = 0 \/ ~IsPowerOfTwo(align)
  /\ granted' = NoBlock
  /\ UNCHANGED <<ranges, op, idx, callVars, out_of_space>>

Padding(r) == (request.align - (r.start % request.align)) % request.align
AllocationEnd(r) == r.start + (request.size - 1) + Padding(r)
Fits_anywhere(r) == AllocationEnd(r) <= r.end     \* mutant: the limit is ignored
Fits(r) == AllocationEnd(r) <= r.end /\ AllocationEnd(r) <= request.max

Candidate(r) ==
  [padding |-> Padding(r), start |-> r.start, end |-> AllocationEnd(r),
   size |-> WrappedSize(r), found |-> TRUE]

Replaces_by_size(c) ==                       \* mutant: the size decides first
  \/ ~best.found
  \/ c.size < best.size
  \/ c.size = best.size /\ c.padding < best.padding

(* Less padding is better, then a smaller range. *)
Replaces(c) ==
  \/ ~best.found
  \/ c.padding < best.padding
  \/ c.padding = best.padding /\ c.size < best.size

allocate_abort_unfit ==                      \* mutant: return None, not continue
  /\ Scanning("allocate")
  /\ AllocationEnd(ranges[idx]) > ranges[idx].end
  /\ Finish /\ granted' = NoBlock /\ UNCHANGED ranges

(* checked_add(..)? : an end past u64::MAX makes the whole call return None.  *)
allocate_abort ==
  /\ Scanning("allocate")
  /\ AllocationEnd(ranges[idx]) > U64Max
  /\ Finish /\ granted' = NoBlock /\ UNCHANGED ranges

allocate_skip ==
  /\ Scanning("allocate")
  /\ AllocationEnd(ranges[idx]) <= U64Max
  /\ ~(Fits(ranges[idx]) /\ Replaces(Candidate(ranges[idx])))
  /\ Advance /\ UNCHANGED ranges

allocate_replace ==
  /\ Scanning("allocate")
  /\ Fits(ranges[idx]) /\ Replaces(Candidate(ranges[idx]))
  /\ best' = Candidate(ranges[idx])
  /\ idx' = idx + 1
  /\ UNCHANGED <<ranges, op, asked, range, request, granted, out_of_space>>

allocate_none ==
  /\ Scanned("allocate")
  /\ ~best.found
  /\ Finish /\ granted' = NoBlock /\ UNCHANGED ranges

allocate_take_all_padding ==                 \* mutant: padding always goes
  /\ Scanned("allocate")
  /\ best.found
  /\ op' = "remove" /\ idx' = 1
  /\ range' = [start |-> best.start, end |-> best.end]
  /\ granted' = [start |-> best.start + best.padding, size |-> request.size]
  /\ request' = NoRequest /\ best' = NoCandidate
  /\ UNCHANGED <<ranges, asked, out_of_space>>

(* The candidate goes, with its padding unless that is long, by remove.      *)
allocate_take ==
  /\ Scanned("allocate")
  /\ best.found
  /\ op' = "remove" /\ idx' = 1
  /\ range' = [start |-> IF best.padding >= PadLimit THEN best.start + best.padding
                                                     ELSE best.start,
               end |-> best.end]
  /\ granted' = [start |-> best.start + best.padding, size |-> request.size]
  /\ request' = NoRequest /\ best' = NoCandidate
  /\ UNCHANGED <<ranges, asked, out_of_space>>

(* RangeSet::clear *)
clear ==
  /\ op = "idle"
  /\ ranges' = <<>> /\ granted' = NoBlock
  /\ UNCHANGED <<op, idx, callVars, out_of_space>>

-----------------------------------------------------------------------------
Call ==
  \/ \E r \in Ranges : insert(r) \/ remove(r)
  \/ \E size \in Sizes, align \in Aligns :
       \/ allocate_invalid(size, align)
       \/ \E max \in Limits : allocate_limited(size, align, max)
  \/ clear

InsertStep == insert_skip \/ insert_merge \/ insert_add \/ insert_overflow

RemoveStep ==
  \/ remove_skip \/ remove_delete \/ remove_front \/ remove_back
  \/ remove_split \/ remove_overflow \/ remove_done

AllocateStep ==
  \/ allocate_abort \/ allocate_skip \/ allocate_replace \/ allocate_none \/ allocate_take

LoopStep == InsertStep \/ RemoveStep \/ AllocateStep

Next == Call \/ LoopStep

(* A call in progress goes on: it runs with the lock held and no loop of it  *)
(* waits for anything. *)
Spec == Init /\ [][Next]_vars /\ WF_vars(LoopStep)

-----------------------------------------------------------------------------
Covered == UNION {Interval(ranges[i]) : i \in DOMAIN ranges}

(* The set a call in progress leads to. *)
FreeAddresses ==
  CASE op = "insert" -> Covered \cup Interval(range)
    [] op = "remove" -> Covered \ Interval(range)
    [] OTHER -> Covered

TypeOK ==
  /\ Len(ranges) <= Capacity
  /\ \A i \in DOMAIN ranges : ranges[i] \in Ranges
  /\ op \in {"idle", "insert", "remove", "allocate"}
  /\ asked \in Calls
  /\ range \in Ranges
  /\ idx \in 1 .. Capacity + 1
  /\ request \in [size : Addr, align : Addr, max : Addr]
  /\ best \in [padding : Addr, start : Addr, end : Addr, size : Addr, found : BOOLEAN]
  /\ granted \in [start : Addr, size : Addr]
  /\ out_of_space \in BOOLEAN

(* "Set of unique, inclusive ranges": in every state, also between the steps *)
(* of a merge or a split, two entries neither overlap nor touch, so a free   *)
(* address is in one entry and no entry is longer written as two.            *)
EntriesApart ==
  /\ TypeOK
  /\ \A i, j \in DOMAIN ranges : i # j =>
       ranges[i].end + 1 < ranges[j].start \/ ranges[j].end + 1 < ranges[i].start

(* "Out of space in `RangeSet`." fires only when the set asked for has more  *)
(* separate runs of addresses than the array has entries. *)
OverflowOnlyWhenFull ==
  out_of_space =>
    Cardinality({a \in FreeAddresses : a - 1 \notin FreeAddresses}) > Capacity

FittingEntries == {i \in DOMAIN ranges : Fits(ranges[i])}

(* allocate_limited takes the range that wastes least, then the smallest:    *)
(* no entry that fits is better than the one it carves the block from.       *)
BestFit ==
  [][op = "allocate" /\ op' = "remove" =>
       \A i \in FittingEntries :
         \/ best.padding < Padding(ranges[i])
         \/ best.padding = Padding(ranges[i]) /\ best.size <= WrappedSize(ranges[i])]_vars

(* None is returned only when no entry fits, or when the end of the block    *)
(* would pass u64::MAX in one of them. *)
RefusalIsJustified ==
  [][op = "allocate" /\ op' = "idle" =>
       \/ FittingEntries = {}
       \/ \E i \in DOMAIN ranges : AllocationEnd(ranges[i]) > U64Max]_vars

(* "Make sure that the allocation will fit in this region." is a test of one *)
(* region: a region the block does not fit in does not keep it from going to *)
(* another one.                                                              *)
RefusedOnlyWhenNothingFits ==
  [][op = "allocate" /\ op' = "idle" => FittingEntries = {}]_vars

(* Every call returns, or stops the program: the restarts of the merge and   *)
(* subtract loops come to an end. *)
EveryCallEnds == op # "idle" ~> op = "idle" \/ out_of_space

Abstract == INSTANCE FreeMemory WITH
  Addresses <- Addr, Usable <- UsizeMax, free <- FreeAddresses

(* A call has the effect of the set operation it stands for on the arguments *)
(* it was made with, and nothing else before it returns; a block has the     *)
(* size and the alignment that were asked for, ends at or below the limit    *)
(* that was asked for and the processor's own, and was free before.          *)
ImplementsFreeMemory == Abstract!Spec
=============================================================================
