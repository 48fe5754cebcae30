----------------------------- MODULE PageTable -----------------------------
(***************************************************************************)
(* The page tables of libs/page_table: four levels of tables in physical   *)
(* frames, a leaf at level 1, 2 or 3 (1G, 2M and 4K pages). A core maps    *)
(* under the lock of the page table, one access to an entry at a time;     *)
(* other cores look addresses up meanwhile without the lock, as            *)
(* mm::virt_to_phys does. Addresses and frames are counted in 4K pages.    *)
(***************************************************************************)
EXTENDS Integers, FiniteSets, FiniteSetsExt

CONSTANTS
  Mappers,    \* cores that map,
  Readers,    \* and cores that look addresses up; in the kernel every core does both
  Frames,     \* physical frames the allocator hands out
  Foreign,    \* frames that map_raw maps and the allocator does not know
  Top,        \* level of the root (0; an instance may do without the level that has no leaf)
  Fan,        \* entries of a table of each level (512 in all)
  Ignored,    \* values of the bits above the index that is_canonical lets vary (16)
  Addresses,  \* virtual pages that mappings begin at,
  Lookups,    \* and virtual pages that are looked up
  MaxPages,   \* pages of one call of map_init
  Nothing     \* no frame, no core, an entry that is not present

ASSUME PageTableAssumption ==
  /\ Top \in {0, 1} /\ Fan \in [Top .. 3 -> Nat \ {0}]
  /\ Ignored \in Nat \ {0} /\ MaxPages \in Nat \ {0}
  /\ Frames \subseteq Nat /\ Foreign \subseteq Nat /\ Frames \cap Foreign = {}
  /\ IsFiniteSet(Frames) /\ IsFiniteSet(Foreign) /\ Foreign # {}
  /\ Addresses \subseteq Nat /\ Lookups \subseteq Nat /\ Nothing \notin Nat

VARIABLES
  memory,  \* entries of each frame, as the walks read them
  free,    \* frames the allocator has
  root,    \* the top table (PageTable.table)
  lost,    \* frames allocated by a map_init that failed with them in hand
  pc,      \* what each core does
  call     \* arguments and local variables of each core's call

vars == <<memory, free, root, lost, pc, call>>

Cores == Mappers \cup Readers
Levels == Top .. 3
Types == 1 .. 3                         \* level of the leaf: Page1G, Page2M, Page4K
SizeOf[d \in Levels] == IF d = 3 THEN 1 ELSE Fan[d + 1] * SizeOf[d + 1]
Size(type) == SizeOf[type]              \* pages an entry at this level covers
Span == Fan[Top] * Size(Top)               \* pages the four indices tell apart
Word == 2 * Ignored * Span              \* addresses a u64 can hold
Index(va, depth) == (va \div Size(depth)) % Fan[depth]
Entries(depth) == 0 .. (Fan[depth] - 1)
Block(frame, type) == frame .. (frame + Size(type) - 1)

Entry == [frame : Frames \cup Foreign, large : BOOLEAN, deallocate : BOOLEAN, exec : BOOLEAN]
ASSUME NothingAssumption == Nothing \notin Entry /\ Nothing \notin Types \X Nat \X Nat
NewTable(f) == [frame |-> f, large |-> FALSE, deallocate |-> FALSE, exec |-> TRUE]
Slots == 0 .. (Max({Fan[d] : d \in Levels}) - 1)
Zeroed == [i \in Slots |-> Nothing]
Garbage == [i \in Slots |->
             [frame |-> Max(Foreign), large |-> FALSE, deallocate |-> TRUE, exec |-> TRUE]]
Read(table, i) == IF table \in Frames THEN memory[table][i] ELSE Nothing

\* The code extends the sign from bit 51: an address passes when it is in the lower or
\* the upper half of the range that the index and the bits above it span.
is_canonical(va) ==
  LET half == (Ignored * Span) \div 2 IN va < half \/ va >= Word - half

IsLeaf(entry, depth) == depth = 3 \/ (entry.large /\ depth \in {1, 2})

\* Blocks the allocator can give, and the one it gives.
Blocks(type) == {f \in free : f % Size(type) = 0 /\ Block(f, type) \subseteq free}
Granted(type) == Min(Blocks(type))

\* Tables at each level of the tree, and the leaves with the level they are at.
TablesAt[d \in Levels] ==
  IF d = Top THEN {root} \ {Nothing}
  ELSE {e.frame : e \in {Read(t, i) : t \in TablesAt[d - 1], i \in Entries(d - 1)}
                          \ ({Nothing} \cup {x \in Entry : x.large})}
Leaves ==
  {x \in UNION {{<<d, t, i>> : t \in TablesAt[d], i \in Entries(d)} : d \in Types} :
     /\ Read(x[2], x[3]) # Nothing
     /\ IsLeaf(Read(x[2], x[3]), x[1])}
LeafBlock(x) == Block(Read(x[2], x[3]).frame, x[1])
OwnedLeaves == {x \in Leaves : Read(x[2], x[3]).deallocate}

\* The leaf that a walk without anybody else's steps finds for an address, and its frame.
LeafOf(va) ==
  LET walk[d \in Levels] ==
        [t \in Frames \cup Foreign |->
           LET e == Read(t, Index(va, d)) IN
           IF e = Nothing THEN Nothing
           ELSE IF IsLeaf(e, d) THEN <<d, t, Index(va, d)>>
           ELSE IF e.large THEN Nothing
           ELSE walk[d + 1][e.frame]]
  IN IF root = Nothing THEN Nothing ELSE walk[Top][root]
Translation(va) ==
  LET x == LeafOf(va) IN
  IF x = Nothing THEN Nothing ELSE Read(x[2], x[3]).frame + (va % Size(x[1]))

Idle == [va |-> 0, type |-> 3, left |-> 0, page |-> Nothing, entry |-> Nothing,
         depth |-> Top, table |-> Nothing, new |-> Nothing, add |-> FALSE,
         update |-> FALSE, before |-> Nothing, answer |-> Nothing]

Init ==
  /\ memory = [f \in Frames |-> Garbage]
  /\ free = Frames
  /\ root = Nothing
  /\ lost = {}
  /\ pc = [c \in Cores |-> "idle"]
  /\ call = [c \in Cores |-> Idle]

Locked == \E c \in Cores : pc[c] \in {"alloc", "walk", "link"}
Unlocked == \A c \in Cores : pc[c] = "idle"

\* The root is made before anybody else has the page table.
new ==
  /\ root = Nothing /\ Blocks(3) # {}
  /\ root' = Granted(3)
  /\ free' = free \ {root'}
  /\ memory' = [memory EXCEPT ![root'] = Zeroed]
  /\ UNCHANGED <<lost, pc, call>>

----------------------------------------------------------------------------
(* Mapping, under the lock. *)

Return(c) == pc' = [pc EXCEPT ![c] = "idle"] /\ call' = [call EXCEPT ![c] = Idle]

\* map is map_init without a function that fills the pages.
map_init(c, va, type, pages, exec) ==
  /\ pc[c] = "idle" /\ root # Nothing /\ ~Locked
  /\ va % Size(type) = 0 /\ va + pages * Size(type) <= Word
  /\ pc' = [pc EXCEPT ![c] = "alloc"]
  /\ call' = [call EXCEPT ![c] = [Idle EXCEPT !.va = va, !.type = type, !.left = pages,
                                  !.add = TRUE,
                                  !.entry = [frame |-> Nothing, large |-> type # 3,
                                             deallocate |-> TRUE, exec |-> exec]]]
  /\ UNCHANGED <<memory, free, root, lost>>

alloc_page(c) ==
  LET f == Granted(call[c].type) IN
  /\ pc[c] = "alloc" /\ Blocks(call[c].type) # {}
  /\ free' = free \ Block(f, call[c].type)
  /\ memory' = [g \in Frames |-> IF g \in Block(f, call[c].type) THEN Garbage ELSE memory[g]]
  /\ pc' = [pc EXCEPT ![c] = "walk"]
  /\ call' = [call EXCEPT ![c].page = f, ![c].entry.frame = f, ![c].table = root]
  /\ UNCHANGED <<root, lost>>

map_raw(c, va, type, frame, exec, add, update) ==
  /\ pc[c] = "idle" /\ root # Nothing /\ ~Locked
  /\ pc' = [pc EXCEPT ![c] = "walk"]
  /\ call' = [call EXCEPT ![c] = [Idle EXCEPT !.va = va, !.type = type, !.left = 1,
                                  !.table = root, !.add = add, !.update = update,
                                  !.entry = [frame |-> frame, large |-> type # 3,
                                             deallocate |-> FALSE, exec |-> exec]]]
  /\ UNCHANGED <<memory, free, root, lost>>

Slot(c) == <<call[c].table, Index(call[c].va, call[c].depth)>>
Seen(c) == Read(Slot(c)[1], Slot(c)[2])
Last(c) == call[c].depth = call[c].type
Refused(c) == ~is_canonical(call[c].va) \/ call[c].va % Size(call[c].type) # 0
Write(c, e) == memory' = [memory EXCEPT ![Slot(c)[1]] = [@ EXCEPT ![Slot(c)[2]] = e]]
Descend(c, table) == [call EXCEPT ![c].table = table, ![c].depth = @ + 1, ![c].new = Nothing]

\* A table in the way is followed.
walk_down(c) ==
  /\ pc[c] = "walk" /\ ~Refused(c) /\ ~Last(c)
  /\ Seen(c) # Nothing /\ ~Seen(c).large
  /\ call' = Descend(c, Seen(c).frame)
  /\ UNCHANGED <<memory, free, root, lost, pc>>

\* Mutant: a new table is linked before it is zeroed.
add_table_linked(c) ==
  /\ pc[c] = "walk" /\ ~Refused(c) /\ ~Last(c)
  /\ Seen(c) = Nothing /\ call[c].add /\ Blocks(3) # {}
  /\ free' = free \ {Granted(3)}
  /\ Write(c, NewTable(Granted(3)))
  /\ pc' = [pc EXCEPT ![c] = "link"]
  /\ call' = [call EXCEPT ![c].new = Granted(3)]
  /\ UNCHANGED <<root, lost>>

\* A missing table is allocated, with whatever its memory holds ...
add_table(c) ==
  /\ pc[c] = "walk" /\ ~Refused(c) /\ ~Last(c)
  /\ Seen(c) = Nothing /\ call[c].add /\ Blocks(3) # {}
  /\ free' = free \ {Granted(3)}
  /\ pc' = [pc EXCEPT ![c] = "link"]
  /\ call' = [call EXCEPT ![c].new = Granted(3)]
  /\ UNCHANGED <<memory, root, lost>>

\* ... and zeroed, while nobody else can reach it, before its entry is written.
link_table(c) ==
  /\ pc[c] = "link"
  /\ memory' = [[memory EXCEPT ![call[c].new] = Zeroed] EXCEPT
                  ![call[c].table] = [@ EXCEPT ![Slot(c)[2]] = NewTable(call[c].new)]]
  /\ pc' = [pc EXCEPT ![c] = "walk"]
  /\ call' = Descend(c, call[c].new)
  /\ UNCHANGED <<free, root, lost>>

\* Mutant: a leaf is written over whatever is there.
WritableAlways(c) == TRUE

\* The leaf is written where there is none, or over one when the caller updates.
Writable(c) == Seen(c) = Nothing \/ call[c].update

NextPage(c) ==
  [call[c] EXCEPT !.va = @ + Size(call[c].type), !.left = @ - 1, !.page = Nothing, !.depth = Top,
                  !.entry = [@ EXCEPT !.frame = Nothing], !.table = Nothing]

write_leaf(c) ==
  /\ pc[c] = "walk" /\ ~Refused(c) /\ Last(c) /\ Writable(c)
  /\ Write(c, call[c].entry)
  /\ IF call[c].left = 1 THEN Return(c)
     ELSE /\ pc' = [pc EXCEPT ![c] = "alloc"]
          /\ call' = [call EXCEPT ![c] = NextPage(c)]
  /\ UNCHANGED <<free, root, lost>>

\* Every return of None: what was mapped stays mapped, the page in hand is forgotten.
Fails(c) ==
  \/ pc[c] = "alloc" /\ Blocks(call[c].type) = {}
  \/ /\ pc[c] = "walk"
     /\ \/ Refused(c)
        \/ ~Last(c) /\ Seen(c) = Nothing /\ (~call[c].add \/ Blocks(3) = {})
        \/ ~Last(c) /\ Seen(c) # Nothing /\ Seen(c).large
        \/ Last(c) /\ ~Writable(c)

fail(c) ==
  /\ Fails(c)
  /\ lost' = lost \cup (IF call[c].page = Nothing THEN {} ELSE Block(call[c].page, call[c].type))
  /\ Return(c)
  /\ UNCHANGED <<memory, free, root>>

----------------------------------------------------------------------------
(* Looking an address up, without the lock. *)

virt_to_phys(c, va) ==
  /\ pc[c] = "idle" /\ root # Nothing /\ is_canonical(va)
  /\ pc' = [pc EXCEPT ![c] = "lookup"]
  /\ call' = [call EXCEPT ![c] = [Idle EXCEPT !.va = va, !.table = root,
                                              !.before = Translation(va)]]
  /\ UNCHANGED <<memory, free, root, lost>>

Answer(c, a) == pc' = [pc EXCEPT ![c] = "found"] /\ call' = [call EXCEPT ![c].answer = a]

lookup_step(c) ==
  /\ pc[c] = "lookup"
  /\ IF Seen(c) = Nothing THEN Answer(c, Nothing)
     ELSE IF IsLeaf(Seen(c), call[c].depth)
          THEN Answer(c, Seen(c).frame + (call[c].va % Size(call[c].depth)))
     ELSE IF Seen(c).large THEN Answer(c, Nothing)
     ELSE call' = Descend(c, Seen(c).frame) /\ UNCHANGED pc
  /\ UNCHANGED <<memory, free, root, lost>>

lookup_return(c) ==
  /\ pc[c] = "found"
  /\ Return(c)
  /\ UNCHANGED <<memory, free, root, lost>>

----------------------------------------------------------------------------
\* Mutant: the pages behind the leaves are not given back.
destroy_tables_only ==
  /\ root # Nothing /\ Unlocked
  /\ free' = free \cup UNION {TablesAt[d] : d \in Levels}
  /\ memory' = [f \in Frames |-> IF f \in free' THEN Garbage ELSE memory[f]]
  /\ root' = Nothing
  /\ UNCHANGED <<lost, pc, call>>

\* destroy goes through the whole tree; its owner is alone with it (Npt::drop).
destroy ==
  /\ root # Nothing /\ Unlocked
  /\ free' = free \cup (UNION {TablesAt[d] : d \in Levels})
                  \cup (UNION {LeafBlock(x) : x \in OwnedLeaves})
  /\ memory' = [f \in Frames |-> IF f \in free' THEN Garbage ELSE memory[f]]
  /\ root' = Nothing
  /\ UNCHANGED <<lost, pc, call>>

(* The callers: new mappings at any address, and enable_nx_on_physical_region, which
   writes a leaf again for the same frame with other rights. *)
map_new(c) ==
  \E va \in Addresses, type \in Types :
    \/ \E pages \in 1 .. MaxPages : map_init(c, va, type, pages, TRUE)
    \/ \E f \in Foreign : map_raw(c, va, type, f, TRUE, TRUE, FALSE)

remap(c) ==
  \E va \in Addresses :
    LET x == LeafOf(va) IN
    /\ x # Nothing /\ ~Read(x[2], x[3]).deallocate
    /\ map_raw(c, va - (va % Size(x[1])), x[1], Read(x[2], x[3]).frame, FALSE, FALSE, TRUE)

MapStep(c) ==
  \/ map_new(c) \/ remap(c)
  \/ alloc_page(c) \/ walk_down(c) \/ add_table(c) \/ link_table(c) \/ write_leaf(c) \/ fail(c)

LookupStep(c) ==
  \/ \E va \in Lookups : virt_to_phys(c, va)
  \/ lookup_step(c) \/ lookup_return(c)

Next == new \/ destroy \/ (\E c \in Mappers : MapStep(c)) \/ (\E c \in Readers : LookupStep(c))

Spec == Init /\ [][Next]_vars

----------------------------------------------------------------------------
(* Type invariant of PageTable: every entry of a table names a frame, and a core in a
   call has a table, a page and a level that fit what it does. *)
PageTableTypeOK ==
  /\ memory \in [Frames -> [Slots -> Entry \cup {Nothing}]]
  /\ free \subseteq Frames /\ lost \subseteq Frames
  /\ root \in Frames \cup {Nothing}
  /\ pc \in [Cores -> {"idle", "alloc", "walk", "link", "lookup", "found"}]
  /\ \A c \in Cores :
       /\ pc[c] \in {"walk", "link", "lookup"} =>
            /\ call[c].depth \in Levels
            /\ call[c].table \in TablesAt[call[c].depth]
       /\ pc[c] = "link" => call[c].new \in Frames /\ ~Last(c)

(* The hazard of map_init failing midway and of destroy (lib.rs:166, lib.rs:394): each
   frame of the allocator is in exactly one place: free, the root, a table linked once in
   the tree, part of one leaf that owns it, in the hand of one call, or lost by a call
   that failed with it in hand. *)
Links ==
  {x \in UNION {{<<d, t, i>> : t \in TablesAt[d], i \in Entries(d)} : d \in Top .. 2} :
     LET e == Read(x[2], x[3]) IN e # Nothing /\ ~IsLeaf(e, x[1])}
InHand(c) ==
  (IF call[c].page = Nothing THEN {} ELSE Block(call[c].page, call[c].type))
    \cup ({call[c].new} \ {Nothing})
Places(f) ==
  {<<"free">> : x \in free \cap {f}} \cup {<<"lost">> : x \in lost \cap {f}}
    \cup {<<"root">> : x \in {root} \cap {f}}
    \cup {<<"hand", c>> : c \in {d \in Cores : f \in InHand(d)}}
    \cup {<<"link", x>> : x \in {y \in Links : Read(y[2], y[3]).frame = f}}
    \cup {<<"leaf", x>> : x \in {y \in OwnedLeaves : f \in LeafBlock(y)}}

EveryFrameOnePlace == PageTableTypeOK /\ \A f \in Frames : Cardinality(Places(f)) = 1

(* "Don't use page table lock because it is not needed." (mm.rs:645): a lookup that ran
   beside mappings and remappings of other cores finds the frame of an address that was
   mapped when it began, and finds no frame but the one the address has. *)
LockNotNeeded ==
  \A c \in Cores : pc[c] = "found" =>
    /\ call[c].before # Nothing => call[c].answer = call[c].before
    /\ call[c].answer # Nothing => call[c].answer = Translation(call[c].va)

(* The tables implement a function from pages to frames: growing the tree changes no
   translation, a leaf adds its own pages and no others, none is taken away before the
   end. *)
Pages == 0 .. (Span - 1)
mapping == [p \in Pages |-> Translation(p)]
AddressSpaceOfTables == INSTANCE AddressSpace WITH Sizes <- {Size(type) : type \in Types}
ImplementsAddressSpace == AddressSpaceOfTables!Spec
=============================================================================
