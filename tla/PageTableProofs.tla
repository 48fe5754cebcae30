-------------------------- MODULE PageTableProofs --------------------------
(***************************************************************************)
(* Theorems about PageTable, for any sizes of tables, frames and cores:    *)
(* each frame is in exactly one place, a lookup needs no lock, and the     *)
(* tables implement AddressSpace.                                          *)
(*                                                                         *)
(* Everything rests on the shape of the tree, so the module first unfolds  *)
(* the recursive definitions, level by level.  Path is the same walk as    *)
(* LeafOf from the other end: the table that an address leads to at each   *)
(* level.  A mapper and a reader are always on the path of their address,  *)
(* and no step but destroy takes an existing path or leaf away.            *)
(***************************************************************************)
EXTENDS PageTable, FiniteSetTheorems, WellFoundedInduction, TLAPS

(* The table that an entry leads to, and the tables on the way of an address. *)
Follow(entry, depth) ==
  IF entry = Nothing \/ IsLeaf(entry, depth) \/ entry.large THEN Nothing ELSE entry.frame
Path(va) ==
  LET table[d \in Levels] ==
        IF d = Top THEN root ELSE Follow(Read(table[d - 1], Index(va, d - 1)), d - 1)
  IN table
Reached(va, depth) == Read(Path(va)[depth], Index(va, depth))
EndsAt(va, depth) == Reached(va, depth) # Nothing /\ IsLeaf(Reached(va, depth), depth)

(* The typing of the variables; the frame of a page is filled in when it is allocated. *)
Pending == [frame : {Nothing}, large : BOOLEAN, deallocate : BOOLEAN, exec : BOOLEAN]
Calls ==
  [va : Nat, type : Types, left : Nat, page : Frames \cup {Nothing},
   entry : Entry \cup Pending \cup {Nothing}, depth : Levels, table : Frames \cup {Nothing},
   new : Frames \cup {Nothing}, add : BOOLEAN, update : BOOLEAN,
   before : Nat \cup {Nothing}, answer : Nat \cup {Nothing}]
TypesInv ==
  /\ memory \in [Frames -> [Slots -> Entry \cup {Nothing}]]
  /\ free \subseteq Frames /\ lost \subseteq Frames
  /\ root \in Frames \cup {Nothing}
  /\ pc \in [Cores -> {"idle", "alloc", "walk", "link", "lookup", "found"}]
  /\ call \in [Cores -> Calls]

(* What a table of a level may hold: larger pages at levels 1 and 2 only, links to frames
   of the allocator, and pages to give back that lie in its memory. *)
EntryFits(entry, depth) ==
  entry # Nothing =>
    /\ entry.large => depth \in {1, 2}
    /\ entry.deallocate => Block(entry.frame, depth) \subseteq Frames
    /\ depth = 3 \/ entry.large \/ entry.frame \in Frames
TreeInv ==
  \A d \in Levels : \A t \in TablesAt[d] :
    t \in Frames /\ \A i \in Entries(d) : EntryFits(Read(t, i), d)

(* Each frame has one of six uses, once: the parts of Places, and that one is not empty. *)
Holders(f) == {c \in Cores : f \in InHand(c)}
LinksTo(f) == {y \in Links : Read(y[2], y[3]).frame = f}
LeavesOver(f) == {y \in OwnedLeaves : f \in LeafBlock(y)}
Use(f, use, holders, links, leaves) ==
  /\ (f \in free <=> use = "free") /\ (f \in lost <=> use = "lost") /\ (root = f <=> use = "root")
  /\ Holders(f) = holders /\ LinksTo(f) = links /\ LeavesOver(f) = leaves
OneUse(f) ==
  \/ \E use \in {"free", "lost", "root"} : Use(f, use, {}, {}, {})
  \/ \E c \in Cores : Use(f, "hand", {c}, {}, {})
  \/ \E y \in LinksTo(f) : Use(f, "link", {}, {y}, {})
  \/ \E y \in LeavesOver(f) : Use(f, "leaf", {}, {}, {y})

(* A core that maps is alone with the tables: it is on the path of its address, its page
   is one piece of memory, a missing table is still missing when it is linked, and an
   update meets the leaf it was meant for. *)
Mapping(c) == pc[c] \in {"alloc", "walk", "link"}
MapperInv(c) ==
  /\ Mapping(c) => call[c].left # 0
  /\ pc[c] = "alloc" =>
       /\ call[c].page = Nothing /\ call[c].depth = Top /\ ~call[c].update
       /\ call[c].entry \in Pending
       /\ call[c].entry.deallocate /\ (call[c].entry.large <=> call[c].type # 3)
  /\ pc[c] \in {"walk", "link"} =>
       /\ call[c].depth <= call[c].type
       /\ call[c].entry \in Entry /\ (call[c].entry.large <=> call[c].type # 3)
       /\ (call[c].entry.deallocate <=> call[c].page # Nothing)
       /\ call[c].page = Nothing => call[c].left = 1
       /\ call[c].page # Nothing =>
            /\ call[c].page = call[c].entry.frame /\ ~call[c].update
            /\ Block(call[c].page, call[c].type) \subseteq Frames
       /\ call[c].update =>
            /\ EndsAt(call[c].va, call[c].type)
            /\ ~Reached(call[c].va, call[c].type).deallocate
            /\ Reached(call[c].va, call[c].type).frame = call[c].entry.frame
  /\ pc[c] = "link" =>
       /\ call[c].new \in Frames /\ call[c].depth < call[c].type
       /\ call[c].page # Nothing => call[c].new \notin Block(call[c].page, call[c].type)
       /\ Seen(c) = Nothing

(* A core that looks an address up is on its path too, and what was mapped when it
   began is mapped still. *)
ReaderInv(c) ==
  /\ pc[c] \in {"lookup", "found"} /\ call[c].before # Nothing =>
       Translation(call[c].va) = call[c].before
  /\ pc[c] = "found" =>
       /\ call[c].before # Nothing => call[c].answer = call[c].before
       /\ call[c].answer # Nothing => call[c].answer = Translation(call[c].va)

CallInv(c) ==
  /\ pc[c] = "idle" => call[c] = Idle
  /\ pc[c] # "idle" => root # Nothing
  /\ pc[c] # "link" => call[c].new = Nothing
  /\ pc[c] \in {"lookup", "found"} => call[c].page = Nothing
  /\ pc[c] \in {"walk", "link", "lookup"} =>
       call[c].table = Path(call[c].va)[call[c].depth] /\ call[c].table # Nothing
  /\ MapperInv(c) /\ ReaderInv(c)

Inv ==
  /\ TypesInv /\ TreeInv
  /\ \A f \in Frames : OneUse(f)
  /\ \A c, d \in Cores : Mapping(c) /\ Mapping(d) => c = d
  /\ \A c \in Cores : CallInv(c)

-----------------------------------------------------------------------------
(* Levels, sizes and indices. *)
LEMMA LevelFacts ==
  /\ Top \in Levels /\ Levels \subseteq 0 .. 3 /\ Types \subseteq Levels
  /\ \A d \in Levels : d = Top \/ d - 1 \in Levels
  /\ \A d \in Levels : d = 3 \/ d + 1 \in Levels
  /\ Nothing \notin Frames \cup Foreign /\ Nothing \notin Nat
<1>1. Top \in {0, 1} /\ Frames \subseteq Nat /\ Foreign \subseteq Nat /\ Nothing \notin Nat
  BY PageTableAssumption
<1>2. Levels = Top .. 3 /\ Types = 1 .. 3 /\ Top \in Int
  BY <1>1 DEF Levels, Types
<1>3. \A d \in Levels : d \in Int /\ Top <= d /\ d <= 3
  BY <1>2
<1>4. \A d \in Int : Top <= d /\ d <= 3 => d \in Levels
  BY <1>2
<1>5. Levels \subseteq 0 .. 3 /\ Types \subseteq Levels /\ Top \in Levels
  BY <1>1, <1>2
<1>6. \A d \in Levels : d = Top \/ d - 1 \in Levels
  BY <1>1, <1>3, <1>4
<1>7. \A d \in Levels : d = 3 \/ d + 1 \in Levels
  BY <1>1, <1>3, <1>4
<1> QED
  BY <1>1, <1>5, <1>6, <1>7

(* SizeOf, unfolded: an entry of the last level covers one page, any other all the
   entries of a table below it. *)
LEMMA SizeFacts ==
  /\ SizeOf[3] = 1
  /\ \A d \in Levels : d # 3 => SizeOf[d] = Fan[d + 1] * SizeOf[d + 1]
  /\ \A d \in Levels : SizeOf[d] \in Nat \ {0} /\ Fan[d] \in Nat \ {0}
<1> DEFINE E(s) == [d \in Levels |-> IF d = 3 THEN 1 ELSE Fan[d + 1] * s[d + 1]]
<1>1. \E s : s = E(s)
  <2> DEFINE s3 == 1
             s2 == Fan[3] * s3
             s1 == Fan[2] * s2
             s0 == Fan[1] * s1
             s == [d \in Levels |-> IF d = 3 THEN s3 ELSE IF d = 2 THEN s2
                                    ELSE IF d = 1 THEN s1 ELSE s0]
  <2>1. \A d \in Levels : s[d] = IF d = 3 THEN s3 ELSE IF d = 2 THEN s2
                                 ELSE IF d = 1 THEN s1 ELSE s0
    OBVIOUS
  <2>2. \A d \in Levels : d \in {0, 1, 2, 3} /\ (d # 3 => d + 1 \in Levels)
    BY LevelFacts
  <2> HIDE DEF s
  <2>3. \A d \in Levels : E(s)[d] = IF d = 3 THEN 1 ELSE Fan[d + 1] * s[d + 1]
    OBVIOUS
  <2>4. \A d \in Levels : s[d] = E(s)[d]
    <3> TAKE d \in Levels
    <3>1. CASE d = 3
      BY <2>1, <2>3, <3>1
    <3>2. CASE d = 2
      BY <2>1, <2>2, <2>3, <3>2
    <3>3. CASE d = 1
      BY <2>1, <2>2, <2>3, <3>3
    <3>4. CASE d = 0
      BY <2>1, <2>2, <2>3, <3>4
    <3> QED
      BY <2>2, <3>1, <3>2, <3>3, <3>4
  <2>5. s = [d \in Levels |-> s[d]] /\ E(s) = [d \in Levels |-> E(s)[d]]
    BY DEF s
  <2> QED
    BY <2>4, <2>5
<1>2. SizeOf = CHOOSE s : s = E(s)
  BY DEF SizeOf
<1> HIDE DEF E
<1>3. SizeOf = E(SizeOf)
  BY <1>1, <1>2
<1>4. \A d \in Levels : SizeOf[d] = IF d = 3 THEN 1 ELSE Fan[d + 1] * SizeOf[d + 1]
  BY <1>3 DEF E
<1>5. 3 \in Levels /\ \A d \in Levels : Fan[d] \in Nat \ {0}
  BY LevelFacts, PageTableAssumption DEF Levels
<1>6. \A m, n \in Nat \ {0} : m * n \in Nat \ {0}
  OBVIOUS
<1>7. SizeOf[3] \in Nat \ {0}
  BY <1>4, <1>5
<1>8. 2 \in Levels /\ SizeOf[2] \in Nat \ {0}
  BY <1>4, <1>5, <1>6, <1>7, LevelFacts DEF Types
<1>9. 1 \in Levels /\ SizeOf[1] \in Nat \ {0}
  BY <1>4, <1>5, <1>6, <1>8, LevelFacts DEF Types
<1>10. 0 \in Levels => SizeOf[0] \in Nat \ {0}
  BY <1>4, <1>5, <1>6, <1>9
<1>11. \A d \in Levels : d \in {0, 1, 2, 3}
  BY LevelFacts
<1> QED
  BY <1>4, <1>5, <1>7, <1>8, <1>9, <1>10, <1>11

LEMMA IndexFacts ==
  /\ \A d \in Levels : Entries(d) \subseteq Slots
  /\ \A va \in Nat, d \in Levels : Index(va, d) \in Entries(d)
<1>1. PICK m \in Levels : \A d \in Levels : Fan[d] <= Fan[m]
  <2> DEFINE F(a, b) == IF Fan[a] >= Fan[b] THEN a ELSE b
  <2>1. \A d \in Levels : Fan[d] \in Nat /\ d \in {0, 1, 2, 3}
    BY SizeFacts, LevelFacts
  <2>2. 1 \in Levels /\ 2 \in Levels /\ 3 \in Levels
    BY LevelFacts DEF Types
  <2>3. PICK a \in Levels : Fan[2] <= Fan[a] /\ Fan[3] <= Fan[a]
    BY <2>1, <2>2
  <2>4. PICK b \in Levels : Fan[1] <= Fan[b] /\ Fan[2] <= Fan[b] /\ Fan[3] <= Fan[b]
    BY <2>1, <2>2, <2>3
  <2>5. CASE 0 \in Levels
    BY <2>1, <2>2, <2>4, <2>5
  <2>6. CASE 0 \notin Levels
    BY <2>1, <2>2, <2>4, <2>6
  <2> QED
    BY <2>5, <2>6
<1>2. \A d \in Levels : Fan[d] \in Nat \ {0} /\ SizeOf[d] \in Nat \ {0}
  BY SizeFacts
<1> DEFINE S == {Fan[d] : d \in Levels}
<1>3. Fan[m] \in S /\ \A x \in S : Fan[m] >= x
  BY <1>1, <1>2
<1>4. Max(S) \in S /\ \A x \in S : Max(S) >= x
  BY <1>3 DEF Max
<1>5. \A d \in Levels : Fan[d] <= Max(S) /\ Max(S) \in Nat
  BY <1>2, <1>4
<1>6. \A d \in Levels : Entries(d) \subseteq Slots
  BY <1>2, <1>5 DEF Entries, Slots
<1>7. ASSUME NEW va \in Nat, NEW d \in Levels
      PROVE  Index(va, d) \in Entries(d)
  <2>1. va \div SizeOf[d] \in Nat
    BY <1>2
  <2>2. \A q \in Nat, n \in Nat \ {0} : q % n \in 0 .. (n - 1)
    OBVIOUS
  <2> QED
    BY <1>2, <2>1, <2>2 DEF Index, Entries, Size
<1> QED
  BY <1>6, <1>7

LEMMA Least ==
  ASSUME NEW S \in SUBSET Nat, S # {}
  PROVE  \E x \in S : \A y \in S : x <= y
<1>1. PICK x \in S : \A y \in S : <<y, x>> \notin OpToRel(<, Nat)
  BY WFMin, NatLessThanWellFounded
<1>2. ASSUME NEW y \in S, y < x PROVE FALSE
  BY <1>1, <1>2 DEF OpToRel
<1> QED
  BY <1>2

(* The allocator gives a block that is free. *)
LEMMA GrantedIsFree ==
  free \subseteq Frames =>
    \A type \in Types : Blocks(type) # {} =>
      /\ Granted(type) \in free /\ Granted(type) \in Nat
      /\ Block(Granted(type), type) \subseteq free
      /\ Granted(type) \in Block(Granted(type), type)
      /\ type = 3 => Block(Granted(type), type) = {Granted(type)}
<1> SUFFICES ASSUME free \subseteq Frames, NEW type \in Types, Blocks(type) # {}
    PROVE  /\ Granted(type) \in free /\ Granted(type) \in Nat
           /\ Block(Granted(type), type) \subseteq free
           /\ Granted(type) \in Block(Granted(type), type)
           /\ type = 3 => Block(Granted(type), type) = {Granted(type)}
  OBVIOUS
<1>1. Blocks(type) \subseteq Nat
  BY PageTableAssumption DEF Blocks
<1>2. Granted(type) \in Blocks(type)
  <2>1. \E x \in Blocks(type) : \A y \in Blocks(type) : x <= y
    BY <1>1, Least
  <2> QED
    BY <2>1 DEF Granted, Min
<1>3. Size(type) \in Nat \ {0} /\ Size(3) = 1
  BY SizeFacts, LevelFacts DEF Size
<1> QED
  BY <1>1, <1>2, <1>3 DEF Blocks, Block

-----------------------------------------------------------------------------
(* The recursive definitions, unfolded.  In each proof a function that satisfies the
   defining equation is built level by level, so the one CHOOSE takes satisfies it. *)
LEMMA PathUnfolds ==
  \A va :
    /\ Path(va)[Top] = root
    /\ \A d \in Levels : d # Top =>
         Path(va)[d] = Follow(Read(Path(va)[d - 1], Index(va, d - 1)), d - 1)
<1> TAKE va
<1> DEFINE Down(t, d) == Follow(Read(t, Index(va, d)), d)
           E(p) == [d \in Levels |-> IF d = Top THEN root ELSE Down(p[d - 1], d - 1)]
<1>1. \E p : p = E(p)
  <2> DEFINE p0 == root
             p1 == Down(p0, Top)
             p2 == Down(p1, Top + 1)
             p3 == Down(p2, Top + 2)
             p == [d \in Levels |-> IF d = Top THEN p0 ELSE IF d = Top + 1 THEN p1
                                    ELSE IF d = Top + 2 THEN p2 ELSE p3]
  <2> HIDE DEF Down
  <2>1. \A d \in Levels : /\ d \in {Top, Top + 1, Top + 2, Top + 3} /\ d \in Int /\ Top \in Int
                          /\ d # Top => d - 1 \in Levels
    <3>1. Top \in {0, 1} /\ Levels \subseteq Top .. 3
      BY PageTableAssumption DEF Levels
    <3> QED
      BY <3>1, LevelFacts
  <2>2. \A d \in Levels : p[d] = IF d = Top THEN p0 ELSE IF d = Top + 1 THEN p1
                                 ELSE IF d = Top + 2 THEN p2 ELSE p3
    OBVIOUS
  <2>3. p = [d \in Levels |-> p[d]]
    OBVIOUS
  <2> HIDE DEF p
  <2>4. \A d \in Levels : p[d] = IF d = Top THEN root ELSE Down(p[d - 1], d - 1)
    <3> TAKE d \in Levels
    <3>1. CASE d = Top
      BY <2>2, <3>1
    <3>2. CASE d = Top + 1
      <4>1. d - 1 = Top /\ Top \in Levels /\ d # Top
        BY <2>1, <3>2, LevelFacts
      <4> QED
        BY <2>2, <3>2, <4>1
    <3>3. CASE d = Top + 2
      <4>1. d - 1 = Top + 1 /\ d - 1 \in Levels /\ d # Top /\ Top + 1 # Top /\ d # Top + 1
        BY <2>1, <3>3
      <4> QED
        BY <2>2, <3>3, <4>1
    <3>4. CASE d = Top + 3
      <4>1. /\ d - 1 = Top + 2 /\ d - 1 \in Levels /\ d # Top
            /\ Top + 2 # Top /\ Top + 2 # Top + 1 /\ d # Top + 1 /\ d # Top + 2
        BY <2>1, <3>4
      <4> QED
        BY <2>2, <3>4, <4>1
    <3> QED
      BY <2>1, <3>1, <3>2, <3>3, <3>4
  <2>5. E(p) = [d \in Levels |-> p[d]]
    BY <2>4
  <2> QED
    BY <2>3, <2>5
<1>2. Path(va) = CHOOSE p : p = E(p)
  BY DEF Path
<1> HIDE DEF E
<1>3. Path(va) = E(Path(va))
  BY <1>1, <1>2
<1> QED
  BY <1>3, LevelFacts DEF E

LEMMA TablesUnfold ==
  /\ TablesAt[Top] = {root} \ {Nothing}
  /\ \A d \in Levels : d # Top =>
       TablesAt[d] = {e.frame : e \in {Read(t, i) : t \in TablesAt[d - 1], i \in Entries(d - 1)}
                                        \ ({Nothing} \cup {x \in Entry : x.large})}
<1> DEFINE Down(T, d) == {e.frame : e \in {Read(t, i) : t \in T, i \in Entries(d)}
                                        \ ({Nothing} \cup {x \in Entry : x.large})}
           E(p) == [d \in Levels |-> IF d = Top THEN {root} \ {Nothing} ELSE Down(p[d - 1], d - 1)]
<1>1. \E p : p = E(p)
  <2> DEFINE p0 == {root} \ {Nothing}
             p1 == Down(p0, Top)
             p2 == Down(p1, Top + 1)
             p3 == Down(p2, Top + 2)
             p == [d \in Levels |-> IF d = Top THEN p0 ELSE IF d = Top + 1 THEN p1
                                    ELSE IF d = Top + 2 THEN p2 ELSE p3]
  <2> HIDE DEF Down
  <2>1. \A d \in Levels : /\ d \in {Top, Top + 1, Top + 2, Top + 3} /\ d \in Int /\ Top \in Int
                          /\ d # Top => d - 1 \in Levels
    <3>1. Top \in {0, 1} /\ Levels \subseteq Top .. 3
      BY PageTableAssumption DEF Levels
    <3> QED
      BY <3>1, LevelFacts
  <2>2. \A d \in Levels : p[d] = IF d = Top THEN p0 ELSE IF d = Top + 1 THEN p1
                                 ELSE IF d = Top + 2 THEN p2 ELSE p3
    OBVIOUS
  <2>3. p = [d \in Levels |-> p[d]]
    OBVIOUS
  <2> HIDE DEF p
  <2>4. \A d \in Levels : p[d] = IF d = Top THEN p0 ELSE Down(p[d - 1], d - 1)
    <3> TAKE d \in Levels
    <3>1. CASE d = Top
      BY <2>2, <3>1
    <3>2. CASE d = Top + 1
      <4>1. d - 1 = Top /\ Top \in Levels /\ d # Top
        BY <2>1, <3>2, LevelFacts
      <4> QED
        BY <2>2, <3>2, <4>1
    <3>3. CASE d = Top + 2
      <4>1. d - 1 = Top + 1 /\ d - 1 \in Levels /\ d # Top /\ Top + 1 # Top /\ d # Top + 1
        BY <2>1, <3>3
      <4> QED
        BY <2>2, <3>3, <4>1
    <3>4. CASE d = Top + 3
      <4>1. /\ d - 1 = Top + 2 /\ d - 1 \in Levels /\ d # Top
            /\ Top + 2 # Top /\ Top + 2 # Top + 1 /\ d # Top + 1 /\ d # Top + 2
        BY <2>1, <3>4
      <4> QED
        BY <2>2, <3>4, <4>1
    <3> QED
      BY <2>1, <3>1, <3>2, <3>3, <3>4
  <2>5. E(p) = [d \in Levels |-> p[d]]
    BY <2>4
  <2> QED
    BY <2>3, <2>5
<1>2. TablesAt = CHOOSE p : p = E(p)
  BY DEF TablesAt
<1> HIDE DEF E
<1>3. TablesAt = E(TablesAt)
  BY <1>1, <1>2
<1> HIDE DEF Down
<1>4. /\ TablesAt[Top] = {root} \ {Nothing}
      /\ \A d \in Levels : d # Top => TablesAt[d] = Down(TablesAt[d - 1], d - 1)
  BY <1>3, LevelFacts DEF E
<1> QED
  BY <1>4 DEF Down

(* The walk of LeafOf starts at the root; from a table on the path of the address it goes
   on to the next table, or ends. *)
LEMMA WalkUnfolds ==
  \A va : \E walk :
    /\ LeafOf(va) = IF root = Nothing THEN Nothing ELSE walk[Top][root]
    /\ \A d \in Levels : \A t \in Frames \cup Foreign :
         walk[d][t] = LET e == Read(t, Index(va, d)) IN
                      IF e = Nothing THEN Nothing
                      ELSE IF IsLeaf(e, d) THEN <<d, t, Index(va, d)>>
                      ELSE IF e.large THEN Nothing
                      ELSE walk[d + 1][e.frame]
<1> TAKE va
<1> DEFINE Down(below, d) ==
             [t \in Frames \cup Foreign |->
                LET e == Read(t, Index(va, d)) IN
                IF e = Nothing THEN Nothing
                ELSE IF IsLeaf(e, d) THEN <<d, t, Index(va, d)>>
                ELSE IF e.large THEN Nothing
                ELSE below[e.frame]]
           E(p) == [d \in Levels |-> Down(p[d + 1], d)]
<1>0. \A b, c : Down(b, 3) = Down(c, 3)
  BY DEF IsLeaf
<1>1. \E p : p = E(p)
  <2> DEFINE p3 == Down({}, 3)
             p2 == Down(p3, 2)
             p1 == Down(p2, 1)
             p0 == Down(p1, 0)
             p == [d \in Levels |-> IF d = 3 THEN p3 ELSE IF d = 2 THEN p2
                                    ELSE IF d = 1 THEN p1 ELSE p0]
  <2> HIDE DEF Down
  <2>1. \A d \in Levels : d \in {0, 1, 2, 3} /\ (d # 3 => d + 1 \in Levels)
    BY LevelFacts
  <2>2. \A d \in Levels : p[d] = IF d = 3 THEN p3 ELSE IF d = 2 THEN p2
                                 ELSE IF d = 1 THEN p1 ELSE p0
    OBVIOUS
  <2>3. p = [d \in Levels |-> p[d]]
    OBVIOUS
  <2> HIDE DEF p
  <2>4. \A d \in Levels : p[d] = Down(p[d + 1], d)
    <3> TAKE d \in Levels
    <3>1. CASE d = 3
      BY <1>0, <2>2, <3>1
    <3>2. CASE d = 2
      BY <2>1, <2>2, <3>2
    <3>3. CASE d = 1
      BY <2>1, <2>2, <3>3
    <3>4. CASE d = 0
      BY <2>1, <2>2, <3>4
    <3> QED
      BY <2>1, <3>1, <3>2, <3>3, <3>4
  <2>5. E(p) = [d \in Levels |-> p[d]]
    BY <2>4
  <2> QED
    BY <2>3, <2>5
<1> DEFINE walk == CHOOSE p : p = E(p)
<1>2. LeafOf(va) = IF root = Nothing THEN Nothing ELSE walk[Top][root]
  BY DEF LeafOf
<1> HIDE DEF E
<1>3. walk = E(walk)
  BY <1>1
<1> HIDE DEF walk
<1>4. \A d \in Levels : walk[d] = Down(walk[d + 1], d)
  BY <1>3 DEF E
<1>5. \A d \in Levels : \A t \in Frames \cup Foreign :
        walk[d][t] = LET e == Read(t, Index(va, d)) IN
                     IF e = Nothing THEN Nothing
                     ELSE IF IsLeaf(e, d) THEN <<d, t, Index(va, d)>>
                     ELSE IF e.large THEN Nothing
                     ELSE walk[d + 1][e.frame]
  <2> TAKE d \in Levels
  <2> TAKE t \in Frames \cup Foreign
  <2>1. walk[d][t] = Down(walk[d + 1], d)[t]
    BY <1>4
  <2> QED
    BY <2>1
<1> QED
  BY <1>2, <1>5

-----------------------------------------------------------------------------
(* Entries, tables and links in a typed memory. *)
LEMMA EntryFacts ==
  TypesInv =>
    /\ \A t, i : t \notin Frames => Read(t, i) = Nothing
    /\ \A t, i : i \in Slots => Read(t, i) \in Entry \cup {Nothing}
    /\ \A x \in Entry : /\ x # Nothing /\ x.frame \in Frames \cup Foreign /\ x.frame \in Nat
                        /\ x.frame # Nothing /\ x.large \in BOOLEAN /\ x.deallocate \in BOOLEAN
<1>1. ASSUME NEW x \in Entry
      PROVE  /\ x # Nothing /\ x.frame \in Frames \cup Foreign /\ x.frame \in Nat
             /\ x.frame # Nothing /\ x.large \in BOOLEAN /\ x.deallocate \in BOOLEAN
  <2>1. x # Nothing
    BY NothingAssumption
  <2>2. x.frame \in Frames \cup Foreign /\ x.large \in BOOLEAN /\ x.deallocate \in BOOLEAN
    BY DEF Entry
  <2> QED
    BY <2>1, <2>2, PageTableAssumption
<1>2. TypesInv => \A t \in Frames, i \in Slots : memory[t][i] \in Entry \cup {Nothing}
  BY DEF TypesInv
<1> QED
  BY <1>1, <1>2 DEF Read

TableLaw ==
  /\ \A d \in Levels : \A t \in TablesAt[d] : t \in Frames /\ t # Nothing
  /\ TablesAt[Top] = {root} \ {Nothing}
  /\ \A d \in Levels : d # Top =>
       TablesAt[d] = {Follow(Read(t, i), d - 1) :
                                   t \in TablesAt[d - 1], i \in Entries(d - 1)} \ {Nothing}
  /\ \A d \in Levels : \A t \in TablesAt[d] : \A i \in Entries(d) :
       Read(t, i) # Nothing =>
         /\ IsLeaf(Read(t, i), d) <=> d = 3 \/ Read(t, i).large
         /\ Read(t, i) \in Entry
LEMMA TreeFacts == TypesInv /\ TreeInv => TableLaw
<1> SUFFICES ASSUME TypesInv, TreeInv PROVE TableLaw
  OBVIOUS
<1>1. \A d \in Levels : \A t \in TablesAt[d] : t \in Frames /\ t # Nothing
  BY LevelFacts DEF TreeInv
<1>2. \A d \in Levels : \A t \in TablesAt[d] : \A i \in Entries(d) :
        Read(t, i) # Nothing =>
           /\ IsLeaf(Read(t, i), d) <=> d = 3 \/ Read(t, i).large
           /\ Read(t, i) \in Entry
  <2> TAKE d \in Levels
  <2> TAKE t \in TablesAt[d]
  <2> TAKE i \in Entries(d)
  <2>1. EntryFits(Read(t, i), d) /\ i \in Slots
    BY IndexFacts DEF TreeInv
  <2> QED
    BY <2>1, EntryFacts DEF EntryFits, IsLeaf
<1>3. ASSUME NEW d \in Levels, d # Top
      PROVE  TablesAt[d] = {Follow(Read(t, i), d - 1) :
                                     t \in TablesAt[d - 1], i \in Entries(d - 1)} \ {Nothing}
  <2>1. d - 1 \in Levels /\ d - 1 # 3
    BY <1>3, LevelFacts
  <2>2. \A t \in TablesAt[d - 1], i \in Entries(d - 1) :
          LET e == Read(t, i) IN
          /\ Follow(e, d - 1) # Nothing <=> e # Nothing /\ e \notin {x \in Entry : x.large}
          /\ Follow(e, d - 1) # Nothing => Follow(e, d - 1) = e.frame
    <3> TAKE t \in TablesAt[d - 1], i \in Entries(d - 1)
    <3>1. i \in Slots
      BY <2>1, IndexFacts
    <3>2. CASE Read(t, i) = Nothing
      BY <3>2 DEF Follow
    <3>3. CASE Read(t, i) # Nothing
      BY <1>2, <2>1, <3>1, <3>3, EntryFacts DEF Follow
    <3> QED
      BY <3>2, <3>3
  <2>3. TablesAt[d] = {e.frame : e \in {Read(t, i) : t \in TablesAt[d - 1], i \in Entries(d - 1)}
                                        \ ({Nothing} \cup {x \in Entry : x.large})}
    BY <1>3, TablesUnfold
  <2> QED
    BY <2>2, <2>3
<1> QED
  BY <1>1, <1>2, <1>3, TablesUnfold DEF TableLaw

(* A link of a level is what Follow follows; each table but the root has one. *)
LinkLaw ==
  /\ \A y : y \in Links <=>
       \E d \in Levels \ {3} : \E t \in TablesAt[d] : \E i \in Entries(d) :
         y = <<d, t, i>> /\ Follow(Read(t, i), d) # Nothing
  /\ \A d \in Levels \ {3} : \A t \in TablesAt[d] : \A i \in Entries(d) :
       Follow(Read(t, i), d) # Nothing =>
         /\ Follow(Read(t, i), d) = Read(t, i).frame
         /\ Follow(Read(t, i), d) \in TablesAt[d + 1]
  /\ \A d \in Levels \ {3} : \A u \in TablesAt[d + 1] :
       \E t \in TablesAt[d] : \E i \in Entries(d) :
         <<d, t, i>> \in LinksTo(u) /\ u = Follow(Read(t, i), d)
  /\ \A d \in Levels : \A t \in TablesAt[d] : (d = Top /\ t = root) \/ (d # Top /\ LinksTo(t) # {})
LEMMA LinkFacts == TypesInv /\ TreeInv => LinkLaw
<1> SUFFICES ASSUME TypesInv, TreeInv PROVE LinkLaw
  OBVIOUS
<1>1. \A d \in Levels \ {3} : d + 1 \in Levels /\ d + 1 # Top /\ (d + 1) - 1 = d /\ d \in Top .. 2
  BY LevelFacts DEF Levels
<1>2. Top .. 2 = Levels \ {3}
  BY PageTableAssumption DEF Levels
<1>3. \A d \in Levels \ {3} : \A t \in TablesAt[d] : \A i \in Entries(d) :
        /\ Follow(Read(t, i), d) # Nothing <=> Read(t, i) # Nothing /\ ~IsLeaf(Read(t, i), d)
        /\ Follow(Read(t, i), d) # Nothing => Follow(Read(t, i), d) = Read(t, i).frame
  BY TreeFacts, EntryFacts DEF Follow, TableLaw
<1>4. \A y : y \in Links <=>
        \E d \in Levels \ {3} : \E t \in TablesAt[d] : \E i \in Entries(d) :
          y = <<d, t, i>> /\ Follow(Read(t, i), d) # Nothing
  <2>1. \A d, t, i : LET x == <<d, t, i>> IN x[1] = d /\ x[2] = t /\ x[3] = i
    OBVIOUS
  <2>2. \A y : y \in Links <=>
          \E d \in Levels \ {3} : \E t \in TablesAt[d] : \E i \in Entries(d) :
            y = <<d, t, i>> /\ Read(t, i) # Nothing /\ ~IsLeaf(Read(t, i), d)
    BY <1>2, <2>1 DEF Links
  <2> QED
    BY <1>3, <2>2
<1>5. \A d \in Levels \ {3} :
        TablesAt[d + 1] = {Follow(Read(t, i), d) : t \in TablesAt[d], i \in Entries(d)} \ {Nothing}
  <2> TAKE d \in Levels \ {3}
  <2> QED
    BY <1>1, TreeFacts DEF TableLaw
<1>6. \A d \in Levels \ {3} : \A t \in TablesAt[d] : \A i \in Entries(d) :
        Follow(Read(t, i), d) # Nothing =>
          /\ Follow(Read(t, i), d) = Read(t, i).frame
          /\ Follow(Read(t, i), d) \in TablesAt[d + 1]
  BY <1>3, <1>5
<1>7. \A d \in Levels \ {3} : \A u \in TablesAt[d + 1] :
         \E t \in TablesAt[d] : \E i \in Entries(d) :
           <<d, t, i>> \in LinksTo(u) /\ u = Follow(Read(t, i), d)
  <2> TAKE d \in Levels \ {3}
  <2> TAKE u \in TablesAt[d + 1]
  <2>1. PICK t \in TablesAt[d], i \in Entries(d) : u = Follow(Read(t, i), d) /\ u # Nothing
    BY <1>5
  <2>2. <<d, t, i>> \in Links /\ Read(t, i).frame = u
    BY <1>3, <1>4, <2>1
  <2> QED
    BY <2>1, <2>2 DEF LinksTo
<1>8. ASSUME NEW d \in Levels, NEW t \in TablesAt[d]
      PROVE  (d = Top /\ t = root) \/ (d # Top /\ LinksTo(t) # {})
  <2>1. CASE d = Top
    <3>1. TablesAt[d] = {root} \ {Nothing}
      BY <2>1, TreeFacts DEF TableLaw
    <3> QED
      BY <2>1, <3>1
  <2>2. CASE d # Top
    <3>1. d - 1 \in Levels \ {3} /\ (d - 1) + 1 = d
      BY <2>2, LevelFacts
    <3> QED
      BY <1>7, <2>2, <3>1
  <2> QED
    BY <2>1, <2>2
<1> QED
  BY <1>4, <1>6, <1>7, <1>8 DEF LinkLaw

-----------------------------------------------------------------------------
(* The path of an address and the leaf at its end. *)
LEMMA Upward ==
  ASSUME NEW S \in SUBSET Levels, Top \in S, \A d \in S \ {3} : d + 1 \in S
  PROVE  S = Levels
<1>1. Top \in {0, 1} /\ Levels \subseteq {0, 1, 2, 3} /\ (Top = 1 => 0 \notin Levels)
  BY PageTableAssumption DEF Levels
<1>2. 1 \in S
  <2>1. CASE Top = 0
    BY <2>1
  <2>2. CASE Top = 1
    BY <2>2
  <2> QED
    BY <1>1, <2>1, <2>2
<1>4. 2 \in S
  <2>1. 1 # 3 /\ 1 + 1 = 2
    OBVIOUS
  <2> QED
    BY <1>2, <2>1
<1>5. 3 \in S
  <2>1. 2 # 3 /\ 2 + 1 = 3
    OBVIOUS
  <2> QED
    BY <1>4, <2>1
<1>6. 0 \in Levels => 0 \in S
  BY <1>1
<1> QED
  BY <1>1, <1>2, <1>4, <1>5, <1>6

LEMMA Downward ==
  ASSUME NEW S \in SUBSET Levels, 3 \in S, \A d \in Levels \ {3} : d + 1 \in S => d \in S
  PROVE  S = Levels
<1>1. Levels \subseteq {0, 1, 2, 3} /\ 1 \in Levels /\ 2 \in Levels /\ 3 \in Levels
  BY LevelFacts DEF Types
<1>2. 2 \in S
  <2>1. 2 # 3 /\ 2 + 1 = 3
    OBVIOUS
  <2> QED
    BY <1>1, <2>1
<1>3. 1 \in S
  <2>1. 1 # 3 /\ 1 + 1 = 2
    OBVIOUS
  <2> QED
    BY <1>1, <1>2, <2>1
<1>4. 0 \in Levels => 0 \in S
  <2>1. 0 # 3 /\ 0 + 1 = 1
    OBVIOUS
  <2> QED
    BY <1>3, <2>1
<1>5. \A d \in Levels : d \in S
  BY <1>1, <1>2, <1>3, <1>4
<1> QED
  BY <1>5

PathLaw(va) ==
  /\ \A d \in Levels : Path(va)[d] \in TablesAt[d] \cup {Nothing}
  /\ Path(va)[Top] = root
  /\ \A d \in Levels \ {3} : Path(va)[d + 1] = Follow(Reached(va, d), d)
  /\ \A d \in Levels : Path(va)[d] = Nothing => Reached(va, d) = Nothing
  /\ \A d \in Levels : Reached(va, d) \in Entry \cup {Nothing}
  /\ \A d \in Levels : EndsAt(va, d) => d \in Types /\ Path(va)[d] \in TablesAt[d]
LEMMA PathFacts == TypesInv /\ TreeInv => \A va \in Nat : PathLaw(va)
<1> SUFFICES ASSUME TypesInv, TreeInv, NEW va \in Nat PROVE PathLaw(va)
  OBVIOUS
<1>1. \A d \in Levels \ {3} : d + 1 \in Levels /\ d + 1 # Top /\ (d + 1) - 1 = d
  BY LevelFacts DEF Levels
<1>2. \A d \in Levels \ {3} : Path(va)[d + 1] = Follow(Reached(va, d), d)
  <2> TAKE d \in Levels \ {3}
  <2> QED
    BY <1>1, PathUnfolds DEF Reached
<1>3. \A d \in Levels : Path(va)[d] = Nothing => Reached(va, d) = Nothing
  BY EntryFacts, LevelFacts DEF Reached
<1>4. \A d \in Levels : Path(va)[d] \in TablesAt[d] \cup {Nothing}
  <2> DEFINE S == {d \in Levels : Path(va)[d] \in TablesAt[d] \cup {Nothing}}
  <2>1. Top \in S
    BY LevelFacts, PathUnfolds, TreeFacts DEF TableLaw
  <2>2. ASSUME NEW d \in S, d # 3 PROVE d + 1 \in S
    <3>1. CASE Path(va)[d] = Nothing
      BY <1>1, <1>2, <1>3, <2>2, <3>1 DEF Follow
    <3>2. CASE Path(va)[d] \in TablesAt[d] /\ Follow(Reached(va, d), d) # Nothing
      <4>1. Index(va, d) \in Entries(d)
        BY IndexFacts
      <4> QED
        BY <1>1, <1>2, <2>2, <3>2, <4>1, LinkFacts DEF Reached, LinkLaw
    <3>3. CASE Follow(Reached(va, d), d) = Nothing
      BY <1>1, <1>2, <2>2, <3>3
    <3> QED
      BY <3>1, <3>2, <3>3
  <2> HIDE DEF S
  <2>3. S = Levels
    <3>1. S \in SUBSET Levels
      BY DEF S
    <3> QED
      BY <2>1, <2>2, <3>1, Upward
  <2> QED
    BY <2>3 DEF S
<1>5. \A d \in Levels : Reached(va, d) \in Entry \cup {Nothing}
  BY EntryFacts, IndexFacts DEF Reached
<1>6. \A d \in Levels : EndsAt(va, d) => d \in Types /\ Path(va)[d] \in TablesAt[d]
  BY <1>3, <1>4, LevelFacts DEF EndsAt, IsLeaf, Types
<1> QED
  BY <1>2, <1>3, <1>4, <1>5, <1>6, PathUnfolds DEF PathLaw

LEMMA OneEnd ==
  TypesInv /\ TreeInv =>
    \A va \in Nat : \A d, e \in Levels :
      /\ EndsAt(va, d) /\ d < e => Path(va)[e] = Nothing
      /\ EndsAt(va, d) /\ EndsAt(va, e) => d = e
<1> SUFFICES ASSUME TypesInv, TreeInv, NEW va \in Nat
    PROVE  \A d, e \in Levels :
             /\ EndsAt(va, d) /\ d < e => Path(va)[e] = Nothing
             /\ EndsAt(va, d) /\ EndsAt(va, e) => d = e
  OBVIOUS
<1>1. ASSUME NEW d \in Levels, EndsAt(va, d)
      PROVE  \A e \in Levels : d < e => Path(va)[e] = Nothing
  <2> DEFINE S == {e \in Levels : d < e => Path(va)[e] = Nothing}
  <2>1. Top \in S
    BY LevelFacts DEF Levels
  <2>2. ASSUME NEW e \in S, e # 3 PROVE e + 1 \in S
    <3>1. e + 1 \in Levels /\ e \in Int /\ d \in Int
      BY <2>2, LevelFacts
    <3>2. CASE d = e
      BY <1>1, <2>2, <3>1, <3>2, PathFacts DEF EndsAt, Follow, PathLaw
    <3>3. CASE d < e
      BY <2>2, <3>1, <3>3, PathFacts DEF Follow, PathLaw
    <3>4. CASE e < d
      BY <3>1, <3>4
    <3> QED
      BY <3>1, <3>2, <3>3, <3>4
  <2> HIDE DEF S
  <2>3. S = Levels
    <3>1. S \in SUBSET Levels
      BY DEF S
    <3> QED
      BY <2>1, <2>2, <3>1, Upward
  <2> QED
    BY <2>3 DEF S
<1>2. ASSUME NEW d \in Levels, NEW e \in Levels, EndsAt(va, d), EndsAt(va, e), d < e
      PROVE  FALSE
  BY <1>1, <1>2, PathFacts DEF EndsAt, PathLaw
<1>3. \A d \in Levels : d \in Int
  BY LevelFacts
<1> QED
  BY <1>1, <1>2, <1>3

LeafLaw(va) ==
  /\ \A d \in Types : EndsAt(va, d) =>
       /\ LeafOf(va) = <<d, Path(va)[d], Index(va, d)>>
       /\ Translation(va) = Reached(va, d).frame + (va % Size(d))
       /\ Translation(va) \in Nat
  /\ (\A d \in Types : ~EndsAt(va, d)) => LeafOf(va) = Nothing /\ Translation(va) = Nothing
LEMMA LeafFacts == TypesInv /\ TreeInv => \A va \in Nat : LeafLaw(va)
<1> SUFFICES ASSUME TypesInv, TreeInv, NEW va \in Nat PROVE LeafLaw(va)
  OBVIOUS
<1>1. PICK walk :
        /\ LeafOf(va) = IF root = Nothing THEN Nothing ELSE walk[Top][root]
        /\ \A d \in Levels : \A t \in Frames \cup Foreign :
             walk[d][t] = LET e == Read(t, Index(va, d)) IN
                          IF e = Nothing THEN Nothing
                          ELSE IF IsLeaf(e, d) THEN <<d, t, Index(va, d)>>
                          ELSE IF e.large THEN Nothing
                          ELSE walk[d + 1][e.frame]
  BY WalkUnfolds
<1>2. ASSUME NEW d \in Levels, Path(va)[d] # Nothing
      PROVE  walk[d][Path(va)[d]] = IF Reached(va, d) = Nothing THEN Nothing
                                    ELSE IF EndsAt(va, d) THEN <<d, Path(va)[d], Index(va, d)>>
                                    ELSE IF Reached(va, d).large THEN Nothing
                                    ELSE walk[d + 1][Reached(va, d).frame]
  <2>1. Path(va)[d] \in Frames
    BY <1>2, PathFacts, TreeFacts DEF TableLaw, PathLaw
  <2> QED
    BY <1>1, <2>1 DEF Reached, EndsAt
<1>3. ASSUME NEW d \in Levels \ {3}, Path(va)[d + 1] # Nothing
      PROVE  /\ Path(va)[d] # Nothing /\ Reached(va, d) # Nothing /\ ~EndsAt(va, d)
             /\ ~Reached(va, d).large /\ Path(va)[d + 1] = Reached(va, d).frame
  BY <1>3, PathFacts DEF Follow, EndsAt, PathLaw
<1>4. \A d \in Levels : Path(va)[d] # Nothing => LeafOf(va) = walk[d][Path(va)[d]]
  <2> DEFINE S == {d \in Levels : Path(va)[d] # Nothing => LeafOf(va) = walk[d][Path(va)[d]]}
  <2>1. Top \in S
    BY <1>1, LevelFacts, PathFacts DEF PathLaw
  <2>2. ASSUME NEW d \in S, d # 3 PROVE d + 1 \in S
    <3>1. d + 1 \in Levels
      BY <2>2, LevelFacts
    <3>2. CASE Path(va)[d + 1] # Nothing
      BY <1>2, <1>3, <2>2, <3>1, <3>2
    <3> QED
      BY <3>1, <3>2
  <2> HIDE DEF S
  <2>3. S = Levels
    <3>1. S \in SUBSET Levels
      BY DEF S
    <3> QED
      BY <2>1, <2>2, <3>1, Upward
  <2> QED
    BY <2>3 DEF S
<1>5. ASSUME NEW d \in Types, EndsAt(va, d)
      PROVE  /\ LeafOf(va) = <<d, Path(va)[d], Index(va, d)>>
             /\ Translation(va) = Reached(va, d).frame + (va % Size(d))
             /\ Translation(va) \in Nat
  <2>1. d \in Levels /\ Path(va)[d] \in Frames /\ Path(va)[d] # Nothing /\ Reached(va, d) # Nothing
    BY <1>5, LevelFacts, PathFacts, TreeFacts DEF EndsAt, TableLaw, PathLaw
  <2>2. LeafOf(va) = <<d, Path(va)[d], Index(va, d)>>
    BY <1>2, <1>4, <1>5, <2>1
  <2>3. Index(va, d) \in Nat /\ Path(va)[d] \in Nat
    <3>1. Index(va, d) \in Entries(d)
      BY <2>1, IndexFacts
    <3>2. Fan[d] \in Nat
      BY <2>1, SizeFacts
    <3>3. Frames \subseteq Nat
      BY PageTableAssumption
    <3> QED
      BY <2>1, <3>1, <3>2, <3>3 DEF Entries
  <2>4. LeafOf(va) # Nothing
    BY <2>2, <2>3, NothingAssumption
  <2>5. Translation(va) = Reached(va, d).frame + (va % Size(d))
    BY <2>2, <2>4 DEF Translation, Reached
  <2>6. Reached(va, d).frame \in Nat
    BY <2>1, PathFacts, EntryFacts DEF PathLaw
  <2>7. va % Size(d) \in Nat
    BY <2>1, SizeFacts DEF Size
  <2> QED
    BY <2>2, <2>5, <2>6, <2>7
<1>6. ASSUME \A d \in Types : ~EndsAt(va, d)
      PROVE  LeafOf(va) = Nothing /\ Translation(va) = Nothing
  <2>1. \A d \in Levels : ~EndsAt(va, d)
    BY <1>6, PathFacts DEF PathLaw
  <2> DEFINE S == {d \in Levels : Path(va)[d] # Nothing => walk[d][Path(va)[d]] = Nothing}
  <2>2. 3 \in S
    <3>1. 3 \in Levels
      BY LevelFacts DEF Types
    <3>2. Reached(va, 3) = Nothing
      BY <2>1, <3>1 DEF EndsAt, IsLeaf
    <3> QED
      BY <1>2, <3>1, <3>2
  <2>3. ASSUME NEW d \in Levels \ {3}, d + 1 \in S PROVE d \in S
    <3>1. CASE Path(va)[d] # Nothing /\ Reached(va, d) # Nothing /\ ~Reached(va, d).large
      <4>1. Reached(va, d) \in Entry /\ Reached(va, d).frame # Nothing
        BY <3>1, PathFacts, EntryFacts DEF PathLaw
      <4>2. Path(va)[d + 1] = Reached(va, d).frame
        BY <2>1, <3>1, PathFacts DEF Follow, EndsAt, PathLaw
      <4> QED
        BY <1>2, <2>1, <2>3, <3>1, <4>1, <4>2
    <3>2. CASE ~(Path(va)[d] # Nothing /\ Reached(va, d) # Nothing /\ ~Reached(va, d).large)
      BY <1>2, <2>1, <2>3, <3>2
    <3> QED
      BY <3>1, <3>2
  <2> HIDE DEF S
  <2>4. S = Levels
    <3>1. S \in SUBSET Levels
      BY DEF S
    <3> QED
      BY <2>2, <2>3, <3>1, Downward
  <2>5. LeafOf(va) = Nothing
    <3>1. CASE root = Nothing
      BY <1>1, <3>1
    <3>2. CASE root # Nothing
      <4>1. Top \in S /\ Path(va)[Top] = root
        BY <2>4, LevelFacts, PathFacts DEF PathLaw
      <4> QED
        BY <1>1, <3>2, <4>1 DEF S
    <3> QED
      BY <3>1, <3>2
  <2> QED
    BY <2>5 DEF Translation
<1> QED
  BY <1>5, <1>6 DEF LeafLaw

-----------------------------------------------------------------------------
(* The same facts one step later. *)
LEMMA EntryFactsLater ==
  (TypesInv =>
    /\ \A t, i : t \notin Frames => Read(t, i) = Nothing
    /\ \A t, i : i \in Slots => Read(t, i) \in Entry \cup {Nothing}
    /\ \A x \in Entry : /\ x # Nothing /\ x.frame \in Frames \cup Foreign /\ x.frame \in Nat
                        /\ x.frame # Nothing /\ x.large \in BOOLEAN /\ x.deallocate \in BOOLEAN)'
  BY EntryFacts, PTL
LEMMA TreeFactsLater == (TypesInv /\ TreeInv => TableLaw)'
  BY TreeFacts, PTL
LEMMA LinkFactsLater == (TypesInv /\ TreeInv => LinkLaw)'
  BY LinkFacts, PTL
LEMMA PathFactsLater == (TypesInv /\ TreeInv => \A va \in Nat : PathLaw(va))'
  BY PathFacts, PTL
LEMMA LeafFactsLater == (TypesInv /\ TreeInv => \A va \in Nat : LeafLaw(va))'
  BY LeafFacts, PTL

(* Without TreeInv, for a state whose tree is not known to fit yet. *)
LEMMA TablesFollow ==
  TypesInv =>
    /\ TablesAt[Top] = {root} \ {Nothing}
    /\ \A d \in Levels \ {3} :
         TablesAt[d + 1] = {Follow(Read(t, i), d) : t \in TablesAt[d], i \in Entries(d)} \ {Nothing}
<1> SUFFICES ASSUME TypesInv
    PROVE  \A d \in Levels \ {3} :
             TablesAt[d + 1] = {Follow(Read(t, i), d) : t \in TablesAt[d], i \in Entries(d)} \ {Nothing}
  BY TablesUnfold
<1> TAKE d \in Levels \ {3}
<1>1. d + 1 \in Levels /\ d + 1 # Top /\ (d + 1) - 1 = d
  BY LevelFacts DEF Levels
<1>2. \A t \in TablesAt[d], i \in Entries(d) :
        LET e == Read(t, i) IN
        /\ Follow(e, d) # Nothing <=> e # Nothing /\ e \notin {x \in Entry : x.large}
        /\ Follow(e, d) # Nothing => Follow(e, d) = e.frame
  <2> TAKE t \in TablesAt[d], i \in Entries(d)
  <2>1. i \in Slots
    BY IndexFacts
  <2> QED
    BY <2>1, EntryFacts DEF Follow, IsLeaf
<1>3. TablesAt[d + 1] = {e.frame : e \in {Read(t, i) : t \in TablesAt[d], i \in Entries(d)}
                                          \ ({Nothing} \cup {x \in Entry : x.large})}
  BY <1>1, TablesUnfold
<1> QED
  BY <1>2, <1>3

LEMMA TablesFollowLater ==
  (TypesInv =>
    /\ TablesAt[Top] = {root} \ {Nothing}
    /\ \A d \in Levels \ {3} :
         TablesAt[d + 1] = {Follow(Read(t, i), d) : t \in TablesAt[d], i \in Entries(d)} \ {Nothing})'
  BY TablesFollow, PTL

-----------------------------------------------------------------------------
(* What a frame is used for, as facts about the tree. *)
TreesApart ==
  /\ \A d \in Levels : \A t \in TablesAt[d] :
       /\ t \notin free /\ t \notin lost
       /\ \A c \in Cores : t \notin InHand(c)
       /\ \A y \in OwnedLeaves : t \notin LeafBlock(y)
       /\ \A e \in Levels : t \in TablesAt[e] => d = e
  /\ \A x, y \in Links : Read(x[2], x[3]).frame = Read(y[2], y[3]).frame => x = y

LEMMA TablesApart == TypesInv /\ TreeInv /\ (\A f \in Frames : OneUse(f)) => TreesApart
<1> SUFFICES ASSUME TypesInv, TreeInv, \A f \in Frames : OneUse(f)
    PROVE  TreesApart
  OBVIOUS
<1>1. ASSUME NEW f \in Frames, root = f \/ LinksTo(f) # {}
      PROVE  /\ f \notin free /\ f \notin lost /\ Holders(f) = {} /\ LeavesOver(f) = {}
             /\ root = f => LinksTo(f) = {}
             /\ \A x, y \in LinksTo(f) : x = y
  <2>1. OneUse(f)
    OBVIOUS
  <2>2. CASE \E use \in {"free", "lost", "root"} : Use(f, use, {}, {}, {})
    BY <1>1, <2>2 DEF Use
  <2>3. CASE \E c \in Cores : Use(f, "hand", {c}, {}, {})
    BY <1>1, <2>3 DEF Use
  <2>4. CASE \E y \in LinksTo(f) : Use(f, "link", {}, {y}, {})
    BY <1>1, <2>4 DEF Use
  <2>5. CASE \E y \in LeavesOver(f) : Use(f, "leaf", {}, {}, {y})
    BY <1>1, <2>5 DEF Use
  <2> QED
    BY <2>1, <2>2, <2>3, <2>4, <2>5 DEF OneUse
<1>2. ASSUME NEW x \in Links, NEW y \in Links, Read(x[2], x[3]).frame = Read(y[2], y[3]).frame
      PROVE  x = y
  <2>1. Read(x[2], x[3]).frame \in Frames
    BY LinkFacts, TreeFacts, LevelFacts DEF LinkLaw, TableLaw
  <2> QED
    BY <1>1, <1>2, <2>1 DEF LinksTo
<1>3. ASSUME NEW d \in Levels, NEW t \in TablesAt[d]
      PROVE  t \in Frames /\ (root = t \/ LinksTo(t) # {})
  BY LinkFacts, TreeFacts DEF LinkLaw, TableLaw
<1>4. ASSUME NEW d \in Levels, NEW t \in TablesAt[d]
      PROVE  /\ t \notin free /\ t \notin lost
             /\ \A c \in Cores : t \notin InHand(c)
             /\ \A y \in OwnedLeaves : t \notin LeafBlock(y)
  BY <1>1, <1>3 DEF Holders, LeavesOver
<1>5. ASSUME NEW d \in Levels, NEW t \in TablesAt[d], NEW e \in Levels, t \in TablesAt[e]
      PROVE  d = e
  <2>1. \A l \in Levels : t \in TablesAt[l] /\ l # Top =>
          \E u \in TablesAt[l - 1] : \E i \in Entries(l - 1) : <<l - 1, u, i>> \in LinksTo(t)
    <3> TAKE l \in Levels
    <3>1. l # Top => l - 1 \in Levels \ {3} /\ (l - 1) + 1 = l
      BY LevelFacts
    <3> QED
      BY <3>1, LinkFacts DEF LinkLaw
  <2>2. t \in Frames
    BY <1>3
  <2>3. \A l \in Levels : l \in Int
    BY LevelFacts
  <2>4. CASE root = t
    <3>1. LinksTo(t) = {}
      BY <1>1, <2>2, <2>4
    <3> QED
      BY <1>5, <2>1, <3>1
  <2>5. CASE root # t
    <3>1. d # Top /\ e # Top
      BY <1>5, <2>5, TreeFacts DEF TableLaw
    <3>2. PICK u, i : <<d - 1, u, i>> \in LinksTo(t)
      BY <1>5, <2>1, <3>1
    <3>3. PICK v, j : <<e - 1, v, j>> \in LinksTo(t)
      BY <1>5, <2>1, <3>1
    <3>4. <<d - 1, u, i>> = <<e - 1, v, j>>
      BY <1>1, <1>3, <3>2, <3>3
    <3> QED
      BY <2>3, <3>4
  <2> QED
    BY <2>4, <2>5
<1> QED
  BY <1>2, <1>4, <1>5 DEF TreesApart

-----------------------------------------------------------------------------
(* What a step does to the tree.  Most steps do nothing to it. *)
SameTranslations == \A va \in Nat : Translation(va)' = Translation(va)
SameTree ==
  /\ TreeInv'
  /\ \A d \in Levels : TablesAt[d]' = TablesAt[d]
  /\ \A d \in Levels : \A t \in TablesAt[d] : \A i \in Entries(d) : Read(t, i)' = Read(t, i)
  /\ \A f : LinksTo(f)' = LinksTo(f) /\ LeavesOver(f)' = LeavesOver(f)
  /\ \A va \in Nat :
       \A d \in Levels : Path(va)[d]' = Path(va)[d] /\ Reached(va, d)' = Reached(va, d)
  /\ SameTranslations

(* Steps that leave the links alone leave the tables, the links and the paths alone. *)
LEMMA LinksKept ==
  ASSUME TypesInv, TypesInv', TreeInv, root' = root,
         \A d \in Levels \ {3} : \A t \in TablesAt[d] : \A i \in Entries(d) :
           Follow(Read(t, i)', d) = Follow(Read(t, i), d),
         \A d \in Levels : \A t \in TablesAt[d] : \A i \in Entries(d) :
           EntryFits(Read(t, i)', d)
  PROVE  /\ TreeInv'
         /\ \A d \in Levels : TablesAt[d]' = TablesAt[d]
         /\ \A f : LinksTo(f)' = LinksTo(f)
         /\ \A va \in Nat, d \in Levels : Path(va)[d]' = Path(va)[d]
<1>1. \A d \in Levels : TablesAt[d]' = TablesAt[d]
  <2> DEFINE S == {d \in Levels : TablesAt[d]' = TablesAt[d]}
  <2>1. Top \in S
    <3>1. TablesAt[Top]' = {root'} \ {Nothing} /\ TablesAt[Top] = {root} \ {Nothing}
      BY TablesFollow, TablesFollowLater
    <3> QED
      BY <3>1, LevelFacts
  <2>2. ASSUME NEW d \in S, d # 3 PROVE d + 1 \in S
    <3>1. d + 1 \in Levels /\ d \in Levels \ {3} /\ TablesAt[d]' = TablesAt[d]
      BY <2>2, LevelFacts
    <3>2. TablesAt[d + 1] = {Follow(Read(t, i), d) : t \in TablesAt[d], i \in Entries(d)} \ {Nothing}
      BY <3>1, TablesFollow
    <3>3. TablesAt[d + 1]' = {Follow(Read(t, i)', d) : t \in TablesAt[d], i \in Entries(d)} \ {Nothing}
      BY <3>1, TablesFollowLater
    <3>4. TablesAt[d + 1]' = TablesAt[d + 1]
      <4>1. \A t \in TablesAt[d], i \in Entries(d) : Follow(Read(t, i)', d) = Follow(Read(t, i), d)
        BY <3>1
      <4> QED
        BY <3>2, <3>3, <4>1
    <3> QED
      BY <3>1, <3>4
  <2> HIDE DEF S
  <2>3. S = Levels
    <3>1. S \in SUBSET Levels
      BY DEF S
    <3> QED
      BY <2>1, <2>2, <3>1, Upward
  <2> QED
    BY <2>3 DEF S
<1>2. TreeInv'
  <2>1. \A d \in Levels : \A t \in TablesAt[d] : t \in Frames
    BY TreeFacts DEF TableLaw
  <2> QED
    BY <1>1, <2>1 DEF TreeInv, EntryFits, Block
<1>3. LinkLaw /\ LinkLaw'
  BY <1>2, LinkFacts, LinkFactsLater
<1>4. \A y : y \in Links' <=> y \in Links
  BY <1>1, <1>3 DEF LinkLaw
<1>5. \A y \in Links : Read(y[2], y[3])'.frame = Read(y[2], y[3]).frame
  <2> TAKE y \in Links
  <2>1. PICK d, t, i :
          /\ d \in Levels \ {3} /\ t \in TablesAt[d] /\ i \in Entries(d)
          /\ y = <<d, t, i>> /\ Follow(Read(t, i), d) # Nothing
    BY <1>3 DEF LinkLaw
  <2>2. Follow(Read(t, i), d) = Read(t, i).frame
    BY <1>3, <2>1 DEF LinkLaw
  <2>3. Follow(Read(t, i)', d) = Read(t, i)'.frame
    BY <1>1, <1>3, <2>1 DEF LinkLaw
  <2> QED
    BY <2>1, <2>2, <2>3
<1>6. \A f : LinksTo(f)' = LinksTo(f)
  BY <1>4, <1>5 DEF LinksTo
<1>7. ASSUME NEW va \in Nat
      PROVE  \A d \in Levels : Path(va)[d]' = Path(va)[d]
  <2> DEFINE S == {d \in Levels : Path(va)[d]' = Path(va)[d]}
  <2>0. PathLaw(va) /\ (PathLaw(va))'
    BY <1>2, PathFacts, PathFactsLater
  <2>1. Top \in S
    BY <2>0, LevelFacts DEF PathLaw
  <2>2. ASSUME NEW d \in S, d # 3 PROVE d + 1 \in S
    <3>1. d + 1 \in Levels /\ d \in Levels \ {3} /\ Path(va)[d]' = Path(va)[d]
      BY <2>2, LevelFacts
    <3>2. Path(va)[d + 1] = Follow(Reached(va, d), d) /\ Path(va)[d + 1]' = Follow(Reached(va, d)', d)
      BY <2>0, <3>1 DEF PathLaw
    <3>3. CASE Path(va)[d] = Nothing
      BY <2>0, <3>1, <3>2, <3>3 DEF PathLaw
    <3>4. CASE Path(va)[d] # Nothing
      <4>1. Path(va)[d] \in TablesAt[d] /\ Index(va, d) \in Entries(d)
        BY <2>0, <3>1, <3>4, IndexFacts DEF PathLaw
      <4>2. Reached(va, d)' = Read(Path(va)[d], Index(va, d))'
        BY <3>1 DEF Reached
      <4> QED
        BY <3>1, <3>2, <4>1, <4>2 DEF Reached
    <3> QED
      BY <3>3, <3>4
  <2> HIDE DEF S
  <2>3. S = Levels
    <3>1. S \in SUBSET Levels
      BY DEF S
    <3> QED
      BY <2>1, <2>2, <3>1, Upward
  <2> QED
    BY <2>3 DEF S
<1> QED
  BY <1>1, <1>2, <1>6, <1>7

LEMMA ReadsKept ==
  ASSUME TypesInv, TypesInv', TreeInv, root' = root,
         \A d \in Levels : \A t \in TablesAt[d] : \A i \in Entries(d) : Read(t, i)' = Read(t, i)
  PROVE  SameTree
<1>1. \A d \in Levels : \A t \in TablesAt[d] : \A i \in Entries(d) : EntryFits(Read(t, i)', d)
  BY DEF TreeInv
<1>2. /\ TreeInv'
      /\ \A d \in Levels : TablesAt[d]' = TablesAt[d]
      /\ \A f : LinksTo(f)' = LinksTo(f)
      /\ \A va \in Nat, d \in Levels : Path(va)[d]' = Path(va)[d]
  BY <1>1, LinksKept
<1>3. ASSUME NEW va \in Nat, NEW d \in Levels PROVE Reached(va, d)' = Reached(va, d)
  <2>1. PathLaw(va) /\ PathLaw(va)'
    BY <1>2, PathFacts, PathFactsLater
  <2>2. CASE Path(va)[d] = Nothing
    BY <1>2, <2>1, <2>2 DEF PathLaw
  <2>3. CASE Path(va)[d] # Nothing
    <3>1. Path(va)[d] \in TablesAt[d] /\ Index(va, d) \in Entries(d)
      BY <2>1, <2>3, IndexFacts DEF PathLaw
    <3> QED
      BY <1>2, <3>1 DEF Reached
  <2> QED
    BY <2>2, <2>3
<1>4. ASSUME NEW va \in Nat PROVE Translation(va)' = Translation(va)
  <2>1. LeafLaw(va) /\ LeafLaw(va)'
    BY <1>2, LeafFacts, LeafFactsLater
  <2>2. \A d \in Types : EndsAt(va, d)' <=> EndsAt(va, d)
    BY <1>3, LevelFacts DEF EndsAt
  <2>3. CASE \E d \in Types : EndsAt(va, d)
    <3>1. PICK d \in Types : EndsAt(va, d)
      BY <2>3
    <3>2. Reached(va, d)' = Reached(va, d)
      BY <1>3, LevelFacts
    <3> QED
      BY <2>1, <2>2, <3>1, <3>2 DEF LeafLaw
  <2>4. CASE \A d \in Types : ~EndsAt(va, d)
    BY <2>1, <2>2, <2>4 DEF LeafLaw
  <2> QED
    BY <2>3, <2>4
<1>5. ASSUME NEW f PROVE LeavesOver(f)' = LeavesOver(f)
  <2>1. \A d \in Types : d \in Levels
    BY LevelFacts
  <2>2. \A y : y \in LeavesOver(f) <=>
          \E d \in Types : \E t \in TablesAt[d] : \E i \in Entries(d) :
            /\ y = <<d, t, i>> /\ Read(t, i) # Nothing /\ IsLeaf(Read(t, i), d)
            /\ Read(t, i).deallocate /\ f \in Block(Read(t, i).frame, d)
    BY DEF LeavesOver, OwnedLeaves, Leaves, LeafBlock
  <2>3. \A y : y \in LeavesOver(f)' <=>
          \E d \in Types : \E t \in TablesAt[d]' : \E i \in Entries(d) :
            /\ y = <<d, t, i>> /\ Read(t, i)' # Nothing /\ IsLeaf(Read(t, i)', d)
            /\ Read(t, i)'.deallocate /\ f \in Block(Read(t, i)'.frame, d)
    BY DEF LeavesOver, OwnedLeaves, Leaves, LeafBlock, IsLeaf, Block, Entries
  <2>4. \A y : y \in LeavesOver(f)' <=> y \in LeavesOver(f)
    BY <1>2, <2>1, <2>2, <2>3
  <2>5. LeavesOver(f) = {y \in LeavesOver(f) : TRUE} /\ LeavesOver(f)' = {y \in LeavesOver(f)' : TRUE}
    OBVIOUS
  <2> QED
    BY <2>4, <2>5
<1> QED
  BY <1>2, <1>3, <1>4, <1>5 DEF SameTree, SameTranslations

LEMMA OwnersOf ==
  \A f, y : y \in LeavesOver(f) <=>
    \E d \in Types : \E t \in TablesAt[d] : \E i \in Entries(d) :
      /\ y = <<d, t, i>> /\ Read(t, i) # Nothing /\ IsLeaf(Read(t, i), d)
      /\ Read(t, i).deallocate /\ f \in Block(Read(t, i).frame, d)
BY DEF LeavesOver, OwnedLeaves, Leaves, LeafBlock
LEMMA OwnersOfLater ==
  (\A f, y : y \in LeavesOver(f) <=>
    \E d \in Types : \E t \in TablesAt[d] : \E i \in Entries(d) :
      /\ y = <<d, t, i>> /\ Read(t, i) # Nothing /\ IsLeaf(Read(t, i), d)
      /\ Read(t, i).deallocate /\ f \in Block(Read(t, i).frame, d))'
BY OwnersOf, PTL

(* A new empty table at an empty entry is one more table, one more link and one more step
   on the paths through that entry; no translation changes. *)
Grows(D, T, I, n) ==
  /\ D \in Levels \ {3} /\ T \in TablesAt[D] /\ I \in Entries(D)
  /\ n \in Frames /\ \A d \in Levels : n \notin TablesAt[d]
  /\ \A d, e \in Levels : \A t \in TablesAt[d] : t \in TablesAt[e] => d = e
  /\ root' = root
  /\ Read(T, I) = Nothing /\ Read(T, I)' = NewTable(n)
  /\ \A i \in Slots : Read(n, i)' = Nothing
  /\ \A d \in Levels : \A t \in TablesAt[d] : \A i \in Entries(d) :
       t # T \/ i # I => Read(t, i)' = Read(t, i)

LEMMA TreeGrows ==
  ASSUME TypesInv, TypesInv', TreeInv,
         NEW D, NEW T, NEW I, NEW n, Grows(D, T, I, n)
  PROVE  /\ TreeInv'
         /\ \A d \in Levels : TablesAt[d]' = TablesAt[d] \cup (IF d = D + 1 THEN {n} ELSE {})
         /\ \A f : LinksTo(f)' = LinksTo(f) \cup (IF f = n THEN {<<D, T, I>>} ELSE {})
         /\ \A f : LeavesOver(f)' = LeavesOver(f)
         /\ \A va \in Nat :
              /\ Translation(va)' = Translation(va)
              /\ Path(va)[D] = T /\ Index(va, D) = I => Path(va)[D + 1]' = n
              /\ \A d \in Levels :
                   /\ Path(va)[d] # Nothing => Path(va)[d]' = Path(va)[d]
                   /\ EndsAt(va, d) => EndsAt(va, d)' /\ Reached(va, d)' = Reached(va, d)
<1>0. /\ D \in Levels \ {3} /\ D + 1 \in Levels /\ D + 1 # Top /\ D \in Int
      /\ \A d \in Levels : d \in Int
  BY LevelFacts DEF Grows, Levels
<1>1. NewTable(n) \in Entry /\ ~NewTable(n).large /\ ~NewTable(n).deallocate /\ NewTable(n).frame = n
      /\ NewTable(n) # Nothing /\ n # Nothing
  <2>1. n \in Frames /\ n # Nothing
    BY LevelFacts DEF Grows
  <2>2. NewTable(n) \in Entry
    BY <2>1 DEF NewTable, Entry
  <2> QED
    BY <2>1, <2>2, EntryFacts DEF NewTable
<1>2. Follow(Nothing, D) = Nothing /\ Follow(NewTable(n), D) = n
  BY <1>0, <1>1 DEF Follow, IsLeaf
<1>3. \A d \in Levels : \A t \in TablesAt[d] : \A i \in Entries(d) :
        \/ Read(t, i)' = Read(t, i)
        \/ d = D /\ t = T /\ i = I /\ Read(t, i) = Nothing /\ Read(t, i)' = NewTable(n)
  BY DEF Grows
<1>4. \A d \in Levels : \A i \in Entries(d) : Read(n, i)' = Nothing
  BY IndexFacts DEF Grows
<1>5. \A d \in Levels : TablesAt[d]' = TablesAt[d] \cup (IF d = D + 1 THEN {n} ELSE {})
  <2> DEFINE S == {d \in Levels : TablesAt[d]' = TablesAt[d] \cup (IF d = D + 1 THEN {n} ELSE {})}
  <2>1. Top \in S
    <3>1. TablesAt[Top]' = {root'} \ {Nothing} /\ TablesAt[Top] = {root} \ {Nothing}
      BY TablesFollow, TablesFollowLater
    <3> QED
      BY <1>0, <3>1, LevelFacts DEF Grows
  <2>2. ASSUME NEW d \in S, d # 3 PROVE d + 1 \in S
    <3>0. TablesAt[d]' = TablesAt[d] \cup (IF d = D + 1 THEN {n} ELSE {})
      BY <2>2
    <3>1. /\ d + 1 \in Levels /\ d \in Levels \ {3} /\ d \in Int
          /\ TablesAt[d]' = TablesAt[d] \cup (IF d = D + 1 THEN {n} ELSE {})
      BY <2>2, <3>0, LevelFacts
    <3>2. TablesAt[d + 1] = {Follow(Read(t, i), d) : t \in TablesAt[d], i \in Entries(d)} \ {Nothing}
      BY <3>1, TablesFollow
    <3>3. TablesAt[d + 1]' = {Follow(Read(t, i)', d) : t \in TablesAt[d]', i \in Entries(d)} \ {Nothing}
      BY <3>1, TablesFollowLater
    <3>4. \A t \in TablesAt[d], i \in Entries(d) :
            \/ Follow(Read(t, i)', d) = Follow(Read(t, i), d)
            \/ d = D /\ t = T /\ i = I /\ Follow(Read(t, i), d) = Nothing /\ Follow(Read(t, i)', d) = n
      BY <1>2, <1>3, <3>1
    <3>5. \A i \in Entries(d) : Follow(Read(n, i)', d) = Nothing
      BY <1>4, <3>1 DEF Follow
    <3>6. CASE d = D
      <4>1. T \in TablesAt[d] /\ I \in Entries(d) /\ d # D + 1 /\ TablesAt[d]' = TablesAt[d]
        BY <1>0, <3>1, <3>6 DEF Grows
      <4>2. Follow(Read(T, I), d) = Nothing /\ Follow(Read(T, I)', d) = n
        BY <1>2, <3>6 DEF Grows
      <4>3. \A t \in TablesAt[d], i \in Entries(d) :
              t # T \/ i # I => Follow(Read(t, i)', d) = Follow(Read(t, i), d)
        BY <3>4
      <4>4. TablesAt[d + 1]' = TablesAt[d + 1] \cup {n}
        BY <1>1, <3>2, <3>3, <4>1, <4>2, <4>3
      <4> QED
        BY <3>1, <3>6, <4>4
    <3>7. CASE d # D
      <4>1. TablesAt[d + 1]' = TablesAt[d + 1]
        BY <3>1, <3>2, <3>3, <3>4, <3>5, <3>7
      <4>2. d + 1 # D + 1
        BY <1>0, <3>1, <3>7
      <4> QED
        BY <3>1, <4>1, <4>2
    <3> QED
      BY <3>6, <3>7
  <2> HIDE DEF S
  <2>3. S = Levels
    <3>1. S \in SUBSET Levels
      BY DEF S
    <3> QED
      BY <2>1, <2>2, <3>1, Upward
  <2> QED
    BY <2>3 DEF S
<1>6. TreeInv'
  <2>1. ASSUME NEW d \in Levels, NEW t \in TablesAt[d]'
        PROVE  t \in Frames /\ \A i \in Entries(d) : EntryFits(Read(t, i)', d)
    <3>1. CASE t \in TablesAt[d]
      <4>1. t \in Frames /\ \A i \in Entries(d) : EntryFits(Read(t, i), d)
        BY <3>1 DEF TreeInv
      <4>2. EntryFits(NewTable(n), D)
        BY <1>0, <1>1 DEF EntryFits, Grows
      <4> QED
        BY <1>3, <3>1, <4>1, <4>2
    <3>2. CASE t = n
      BY <1>4, <3>2 DEF EntryFits, Grows
    <3> QED
      BY <1>5, <3>1, <3>2
  <2> QED
    BY <2>1 DEF TreeInv, EntryFits, Block, Entries
<1>7. LinkLaw /\ LinkLaw' /\ TableLaw /\ TableLaw'
  BY <1>6, LinkFacts, LinkFactsLater, TreeFacts, TreeFactsLater
<1>8. \A d \in Levels \ {3} : \A t \in TablesAt[d]' : \A i \in Entries(d) :
        Follow(Read(t, i)', d) # Nothing =>
          \/ t \in TablesAt[d] /\ Follow(Read(t, i), d) = Follow(Read(t, i)', d)
          \/ d = D /\ t = T /\ i = I /\ Follow(Read(t, i)', d) = n
  <2> TAKE d \in Levels \ {3}
  <2> TAKE t \in TablesAt[d]'
  <2> TAKE i \in Entries(d)
  <2>1. CASE t \in TablesAt[d]
    BY <1>2, <1>3, <2>1
  <2>2. CASE t = n
    BY <1>4, <2>2 DEF Follow
  <2> QED
    BY <1>5, <2>1, <2>2
<1>9. \A f, y : y \in LinksTo(f) <=>
        \E d \in Levels \ {3} : \E t \in TablesAt[d] : \E i \in Entries(d) :
          y = <<d, t, i>> /\ Follow(Read(t, i), d) # Nothing /\ Follow(Read(t, i), d) = f
  <2>1. \A d, t, i : LET y == <<d, t, i>> IN y[2] = t /\ y[3] = i
    OBVIOUS
  <2>2. \A f, y : y \in LinksTo(f) <=>
        \E d \in Levels \ {3} : \E t \in TablesAt[d] : \E i \in Entries(d) :
          y = <<d, t, i>> /\ Follow(Read(t, i), d) # Nothing /\ Read(t, i).frame = f
    BY <1>7, <2>1 DEF LinksTo, LinkLaw
  <2> QED
    BY <1>7, <2>2 DEF LinkLaw
<1>10. \A f, y : y \in LinksTo(f)' <=>
        \E d \in Levels \ {3} : \E t \in TablesAt[d]' : \E i \in Entries(d) :
          y = <<d, t, i>> /\ Follow(Read(t, i)', d) # Nothing /\ Follow(Read(t, i)', d) = f
  <2>1. \A d, t, i : LET y == <<d, t, i>> IN y[2] = t /\ y[3] = i
    OBVIOUS
  <2>2. \A f, y : y \in LinksTo(f)' <=>
        \E d \in Levels \ {3} : \E t \in TablesAt[d]' : \E i \in Entries(d) :
          y = <<d, t, i>> /\ Follow(Read(t, i)', d) # Nothing /\ Read(t, i)'.frame = f
    BY <1>7, <2>1 DEF LinksTo, LinkLaw, Follow, IsLeaf, Entries
  <2> QED
    BY <1>7, <2>2 DEF LinkLaw, Follow, IsLeaf, Entries
<1>11. ASSUME NEW f PROVE LinksTo(f)' = LinksTo(f) \cup (IF f = n THEN {<<D, T, I>>} ELSE {})
  <2>1. \A y \in LinksTo(f) : y \in LinksTo(f)'
    <3> TAKE y \in LinksTo(f)
    <3>1. PICK d, t, i :
            /\ d \in Levels \ {3} /\ t \in TablesAt[d] /\ i \in Entries(d)
            /\ y = <<d, t, i>> /\ Follow(Read(t, i), d) # Nothing /\ Follow(Read(t, i), d) = f
      BY <1>9
    <3>2. t \in TablesAt[d]'
      BY <1>5, <3>1
    <3>3. Read(t, i)' = Read(t, i)
      BY <1>2, <1>3, <3>1
    <3> QED
      BY <1>10, <3>1, <3>2, <3>3
  <2>2. f = n => <<D, T, I>> \in LinksTo(f)'
    <3>1. T \in TablesAt[D]' /\ I \in Entries(D) /\ Follow(Read(T, I)', D) = n
      BY <1>0, <1>2, <1>5 DEF Grows
    <3> QED
      BY <1>0, <1>1, <1>10, <3>1
  <2>3. \A y \in LinksTo(f)' : y \in LinksTo(f) \/ (f = n /\ y = <<D, T, I>>)
    <3> TAKE y \in LinksTo(f)'
    <3>1. PICK d, t, i :
            /\ d \in Levels \ {3} /\ t \in TablesAt[d]' /\ i \in Entries(d)
            /\ y = <<d, t, i>> /\ Follow(Read(t, i)', d) # Nothing /\ Follow(Read(t, i)', d) = f
      BY <1>10
    <3> QED
      BY <1>8, <1>9, <3>1
  <2> QED
    BY <2>1, <2>2, <2>3
<1>12. ASSUME NEW f PROVE LeavesOver(f)' = LeavesOver(f)
  <2>0. Types \subseteq Levels
    BY LevelFacts
  <2>1. \A y \in LeavesOver(f) : y \in LeavesOver(f)'
    <3> TAKE y \in LeavesOver(f)
    <3>1. PICK d, t, i :
            /\ d \in Types /\ t \in TablesAt[d] /\ i \in Entries(d)
            /\ y = <<d, t, i>> /\ Read(t, i) # Nothing /\ IsLeaf(Read(t, i), d)
            /\ Read(t, i).deallocate /\ f \in Block(Read(t, i).frame, d)
      BY OwnersOf
    <3>2. t \in TablesAt[d]' /\ Read(t, i)' = Read(t, i)
      BY <1>3, <1>5, <2>0, <3>1
    <3> QED
      BY <3>1, <3>2, OwnersOfLater
  <2>2. \A y \in LeavesOver(f)' : y \in LeavesOver(f)
    <3> TAKE y \in LeavesOver(f)'
    <3>1. PICK d, t, i :
            /\ d \in Types /\ t \in TablesAt[d]' /\ i \in Entries(d)
            /\ y = <<d, t, i>> /\ Read(t, i)' # Nothing /\ IsLeaf(Read(t, i)', d)
            /\ Read(t, i)'.deallocate /\ f \in Block(Read(t, i)'.frame, d)
      BY OwnersOfLater
    <3>2. t \in TablesAt[d]
      BY <1>4, <1>5, <2>0, <3>1
    <3>3. Read(t, i)' = Read(t, i)
      BY <1>1, <1>3, <2>0, <3>1, <3>2
    <3> QED
      BY <3>1, <3>2, <3>3, OwnersOf
  <2>3. LeavesOver(f) = {y \in LeavesOver(f) : TRUE} /\ LeavesOver(f)' = {y \in LeavesOver(f)' : TRUE}
    OBVIOUS
  <2> QED
    BY <2>1, <2>2, <2>3
<1>13. ASSUME NEW va \in Nat
       PROVE  /\ Translation(va)' = Translation(va)
              /\ Path(va)[D] = T /\ Index(va, D) = I => Path(va)[D + 1]' = n
              /\ \A d \in Levels :
                   /\ Path(va)[d] # Nothing => Path(va)[d]' = Path(va)[d]
                   /\ EndsAt(va, d) => EndsAt(va, d)' /\ Reached(va, d)' = Reached(va, d)
  <2>0. PathLaw(va) /\ PathLaw(va)' /\ LeafLaw(va) /\ LeafLaw(va)'
    BY <1>6, PathFacts, PathFactsLater, LeafFacts, LeafFactsLater
  <2>1. ASSUME NEW d \in Levels, Path(va)[d] # Nothing, Path(va)[d]' = Path(va)[d]
        PROVE  \/ Reached(va, d)' = Reached(va, d)
               \/ d = D /\ Path(va)[d] = T /\ Index(va, d) = I
                  /\ Reached(va, d) = Nothing /\ Reached(va, d)' = NewTable(n)
    <3>1. Path(va)[d] \in TablesAt[d] /\ Index(va, d) \in Entries(d)
      BY <2>0, <2>1, IndexFacts DEF PathLaw
    <3>2. PICK t, i : t = Path(va)[d] /\ i = Index(va, d)
      OBVIOUS
    <3>3. Reached(va, d)' = Read(t, i)' /\ Reached(va, d) = Read(t, i)
      BY <2>1, <3>2 DEF Reached, Index, Size
    <3> QED
      BY <1>3, <3>1, <3>2, <3>3
  <2>2. \A d \in Levels : \/ Path(va)[d]' = Path(va)[d]
                          \/ Path(va)[d] = Nothing /\ Path(va)[d]' = n
    <3> DEFINE S == {d \in Levels : \/ Path(va)[d]' = Path(va)[d]
                                    \/ Path(va)[d] = Nothing /\ Path(va)[d]' = n}
    <3>1. Top \in S
      BY <2>0, LevelFacts DEF PathLaw, Grows
    <3>2. ASSUME NEW d \in S, d # 3 PROVE d + 1 \in S
      <4>1. d + 1 \in Levels /\ d \in Levels \ {3}
        BY <3>2, LevelFacts
      <4>2. /\ Path(va)[d + 1] = Follow(Reached(va, d), d)
            /\ Path(va)[d + 1]' = Follow(Reached(va, d)', d)
        BY <2>0, <4>1 DEF PathLaw
      <4>3. CASE Path(va)[d] = Nothing
        <5>1. Reached(va, d) = Nothing
          BY <2>0, <4>1, <4>3 DEF PathLaw
        <5>2. Reached(va, d)' = Nothing
          <6>1. CASE Path(va)[d]' = Nothing
            BY <2>0, <4>1, <6>1 DEF PathLaw
          <6>2. CASE Path(va)[d]' = n
            <7>1. Reached(va, d)' = Read(n, Index(va, d))' /\ Index(va, d) \in Entries(d)
              BY <4>1, <6>2, IndexFacts DEF Reached
            <7> QED
              BY <1>4, <4>1, <7>1
          <6> QED
            BY <3>2, <4>3, <6>1, <6>2
        <5> QED
          BY <4>1, <4>2, <5>1, <5>2
      <4>4. CASE Path(va)[d] # Nothing
        <5>1. Path(va)[d]' = Path(va)[d]
          BY <3>2, <4>4
        <5> QED
          BY <1>2, <2>1, <4>1, <4>2, <4>4, <5>1
      <4> QED
        BY <4>3, <4>4
    <3> HIDE DEF S
    <3>3. S = Levels
      <4>1. S \in SUBSET Levels
        BY DEF S
      <4> QED
        BY <3>1, <3>2, <4>1, Upward
    <3> QED
      BY <3>3 DEF S
  <2>3. Path(va)[D] = T /\ Index(va, D) = I => Path(va)[D + 1]' = n
    <3> SUFFICES ASSUME Path(va)[D] = T, Index(va, D) = I PROVE Path(va)[D + 1]' = n
      OBVIOUS
    <3>1. T # Nothing /\ Path(va)[D]' = T
      BY <1>0, <1>7, <2>2 DEF TableLaw, Grows
    <3>2. Reached(va, D)' = NewTable(n)
      BY <3>1 DEF Reached, Grows
    <3>3. Path(va)[D + 1]' = Follow(Reached(va, D)', D)
      BY <1>0, <2>0 DEF PathLaw
    <3> QED
      BY <1>2, <3>2, <3>3
  <2>4. ASSUME NEW d \in Levels, EndsAt(va, d)
        PROVE  EndsAt(va, d)' /\ Reached(va, d)' = Reached(va, d)
    <3>1. Path(va)[d] # Nothing /\ Reached(va, d) # Nothing
      BY <2>0, <2>4 DEF PathLaw, EndsAt
    <3>2. Reached(va, d)' = Reached(va, d)
      BY <2>1, <2>2, <3>1
    <3> QED
      BY <2>4, <3>2 DEF EndsAt
  <2>5. ASSUME NEW d \in Levels, EndsAt(va, d)' PROVE EndsAt(va, d)
    <3>1. Path(va)[d]' # Nothing /\ Reached(va, d)' # Nothing /\ IsLeaf(Reached(va, d)', d)
      BY <2>0, <2>5 DEF PathLaw, EndsAt
    <3>2. Path(va)[d]' # n
      <4>1. Path(va)[d]' = n => Reached(va, d)' = Read(n, Index(va, d))'
        BY DEF Reached
      <4> QED
        BY <1>4, <3>1, <4>1, IndexFacts
    <3>3. Reached(va, d)' = Reached(va, d)
      BY <1>1, <2>1, <2>2, <3>1, <3>2, <1>0 DEF IsLeaf
    <3> QED
      BY <3>1, <3>3 DEF EndsAt
  <2>6. Translation(va)' = Translation(va)
    <3>1. Types \subseteq Levels
      BY LevelFacts
    <3>2. CASE \E d \in Types : EndsAt(va, d)
      <4>1. PICK d \in Types : EndsAt(va, d)
        BY <3>2
      <4>2. EndsAt(va, d)' /\ Reached(va, d)' = Reached(va, d)
        BY <2>4, <3>1, <4>1
      <4> QED
        BY <2>0, <4>1, <4>2 DEF LeafLaw
    <3>3. CASE \A d \in Types : ~EndsAt(va, d)
      BY <2>0, <2>5, <3>1, <3>3 DEF LeafLaw
    <3> QED
      BY <3>2, <3>3
  <2> QED
    BY <2>2, <2>3, <2>4, <2>6
<1> QED
  BY <1>5, <1>6, <1>11, <1>12, <1>13

-----------------------------------------------------------------------------
(* What the memory is filled with is typed: Foreign has a largest frame. *)
LEMMA MemoryFacts ==
  /\ Garbage \in [Slots -> Entry \cup {Nothing}]
  /\ Zeroed \in [Slots -> Entry \cup {Nothing}]
  /\ \A i \in Slots : Zeroed[i] = Nothing
<1> DEFINE Above(x) == {y \in Foreign : y > x}
           counts == {Cardinality(Above(x)) : x \in Foreign}
<1>0. IsFiniteSet(Foreign) /\ Foreign # {} /\ Foreign \subseteq Nat
  BY PageTableAssumption
<1>1. \A x \in Foreign : IsFiniteSet(Above(x)) /\ Cardinality(Above(x)) \in Nat
  <2> TAKE x \in Foreign
  <2>0. Above(x) \in SUBSET Foreign
    OBVIOUS
  <2>1. IsFiniteSet(Above(x))
    BY <1>0, <2>0, FS_Subset
  <2> QED
    BY <2>1, FS_CardinalityType
<1>2. PICK x \in Foreign : \A y \in Foreign : Cardinality(Above(x)) <= Cardinality(Above(y))
  <2> HIDE DEF Above
  <2>1. counts \in SUBSET Nat /\ counts # {}
    BY <1>0, <1>1
  <2>2. \E n \in counts : \A m \in counts : n <= m
    BY <2>1, Least
  <2> QED
    BY <2>2
<1>3. ASSUME NEW y \in Foreign, y > x PROVE FALSE
  <2>0. x \in Nat /\ y \in Nat /\ Foreign \subseteq Nat
    BY <1>0
  <2>1. Above(y) \in SUBSET Above(x) /\ y \in Above(x) /\ y \notin Above(y)
    <3>1. \A z \in Foreign : z > y => z > x
      BY <1>3, <2>0
    <3>2. ~(y > y)
      BY <2>0
    <3> QED
      BY <1>3, <3>1, <3>2
  <2> HIDE DEF Above
  <2>2. Cardinality(Above(y)) <= Cardinality(Above(x))
        /\ (Cardinality(Above(x)) = Cardinality(Above(y)) => Above(x) = Above(y))
    BY <1>1, <2>1, FS_Subset
  <2> QED
    BY <1>1, <1>2, <2>1, <2>2
<1>4. Max(Foreign) \in Foreign
  <2>1. \E m \in Foreign : \A y \in Foreign : m >= y
    BY <1>0, <1>3
  <2> QED
    BY <2>1 DEF Max
<1> QED
  BY <1>4 DEF Garbage, Zeroed, Entry

LEMMA UseFacts ==
  \A f : OneUse(f) =>
    /\ f \in free \/ f \in lost \/ root = f =>
         Holders(f) = {} /\ LinksTo(f) = {} /\ LeavesOver(f) = {}
    /\ f \in free => f \notin lost /\ root # f
    /\ \A c \in Cores : f \in InHand(c) =>
         /\ f \notin free /\ f \notin lost /\ root # f
         /\ Holders(f) = {c} /\ LinksTo(f) = {} /\ LeavesOver(f) = {}
    /\ \A y \in LeavesOver(f) :
         /\ f \notin free /\ f \notin lost /\ root # f
         /\ Holders(f) = {} /\ LinksTo(f) = {} /\ LeavesOver(f) = {y}
<1> SUFFICES ASSUME NEW f, OneUse(f)
    PROVE  /\ f \in free \/ f \in lost \/ root = f =>
                Holders(f) = {} /\ LinksTo(f) = {} /\ LeavesOver(f) = {}
           /\ f \in free => f \notin lost /\ root # f
           /\ \A c \in Cores : f \in InHand(c) =>
                /\ f \notin free /\ f \notin lost /\ root # f
                /\ Holders(f) = {c} /\ LinksTo(f) = {} /\ LeavesOver(f) = {}
           /\ \A y \in LeavesOver(f) :
                /\ f \notin free /\ f \notin lost /\ root # f
                /\ Holders(f) = {} /\ LinksTo(f) = {} /\ LeavesOver(f) = {y}
  OBVIOUS
<1>0. \A c \in Cores : f \in InHand(c) => c \in Holders(f)
  BY DEF Holders
<1>1. CASE \E use \in {"free", "lost", "root"} : Use(f, use, {}, {}, {})
  BY <1>0, <1>1 DEF Use
<1>2. CASE \E c \in Cores : Use(f, "hand", {c}, {}, {})
  BY <1>0, <1>2 DEF Use
<1>3. CASE \E y \in LinksTo(f) : Use(f, "link", {}, {y}, {})
  BY <1>0, <1>3 DEF Use
<1>4. CASE \E y \in LeavesOver(f) : Use(f, "leaf", {}, {}, {y})
  BY <1>0, <1>4 DEF Use
<1> QED
  BY <1>1, <1>2, <1>3, <1>4 DEF OneUse

LEMMA UseKept ==
  \A f :
    /\ OneUse(f)
    /\ (f \in free' <=> f \in free) /\ (f \in lost' <=> f \in lost) /\ (root' = f <=> root = f)
    /\ Holders(f)' = Holders(f) /\ LinksTo(f)' = LinksTo(f) /\ LeavesOver(f)' = LeavesOver(f)
    => OneUse(f)'
BY DEF OneUse, Use

(* The hands of the cores, when one core moves. *)
LEMMA HandsMove ==
  ASSUME NEW c \in Cores, \A d \in Cores \ {c} : call'[d] = call[d]
  PROVE  \A f :
    /\ (f \in InHand(c)' <=> f \in InHand(c)) => Holders(f)' = Holders(f)
    /\ f \in InHand(c)' /\ Holders(f) \subseteq {c} => Holders(f)' = {c}
    /\ f \notin InHand(c)' /\ Holders(f) \subseteq {c} => Holders(f)' = {}
<1>1. \A d \in Cores \ {c} : InHand(d)' = InHand(d)
  BY DEF InHand, Block
<1>2. \A f, d : d \in Holders(f)' <=> d \in Cores /\ f \in InHand(d)'
  BY DEF Holders, Cores
<1>3. \A f, d : d \in Holders(f) <=> d \in Cores /\ f \in InHand(d)
  BY DEF Holders
<1>4. \A f, d : d # c => (d \in Holders(f)' <=> d \in Holders(f))
  BY <1>1, <1>2, <1>3
<1>5. \A f : Holders(f)' = {d \in Cores : f \in InHand(d)'}
  BY DEF Holders, Cores
<1>6. \A f : Holders(f) = {d \in Cores : f \in InHand(d)}
  BY DEF Holders
<1> QED
  BY <1>2, <1>3, <1>4, <1>5, <1>6

(* A core at rest, and a core that another one's step does not disturb. *)
LEMMA AtRest ==
  ASSUME NEW c \in Cores, pc[c] = "idle", call[c] = Idle
  PROVE  CallInv(c)
<1>1. call[c].new = Nothing /\ pc[c] = "idle"
  BY DEF Idle
<1>2. MapperInv(c) /\ ReaderInv(c)
  BY <1>1 DEF MapperInv, ReaderInv, Mapping
<1> QED
  BY <1>1, <1>2 DEF CallInv
LEMMA AtRestLater ==
  (\A c \in Cores : pc[c] = "idle" /\ call[c] = Idle => CallInv(c))'
<1>1. \A c \in Cores : pc[c] = "idle" /\ call[c] = Idle => CallInv(c)
  BY AtRest
<1> QED
  BY <1>1, PTL

LEMMA OthersKept ==
  ASSUME Inv, TypesInv', TreeInv', root' = root,
         NEW c \in Cores, pc'[c] = pc[c], call'[c] = call[c],
         \A va \in Nat :
           /\ Translation(va) # Nothing => Translation(va)' = Translation(va)
           /\ \A d \in Levels : Path(va)[d] # Nothing => Path(va)[d]' = Path(va)[d],
         Mapping(c) => SameTree
  PROVE  CallInv(c)'
<1>0. CallInv(c) /\ TypesInv /\ TreeInv
  BY DEF Inv
<1>1. PICK va, depth, type : va = call[c].va /\ depth = call[c].depth /\ type = call[c].type
  OBVIOUS
<1>2. /\ va \in Nat /\ depth \in Levels /\ type \in Levels /\ type \in Types
      /\ call[c].answer \in Nat \cup {Nothing} /\ call[c].before \in Nat \cup {Nothing}
  BY <1>0, <1>1, LevelFacts DEF TypesInv, Calls
<1>3. ReaderInv(c)'
  BY <1>0, <1>1, <1>2 DEF CallInv, ReaderInv
<1>4. MapperInv(c)'
  <2>1. CASE ~Mapping(c)
    BY <2>1 DEF MapperInv, Mapping
  <2>2. CASE Mapping(c)
    <3>1. EndsAt(va, type)' <=> EndsAt(va, type)
      BY <1>2, <2>2 DEF EndsAt, SameTree, SameTranslations
    <3>2. Reached(va, type)' = Reached(va, type)
      BY <1>2, <2>2 DEF SameTree, SameTranslations
    <3>3. pc[c] = "link" => Seen(c)' = Seen(c)
      <4> SUFFICES ASSUME pc[c] = "link" PROVE Seen(c)' = Seen(c)
        OBVIOUS
      <4>1. PICK t, i : t = call[c].table /\ i = Index(va, depth)
        OBVIOUS
      <4>2. t \in TablesAt[depth] /\ i \in Entries(depth)
        BY <1>0, <1>1, <1>2, <4>1, PathFacts, IndexFacts DEF CallInv, PathLaw
      <4>3. Read(t, i)' = Read(t, i)
        BY <1>2, <2>2, <4>2 DEF SameTree, SameTranslations
      <4>4. Seen(c) = Read(t, i)
        BY <1>1, <4>1 DEF Seen, Slot
      <4>5. Seen(c)' = Read(t, i)'
        BY <1>1, <4>1 DEF Seen, Slot, Index, Size
      <4> QED
        BY <4>3, <4>4, <4>5
    <3>4. MapperInv(c)
      BY <1>0 DEF CallInv
    <3> QED
      BY <1>1, <3>1, <3>2, <3>3, <3>4 DEF MapperInv, Mapping, Block
  <2> QED
    BY <2>1, <2>2
<1> QED
  BY <1>0, <1>1, <1>2, <1>3, <1>4 DEF CallInv

(* A step of one core keeps the invariant when it keeps the types and the uses of the
   frames, leaves that core in order, and changes the tree only if the core maps. *)
LEMMA StepOfOne ==
  ASSUME Inv, TypesInv', TreeInv', root' = root, NEW c \in Cores,
         \A d \in Cores \ {c} : pc'[d] = pc[d] /\ call'[d] = call[d],
         Mapping(c)' => Mapping(c) \/ ~Locked,
         \A va \in Nat :
           /\ Translation(va) # Nothing => Translation(va)' = Translation(va)
           /\ \A d \in Levels : Path(va)[d] # Nothing => Path(va)[d]' = Path(va)[d],
         SameTree \/ Mapping(c),
         \A f \in Frames : OneUse(f)',
         CallInv(c)'
  PROVE  Inv'
<1>1. \A d \in Cores \ {c} : Mapping(d)' <=> Mapping(d)
  BY DEF Mapping
<1>2. ~Locked => \A d \in Cores : ~Mapping(d)
  BY DEF Locked, Mapping
<1>3. \A d, e \in Cores : Mapping(d)' /\ Mapping(e)' => d = e
  BY <1>1, <1>2 DEF Inv
<1>4. \A d \in Cores : CallInv(d)'
  <2> TAKE d \in Cores
  <2>1. CASE d = c
    BY <2>1
  <2>2. CASE d # c
    <3>1. Mapping(d) => SameTree
      BY <2>2 DEF Inv
    <3>2. pc'[d] = pc[d] /\ call'[d] = call[d]
      BY <2>2
    <3> QED
      BY <3>1, <3>2, OthersKept
  <2> QED
    BY <2>1, <2>2
<1> QED
  BY <1>3, <1>4 DEF Inv, Cores, Mapping

(* A step of one core that moves no frame: it reads the tables, or begins or ends. *)
LEMMA QuietStep ==
  ASSUME Inv, TypesInv', UNCHANGED <<memory, free, root, lost>>, NEW c \in Cores,
         \A d \in Cores \ {c} : pc'[d] = pc[d] /\ call'[d] = call[d],
         Mapping(c)' => Mapping(c) \/ ~Locked,
         InHand(c)' = InHand(c),
         SameTree => CallInv(c)'
  PROVE  Inv'
<1>1. SameTree
  <2>1. \A d \in Levels : \A t \in TablesAt[d] : \A i \in Entries(d) : Read(t, i)' = Read(t, i)
    BY DEF Read
  <2> QED
    BY <2>1, ReadsKept DEF Inv
<1>2. ASSUME NEW f \in Frames PROVE OneUse(f)'
  <2>1. Holders(f)' = Holders(f)
    BY HandsMove
  <2> QED
    BY <1>1, <2>1, UseKept DEF Inv, SameTree, SameTranslations
<1> QED
  BY <1>1, <1>2, StepOfOne DEF SameTree, SameTranslations

LEMMA BeginsAtRoot ==
  Inv => /\ \A va \in Nat : Path(va)[Top] = root
         /\ Top \in Levels /\ \A type \in Types : Top <= type
<1>1. Top \in {0, 1} /\ Types = 1 .. 3
  BY PageTableAssumption DEF Types
<1> QED
  BY <1>1, LevelFacts, PathFacts DEF Inv, PathLaw

LEMMA MapInit ==
  ASSUME Inv, NEW c \in Cores, NEW va \in Nat, NEW type \in Types, NEW pages \in Nat \ {0},
         NEW exec \in BOOLEAN, map_init(c, va, type, pages, exec)
  PROVE  Inv'
<1> DEFINE new_call == [Idle EXCEPT !.va = va, !.type = type, !.left = pages, !.add = TRUE,
                          !.entry = [frame |-> Nothing, large |-> type # 3,
                                     deallocate |-> TRUE, exec |-> exec]]
<1>1. pc[c] = "idle" /\ root # Nothing /\ ~Locked /\ call[c] = Idle
  BY DEF map_init, Inv, CallInv
<1>2. pc' = [pc EXCEPT ![c] = "alloc"] /\ call' = [call EXCEPT ![c] = new_call]
      /\ UNCHANGED <<memory, free, root, lost>>
  BY DEF map_init
<1>3. /\ new_call \in Calls /\ new_call.page = Nothing /\ new_call.new = Nothing
      /\ new_call.depth = Top /\ ~new_call.update /\ new_call.type = type /\ new_call.left # 0
      /\ new_call.entry \in Pending /\ new_call.entry.deallocate
      /\ (new_call.entry.large <=> type # 3)
  BY LevelFacts DEF Calls, Idle, Pending
<1> HIDE DEF new_call
<1>4. /\ pc'[c] = "alloc" /\ call'[c] = new_call
      /\ \A d \in Cores \ {c} : pc'[d] = pc[d] /\ call'[d] = call[d]
  BY <1>2 DEF Inv, TypesInv
<1>5. TypesInv'
  BY <1>2, <1>3 DEF Inv, TypesInv, Cores, Slots, Entry, Calls, Levels, Types, Pending
<1>6. InHand(c)' = InHand(c)
  BY <1>1, <1>3, <1>4 DEF InHand, Idle
<1>7. CallInv(c)'
  BY <1>1, <1>2, <1>3, <1>4 DEF CallInv, MapperInv, Mapping, ReaderInv
<1> QED
  BY <1>1, <1>2, <1>4, <1>5, <1>6, <1>7, QuietStep

LEMMA MapRaw ==
  ASSUME Inv, NEW c \in Cores, NEW va \in Nat, NEW type \in Types, NEW frame \in Frames \cup Foreign,
         NEW exec \in BOOLEAN, NEW add \in BOOLEAN, NEW update \in BOOLEAN,
         update => /\ EndsAt(va, type) /\ ~Reached(va, type).deallocate
                   /\ Reached(va, type).frame = frame,
         map_raw(c, va, type, frame, exec, add, update)
  PROVE  Inv'
<1> DEFINE new_call == [Idle EXCEPT !.va = va, !.type = type, !.left = 1, !.table = root,
                          !.add = add, !.update = update,
                          !.entry = [frame |-> frame, large |-> type # 3,
                                     deallocate |-> FALSE, exec |-> exec]]
<1>1. pc[c] = "idle" /\ root # Nothing /\ ~Locked /\ call[c] = Idle
  BY DEF map_raw, Inv, CallInv
<1>2. pc' = [pc EXCEPT ![c] = "walk"] /\ call' = [call EXCEPT ![c] = new_call]
      /\ UNCHANGED <<memory, free, root, lost>>
  BY DEF map_raw
<1>3. /\ new_call \in Calls /\ new_call.page = Nothing /\ new_call.new = Nothing
      /\ new_call.depth = Top /\ new_call.update = update /\ new_call.type = type /\ new_call.left = 1
      /\ new_call.va = va /\ new_call.table = root
      /\ new_call.entry \in Entry /\ ~new_call.entry.deallocate /\ new_call.entry.frame = frame
      /\ (new_call.entry.large <=> type # 3)
  <2> DEFINE leaf == [frame |-> frame, large |-> type # 3, deallocate |-> FALSE, exec |-> exec]
  <2>1. /\ leaf \in Entry /\ ~leaf.deallocate /\ leaf.frame = frame
        /\ (leaf.large <=> type # 3)
    BY DEF Entry
  <2>2. root \in Frames \cup {Nothing}
    BY DEF Inv, TypesInv
  <2>3. new_call = [Idle EXCEPT !.va = va, !.type = type, !.left = 1, !.table = root,
                      !.add = add, !.update = update, !.entry = leaf]
    OBVIOUS
  <2> HIDE DEF leaf, new_call
  <2> QED
    BY <2>1, <2>2, <2>3, LevelFacts DEF Calls, Idle
<1> HIDE DEF new_call
<1>4. /\ pc'[c] = "walk" /\ call'[c] = new_call
      /\ \A d \in Cores \ {c} : pc'[d] = pc[d] /\ call'[d] = call[d]
  BY <1>2 DEF Inv, TypesInv
<1>5. TypesInv'
  BY <1>2, <1>3 DEF Inv, TypesInv, Cores, Slots, Entry, Calls, Levels, Types, Pending
<1>6. InHand(c)' = InHand(c)
  BY <1>1, <1>3, <1>4 DEF InHand, Idle
<1>7. ASSUME SameTree PROVE CallInv(c)'
  <2>1. Top <= type /\ type \in Levels /\ Top \in Levels
    BY BeginsAtRoot, LevelFacts
  <2>2. Path(va)[Top]' = root
    BY <1>7, <2>1, BeginsAtRoot DEF SameTree, SameTranslations
  <2>3. update => EndsAt(va, type)' /\ Reached(va, type)' = Reached(va, type)
    BY <1>7, <2>1 DEF SameTree, SameTranslations, EndsAt
  <2>4. MapperInv(c)'
    BY <1>3, <1>4, <2>1, <2>3 DEF MapperInv, Mapping
  <2>5. ReaderInv(c)'
    BY <1>4 DEF ReaderInv
  <2> QED
    BY <1>1, <1>2, <1>3, <1>4, <2>2, <2>4, <2>5 DEF CallInv
<1> QED
  BY <1>1, <1>2, <1>4, <1>5, <1>6, <1>7, QuietStep

(* The table and the entry that a core on its way is at. *)
LEMMA OnTheWay ==
  ASSUME Inv, NEW c \in Cores, pc[c] \in {"walk", "link", "lookup"}
  PROVE  LET va == call[c].va  depth == call[c].depth IN
         /\ va \in Nat /\ depth \in Levels /\ call[c].type \in Types
         /\ call[c].table \in TablesAt[depth] /\ call[c].table \in Frames
         /\ Index(va, depth) \in Entries(depth) /\ Index(va, depth) \in Slots
         /\ call[c].table = Path(va)[depth]
         /\ Seen(c) = Reached(va, depth) /\ Seen(c) \in Entry \cup {Nothing}
         /\ PathLaw(va) /\ LeafLaw(va)
<1>1. /\ call[c].va \in Nat /\ call[c].depth \in Levels /\ call[c].type \in Types
      /\ call[c].table = Path(call[c].va)[call[c].depth] /\ call[c].table # Nothing
      /\ TypesInv /\ TreeInv
  BY DEF Inv, TypesInv, Calls, CallInv
<1>2. PathLaw(call[c].va) /\ LeafLaw(call[c].va)
  BY <1>1, PathFacts, LeafFacts
<1>3. call[c].table \in TablesAt[call[c].depth] /\ call[c].table \in Frames
  BY <1>1, <1>2, TreeFacts DEF PathLaw, TableLaw
<1>4. Seen(c) = Reached(call[c].va, call[c].depth) /\ Seen(c) \in Entry \cup {Nothing}
  BY <1>1, <1>2 DEF Seen, Slot, Reached, PathLaw
<1> QED
  BY <1>1, <1>2, <1>3, <1>4, IndexFacts

(* Going down one level. *)
LEMMA GoesDown ==
  ASSUME Inv, NEW c \in Cores, pc[c] \in {"walk", "lookup"},
         Seen(c) # Nothing, ~Seen(c).large, call[c].depth # 3
  PROVE  LET va == call[c].va  depth == call[c].depth IN
         /\ depth \in Levels \ {3} /\ depth + 1 \in Levels
         /\ Seen(c).frame \in Frames /\ Seen(c).frame # Nothing
         /\ Path(va)[depth + 1] = Seen(c).frame
<1>1. PICK va, depth : va = call[c].va /\ depth = call[c].depth
  OBVIOUS
<1>2. /\ depth \in Levels \ {3} /\ depth + 1 \in Levels
      /\ Seen(c) = Reached(va, depth) /\ Seen(c) \in Entry /\ PathLaw(va) /\ LinkLaw /\ TableLaw
  BY <1>1, OnTheWay, LinkFacts, TreeFacts, LevelFacts DEF Inv
<1>3. ~IsLeaf(Seen(c), depth)
  BY <1>1, <1>2 DEF IsLeaf
<1>4. Follow(Seen(c), depth) = Seen(c).frame /\ Seen(c).frame # Nothing
  BY <1>2, <1>3, EntryFacts DEF Follow, Inv
<1>5. Path(va)[depth + 1] = Seen(c).frame
  BY <1>2, <1>4 DEF PathLaw
<1>6. Path(va)[depth + 1] \in TablesAt[depth + 1]
  BY <1>2, <1>4, <1>5 DEF PathLaw
<1>7. Seen(c).frame \in Frames
  BY <1>2, <1>5, <1>6 DEF TableLaw
<1> QED
  BY <1>1, <1>2, <1>4, <1>5, <1>7

LEMMA WalkDown ==
  ASSUME Inv, NEW c \in Cores, walk_down(c)
  PROVE  Inv'
<1> DEFINE new_call == [call[c] EXCEPT !.table = Seen(c).frame, !.depth = @ + 1, !.new = Nothing]
<1>1. /\ pc[c] = "walk" /\ ~Last(c) /\ Seen(c) # Nothing /\ ~Seen(c).large
      /\ UNCHANGED <<memory, free, root, lost, pc>>
  BY DEF walk_down
<1>2. call' = [call EXCEPT ![c] = new_call]
  BY DEF walk_down, Descend, Inv, TypesInv
<1>3. /\ call[c] \in Calls /\ call[c].depth <= call[c].type /\ call[c].type \in Types /\ call[c].depth \in Levels
      /\ call[c].new = Nothing /\ root # Nothing
  BY <1>1 DEF Inv, TypesInv, CallInv, MapperInv, Calls
<1>4. call[c].depth # 3 /\ call[c].depth + 1 <= call[c].type /\ call[c].depth \in Int
  BY <1>1, <1>3, LevelFacts DEF Last, Types
<1>5. /\ call[c].depth + 1 \in Levels /\ Seen(c).frame \in Frames /\ Seen(c).frame # Nothing
      /\ Path(call[c].va)[call[c].depth + 1] = Seen(c).frame
  BY <1>1, <1>4, GoesDown
<1>6. /\ new_call \in Calls /\ new_call.table = Seen(c).frame /\ new_call.depth = call[c].depth + 1
      /\ new_call.new = Nothing /\ new_call.va = call[c].va /\ new_call.type = call[c].type
      /\ new_call.page = call[c].page /\ new_call.entry = call[c].entry
      /\ new_call.update = call[c].update /\ new_call.left = call[c].left
  BY <1>3, <1>5 DEF Calls
<1> HIDE DEF new_call
<1>7. /\ pc'[c] = "walk" /\ call'[c] = new_call
      /\ \A d \in Cores \ {c} : pc'[d] = pc[d] /\ call'[d] = call[d]
  BY <1>1, <1>2 DEF Inv, TypesInv
<1>8. TypesInv'
  BY <1>1, <1>2, <1>6 DEF Inv, TypesInv, Cores, Slots, Entry, Calls, Levels, Types, Pending
<1>9. InHand(c)' = InHand(c)
  BY <1>3, <1>6, <1>7 DEF InHand, Block
<1>10. ASSUME SameTree PROVE CallInv(c)'
  <2>1. PICK va, type, depth : va = call[c].va /\ type = call[c].type /\ depth = call[c].depth + 1
    OBVIOUS
  <2>2. va \in Nat /\ type \in Levels /\ depth \in Levels /\ call[c].table # Nothing
    BY <1>1, <1>3, <1>5, <2>1, LevelFacts DEF Calls, CallInv, Inv
  <2>3. /\ EndsAt(va, type)' <=> EndsAt(va, type)
        /\ Reached(va, type)' = Reached(va, type) /\ Path(va)[depth]' = Path(va)[depth]
    BY <1>10, <2>2 DEF SameTree, SameTranslations, EndsAt
  <2>4. MapperInv(c)'
    BY <1>1, <1>4, <1>6, <1>7, <2>1, <2>3 DEF MapperInv, Mapping, Block, Inv, CallInv
  <2>5. ReaderInv(c)'
    BY <1>7 DEF ReaderInv
  <2> QED
    BY <1>1, <1>3, <1>5, <1>6, <1>7, <2>1, <2>3, <2>4, <2>5 DEF CallInv
<1>11. Mapping(c)
  BY <1>1 DEF Mapping
<1> QED
  BY <1>1, <1>7, <1>8, <1>9, <1>10, <1>11, QuietStep

(* A walk that finds neither a leaf nor a table is over: the address is not mapped. *)
LEMMA DeadEnd ==
  ASSUME TypesInv, TreeInv, NEW va \in Nat, NEW d \in Levels,
         Path(va)[d] # Nothing, ~EndsAt(va, d), Follow(Reached(va, d), d) = Nothing
  PROVE  Translation(va) = Nothing
<1>0. PathLaw(va) /\ LeafLaw(va)
  BY PathFacts, LeafFacts
<1>1. \A e \in Levels : e > d => Path(va)[e] = Nothing
  <2> DEFINE S == {e \in Levels : e > d => Path(va)[e] = Nothing}
  <2>1. Top \in S
    BY LevelFacts DEF Levels
  <2>2. ASSUME NEW e \in S, e # 3 PROVE e + 1 \in S
    <3>1. e + 1 \in Levels /\ e \in Levels \ {3} /\ e \in Int /\ d \in Int
      BY <2>2, LevelFacts
    <3>2. CASE e = d
      BY <1>0, <3>1, <3>2 DEF PathLaw
    <3>3. CASE e > d
      BY <1>0, <2>2, <3>1, <3>3 DEF Follow, PathLaw
    <3>4. CASE e < d
      BY <3>1, <3>4
    <3> QED
      BY <3>1, <3>2, <3>3, <3>4
  <2> HIDE DEF S
  <2>3. S = Levels
    <3>1. S \in SUBSET Levels
      BY DEF S
    <3> QED
      BY <2>1, <2>2, <3>1, Upward
  <2> QED
    BY <2>3 DEF S
<1>2. ASSUME NEW e \in Types, EndsAt(va, e) PROVE FALSE
  <2>1. e \in Levels /\ e \in Int /\ d \in Int /\ Path(va)[e] # Nothing
    BY <1>0, <1>2, LevelFacts DEF EndsAt, PathLaw
  <2> QED
    BY <1>1, <1>2, <2>1, OneEnd
<1> QED
  BY <1>0, <1>2 DEF LeafLaw

LEMMA VirtToPhys ==
  ASSUME Inv, NEW c \in Cores, NEW va \in Nat, virt_to_phys(c, va)
  PROVE  Inv'
<1> DEFINE new_call == [Idle EXCEPT !.va = va, !.table = root, !.before = Translation(va)]
<1>1. pc[c] = "idle" /\ root # Nothing /\ call[c] = Idle
  BY DEF virt_to_phys, Inv, CallInv
<1>2. pc' = [pc EXCEPT ![c] = "lookup"] /\ call' = [call EXCEPT ![c] = new_call]
      /\ UNCHANGED <<memory, free, root, lost>>
  BY DEF virt_to_phys
<1>3. Translation(va) \in Nat \cup {Nothing} /\ root \in Frames
  BY <1>1, LeafFacts DEF Inv, LeafLaw, TypesInv
<1>4. /\ new_call \in Calls /\ new_call.page = Nothing /\ new_call.new = Nothing
      /\ new_call.depth = Top /\ new_call.va = va /\ new_call.table = root
      /\ new_call.before = Translation(va)
  <2>1. PICK before : before = Translation(va)
    OBVIOUS
  <2>2. 3 \in Types /\ Top \in Levels
    BY LevelFacts DEF Types
  <2>3. new_call = [Idle EXCEPT !.va = va, !.table = root, !.before = before]
    BY <2>1
  <2> HIDE DEF new_call
  <2> QED
    BY <1>3, <2>1, <2>2, <2>3 DEF Calls, Idle
<1> HIDE DEF new_call
<1>5. /\ pc'[c] = "lookup" /\ call'[c] = new_call
      /\ \A d \in Cores \ {c} : pc'[d] = pc[d] /\ call'[d] = call[d]
  BY <1>2 DEF Inv, TypesInv
<1>6. TypesInv'
  BY <1>2, <1>4 DEF Inv, TypesInv, Cores, Slots, Entry, Calls, Levels, Types, Pending
<1>7. InHand(c)' = InHand(c)
  BY <1>1, <1>4, <1>5 DEF InHand, Idle
<1>8. ASSUME SameTree PROVE CallInv(c)'
  <2>1. Path(va)[Top]' = root /\ Translation(va)' = Translation(va)
    BY <1>8, BeginsAtRoot DEF SameTree, SameTranslations
  <2>2. MapperInv(c)'
    BY <1>5 DEF MapperInv, Mapping
  <2>3. ReaderInv(c)'
    BY <1>4, <1>5, <2>1 DEF ReaderInv
  <2> QED
    BY <1>1, <1>2, <1>4, <1>5, <2>1, <2>2, <2>3 DEF CallInv
<1>9. ~Mapping(c)'
  BY <1>5 DEF Mapping
<1> QED
  BY <1>2, <1>5, <1>6, <1>7, <1>8, <1>9, QuietStep

LEMMA LookupDescends ==
  ASSUME Inv, NEW c \in Cores, lookup_step(c),
         Seen(c) # Nothing, ~IsLeaf(Seen(c), call[c].depth), ~Seen(c).large
  PROVE  Inv'
<1> DEFINE new_call == [call[c] EXCEPT !.table = Seen(c).frame, !.depth = @ + 1, !.new = Nothing]
<1>1. /\ pc[c] = "lookup" /\ UNCHANGED <<memory, free, root, lost, pc>>
  BY DEF lookup_step
<1>2. call' = [call EXCEPT ![c] = new_call]
  BY DEF lookup_step, Descend, Inv, TypesInv
<1>3. /\ call[c] \in Calls /\ call[c].new = Nothing /\ call[c].page = Nothing /\ root # Nothing
  BY <1>1 DEF Inv, TypesInv, CallInv
<1>4. call[c].depth # 3
  BY DEF IsLeaf
<1>5. /\ call[c].depth + 1 \in Levels /\ Seen(c).frame \in Frames /\ Seen(c).frame # Nothing
      /\ Path(call[c].va)[call[c].depth + 1] = Seen(c).frame
  BY <1>1, <1>4, GoesDown
<1>6. /\ new_call \in Calls /\ new_call.table = Seen(c).frame /\ new_call.depth = call[c].depth + 1
      /\ new_call.new = Nothing /\ new_call.va = call[c].va /\ new_call.page = Nothing
      /\ new_call.before = call[c].before
  BY <1>3, <1>5 DEF Calls
<1> HIDE DEF new_call
<1>7. /\ pc'[c] = "lookup" /\ call'[c] = new_call
      /\ \A d \in Cores \ {c} : pc'[d] = pc[d] /\ call'[d] = call[d]
  BY <1>1, <1>2 DEF Inv, TypesInv
<1>8. TypesInv'
  BY <1>1, <1>2, <1>6 DEF Inv, TypesInv, Cores, Slots, Entry, Calls, Levels, Types, Pending
<1>9. InHand(c)' = InHand(c)
  BY <1>3, <1>6, <1>7 DEF InHand, Block
<1>10. ASSUME SameTree PROVE CallInv(c)'
  <2>1. PICK va, depth : va = call[c].va /\ depth = call[c].depth + 1
    OBVIOUS
  <2>2. va \in Nat /\ depth \in Levels
    BY <1>3, <1>5, <2>1 DEF Calls
  <2>3. Path(va)[depth]' = Path(va)[depth] /\ Translation(va)' = Translation(va)
    BY <1>10, <2>2 DEF SameTree, SameTranslations
  <2>4. MapperInv(c)'
    BY <1>7 DEF MapperInv, Mapping
  <2>5. ReaderInv(c)'
    BY <1>1, <1>6, <1>7, <2>1, <2>3 DEF ReaderInv, Inv, CallInv
  <2> QED
    BY <1>1, <1>3, <1>5, <1>6, <1>7, <2>1, <2>3, <2>4, <2>5 DEF CallInv
<1>11. ~Mapping(c)'
  BY <1>7 DEF Mapping
<1> QED
  BY <1>1, <1>7, <1>8, <1>9, <1>10, <1>11, QuietStep

(* The answer is the frame of the address at that moment. *)
LEMMA LookupAnswers ==
  ASSUME Inv, NEW c \in Cores, lookup_step(c), NEW answer, Answer(c, answer),
         answer = Translation(call[c].va)
  PROVE  Inv'
<1>1. /\ pc[c] = "lookup" /\ UNCHANGED <<memory, free, root, lost>>
      /\ pc' = [pc EXCEPT ![c] = "found"] /\ call' = [call EXCEPT ![c].answer = answer]
  BY DEF lookup_step, Answer
<1>2. PICK va \in Nat : va = call[c].va
  BY DEF Inv, TypesInv, Calls
<1>3. answer \in Nat \cup {Nothing} /\ answer = Translation(va)
  BY <1>2, LeafFacts DEF LeafLaw, Inv
<1>4. /\ call[c] \in Calls /\ call[c].new = Nothing /\ call[c].page = Nothing /\ root # Nothing
      /\ call[c].before # Nothing => answer = call[c].before
  BY <1>1, <1>2, <1>3 DEF Inv, TypesInv, CallInv, ReaderInv
<1>5. /\ pc'[c] = "found" /\ call'[c] = [call[c] EXCEPT !.answer = answer]
      /\ \A d \in Cores \ {c} : pc'[d] = pc[d] /\ call'[d] = call[d]
  BY <1>1 DEF Inv, TypesInv
<1>6. [call[c] EXCEPT !.answer = answer] \in Calls
  BY <1>3, <1>4 DEF Calls
<1>7. TypesInv'
  BY <1>1, <1>6 DEF Inv, TypesInv, Cores, Slots, Entry, Calls, Levels, Types, Pending
<1>8. /\ call'[c].va = va /\ call'[c].new = Nothing /\ call'[c].page = Nothing
      /\ call'[c].answer = answer /\ call'[c].before = call[c].before
  BY <1>2, <1>4, <1>5 DEF Calls
<1>9. InHand(c)' = InHand(c)
  BY <1>4, <1>8 DEF InHand
<1>10. ASSUME SameTree PROVE CallInv(c)'
  <2>1. Translation(va)' = Translation(va)
    BY <1>10 DEF SameTree, SameTranslations
  <2>2. MapperInv(c)'
    BY <1>5 DEF MapperInv, Mapping
  <2>3. ReaderInv(c)'
    BY <1>3, <1>4, <1>5, <1>8, <2>1 DEF ReaderInv
  <2> QED
    BY <1>1, <1>4, <1>5, <1>8, <2>2, <2>3 DEF CallInv
<1>11. ~Mapping(c)'
  BY <1>5 DEF Mapping
<1> QED
  BY <1>1, <1>5, <1>7, <1>9, <1>10, <1>11, QuietStep

LEMMA LookupMoves ==
  ASSUME Inv, NEW c \in Cores, lookup_step(c)
  PROVE  Inv'
<1>1. PICK va, depth : va = call[c].va /\ depth = call[c].depth
  OBVIOUS
<1>2. /\ va \in Nat /\ depth \in Levels /\ Seen(c) = Reached(va, depth) /\ PathLaw(va) /\ LeafLaw(va)
      /\ Path(va)[depth] = call[c].table /\ call[c].table # Nothing
  BY <1>1, OnTheWay, LevelFacts DEF lookup_step
<1>3. CASE Seen(c) = Nothing \/ (~IsLeaf(Seen(c), depth) /\ Seen(c).large)
  <2>1. ~EndsAt(va, depth) /\ Follow(Seen(c), depth) = Nothing
    BY <1>2, <1>3 DEF EndsAt, Follow
  <2>2. Translation(va) = Nothing
    BY <1>2, <2>1, DeadEnd DEF Inv
  <2>3. Answer(c, Nothing)
    BY <1>1, <1>3 DEF lookup_step
  <2> QED
    BY <1>1, <2>2, <2>3, LookupAnswers
<1>4. CASE Seen(c) # Nothing /\ IsLeaf(Seen(c), depth)
  <2>1. EndsAt(va, depth) /\ depth \in Types
    BY <1>2, <1>4 DEF EndsAt, PathLaw
  <2>2. Translation(va) = Seen(c).frame + (va % Size(depth))
    BY <1>2, <2>1 DEF LeafLaw
  <2>3. Answer(c, Seen(c).frame + (va % Size(depth)))
    BY <1>1, <1>4 DEF lookup_step
  <2> QED
    BY <1>1, <2>2, <2>3, LookupAnswers
<1>5. CASE Seen(c) # Nothing /\ ~IsLeaf(Seen(c), depth) /\ ~Seen(c).large
  BY <1>1, <1>5, LookupDescends
<1> QED
  BY <1>3, <1>4, <1>5

LEMMA LookupReturns ==
  ASSUME Inv, NEW c \in Cores, lookup_return(c)
  PROVE  Inv'
<1>1. /\ pc[c] = "found" /\ UNCHANGED <<memory, free, root, lost>>
      /\ pc' = [pc EXCEPT ![c] = "idle"] /\ call' = [call EXCEPT ![c] = Idle]
  BY DEF lookup_return, Return
<1>2. Idle \in Calls /\ Idle.page = Nothing /\ Idle.new = Nothing
  BY LevelFacts DEF Idle, Calls, Types
<1>3. /\ pc'[c] = "idle" /\ call'[c] = Idle
      /\ \A d \in Cores \ {c} : pc'[d] = pc[d] /\ call'[d] = call[d]
  BY <1>1 DEF Inv, TypesInv
<1>4. TypesInv'
  BY <1>1, <1>2 DEF Inv, TypesInv, Cores, Slots, Entry, Calls, Levels, Types, Pending
<1>5. InHand(c)' = InHand(c)
  BY <1>1, <1>2, <1>3 DEF InHand, Inv, CallInv
<1>6. CallInv(c)'
  BY <1>3, AtRestLater DEF Idle, Cores
<1>7. ~Mapping(c)'
  BY <1>3 DEF Mapping
<1> QED
  BY <1>1, <1>3, <1>4, <1>5, <1>6, <1>7, QuietStep

-----------------------------------------------------------------------------
(* Frames that the allocator gives go from free into the hand of the core: no walk reads
   them, so their contents do not matter. *)
LEMMA FramesTaken ==
  ASSUME Inv, TypesInv', NEW c \in Cores, Mapping(c), NEW B, B \subseteq free, free' = free \ B,
         UNCHANGED <<root, lost>>,
         \A t \in Frames \ free : \A i : Read(t, i)' = Read(t, i),
         \A d \in Cores \ {c} : pc'[d] = pc[d] /\ call'[d] = call[d],
         InHand(c)' = InHand(c) \cup B,
         SameTree => CallInv(c)'
  PROVE  Inv' /\ SameTranslations
<1>1. SameTree
  <2>1. TreesApart /\ TableLaw
    BY TablesApart, TreeFacts DEF Inv
  <2>2. \A d \in Levels : \A t \in TablesAt[d] : t \in Frames \ free
    BY <2>1 DEF TreesApart, TableLaw
  <2>3. \A d \in Levels : \A t \in TablesAt[d] : \A i \in Entries(d) : Read(t, i)' = Read(t, i)
    BY <2>2
  <2> QED
    BY <2>3, ReadsKept DEF Inv
<1>2. ASSUME NEW f \in Frames PROVE OneUse(f)'
  <2>1. OneUse(f) /\ LinksTo(f)' = LinksTo(f) /\ LeavesOver(f)' = LeavesOver(f)
    BY <1>1 DEF Inv, SameTree, SameTranslations
  <2>2. CASE f \in B
    <3>1. f \in free /\ f \notin lost /\ root # f /\ Holders(f) = {} /\ LinksTo(f) = {} /\ LeavesOver(f) = {}
      BY <2>1, <2>2, UseFacts
    <3>2. Holders(f)' = {c}
      BY <2>2, <3>1, HandsMove
    <3>3. Use(f, "hand", {c}, {}, {})'
      BY <2>1, <2>2, <3>1, <3>2 DEF Use
    <3> QED
      BY <3>3 DEF OneUse, Cores
  <2>3. CASE f \notin B
    <3>1. Holders(f)' = Holders(f)
      BY <2>3, HandsMove
    <3> QED
      BY <2>1, <2>3, <3>1, UseKept
  <2> QED
    BY <2>2, <2>3
<1> QED
  BY <1>1, <1>2, StepOfOne DEF SameTree, SameTranslations

LEMMA AllocPage ==
  ASSUME Inv, NEW c \in Cores, alloc_page(c)
  PROVE  Inv' /\ SameTranslations
<1> DEFINE f == Granted(call[c].type)
           B == Block(f, call[c].type)
           new_call == [call[c] EXCEPT !.page = f, !.entry = [@ EXCEPT !.frame = f], !.table = root]
<1>1. /\ pc[c] = "alloc" /\ Blocks(call[c].type) # {} /\ free' = free \ B
      /\ memory' = [g \in Frames |-> IF g \in B THEN Garbage ELSE memory[g]]
      /\ pc' = [pc EXCEPT ![c] = "walk"] /\ UNCHANGED <<root, lost>>
  BY DEF alloc_page
<1>2. call' = [call EXCEPT ![c] = new_call]
  BY DEF alloc_page, Inv, TypesInv
<1>3. /\ call[c] \in Calls /\ call[c].page = Nothing /\ call[c].new = Nothing /\ call[c].depth = Top
      /\ call[c].left # 0 /\ ~call[c].update /\ call[c].entry \in Pending /\ call[c].entry.deallocate
      /\ (call[c].entry.large <=> call[c].type # 3) /\ root # Nothing /\ root \in Frames
      /\ call[c].type \in Types /\ call[c].va \in Nat /\ free \subseteq Frames
  BY <1>1 DEF Inv, TypesInv, CallInv, MapperInv, Mapping, Calls
<1>4. /\ f \in free /\ f \in Frames /\ f \in Nat /\ f # Nothing /\ B \subseteq free /\ B \subseteq Frames
  BY <1>1, <1>3, GrantedIsFree, LevelFacts
<1> HIDE DEF f
<1>5. [call[c].entry EXCEPT !.frame = f] \in Entry
      /\ [call[c].entry EXCEPT !.frame = f].frame = f
      /\ [call[c].entry EXCEPT !.frame = f].deallocate = call[c].entry.deallocate
      /\ [call[c].entry EXCEPT !.frame = f].large = call[c].entry.large
  BY <1>3, <1>4 DEF Pending, Entry
<1>6. /\ new_call \in Calls /\ new_call.page = f /\ new_call.new = Nothing /\ new_call.depth = Top
      /\ ~new_call.update /\ new_call.left = call[c].left /\ new_call.type = call[c].type /\ new_call.va = call[c].va
      /\ new_call.table = root /\ new_call.entry = [call[c].entry EXCEPT !.frame = f]
  <2>1. PICK e \in Entry : e = [call[c].entry EXCEPT !.frame = f]
    BY <1>5
  <2>2. new_call = [call[c] EXCEPT !.page = f, !.entry = e, !.table = root]
    BY <1>3, <2>1 DEF Calls
  <2> HIDE DEF new_call
  <2> QED
    BY <1>3, <1>4, <2>1, <2>2 DEF Calls
<1> HIDE DEF new_call
<1>7. /\ pc'[c] = "walk" /\ call'[c] = new_call
      /\ \A d \in Cores \ {c} : pc'[d] = pc[d] /\ call'[d] = call[d]
  BY <1>1, <1>2 DEF Inv, TypesInv
<1>8. TypesInv'
  <2>1. memory' \in [Frames -> [Slots -> Entry \cup {Nothing}]]
    BY <1>1, MemoryFacts DEF Inv, TypesInv
  <2> QED
    BY <1>1, <1>2, <1>6, <2>1 DEF Inv, TypesInv, Cores, Slots, Entry, Calls, Levels, Types, Pending
<1>9. InHand(c)' = InHand(c) \cup B
  BY <1>3, <1>4, <1>6, <1>7 DEF InHand, Block
<1>10. \A t \in Frames \ free : \A i : Read(t, i)' = Read(t, i)
  BY <1>1, <1>4 DEF Read
<1>11. ASSUME SameTree PROVE CallInv(c)'
  <2>1. PICK va \in Nat, type \in Types : va = call[c].va /\ type = call[c].type
    BY <1>3
  <2>2. Path(va)[Top]' = root
    BY <1>11, BeginsAtRoot DEF SameTree, SameTranslations
  <2>3. Top <= type
    BY BeginsAtRoot
  <2>4. MapperInv(c)'
    BY <1>3, <1>4, <1>5, <1>6, <1>7, <2>1, <2>3 DEF MapperInv, Mapping, Block
  <2>5. ReaderInv(c)'
    BY <1>7 DEF ReaderInv
  <2> QED
    BY <1>1, <1>3, <1>6, <1>7, <2>1, <2>2, <2>4, <2>5 DEF CallInv
<1>12. Mapping(c)
  BY <1>1 DEF Mapping
<1> QED
  BY <1>1, <1>4, <1>7, <1>8, <1>9, <1>10, <1>11, <1>12, FramesTaken

LEMMA AddTable ==
  ASSUME Inv, NEW c \in Cores, add_table(c)
  PROVE  Inv'
<1> DEFINE n == Granted(3)
<1>1. /\ pc[c] = "walk" /\ ~Last(c) /\ Seen(c) = Nothing /\ Blocks(3) # {}
      /\ free' = free \ {n} /\ UNCHANGED <<memory, root, lost>>
      /\ pc' = [pc EXCEPT ![c] = "link"] /\ call' = [call EXCEPT ![c].new = n]
  BY DEF add_table
<1>2. n \in free /\ n \in Frames /\ n # Nothing
  BY <1>1, GrantedIsFree, LevelFacts DEF Inv, TypesInv, Types
<1> HIDE DEF n
<1>3. /\ call[c] \in Calls /\ call[c].new = Nothing /\ root # Nothing
      /\ call[c].depth <= call[c].type /\ call[c].depth # call[c].type
      /\ call[c].depth \in Int /\ call[c].type \in Int
  BY <1>1, LevelFacts DEF Inv, TypesInv, CallInv, MapperInv, Calls, Last, Types
<1>4. /\ pc'[c] = "link" /\ call'[c] = [call[c] EXCEPT !.new = n]
      /\ \A d \in Cores \ {c} : pc'[d] = pc[d] /\ call'[d] = call[d]
  BY <1>1 DEF Inv, TypesInv
<1>5. /\ [call[c] EXCEPT !.new = n] \in Calls
      /\ call'[c].new = n /\ call'[c].va = call[c].va /\ call'[c].depth = call[c].depth
      /\ call'[c].type = call[c].type /\ call'[c].table = call[c].table /\ call'[c].page = call[c].page
      /\ call'[c].entry = call[c].entry /\ call'[c].update = call[c].update /\ call'[c].left = call[c].left
  BY <1>2, <1>3, <1>4 DEF Calls
<1>6. TypesInv'
  BY <1>1, <1>5 DEF Inv, TypesInv, Cores, Slots, Entry, Calls, Levels, Types, Pending
<1>7. InHand(c)' = InHand(c) \cup {n}
  BY <1>2, <1>3, <1>5 DEF InHand, Block
<1>8. \A t \in Frames \ free : \A i : Read(t, i)' = Read(t, i)
  BY <1>1 DEF Read
<1>9. ASSUME SameTree PROVE CallInv(c)'
  <2>1. PICK va, type, depth : va = call[c].va /\ type = call[c].type /\ depth = call[c].depth
    OBVIOUS
  <2>2. va \in Nat /\ type \in Levels /\ depth \in Levels
    BY <1>3, <2>1, LevelFacts DEF Calls
  <2>3. /\ EndsAt(va, type)' <=> EndsAt(va, type)
        /\ Reached(va, type)' = Reached(va, type) /\ Path(va)[depth]' = Path(va)[depth]
    BY <1>9, <2>2 DEF SameTree, SameTranslations, EndsAt
  <2>4. Seen(c)' = Nothing
    BY <1>1, <1>5 DEF Seen, Slot, Read, Index, Size
  <2>5. call[c].page # Nothing => n \notin Block(call[c].page, call[c].type)
    <3>1. OneUse(n)
      BY <1>2 DEF Inv
    <3>2. n \notin InHand(c)
      BY <1>2, <3>1, UseFacts
    <3> QED
      BY <3>2 DEF InHand
  <2>6. MapperInv(c)'
    BY <1>1, <1>2, <1>3, <1>4, <1>5, <2>1, <2>3, <2>4, <2>5 DEF MapperInv, Mapping, Block, Inv, CallInv
  <2>7. ReaderInv(c)'
    BY <1>4 DEF ReaderInv
  <2> QED
    BY <1>1, <1>3, <1>4, <1>5, <2>1, <2>3, <2>6, <2>7 DEF CallInv, Inv
<1>10. Mapping(c)
  BY <1>1 DEF Mapping
<1>11. PICK B : B = {n} /\ B \subseteq free
  BY <1>2
<1> QED
  BY <1>1, <1>4, <1>6, <1>7, <1>8, <1>9, <1>10, <1>11, FramesTaken

(* A call that fails loses the page in its hand, and nothing else. *)
LEMMA MapFails ==
  ASSUME Inv, NEW c \in Cores, fail(c)
  PROVE  Inv'
<1> DEFINE B == IF call[c].page = Nothing THEN {} ELSE Block(call[c].page, call[c].type)
<1>1. /\ pc[c] \in {"alloc", "walk"} /\ lost' = lost \cup B /\ UNCHANGED <<memory, free, root>>
      /\ pc' = [pc EXCEPT ![c] = "idle"] /\ call' = [call EXCEPT ![c] = Idle]
  BY DEF fail, Fails, Return
<1>2. Idle \in Calls /\ Idle.page = Nothing /\ Idle.new = Nothing
  BY LevelFacts DEF Idle, Calls, Types
<1>3. /\ pc'[c] = "idle" /\ call'[c] = Idle
      /\ \A d \in Cores \ {c} : pc'[d] = pc[d] /\ call'[d] = call[d]
  BY <1>1 DEF Inv, TypesInv
<1>4. B \subseteq Frames /\ InHand(c) = B
  BY <1>1 DEF Inv, CallInv, MapperInv, InHand
<1>5. InHand(c)' = {}
  BY <1>2, <1>3 DEF InHand
<1>6. TypesInv'
  BY <1>1, <1>2, <1>4 DEF Inv, TypesInv, Cores, Slots, Entry, Calls, Levels, Types, Pending
<1>7. SameTree
  <2>1. \A d \in Levels : \A t \in TablesAt[d] : \A i \in Entries(d) : Read(t, i)' = Read(t, i)
    BY <1>1 DEF Read
  <2> QED
    BY <1>1, <1>6, <2>1, ReadsKept DEF Inv
<1> HIDE DEF B
<1>8. ASSUME NEW f \in Frames PROVE OneUse(f)'
  <2>1. OneUse(f) /\ LinksTo(f)' = LinksTo(f) /\ LeavesOver(f)' = LeavesOver(f)
    BY <1>7 DEF Inv, SameTree, SameTranslations
  <2>2. CASE f \in B
    <3>1. f \notin free /\ root # f /\ Holders(f) = {c} /\ LinksTo(f) = {} /\ LeavesOver(f) = {}
      BY <1>4, <2>1, <2>2, UseFacts
    <3>2. Holders(f)' = {}
      BY <1>3, <1>5, <3>1, HandsMove
    <3>3. Use(f, "lost", {}, {}, {})'
      BY <1>1, <2>1, <2>2, <3>1, <3>2 DEF Use
    <3> QED
      BY <3>3 DEF OneUse
  <2>3. CASE f \notin B
    <3>1. Holders(f)' = Holders(f)
      BY <1>3, <1>4, <1>5, <2>3, HandsMove
    <3> QED
      BY <1>1, <2>1, <2>3, <3>1, UseKept
  <2> QED
    BY <2>2, <2>3
<1>9. CallInv(c)'
  BY <1>3, AtRestLater DEF Idle, Cores
<1>10. ~Mapping(c)'
  BY <1>3 DEF Mapping
<1> QED
  BY <1>1, <1>3, <1>6, <1>7, <1>8, <1>9, <1>10, StepOfOne DEF SameTree, SameTranslations

-----------------------------------------------------------------------------
(* The new table goes from the hand of the core into the tree. *)
LEMMA LinkTable ==
  ASSUME Inv, NEW c \in Cores, link_table(c)
  PROVE  Inv' /\ SameTranslations
<1> DEFINE n == call[c].new
           T == call[c].table
           D == call[c].depth
           I == Index(call[c].va, D)
           new_call == [call[c] EXCEPT !.table = n, !.depth = @ + 1, !.new = Nothing]
<1>1. /\ pc[c] = "link" /\ UNCHANGED <<free, root, lost>> /\ pc' = [pc EXCEPT ![c] = "walk"]
  BY DEF link_table
<1>2. call' = [call EXCEPT ![c] = new_call]
  BY DEF link_table, Descend, Inv, TypesInv
<1>3. memory' = [[memory EXCEPT ![n] = Zeroed] EXCEPT ![T] = [@ EXCEPT ![I] = NewTable(n)]]
  BY DEF link_table, Slot
<1>4. /\ call[c] \in Calls /\ n \in Frames /\ n # Nothing /\ Seen(c) = Nothing /\ root # Nothing
      /\ D < call[c].type /\ D \in Levels /\ call[c].type \in Types /\ call[c].va \in Nat
      /\ call[c].page # Nothing => n \notin Block(call[c].page, call[c].type)
  BY <1>1, LevelFacts DEF Inv, TypesInv, CallInv, MapperInv, Calls
<1>5. /\ T \in TablesAt[D] /\ T \in Frames /\ I \in Entries(D) /\ I \in Slots
      /\ T = Path(call[c].va)[D] /\ Read(T, I) = Nothing
  BY <1>1, <1>4, OnTheWay DEF Seen, Slot
<1>6. /\ n \in InHand(c) /\ TreesApart /\ TableLaw /\ OneUse(n)
  BY <1>4, TablesApart, TreeFacts DEF InHand, Inv
<1>7. /\ n # T /\ \A d \in Levels : n \notin TablesAt[d]
  BY <1>4, <1>5, <1>6 DEF TreesApart
<1>8. D \in Levels \ {3} /\ D + 1 \in Levels /\ D + 1 <= call[c].type /\ D \in Int
  BY <1>4, LevelFacts DEF Types
<1>9. /\ new_call \in Calls /\ new_call.table = n /\ new_call.depth = D + 1
      /\ new_call.new = Nothing /\ new_call.va = call[c].va /\ new_call.type = call[c].type
      /\ new_call.page = call[c].page /\ new_call.entry = call[c].entry
      /\ new_call.update = call[c].update /\ new_call.left = call[c].left
  BY <1>4, <1>8 DEF Calls
<1> HIDE DEF new_call
<1>10. /\ pc'[c] = "walk" /\ call'[c] = new_call
       /\ \A d \in Cores \ {c} : pc'[d] = pc[d] /\ call'[d] = call[d]
  BY <1>1, <1>2 DEF Inv, TypesInv
<1>11. PICK nn, TT, DD, II, va, type :
         nn = n /\ TT = T /\ DD = D /\ II = I /\ va = call[c].va /\ type = call[c].type
  OBVIOUS
<1>12. NewTable(nn) \in Entry
  BY <1>4, <1>11 DEF NewTable, Entry
<1>13. memory \in [Frames -> [Slots -> Entry \cup {Nothing}]]
  BY DEF Inv, TypesInv
<1>14. /\ memory' \in [Frames -> [Slots -> Entry \cup {Nothing}]]
       /\ memory'[TT] = [memory[TT] EXCEPT ![II] = NewTable(nn)]
       /\ memory'[nn] = Zeroed
       /\ \A t \in Frames \ {TT, nn} : memory'[t] = memory[t]
  <2>1. memory' = [[memory EXCEPT ![nn] = Zeroed] EXCEPT ![TT] = [@ EXCEPT ![II] = NewTable(nn)]]
        /\ nn # TT /\ nn \in Frames /\ TT \in Frames
    BY <1>3, <1>4, <1>5, <1>7, <1>11
  <2>2. [memory EXCEPT ![nn] = Zeroed] \in [Frames -> [Slots -> Entry \cup {Nothing}]]
    BY <1>13, MemoryFacts
  <2>3. [memory[TT] EXCEPT ![II] = NewTable(nn)] \in [Slots -> Entry \cup {Nothing}]
    BY <1>12, <1>13, <2>1
  <2>4. [memory EXCEPT ![nn] = Zeroed][TT] = memory[TT]
    BY <1>13, <2>1
  <2>5. memory' = [[memory EXCEPT ![nn] = Zeroed] EXCEPT ![TT] = [memory[TT] EXCEPT ![II] = NewTable(nn)]]
    BY <2>1, <2>4
  <2> QED
    BY <1>13, <2>1, <2>2, <2>3, <2>5
<1>15. TypesInv'
  BY <1>1, <1>2, <1>9, <1>14 DEF Inv, TypesInv, Cores, Slots, Entry, Calls, Levels, Types, Pending
<1>16. Grows(DD, TT, II, nn)
  <2>1. Read(TT, II)' = NewTable(nn)
    BY <1>5, <1>11, <1>13, <1>14 DEF Read
  <2>2. \A i \in Slots : Read(nn, i)' = Nothing
    BY <1>4, <1>11, <1>14, MemoryFacts DEF Read
  <2>3. \A t \in Frames \ {nn} : \A i \in Slots : t # TT \/ i # II => Read(t, i)' = Read(t, i)
    BY <1>5, <1>11, <1>13, <1>14 DEF Read
  <2>4. \A d \in Levels : \A t \in TablesAt[d] : \A i \in Entries(d) :
          t \in Frames \ {nn} /\ i \in Slots
    BY <1>6, <1>7, <1>11, IndexFacts DEF TableLaw
  <2>5. \A d, e \in Levels : \A t \in TablesAt[d] : t \in TablesAt[e] => d = e
    BY <1>6 DEF TreesApart
  <2> QED
    BY <1>1, <1>4, <1>5, <1>7, <1>8, <1>11, <2>1, <2>2, <2>3, <2>4, <2>5 DEF Grows
<1>17. /\ TreeInv'
       /\ \A f : LinksTo(f)' = LinksTo(f) \cup (IF f = nn THEN {<<DD, TT, II>>} ELSE {})
       /\ \A f : LeavesOver(f)' = LeavesOver(f)
       /\ \A a \in Nat :
            /\ Translation(a)' = Translation(a)
            /\ Path(a)[DD] = TT /\ Index(a, DD) = II => Path(a)[DD + 1]' = nn
            /\ \A d \in Levels :
                 /\ Path(a)[d] # Nothing => Path(a)[d]' = Path(a)[d]
                 /\ EndsAt(a, d) => EndsAt(a, d)' /\ Reached(a, d)' = Reached(a, d)
  BY <1>15, <1>16, TreeGrows DEF Inv
<1>18. ASSUME NEW f \in Frames PROVE OneUse(f)'
  <2>1. OneUse(f)
    BY DEF Inv
  <2>2. CASE f = nn
    <3>1. f \notin free /\ f \notin lost /\ root # f /\ Holders(f) = {c} /\ LinksTo(f) = {} /\ LeavesOver(f) = {}
      BY <1>6, <1>11, <2>1, <2>2, UseFacts
    <3>2. f \notin InHand(c)'
      BY <1>4, <1>9, <1>10, <1>11, <2>2 DEF InHand, Block
    <3>3. Holders(f)' = {}
      BY <1>10, <3>1, <3>2, HandsMove
    <3>4. LinksTo(f)' = {<<DD, TT, II>>} /\ LeavesOver(f)' = {}
      BY <1>17, <2>2, <3>1
    <3>5. Use(f, "link", {}, {<<DD, TT, II>>}, {})'
      BY <1>1, <3>1, <3>3, <3>4 DEF Use
    <3> QED
      BY <3>4, <3>5 DEF OneUse
  <2>3. CASE f # nn
    <3>1. f \in InHand(c)' <=> f \in InHand(c)
      BY <1>4, <1>9, <1>10, <1>11, <2>3 DEF InHand, Block
    <3>2. Holders(f)' = Holders(f)
      BY <1>10, <3>1, HandsMove
    <3>3. LinksTo(f)' = LinksTo(f) /\ LeavesOver(f)' = LeavesOver(f)
      BY <1>17, <2>3
    <3> QED
      BY <1>1, <2>1, <3>2, <3>3, UseKept
  <2> QED
    BY <2>2, <2>3
<1>19. CallInv(c)'
  <2>1. Path(va)[DD + 1]' = nn
    BY <1>4, <1>5, <1>11, <1>17
  <2>2. call[c].update => EndsAt(va, type)' /\ Reached(va, type)' = Reached(va, type)
                          /\ ~Reached(va, type).deallocate /\ Reached(va, type).frame = call[c].entry.frame
    <3>1. call[c].update => /\ EndsAt(va, type) /\ ~Reached(va, type).deallocate
                            /\ Reached(va, type).frame = call[c].entry.frame
      BY <1>1, <1>11 DEF Inv, CallInv, MapperInv
    <3>2. type \in Levels /\ va \in Nat
      BY <1>4, <1>11, LevelFacts
    <3> QED
      BY <1>17, <3>1, <3>2
  <2>3. MapperInv(c)'
    BY <1>1, <1>4, <1>8, <1>9, <1>10, <1>11, <2>2 DEF MapperInv, Mapping, Block, Inv, CallInv
  <2>4. ReaderInv(c)'
    BY <1>10 DEF ReaderInv
  <2> QED
    BY <1>1, <1>4, <1>9, <1>10, <1>11, <2>1, <2>3, <2>4 DEF CallInv
<1>20. Mapping(c)
  BY <1>1 DEF Mapping
<1> QED
  BY <1>1, <1>10, <1>15, <1>17, <1>18, <1>19, <1>20, StepOfOne DEF SameTranslations

-----------------------------------------------------------------------------
(* A leaf written where there was nothing, or over one that has the same frame and is not
   owned either: the links stay, the slot owns the pages of the new leaf if it is an
   owner, and the addresses of the slot, no others, are translated by it. *)
Writes(k, T, I, e) ==
  /\ k \in Types /\ T \in TablesAt[k] /\ I \in Entries(k) /\ e \in Entry /\ (e.large <=> k # 3)
  /\ e.deallocate => Block(e.frame, k) \subseteq Frames
  /\ \A d \in Levels : \A t \in TablesAt[d] : t \in TablesAt[k] => d = k
  /\ root' = root /\ Read(T, I)' = e
  /\ \A d \in Levels : \A t \in TablesAt[d] : \A i \in Entries(d) :
       t # T \/ i # I => Read(t, i)' = Read(t, i)
  /\ Read(T, I) # Nothing =>
       /\ IsLeaf(Read(T, I), k) /\ ~Read(T, I).deallocate /\ ~e.deallocate
       /\ Read(T, I).frame = e.frame

LEMMA LeafWritten ==
  ASSUME TypesInv, TypesInv', TreeInv, NEW k, NEW T, NEW I, NEW e, Writes(k, T, I, e)
  PROVE  /\ TreeInv'
         /\ \A f : LinksTo(f)' = LinksTo(f)
         /\ \A f : LeavesOver(f)' = LeavesOver(f) \cup
              (IF e.deallocate /\ f \in Block(e.frame, k) THEN {<<k, T, I>>} ELSE {})
         /\ \A va \in Nat :
              /\ \A d \in Levels : Path(va)[d]' = Path(va)[d]
              /\ ~(Path(va)[k] = T /\ Index(va, k) = I) => Translation(va)' = Translation(va)
              /\ Path(va)[k] = T /\ Index(va, k) = I =>
                   /\ Translation(va)' = e.frame + (va % Size(k))
                   /\ Translation(va) \in {Nothing, Translation(va)'}
                   /\ Read(T, I) = Nothing => Translation(va) = Nothing
                   /\ Read(T, I) # Nothing => Translation(va) # Nothing
<1>0. /\ k \in Levels /\ IsLeaf(e, k) /\ e # Nothing /\ e \in Entry /\ Types \subseteq Levels
      /\ \A d \in Levels : d \in Int
  <2>1. k \in Types /\ e \in Entry /\ (e.large <=> k # 3)
    BY DEF Writes
  <2>2. IsLeaf(e, k)
    BY <2>1 DEF IsLeaf, Types
  <2>3. e # Nothing
    BY <2>1, EntryFacts
  <2>4. Types \subseteq Levels /\ \A d \in Levels : d \in Int
    BY LevelFacts
  <2> QED
    BY <2>1, <2>2, <2>3, <2>4
<1>1. \A d \in Levels : \A t \in TablesAt[d] : \A i \in Entries(d) :
        Read(t, i)' = Read(t, i) \/ (d = k /\ t = T /\ i = I /\ Read(t, i)' = e)
  BY DEF Writes
<1>2. Follow(Read(T, I), k) = Nothing /\ Follow(e, k) = Nothing
  BY <1>0 DEF Follow, Writes
<1>3. \A d \in Levels \ {3} : \A t \in TablesAt[d] : \A i \in Entries(d) :
        Follow(Read(t, i)', d) = Follow(Read(t, i), d)
  BY <1>1, <1>2
<1>4. EntryFits(e, k)
  BY <1>0 DEF EntryFits, Writes, Types
<1>5. \A d \in Levels : \A t \in TablesAt[d] : \A i \in Entries(d) : EntryFits(Read(t, i)', d)
  BY <1>1, <1>4 DEF TreeInv
<1>6. /\ TreeInv'
      /\ \A d \in Levels : TablesAt[d]' = TablesAt[d]
      /\ \A f : LinksTo(f)' = LinksTo(f)
      /\ \A va \in Nat, d \in Levels : Path(va)[d]' = Path(va)[d]
  <2>1. root' = root
    BY DEF Writes
  <2> QED
    BY <1>3, <1>5, <2>1, LinksKept
<1>7. ASSUME NEW f
      PROVE  LeavesOver(f)' = LeavesOver(f) \cup
               (IF e.deallocate /\ f \in Block(e.frame, k) THEN {<<k, T, I>>} ELSE {})
  <2>1. \A y : y \in LeavesOver(f)' <=>
          \E d \in Types : \E t \in TablesAt[d] : \E i \in Entries(d) :
            /\ y = <<d, t, i>> /\ Read(t, i)' # Nothing /\ IsLeaf(Read(t, i)', d)
            /\ Read(t, i)'.deallocate /\ f \in Block(Read(t, i)'.frame, d)
    <3>1. \A d \in Types : TablesAt[d]' = TablesAt[d]
      BY <1>0, <1>6
    <3> QED
      BY <3>1, OwnersOfLater DEF IsLeaf, Block, Entries
  <2>2. \A y \in LeavesOver(f) : y \in LeavesOver(f)'
    <3> TAKE y \in LeavesOver(f)
    <3>1. PICK d, t, i :
            /\ d \in Types /\ t \in TablesAt[d] /\ i \in Entries(d)
            /\ y = <<d, t, i>> /\ Read(t, i) # Nothing /\ IsLeaf(Read(t, i), d)
            /\ Read(t, i).deallocate /\ f \in Block(Read(t, i).frame, d)
      BY OwnersOf
    <3>2. t # T \/ i # I
      BY <3>1 DEF Writes
    <3>3. Read(t, i)' = Read(t, i)
      BY <1>0, <3>1, <3>2 DEF Writes
    <3> QED
      BY <2>1, <3>1, <3>3
  <2>3. e.deallocate /\ f \in Block(e.frame, k) => <<k, T, I>> \in LeavesOver(f)'
    BY <1>0, <2>1 DEF Writes
  <2>4. \A y \in LeavesOver(f)' :
          y \in LeavesOver(f) \/ (e.deallocate /\ f \in Block(e.frame, k) /\ y = <<k, T, I>>)
    <3> TAKE y \in LeavesOver(f)'
    <3>1. PICK d, t, i :
            /\ d \in Types /\ t \in TablesAt[d] /\ i \in Entries(d)
            /\ y = <<d, t, i>> /\ Read(t, i)' # Nothing /\ IsLeaf(Read(t, i)', d)
            /\ Read(t, i)'.deallocate /\ f \in Block(Read(t, i)'.frame, d)
      BY <2>1
    <3>2. CASE Read(t, i)' = Read(t, i)
      BY <3>1, <3>2, OwnersOf
    <3>3. CASE d = k /\ t = T /\ i = I /\ Read(t, i)' = e
      BY <3>1, <3>3
    <3> QED
      BY <1>0, <1>1, <3>1, <3>2, <3>3
  <2> QED
    BY <2>2, <2>3, <2>4
<1>8. ASSUME NEW va \in Nat
      PROVE  /\ ~(Path(va)[k] = T /\ Index(va, k) = I) => Translation(va)' = Translation(va)
             /\ Path(va)[k] = T /\ Index(va, k) = I =>
                  /\ Translation(va)' = e.frame + (va % Size(k))
                  /\ Translation(va) \in {Nothing, Translation(va)'}
                  /\ Read(T, I) = Nothing => Translation(va) = Nothing
                  /\ Read(T, I) # Nothing => Translation(va) # Nothing
  <2>0. PathLaw(va) /\ PathLaw(va)' /\ LeafLaw(va) /\ LeafLaw(va)'
    BY <1>6, PathFacts, PathFactsLater, LeafFacts, LeafFactsLater
  <2>1. ASSUME NEW d \in Levels, ~(d = k /\ Path(va)[k] = T /\ Index(va, k) = I)
        PROVE  Reached(va, d)' = Reached(va, d)
    <3>1. CASE Path(va)[d] = Nothing
      BY <1>6, <2>0, <3>1 DEF PathLaw
    <3>2. CASE Path(va)[d] # Nothing
      <4>1. PICK t, i : t = Path(va)[d] /\ i = Index(va, d)
        OBVIOUS
      <4>2. t \in TablesAt[d] /\ i \in Entries(d)
        BY <2>0, <3>2, <4>1, IndexFacts DEF PathLaw
      <4>3. Reached(va, d)' = Read(t, i)' /\ Reached(va, d) = Read(t, i)
        BY <1>6, <4>1 DEF Reached, Index, Size
      <4>4. t # T \/ i # I
        BY <2>1, <4>1, <4>2 DEF Writes
      <4> QED
        BY <4>2, <4>3, <4>4 DEF Writes
    <3> QED
      BY <3>1, <3>2
  <2>2. CASE ~(Path(va)[k] = T /\ Index(va, k) = I)
    <3>1. \A d \in Types : Reached(va, d)' = Reached(va, d) /\ (EndsAt(va, d)' <=> EndsAt(va, d))
      BY <1>0, <2>1, <2>2 DEF EndsAt
    <3>2. CASE \E d \in Types : EndsAt(va, d)
      <4>1. PICK d \in Types : EndsAt(va, d)
        BY <3>2
      <4>2. EndsAt(va, d)' /\ Reached(va, d)' = Reached(va, d)
        BY <3>1, <4>1
      <4>3. Translation(va) = Reached(va, d).frame + (va % Size(d))
        BY <2>0, <4>1 DEF LeafLaw
      <4>4. Translation(va)' = Reached(va, d)'.frame + (va % Size(d))
        BY <2>0, <4>2 DEF LeafLaw, Size
      <4> QED
        BY <2>2, <4>2, <4>3, <4>4
    <3>3. CASE \A d \in Types : ~EndsAt(va, d)
      <4>1. Translation(va) = Nothing
        BY <2>0, <3>3 DEF LeafLaw
      <4>2. \A d \in Types : ~EndsAt(va, d)'
        BY <3>1, <3>3
      <4>3. Translation(va)' = Nothing
        BY <2>0, <4>2 DEF LeafLaw
      <4> QED
        BY <2>2, <4>1, <4>3
    <3> QED
      BY <3>2, <3>3
  <2>3. CASE Path(va)[k] = T /\ Index(va, k) = I
    <3>1. Path(va)[k]' = T /\ k \in Types
      BY <1>0, <1>6, <2>3 DEF Writes
    <3>2. Reached(va, k)' = Read(T, I)' /\ Reached(va, k) = Read(T, I)
      BY <2>3, <3>1 DEF Reached, Index, Size
    <3>3. Read(T, I)' = e /\ T \in Frames /\ T # Nothing
      BY <1>0, TreeFacts DEF Writes, TableLaw
    <3>4. EndsAt(va, k)'
      BY <1>0, <3>2, <3>3 DEF EndsAt
    <3>5. Translation(va)' = e.frame + (va % Size(k))
      BY <2>0, <3>1, <3>2, <3>3, <3>4 DEF LeafLaw
    <3>6. CASE Read(T, I) = Nothing
      <4>1. ~EndsAt(va, k) /\ Follow(Reached(va, k), k) = Nothing
        BY <3>2, <3>6 DEF EndsAt, Follow
      <4>2. Translation(va) = Nothing
        BY <1>0, <2>3, <3>3, <4>1, DeadEnd
      <4> QED
        BY <2>3, <3>5, <3>6, <4>2
    <3>7. CASE Read(T, I) # Nothing
      <4>1. EndsAt(va, k) /\ Read(T, I).frame = e.frame
        BY <3>2, <3>7 DEF EndsAt, Writes
      <4>2. Translation(va) = e.frame + (va % Size(k)) /\ Translation(va) \in Nat
        BY <2>0, <3>1, <3>2, <4>1 DEF LeafLaw
      <4>3. Translation(va) # Nothing
        BY <4>2, LevelFacts
      <4> QED
        BY <2>3, <3>5, <3>7, <4>2, <4>3
    <3> QED
      BY <3>6, <3>7
  <2> QED
    BY <2>2, <2>3
<1> QED
  BY <1>6, <1>7, <1>8

LEMMA WriteIsTyped ==
  ASSUME Inv, NEW c \in Cores, write_leaf(c)
  PROVE  /\ TypesInv'
         /\ Writes(call[c].type, call[c].table, Index(call[c].va, call[c].type), call[c].entry)
         /\ InHand(c) = IF call[c].entry.deallocate THEN Block(call[c].entry.frame, call[c].type) ELSE {}
         /\ InHand(c)' = {} /\ call[c].table = Path(call[c].va)[call[c].type]
         /\ UNCHANGED <<free, root, lost>>
         /\ \A d \in Cores \ {c} : pc'[d] = pc[d] /\ call'[d] = call[d]
         /\ CallInv(c)'
<1> DEFINE next == NextPage(c)
<1>1. /\ pc[c] = "walk" /\ Last(c) /\ Writable(c) /\ UNCHANGED <<free, root, lost>>
  BY DEF write_leaf
<1>2. /\ call[c].left = 1 => pc' = [pc EXCEPT ![c] = "idle"] /\ call' = [call EXCEPT ![c] = Idle]
      /\ call[c].left # 1 => pc' = [pc EXCEPT ![c] = "alloc"] /\ call' = [call EXCEPT ![c] = next]
  <2>1. call[c].left = 1 => pc' = [pc EXCEPT ![c] = "idle"] /\ call' = [call EXCEPT ![c] = Idle]
    BY DEF write_leaf, Return
  <2>2. call[c].left # 1 => pc' = [pc EXCEPT ![c] = "alloc"] /\ call' = [call EXCEPT ![c] = next]
    BY DEF write_leaf
  <2> QED
    BY <2>1, <2>2
<1>3. PICK T, I, k, va, e :
        T = call[c].table /\ I = Index(call[c].va, call[c].type) /\ k = call[c].type
        /\ va = call[c].va /\ e = call[c].entry
  OBVIOUS
<1>4. /\ call[c] \in Calls /\ call[c].depth = k /\ k \in Types /\ k \in Levels /\ va \in Nat
      /\ call[c].new = Nothing /\ e \in Entry /\ (e.large <=> k # 3)
      /\ (e.deallocate <=> call[c].page # Nothing) /\ call[c].left # 0
      /\ call[c].page = Nothing => call[c].left = 1
      /\ call[c].page # Nothing => /\ call[c].page = e.frame /\ ~call[c].update
                                   /\ Block(call[c].page, k) \subseteq Frames
      /\ call[c].update => /\ EndsAt(va, k) /\ ~Reached(va, k).deallocate
                           /\ Reached(va, k).frame = e.frame
      /\ e.deallocate \in BOOLEAN /\ root # Nothing
  BY <1>1, <1>3, LevelFacts, EntryFacts DEF Inv, TypesInv, CallInv, MapperInv, Mapping, Calls, Last
<1>5. /\ T \in TablesAt[k] /\ T \in Frames /\ I \in Entries(k) /\ I \in Slots
      /\ T = Path(va)[k] /\ Seen(c) = Read(T, I) /\ Reached(va, k) = Read(T, I)
  BY <1>1, <1>3, <1>4, OnTheWay DEF Seen, Slot, Reached
<1>6. memory' = [memory EXCEPT ![T] = [@ EXCEPT ![I] = e]]
  BY <1>1, <1>3 DEF write_leaf, Write, Slot, Last
<1>7. memory' = [memory EXCEPT ![T] = [memory[T] EXCEPT ![I] = e]]
      /\ memory \in [Frames -> [Slots -> Entry \cup {Nothing}]]
  BY <1>5, <1>6 DEF Inv, TypesInv
<1>8. /\ memory' \in [Frames -> [Slots -> Entry \cup {Nothing}]]
      /\ Read(T, I)' = e
      /\ \A t \in Frames : \A i \in Slots : t # T \/ i # I => Read(t, i)' = Read(t, i)
  <2>1. [memory[T] EXCEPT ![I] = e] \in [Slots -> Entry \cup {Nothing}]
    BY <1>4, <1>5, <1>7
  <2>2. /\ memory' \in [Frames -> [Slots -> Entry \cup {Nothing}]]
        /\ memory'[T] = [memory[T] EXCEPT ![I] = e]
        /\ \A t \in Frames \ {T} : memory'[t] = memory[t]
    BY <1>5, <1>7, <2>1
  <2> QED
    BY <1>5, <1>7, <2>2 DEF Read
<1>9. Writes(k, T, I, e)
  <2>1. TreesApart /\ TableLaw
    BY TablesApart, TreeFacts DEF Inv
  <2>2. \A d \in Levels : \A t \in TablesAt[d] : t \in TablesAt[k] => d = k
    BY <1>4, <2>1 DEF TreesApart
  <2>3. \A d \in Levels : \A t \in TablesAt[d] : \A i \in Entries(d) : t \in Frames /\ i \in Slots
    BY <2>1, IndexFacts DEF TableLaw
  <2>4. \A d \in Levels : \A t \in TablesAt[d] : \A i \in Entries(d) :
          t # T \/ i # I => Read(t, i)' = Read(t, i)
    BY <1>8, <2>3
  <2>5. Read(T, I) # Nothing =>
          /\ IsLeaf(Read(T, I), k) /\ ~Read(T, I).deallocate /\ ~e.deallocate
          /\ Read(T, I).frame = e.frame
    BY <1>1, <1>4, <1>5 DEF Writable, EndsAt
  <2> QED
    BY <1>1, <1>4, <1>5, <1>8, <2>2, <2>4, <2>5 DEF Writes
<1>10. [e EXCEPT !.frame = Nothing] \in Pending
       /\ [e EXCEPT !.frame = Nothing].deallocate = e.deallocate
       /\ [e EXCEPT !.frame = Nothing].large = e.large
  BY <1>4 DEF Entry, Pending
<1>11. call[c].left # 1 =>
         /\ next \in Calls /\ next.page = Nothing /\ next.new = Nothing /\ next.depth = Top
         /\ next.left # 0 /\ next.type = k /\ next.update = call[c].update
         /\ next.entry = [e EXCEPT !.frame = Nothing]
  <2> SUFFICES ASSUME call[c].left # 1
      PROVE  /\ next \in Calls /\ next.page = Nothing /\ next.new = Nothing /\ next.depth = Top
             /\ next.left # 0 /\ next.type = k /\ next.update = call[c].update
             /\ next.entry = [e EXCEPT !.frame = Nothing]
    OBVIOUS
  <2>1. PICK p \in Pending : p = [e EXCEPT !.frame = Nothing]
    BY <1>10
  <2>2. va + Size(k) \in Nat /\ call[c].left - 1 \in Nat \ {0}
    BY <1>4, SizeFacts DEF Size, Calls
  <2>3. PICK w \in Nat, l \in Nat \ {0} : w = va + Size(k) /\ l = call[c].left - 1
    BY <2>2
  <2>4. 3 \in Types /\ Top \in Levels
    BY LevelFacts DEF Types
  <2> DEFINE moved == [call[c] EXCEPT !.va = w, !.left = l, !.page = Nothing]
  <2>5. next = [moved EXCEPT !.depth = Top, !.entry = p, !.table = Nothing]
    BY <1>3, <1>4, <2>1, <2>3 DEF Calls, NextPage
  <2>6. call[c] \in Calls /\ call[c].type = k /\ call[c].new = Nothing
    BY <1>3, <1>4
  <2> HIDE DEF next
  <2>7. /\ moved \in Calls /\ moved.page = Nothing /\ moved.new = Nothing /\ moved.left # 0
        /\ moved.type = k /\ moved.update = call[c].update
    BY <2>3, <2>6 DEF Calls
  <2> HIDE DEF moved
  <2>8. next \in Calls
    BY <2>1, <2>4, <2>5, <2>7 DEF Calls
  <2> QED
    BY <2>1, <2>5, <2>7, <2>8 DEF Calls
<1> HIDE DEF next
<1>12. Idle \in Calls /\ Idle.page = Nothing /\ Idle.new = Nothing
  BY LevelFacts DEF Idle, Calls, Types
<1>13. TypesInv'
  <2>1. pc' \in [Cores -> {"idle", "alloc", "walk", "link", "lookup", "found"}]
        /\ call' \in [Cores -> Calls]
    BY <1>2, <1>11, <1>12 DEF Inv, TypesInv
  <2> QED
    BY <1>1, <1>8, <2>1 DEF Inv, TypesInv, Cores, Slots, Entry, Calls, Levels, Types, Pending
<1>14. \A d \in Cores \ {c} : pc'[d] = pc[d] /\ call'[d] = call[d]
  BY <1>2 DEF Inv, TypesInv
<1>15. /\ call[c].left = 1 => pc'[c] = "idle" /\ call'[c] = Idle
       /\ call[c].left # 1 => pc'[c] = "alloc" /\ call'[c] = next
  BY <1>2 DEF Inv, TypesInv
<1>16. InHand(c) = IF e.deallocate THEN Block(e.frame, k) ELSE {}
  BY <1>3, <1>4 DEF InHand
<1>17. InHand(c)' = {}
  BY <1>11, <1>12, <1>15 DEF InHand
<1>18. CallInv(c)'
  <2>1. CASE call[c].left = 1
    BY <1>15, <2>1, AtRestLater DEF Idle, Cores
  <2>2. CASE call[c].left # 1
    <3>1. MapperInv(c)'
      BY <1>4, <1>10, <1>11, <1>15, <2>2 DEF MapperInv, Mapping, Pending
    <3>2. ReaderInv(c)'
      BY <1>15, <2>2 DEF ReaderInv
    <3> QED
      BY <1>1, <1>4, <1>11, <1>15, <2>2, <3>1, <3>2 DEF CallInv
  <2> QED
    BY <2>1, <2>2
<1> QED
  BY <1>1, <1>3, <1>5, <1>9, <1>13, <1>14, <1>16, <1>17, <1>18

(* The page goes from the hand of the core to the leaf. *)
LEMMA WriteLeaf ==
  ASSUME Inv, NEW c \in Cores, write_leaf(c)
  PROVE  Inv'
<1>1. PICK T, I, k, e :
        T = call[c].table /\ I = Index(call[c].va, call[c].type) /\ k = call[c].type /\ e = call[c].entry
  OBVIOUS
<1>2. /\ TypesInv' /\ Writes(k, T, I, e) /\ InHand(c)' = {}
      /\ InHand(c) = IF e.deallocate THEN Block(e.frame, k) ELSE {}
      /\ UNCHANGED <<free, root, lost>> /\ CallInv(c)'
      /\ \A d \in Cores \ {c} : pc'[d] = pc[d] /\ call'[d] = call[d]
  BY <1>1, WriteIsTyped
<1>3. /\ TreeInv'
      /\ \A f : LinksTo(f)' = LinksTo(f)
      /\ \A f : LeavesOver(f)' = LeavesOver(f) \cup
           (IF e.deallocate /\ f \in Block(e.frame, k) THEN {<<k, T, I>>} ELSE {})
      /\ \A va \in Nat :
           /\ \A d \in Levels : Path(va)[d]' = Path(va)[d]
           /\ ~(Path(va)[k] = T /\ Index(va, k) = I) => Translation(va)' = Translation(va)
           /\ Path(va)[k] = T /\ Index(va, k) = I =>
                Translation(va) \in {Nothing, Translation(va)'}
  BY <1>2, LeafWritten DEF Inv
<1>4. \A va \in Nat : /\ Translation(va) # Nothing => Translation(va)' = Translation(va)
                      /\ \A d \in Levels : Path(va)[d] # Nothing => Path(va)[d]' = Path(va)[d]
  BY <1>3
<1>5. ASSUME NEW f \in Frames PROVE OneUse(f)'
  <2>1. OneUse(f) /\ LinksTo(f)' = LinksTo(f)
    BY <1>3 DEF Inv
  <2>2. CASE f \in InHand(c)
    <3>1. f \notin free /\ f \notin lost /\ root # f /\ Holders(f) = {c} /\ LinksTo(f) = {} /\ LeavesOver(f) = {}
      BY <2>1, <2>2, UseFacts
    <3>2. Holders(f)' = {}
      BY <1>2, <3>1, HandsMove
    <3>3. LeavesOver(f)' = {<<k, T, I>>}
      BY <1>2, <1>3, <2>2, <3>1
    <3>4. Use(f, "leaf", {}, {}, {<<k, T, I>>})'
      BY <1>2, <2>1, <3>1, <3>2, <3>3 DEF Use
    <3> QED
      BY <3>3, <3>4 DEF OneUse
  <2>3. CASE f \notin InHand(c)
    <3>1. Holders(f)' = Holders(f)
      BY <1>2, <2>3, HandsMove
    <3>2. LeavesOver(f)' = LeavesOver(f)
      BY <1>2, <1>3, <2>3
    <3> QED
      BY <1>2, <2>1, <3>1, <3>2, UseKept
  <2> QED
    BY <2>2, <2>3
<1>6. Mapping(c)
  BY DEF Mapping, write_leaf
<1> QED
  BY <1>2, <1>3, <1>4, <1>5, <1>6, StepOfOne

-----------------------------------------------------------------------------
(* A tree without tables below the root has no links and no leaves. *)
EmptyTree ==
  /\ TreeInv
  /\ \A d \in Levels : d # Top => TablesAt[d] = {}
  /\ \A f : LinksTo(f) = {} /\ LeavesOver(f) = {}
  /\ \A va \in Nat : Translation(va) = Nothing
LEMMA RootOnly == TypesInv /\ (\A i \in Entries(Top) : Read(root, i) = Nothing) => EmptyTree
<1> SUFFICES ASSUME TypesInv, \A i \in Entries(Top) : Read(root, i) = Nothing
    PROVE  EmptyTree
  OBVIOUS
<1>1. TablesAt[Top] = {root} \ {Nothing} /\ root \in Frames \cup {Nothing} /\ Top \in Levels
  BY TablesFollow, LevelFacts DEF TypesInv
<1>2. \A d \in Levels : d # Top => TablesAt[d] = {}
  <2> DEFINE S == {d \in Levels : d # Top => TablesAt[d] = {}}
  <2>1. Top \in S
    BY <1>1
  <2>2. ASSUME NEW d \in S, d # 3 PROVE d + 1 \in S
    <3>1. d + 1 \in Levels /\ d \in Levels \ {3}
      BY <2>2, LevelFacts
    <3>2. TablesAt[d + 1] = {Follow(Read(t, i), d) : t \in TablesAt[d], i \in Entries(d)} \ {Nothing}
      BY <3>1, TablesFollow
    <3>3. \A t \in TablesAt[d], i \in Entries(d) : Read(t, i) = Nothing
      BY <1>1, <2>2
    <3> QED
      BY <3>1, <3>2, <3>3 DEF Follow
  <2> HIDE DEF S
  <2>3. S = Levels
    <3>1. S \in SUBSET Levels
      BY DEF S
    <3> QED
      BY <2>1, <2>2, <3>1, Upward
  <2> QED
    BY <2>3 DEF S
<1>3. \A d \in Levels : \A t \in TablesAt[d] :
        t \in Frames /\ \A i \in Entries(d) : Read(t, i) = Nothing
  <2> TAKE d \in Levels
  <2>1. CASE d = Top
    BY <1>1, <2>1
  <2>2. CASE d # Top
    BY <1>2, <2>2
  <2> QED
    BY <2>1, <2>2
<1>4. TreeInv
  BY <1>3 DEF TreeInv, EntryFits
<1>5. ASSUME NEW f PROVE LinksTo(f) = {} /\ LeavesOver(f) = {}
  <2>1. \A y \in Links : FALSE
    <3>1. LinkLaw
      BY <1>4, LinkFacts
    <3> QED
      BY <1>3, <3>1 DEF LinkLaw, Follow
  <2>2. ASSUME NEW y \in LeavesOver(f) PROVE FALSE
    <3>1. PICK d, t, i :
            d \in Types /\ t \in TablesAt[d] /\ i \in Entries(d) /\ Read(t, i) # Nothing
      BY OwnersOf
    <3> QED
      BY <1>3, <3>1, LevelFacts
  <2> QED
    BY <2>1, <2>2 DEF LinksTo
<1>6. ASSUME NEW va \in Nat PROVE Translation(va) = Nothing
  <2>1. PathLaw(va) /\ LeafLaw(va)
    BY <1>4, PathFacts, LeafFacts
  <2>2. ASSUME NEW d \in Types, EndsAt(va, d) PROVE FALSE
    <3>1. Path(va)[d] \in TablesAt[d] /\ d \in Levels /\ Index(va, d) \in Entries(d)
      BY <2>1, <2>2, LevelFacts, IndexFacts DEF PathLaw
    <3> QED
      BY <1>3, <2>2, <3>1 DEF EndsAt, Reached
  <2> QED
    BY <2>1, <2>2 DEF LeafLaw
<1> QED
  BY <1>2, <1>4, <1>5, <1>6 DEF EmptyTree
LEMMA RootOnlyLater ==
  (TypesInv /\ (\A i \in Entries(Top) : Read(root, i) = Nothing) => EmptyTree)'
BY RootOnly, PTL

LEMMA NoRoot == TypesInv /\ root = Nothing => EmptyTree /\ TablesAt[Top] = {}
<1>1. TypesInv /\ root = Nothing => \A i \in Entries(Top) : Read(root, i) = Nothing
  BY LevelFacts DEF Read
<1> QED
  BY <1>1, RootOnly, TablesFollow
LEMMA NoRootLater == (TypesInv /\ root = Nothing => EmptyTree /\ TablesAt[Top] = {})'
BY NoRoot, PTL

LEMMA InitInv == Init => Inv
<1> SUFFICES ASSUME Init PROVE Inv
  OBVIOUS
<1>1. Idle \in Calls /\ Idle.page = Nothing /\ Idle.new = Nothing
  BY LevelFacts DEF Idle, Calls, Types
<1>2. TypesInv
  BY <1>1, MemoryFacts DEF Init, TypesInv
<1>3. EmptyTree
  BY <1>2, NoRoot DEF Init
<1>4. \A f : Holders(f) = {}
  BY <1>1 DEF Holders, InHand, Init
<1>5. \A f \in Frames : OneUse(f)
  <2> TAKE f \in Frames
  <2>1. Use(f, "free", {}, {}, {})
    BY <1>3, <1>4, LevelFacts DEF Use, EmptyTree, Init
  <2> QED
    BY <2>1 DEF OneUse
<1>6. \A c \in Cores : CallInv(c) /\ ~Mapping(c)
  BY AtRest DEF Init, Mapping
<1> QED
  BY <1>2, <1>3, <1>5, <1>6 DEF Inv, EmptyTree

LEMMA NewTree ==
  ASSUME Inv, new
  PROVE  Inv'
<1>1. /\ root = Nothing /\ Blocks(3) # {} /\ root' = Granted(3) /\ free' = free \ {root'}
      /\ memory' = [memory EXCEPT ![root'] = Zeroed] /\ UNCHANGED <<lost, pc, call>>
  BY DEF new
<1>2. root' \in free /\ root' \in Frames
  BY <1>1, GrantedIsFree DEF Inv, TypesInv, Types
<1>3. TypesInv'
  BY <1>1, <1>2, MemoryFacts DEF Inv, TypesInv, Cores, Slots, Entry, Calls, Levels, Types, Pending
<1>4. \A c \in Cores : pc[c] = "idle" /\ call[c] = Idle
  BY <1>1 DEF Inv, CallInv
<1>5. EmptyTree'
  <2>1. \A i \in Entries(Top) : Read(root, i)' = Nothing
    BY <1>1, <1>2, MemoryFacts, IndexFacts, LevelFacts DEF Read, Inv, TypesInv
  <2> QED
    BY <1>3, <2>1, RootOnlyLater DEF Entries
<1>6. EmptyTree
  BY <1>1, NoRoot DEF Inv
<1>7. \A f \in Frames : OneUse(f)'
  <2> TAKE f \in Frames
  <2>1. OneUse(f) /\ Holders(f)' = Holders(f)
    BY <1>1 DEF Inv, Holders, InHand, Block, Cores
  <2>2. LinksTo(f)' = LinksTo(f) /\ LeavesOver(f)' = LeavesOver(f) /\ LinksTo(f) = {} /\ LeavesOver(f) = {}
    BY <1>5, <1>6 DEF EmptyTree
  <2>3. CASE f = root'
    <3>1. f \notin lost /\ Holders(f) = {}
      BY <1>2, <2>1, <2>3, UseFacts
    <3>2. Use(f, "root", {}, {}, {})'
      BY <1>1, <2>1, <2>2, <2>3, <3>1 DEF Use
    <3> QED
      BY <3>2 DEF OneUse
  <2>4. CASE f # root'
    <3>1. root # f
      BY <1>1, LevelFacts
    <3> QED
      BY <1>1, <2>1, <2>2, <2>4, <3>1, UseKept
  <2> QED
    BY <2>3, <2>4
<1>8. \A c \in Cores : CallInv(c)' /\ ~Mapping(c)'
  BY <1>1, <1>4, AtRestLater DEF Mapping, Idle, Cores
<1> QED
  BY <1>3, <1>5, <1>7, <1>8 DEF Inv, EmptyTree, Cores

(* The end of the tables: what they held is free again, and nothing else is. *)
LEMMA Destroyed ==
  ASSUME Inv, destroy
  PROVE  Inv'
<1> DEFINE tables == UNION {TablesAt[d] : d \in Levels}
           pages == UNION {LeafBlock(x) : x \in OwnedLeaves}
           given == tables \cup pages
<1>1. /\ root' = Nothing /\ free' = free \cup given /\ UNCHANGED <<lost, pc, call>>
      /\ memory' = [f \in Frames |-> IF f \in free' THEN Garbage ELSE memory[f]]
  <2>1. free' = (free \cup tables) \cup pages
    BY DEF destroy
  <2> HIDE DEF tables, pages
  <2>2. free' = free \cup (tables \cup pages)
    BY <2>1
  <2> QED
    BY <2>2 DEF destroy
<1>2. \A c \in Cores : pc[c] = "idle" /\ call[c] = Idle
  BY DEF destroy, Unlocked, Inv, CallInv
<1>3. TreesApart /\ TableLaw /\ LinkLaw
  BY TablesApart, TreeFacts, LinkFacts DEF Inv
<1>4. \A f : f \in given <=> (\E d \in Levels : f \in TablesAt[d]) \/ LeavesOver(f) # {}
  <2>1. \A f : f \in pages <=> LeavesOver(f) # {}
    BY DEF LeavesOver
  <2>2. \A f : f \in tables <=> \E d \in Levels : f \in TablesAt[d]
    OBVIOUS
  <2> HIDE DEF pages, tables
  <2> QED
    BY <2>1, <2>2
<1>5. given \subseteq Frames
  <2>1. \A f : LeavesOver(f) # {} => f \in Frames
    <3> TAKE f
    <3> SUFFICES ASSUME LeavesOver(f) # {} PROVE f \in Frames
      OBVIOUS
    <3>1. PICK y : y \in LeavesOver(f)
      OBVIOUS
    <3>2. PICK d, t, i :
            /\ d \in Types /\ t \in TablesAt[d] /\ i \in Entries(d) /\ Read(t, i) # Nothing
            /\ Read(t, i).deallocate /\ f \in Block(Read(t, i).frame, d)
      BY <3>1, OwnersOf
    <3>3. EntryFits(Read(t, i), d)
      BY <3>2, LevelFacts DEF Inv, TreeInv
    <3> QED
      BY <3>2, <3>3 DEF EntryFits
  <2> HIDE DEF given
  <2>2. \A d \in Levels : TablesAt[d] \subseteq Frames
    BY <1>3 DEF TableLaw
  <2>3. \A f \in given : f \in Frames
    BY <1>4, <2>1, <2>2
  <2> QED
    BY <2>3
<1> HIDE DEF given, tables, pages
<1>6. TypesInv'
  <2>1. memory' \in [Frames -> [Slots -> Entry \cup {Nothing}]]
    BY <1>1, MemoryFacts DEF Inv, TypesInv
  <2> QED
    BY <1>1, <1>5, <2>1 DEF Inv, TypesInv, Cores, Slots, Entry, Calls, Levels, Types, Pending
<1>7. EmptyTree'
  BY <1>1, <1>6, NoRootLater
<1>8. \A f : Holders(f) = {} /\ Holders(f)' = {}
  BY <1>1, <1>2 DEF Holders, InHand, Idle, Cores
<1>9. ASSUME NEW f \in Frames PROVE f \in free' <=> f \notin lost
  <2>1. OneUse(f)
    BY DEF Inv
  <2>2. CASE f \in lost
    <3>1. f \notin free /\ LeavesOver(f) = {}
      BY <2>1, <2>2, UseFacts
    <3>2. f \notin given
      BY <1>3, <1>4, <2>2, <3>1 DEF TreesApart
    <3> QED
      BY <1>1, <2>2, <3>1, <3>2
  <2>3. CASE f \notin lost
    <3>1. CASE root = f
      <4>1. f \in TablesAt[Top] /\ Top \in Levels
        BY <1>3, <3>1, LevelFacts DEF TableLaw
      <4> QED
        BY <1>1, <1>4, <2>3, <4>1
    <3>2. CASE \E y : y \in LinksTo(f)
      <4>1. PICK y : y \in Links /\ Read(y[2], y[3]).frame = f
        BY <3>2 DEF LinksTo
      <4>2. PICK d, t, i :
              /\ d \in Levels \ {3} /\ t \in TablesAt[d] /\ i \in Entries(d)
              /\ y = <<d, t, i>> /\ Follow(Read(t, i), d) # Nothing
        BY <1>3, <4>1 DEF LinkLaw
      <4>3. f \in TablesAt[d + 1] /\ d + 1 \in Levels
        BY <1>3, <4>1, <4>2, LevelFacts DEF LinkLaw
      <4> QED
        BY <1>1, <1>4, <2>3, <4>3
    <3>3. CASE \E y : y \in LeavesOver(f)
      BY <1>1, <1>4, <2>3, <3>3
    <3>4. CASE f \in free
      BY <1>1, <2>3, <3>4
    <3> QED
      BY <1>8, <2>1, <2>3, <3>1, <3>2, <3>3, <3>4 DEF OneUse, Use
  <2> QED
    BY <2>2, <2>3
<1>10. \A f \in Frames : OneUse(f)'
  <2> TAKE f \in Frames
  <2>1. LinksTo(f)' = {} /\ LeavesOver(f)' = {} /\ root' # f
    BY <1>1, <1>7, LevelFacts DEF EmptyTree
  <2>2. CASE f \in lost
    <3>1. Use(f, "lost", {}, {}, {})'
      BY <1>1, <1>8, <1>9, <2>1, <2>2 DEF Use
    <3> QED
      BY <3>1 DEF OneUse
  <2>3. CASE f \notin lost
    <3>1. Use(f, "free", {}, {}, {})'
      BY <1>1, <1>8, <1>9, <2>1, <2>3 DEF Use
    <3> QED
      BY <3>1 DEF OneUse
  <2> QED
    BY <2>2, <2>3
<1>11. \A c \in Cores : CallInv(c)' /\ ~Mapping(c)'
  BY <1>1, <1>2, AtRestLater DEF Mapping, Idle, Cores
<1> QED
  BY <1>6, <1>7, <1>10, <1>11 DEF Inv, EmptyTree, Cores

-----------------------------------------------------------------------------
(* Addresses: the index at a level is a digit, so an address and the beginning of its
   entry have the same indices down to that entry. *)
LEMMA DivMod ==
  ASSUME NEW a \in Nat, NEW m \in Nat \ {0}
  PROVE  /\ a \div m \in Nat /\ a % m \in Nat /\ a % m < m
         /\ a = (a \div m) * m + (a % m)
OBVIOUS

LEMMA DivIs ==
  ASSUME NEW q \in Nat, NEW m \in Nat \ {0}, NEW r \in Nat, r < m
  PROVE  (q * m + r) \div m = q
<1>1. q * m + r \in Nat
  OBVIOUS
<1>2. PICK a \in Nat : a = q * m + r
  BY <1>1
<1>3. /\ a \div m \in Nat /\ a % m \in Nat /\ a % m < m /\ a = (a \div m) * m + (a % m)
  BY DivMod
<1>4. PICK p \in Nat, t \in Nat : p = a \div m /\ t < m /\ a = p * m + t
  BY <1>3
<1>5. CASE p < q
  <2>1. PICK k \in Nat \ {0} : q = p + k
    BY <1>5
  <2>2. q * m = p * m + k * m /\ k * m >= m /\ k * m \in Nat /\ p * m \in Nat
    BY <2>1
  <2> QED
    BY <1>2, <1>4, <2>2
<1>6. CASE q < p
  <2>1. PICK k \in Nat \ {0} : p = q + k
    BY <1>6
  <2>2. p * m = q * m + k * m /\ k * m >= m /\ k * m \in Nat /\ q * m \in Nat
    BY <2>1
  <2> QED
    BY <1>2, <1>4, <2>2
<1> QED
  BY <1>2, <1>4, <1>5, <1>6

LEMMA DivDiv ==
  ASSUME NEW a \in Nat, NEW s \in Nat \ {0}, NEW m \in Nat \ {0}
  PROVE  a \div (m * s) = (a \div s) \div m
<1>1. PICK q \in Nat, r \in Nat : q = a \div s /\ r < s /\ a = q * s + r
  BY DivMod
<1>2. PICK p \in Nat, t \in Nat : p = q \div m /\ t < m /\ q = p * m + t
  BY DivMod
<1>3. m * s \in Nat \ {0} /\ t * s \in Nat /\ t * s + r \in Nat /\ p * (m * s) \in Nat
  OBVIOUS
<1>4. a = p * (m * s) + (t * s + r)
  <2>1. q * s = (p * m) * s + t * s
    BY <1>2
  <2>2. (p * m) * s = p * (m * s)
    OBVIOUS
  <2> QED
    BY <1>1, <1>3, <2>1, <2>2
<1>5. t * s + r < m * s
  <2>1. PICK k \in Nat \ {0} : m = t + k
    BY <1>2
  <2>2. m * s = t * s + k * s /\ k * s >= s /\ k * s \in Nat
    BY <2>1
  <2> QED
    BY <1>1, <1>3, <2>2
<1>6. PICK u \in Nat, n \in Nat \ {0} : u = t * s + r /\ n = m * s
  BY <1>3
<1>7. (p * n + u) \div n = p
  BY <1>5, <1>6, DivIs
<1> QED
  BY <1>1, <1>2, <1>4, <1>6, <1>7

(* The number of an entry among all of its level. *)
LEMMA NumberFacts ==
  \A va \in Nat : \A d \in Levels : d # 3 =>
    /\ va \div Size(d) = (va \div Size(d + 1)) \div Fan[d + 1]
    /\ va \div Size(d + 1) = (va \div Size(d)) * Fan[d + 1] + Index(va, d + 1)
<1> TAKE va \in Nat
<1> TAKE d \in Levels
<1> HAVE d # 3
<1>1. d + 1 \in Levels /\ Size(d) = Fan[d + 1] * Size(d + 1)
  BY SizeFacts, LevelFacts DEF Size
<1>2. PICK s \in Nat \ {0}, m \in Nat \ {0} : s = Size(d + 1) /\ m = Fan[d + 1] /\ Size(d) = m * s
  BY <1>1, SizeFacts DEF Size
<1>3. va \div (m * s) = (va \div s) \div m
  BY <1>2, DivDiv
<1>4. va \div s \in Nat
  BY DivMod
<1>5. va \div s = ((va \div s) \div m) * m + ((va \div s) % m)
  BY <1>4, DivMod
<1> QED
  BY <1>2, <1>3, <1>5 DEF Index

LEMMA SameEntry ==
  ASSUME NEW va \in Nat, NEW k \in Levels
  PROVE  LET begin == va - (va % Size(k)) IN
         begin \in Nat /\ \A d \in Levels : d <= k => Index(begin, d) = Index(va, d)
<1> DEFINE begin == va - (va % Size(k))
<1>1. PICK s \in Nat \ {0} : s = Size(k)
  BY SizeFacts DEF Size
<1>2. PICK q \in Nat, r \in Nat : q = va \div s /\ r = va % s /\ r < s /\ va = q * s + r
  BY DivMod
<1>3. begin = q * s + 0 /\ q * s \in Nat
  <2>1. PICK n \in Nat : n = q * s
    BY <1>2
  <2>2. va = n + r /\ begin = va - r
    BY <1>1, <1>2, <2>1
  <2> QED
    BY <2>1, <2>2
<1>4. begin \in Nat /\ begin \div Size(k) = va \div Size(k)
  BY <1>1, <1>2, <1>3, DivIs
<1> HIDE DEF begin
<1> DEFINE S == {d \in Levels : d <= k => begin \div Size(d) = va \div Size(d)}
<1>5. 3 \in S
  BY <1>4, LevelFacts DEF Levels
<1>6. ASSUME NEW d \in Levels \ {3}, d + 1 \in S PROVE d \in S
  <2>1. d \in Int /\ k \in Int /\ d + 1 \in Levels
    BY LevelFacts
  <2>2. CASE d = k
    BY <1>4, <2>2
  <2>3. CASE d < k
    <3>1. begin \div Size(d + 1) = va \div Size(d + 1)
      BY <1>6, <2>1, <2>3
    <3> QED
      BY <1>4, <3>1, NumberFacts
  <2>4. CASE k < d
    BY <2>1, <2>4
  <2> QED
    BY <2>1, <2>2, <2>3, <2>4
<1> HIDE DEF S
<1>7. S = Levels
  <2>1. S \in SUBSET Levels
    BY DEF S
  <2> QED
    BY <1>5, <1>6, <2>1, Downward
<1> QED
  BY <1>4, <1>7 DEF S, Index, begin

(* A page mapped again with other rights: the update meets the leaf it was meant for. *)
LEMMA Remapped ==
  ASSUME Inv, NEW c \in Cores, remap(c)
  PROVE  Inv'
<1>1. PICK va \in Addresses :
        LET x == LeafOf(va) IN
        /\ x # Nothing /\ ~Read(x[2], x[3]).deallocate
        /\ map_raw(c, va - (va % Size(x[1])), x[1], Read(x[2], x[3]).frame, FALSE, FALSE, TRUE)
  BY DEF remap
<1>2. va \in Nat
  BY PageTableAssumption
<1>3. PathLaw(va) /\ LeafLaw(va)
  BY <1>2, PathFacts, LeafFacts DEF Inv
<1>4. PICK k \in Types : EndsAt(va, k)
  BY <1>1, <1>3 DEF LeafLaw
<1>5. /\ LeafOf(va) = <<k, Path(va)[k], Index(va, k)>> /\ k \in Levels
      /\ Reached(va, k) \in Entry
  BY <1>3, <1>4, LevelFacts DEF LeafLaw, PathLaw, EndsAt
<1>6. PICK begin : begin = va - (va % Size(k))
  OBVIOUS
<1>7. begin \in Nat /\ \A d \in Levels : d <= k => Index(begin, d) = Index(va, d)
  BY <1>2, <1>5, <1>6, SameEntry
<1>8. \A d \in Levels : d <= k => Path(begin)[d] = Path(va)[d]
  <2>0. PathLaw(begin)
    BY <1>7, PathFacts DEF Inv
  <2> DEFINE S == {d \in Levels : d <= k => Path(begin)[d] = Path(va)[d]}
  <2>1. Top \in S
    BY <1>3, <2>0, LevelFacts DEF PathLaw
  <2>2. ASSUME NEW d \in S, d # 3 PROVE d + 1 \in S
    <3>1. d + 1 \in Levels /\ d \in Levels \ {3} /\ d \in Int /\ k \in Int
      BY <1>5, <2>2, LevelFacts
    <3>2. CASE d + 1 <= k
      <4>1. d <= k /\ Path(begin)[d] = Path(va)[d] /\ Index(begin, d) = Index(va, d)
        BY <1>7, <2>2, <3>1, <3>2
      <4>2. Reached(begin, d) = Reached(va, d)
        BY <4>1 DEF Reached
      <4> QED
        BY <1>3, <2>0, <3>1, <4>2 DEF PathLaw
    <3> QED
      BY <3>1, <3>2
  <2> HIDE DEF S
  <2>3. S = Levels
    <3>1. S \in SUBSET Levels
      BY DEF S
    <3> QED
      BY <2>1, <2>2, <3>1, Upward
  <2> QED
    BY <2>3 DEF S
<1>9. Reached(begin, k) = Reached(va, k) /\ EndsAt(begin, k)
  <2>1. k <= k
    BY <1>5, LevelFacts
  <2>2. Path(begin)[k] = Path(va)[k] /\ Index(begin, k) = Index(va, k)
    BY <1>5, <1>7, <1>8, <2>1
  <2> QED
    BY <1>4, <2>2 DEF Reached, EndsAt
<1>10. Reached(va, k).frame \in Frames \cup Foreign
  BY <1>5, EntryFacts DEF Inv
<1>11. /\ map_raw(c, begin, k, Reached(va, k).frame, FALSE, FALSE, TRUE)
       /\ ~Reached(va, k).deallocate
  <2>1. PICK x : x = LeafOf(va)
    OBVIOUS
  <2>2. x[1] = k /\ x[2] = Path(va)[k] /\ x[3] = Index(va, k)
    BY <1>5, <2>1
  <2>3. /\ ~Read(x[2], x[3]).deallocate
        /\ map_raw(c, va - (va % Size(x[1])), x[1], Read(x[2], x[3]).frame, FALSE, FALSE, TRUE)
    BY <1>1, <2>1
  <2>4. Read(x[2], x[3]) = Reached(va, k)
    BY <2>2 DEF Reached
  <2> QED
    BY <1>6, <2>2, <2>3, <2>4
<1> QED
  BY <1>7, <1>9, <1>10, <1>11, MapRaw

LEMMA MappedNew ==
  ASSUME Inv, NEW c \in Cores, map_new(c)
  PROVE  Inv'
<1>1. PICK va \in Addresses, type \in Types :
        \/ \E pages \in 1 .. MaxPages : map_init(c, va, type, pages, TRUE)
        \/ \E f \in Foreign : map_raw(c, va, type, f, TRUE, TRUE, FALSE)
  BY DEF map_new
<1>2. va \in Nat /\ 1 .. MaxPages \subseteq Nat \ {0} /\ TRUE \in BOOLEAN /\ FALSE \in BOOLEAN
  BY PageTableAssumption
<1>3. CASE \E pages \in 1 .. MaxPages : map_init(c, va, type, pages, TRUE)
  <2>1. PICK pages \in Nat \ {0} : map_init(c, va, type, pages, TRUE)
    BY <1>2, <1>3
  <2> QED
    BY <1>2, <2>1, MapInit
<1>4. CASE \E f \in Foreign : map_raw(c, va, type, f, TRUE, TRUE, FALSE)
  <2>1. PICK f \in Frames \cup Foreign : map_raw(c, va, type, f, TRUE, TRUE, FALSE)
    BY <1>4
  <2> QED
    BY <1>2, <2>1, MapRaw
<1> QED
  BY <1>1, <1>3, <1>4

LEMMA NextInv ==
  ASSUME Inv, [Next]_vars
  PROVE  Inv'
<1>1. Mappers \subseteq Cores /\ Readers \subseteq Cores
  BY DEF Cores
<1>2. CASE new
  BY <1>2, NewTree
<1>3. CASE destroy
  BY <1>3, Destroyed
<1>4. ASSUME NEW c \in Mappers, MapStep(c) PROVE Inv'
  <2>1. CASE map_new(c)
    BY <1>1, <2>1, MappedNew
  <2>2. CASE remap(c)
    BY <1>1, <2>2, Remapped
  <2>3. CASE alloc_page(c)
    BY <1>1, <2>3, AllocPage
  <2>4. CASE walk_down(c)
    BY <1>1, <2>4, WalkDown
  <2>5. CASE add_table(c)
    BY <1>1, <2>5, AddTable
  <2>6. CASE link_table(c)
    BY <1>1, <2>6, LinkTable
  <2>7. CASE write_leaf(c)
    BY <1>1, <2>7, WriteLeaf
  <2>8. CASE fail(c)
    BY <1>1, <2>8, MapFails
  <2> QED
    BY <1>4, <2>1, <2>2, <2>3, <2>4, <2>5, <2>6, <2>7, <2>8 DEF MapStep
<1>5. ASSUME NEW c \in Readers, LookupStep(c) PROVE Inv'
  <2>1. CASE \E va \in Lookups : virt_to_phys(c, va)
    <3>1. PICK va \in Nat : virt_to_phys(c, va)
      BY <2>1, PageTableAssumption
    <3> QED
      BY <1>1, <3>1, VirtToPhys
  <2>2. CASE lookup_step(c)
    BY <1>1, <2>2, LookupMoves
  <2>3. CASE lookup_return(c)
    BY <1>1, <2>3, LookupReturns
  <2> QED
    BY <1>5, <2>1, <2>2, <2>3 DEF LookupStep
<1>6. CASE UNCHANGED vars
  <2>1. UNCHANGED <<memory, free, root, lost, pc, call>>
    BY <1>6 DEF vars
  <2>2. TypesInv'
    BY <2>1 DEF Inv, TypesInv, Cores, Slots, Entry, Calls, Levels, Types, Pending
  <2>3. SameTree
    <3>1. \A d \in Levels : \A t \in TablesAt[d] : \A i \in Entries(d) : Read(t, i)' = Read(t, i)
      BY <2>1 DEF Read
    <3> QED
      BY <2>1, <2>2, <3>1, ReadsKept DEF Inv
  <2>4. \A f \in Frames : OneUse(f)'
    <3> TAKE f \in Frames
    <3>1. Holders(f)' = Holders(f)
      BY <2>1 DEF Holders, InHand, Block, Cores
    <3> QED
      BY <2>1, <2>3, <3>1, UseKept DEF Inv, SameTree, SameTranslations
  <2>5. \A c \in Cores : CallInv(c)' /\ (Mapping(c)' <=> Mapping(c))
    <3> TAKE c \in Cores
    <3>1. CallInv(c)'
      BY <2>1, <2>2, <2>3, OthersKept DEF SameTree, SameTranslations
    <3> QED
      BY <2>1, <3>1 DEF Mapping
  <2> QED
    BY <2>2, <2>3, <2>4, <2>5 DEF Inv, SameTree, SameTranslations, Cores
<1> QED
  BY <1>2, <1>3, <1>4, <1>5, <1>6 DEF Next

(* The inductive invariant: the tree is a tree of frames of the allocator with leaves only
   where the processor looks for them, each frame has one use, one core maps at a time,
   and every core in a call is on the path of its address, whatever the others do. *)
THEOREM TablesInvariant == Spec => []Inv
<1>1. Inv /\ [Next]_vars => Inv'
  BY NextInv
<1> QED
  BY <1>1, InitInv, PTL DEF Spec

-----------------------------------------------------------------------------
(* Every frame of the allocator is in exactly one place: free, the root, a table linked
   once, part of one leaf that owns it, in the hand of one call, or lost by a call that
   failed with it in hand; and every core in a call has a table, a page and a level that
   fit what it does. *)
LEMMA OnePlace == Inv => EveryFrameOnePlace
<1> SUFFICES ASSUME Inv PROVE EveryFrameOnePlace
  OBVIOUS
<1>1. PageTableTypeOK
  <2>1. \A c \in Cores :
          pc[c] \in {"walk", "link", "lookup"} =>
            call[c].depth \in Levels /\ call[c].table \in TablesAt[call[c].depth]
    BY OnTheWay
  <2>2. \A c \in Cores : pc[c] = "link" => call[c].new \in Frames /\ ~Last(c)
    <3> TAKE c \in Cores
    <3>1. call[c].depth \in Int /\ call[c].type \in Int
      <4>1. call[c] \in Calls
        BY DEF Inv, TypesInv
      <4>2. call[c].depth \in Levels /\ call[c].type \in Levels
        BY <4>1, LevelFacts DEF Calls
      <4>3. \A d \in Levels : d \in Int
        BY LevelFacts
      <4> QED
        BY <4>2, <4>3
    <3> QED
      BY <3>1 DEF Inv, CallInv, MapperInv, Last
  <2> QED
    BY <2>1, <2>2 DEF PageTableTypeOK, Inv, TypesInv
<1>2. ASSUME NEW f \in Frames PROVE Cardinality(Places(f)) = 1
  <2>1. OneUse(f)
    BY DEF Inv
  <2>2. Places(f) = {<<"free">> : x \in free \cap {f}} \cup {<<"lost">> : x \in lost \cap {f}}
                      \cup {<<"root">> : x \in {root} \cap {f}}
                      \cup {<<"hand", c>> : c \in Holders(f)}
                      \cup {<<"link", x>> : x \in LinksTo(f)}
                      \cup {<<"leaf", x>> : x \in LeavesOver(f)}
    BY DEF Places, Holders, LinksTo, LeavesOver
  <2>3. \E p : Places(f) = {p}
    <3>1. CASE \E use \in {"free", "lost", "root"} : Use(f, use, {}, {}, {})
      <4>1. PICK use \in {"free", "lost", "root"} : Use(f, use, {}, {}, {})
        BY <3>1
      <4>2. Places(f) = {<<use>>}
        BY <2>2, <4>1 DEF Use
      <4> QED
        BY <4>2
    <3>2. CASE \E c \in Cores : Use(f, "hand", {c}, {}, {})
      <4>1. PICK c \in Cores : Use(f, "hand", {c}, {}, {})
        BY <3>2
      <4>2. Places(f) = {<<"hand", c>>}
        BY <2>2, <4>1 DEF Use
      <4> QED
        BY <4>2
    <3>3. CASE \E y \in LinksTo(f) : Use(f, "link", {}, {y}, {})
      <4>1. PICK y \in LinksTo(f) : Use(f, "link", {}, {y}, {})
        BY <3>3
      <4>2. Places(f) = {<<"link", y>>}
        BY <2>2, <4>1 DEF Use
      <4> QED
        BY <4>2
    <3>4. CASE \E y \in LeavesOver(f) : Use(f, "leaf", {}, {}, {y})
      <4>1. PICK y \in LeavesOver(f) : Use(f, "leaf", {}, {}, {y})
        BY <3>4
      <4>2. Places(f) = {<<"leaf", y>>}
        BY <2>2, <4>1 DEF Use
      <4> QED
        BY <4>2
    <3> QED
      BY <2>1, <3>1, <3>2, <3>3, <3>4 DEF OneUse
  <2> QED
    BY <2>3, FS_Singleton
<1> QED
  BY <1>1, <1>2 DEF EveryFrameOnePlace

THEOREM FramesInOnePlace == Spec => []EveryFrameOnePlace
BY TablesInvariant, OnePlace, PTL

(* "Don't use page table lock because it is not needed." (mm.rs:645): whatever other cores
   map meanwhile, a lookup finds the frame of an address that was mapped when it began,
   and no frame but the one the address has. *)
THEOREM LookupsNeedNoLock == Spec => []LockNotNeeded
<1>1. Inv => LockNotNeeded
  BY DEF Inv, CallInv, ReaderInv, LockNotNeeded
<1> QED
  BY <1>1, TablesInvariant, PTL

-----------------------------------------------------------------------------
(* The pages below one entry.  They are those with its number, an aligned block. *)
LEMMA PageNumbers ==
  /\ Pages \subseteq Nat
  /\ \A va \in Nat : va \in Pages <=> va \div Size(Top) < Fan[Top]
  /\ \A va \in Pages : Index(va, Top) = va \div Size(Top)
<1>1. PICK s \in Nat \ {0}, m \in Nat \ {0} : s = Size(Top) /\ m = Fan[Top]
  BY SizeFacts, LevelFacts DEF Size
<1>2. PICK n \in Nat \ {0} : n = m * s /\ n = Span
  BY <1>1 DEF Span
<1>3. Pages = 0 .. (n - 1) /\ Pages \subseteq Nat
  BY <1>2 DEF Pages
<1>4. ASSUME NEW va \in Nat PROVE va < n <=> va \div s < m
  <2>1. PICK q \in Nat, r \in Nat : q = va \div s /\ r < s /\ va = q * s + r
    BY DivMod
  <2>2. CASE q < m
    <3>1. PICK k \in Nat \ {0} : m = q + k
      BY <2>2
    <3>2. n = q * s + k * s /\ k * s >= s /\ k * s \in Nat /\ q * s \in Nat
      BY <1>2, <3>1
    <3> QED
      BY <2>1, <2>2, <3>2
  <2>3. CASE q >= m
    <3>1. PICK k \in Nat : q = m + k
      BY <2>3
    <3>2. q * s = n + k * s /\ k * s \in Nat /\ q * s \in Nat
      BY <1>2, <3>1
    <3> QED
      BY <2>1, <2>3, <3>2
  <2> QED
    BY <2>1, <2>2, <2>3
<1>5. \A q \in Nat : q < m => q % m = q
  BY <1>1
<1>6. \A va \in Nat : va \div s \in Nat
  BY DivMod
<1>7. \A va \in Nat : va \in Pages <=> va \div s < m
  BY <1>2, <1>3, <1>4
<1>8. \A va \in Pages : (va \div s) % m = va \div s
  BY <1>3, <1>5, <1>6, <1>7
<1> QED
  BY <1>1, <1>3, <1>7, <1>8 DEF Index

LEMMA SameNumber ==
  ASSUME NEW p \in Nat, NEW q \in Nat, NEW k \in Levels, p \div Size(k) = q \div Size(k)
  PROVE  \A d \in Levels : d <= k => Index(p, d) = Index(q, d) /\ p \div Size(d) = q \div Size(d)
<1> DEFINE S == {d \in Levels : d <= k => p \div Size(d) = q \div Size(d)}
<1>1. 3 \in S
  BY LevelFacts DEF Levels
<1>2. ASSUME NEW d \in Levels \ {3}, d + 1 \in S PROVE d \in S
  <2>1. d \in Int /\ k \in Int /\ d + 1 \in Levels
    BY LevelFacts
  <2>2. CASE d = k
    BY <2>2
  <2>3. CASE d < k
    <3>1. p \div Size(d + 1) = q \div Size(d + 1)
      BY <1>2, <2>1, <2>3
    <3> QED
      BY <3>1, NumberFacts
  <2>4. CASE k < d
    BY <2>1, <2>4
  <2> QED
    BY <2>1, <2>2, <2>3, <2>4
<1> HIDE DEF S
<1>3. S = Levels
  <2>1. S \in SUBSET Levels
    BY DEF S
  <2> QED
    BY <1>1, <1>2, <2>1, Downward
<1> QED
  BY <1>3 DEF S, Index

LEMMA SameIndices ==
  ASSUME NEW p \in Pages, NEW q \in Pages, NEW k \in Levels,
         \A d \in Levels : d <= k => Index(p, d) = Index(q, d)
  PROVE  p \div Size(k) = q \div Size(k)
<1> DEFINE S == {d \in Levels : d <= k => p \div Size(d) = q \div Size(d)}
<1>0. p \in Nat /\ q \in Nat /\ k \in Int
  BY PageNumbers, LevelFacts
<1>1. Top \in S
  BY PageNumbers, LevelFacts
<1>2. ASSUME NEW d \in S, d # 3 PROVE d + 1 \in S
  <2>1. d + 1 \in Levels /\ d \in Levels /\ d \in Int
    BY <1>2, LevelFacts
  <2>2. CASE d + 1 <= k
    <3>1. p \div Size(d) = q \div Size(d) /\ Index(p, d + 1) = Index(q, d + 1)
      BY <1>0, <1>2, <2>1, <2>2
    <3> QED
      BY <1>0, <1>2, <2>1, <3>1, NumberFacts
  <2> QED
    BY <2>1, <2>2
<1> HIDE DEF S
<1>3. S = Levels
  <2>1. S \in SUBSET Levels
    BY DEF S
  <2> QED
    BY <1>1, <1>2, <2>1, Upward
<1> QED
  BY <1>0, <1>3 DEF S

(* Addresses with the same indices are on the same path, and, as each table has one link,
   addresses on the same path have the same indices. *)
LEMMA SamePath ==
  ASSUME TypesInv, TreeInv, NEW p \in Nat, NEW q \in Nat, NEW k \in Levels,
         \A d \in Levels : d <= k => Index(p, d) = Index(q, d)
  PROVE  \A d \in Levels : d <= k => Path(p)[d] = Path(q)[d]
<1>0. PathLaw(p) /\ PathLaw(q)
  BY PathFacts
<1> DEFINE S == {d \in Levels : d <= k => Path(p)[d] = Path(q)[d]}
<1>1. Top \in S
  BY <1>0, LevelFacts DEF PathLaw
<1>2. ASSUME NEW d \in S, d # 3 PROVE d + 1 \in S
  <2>1. d + 1 \in Levels /\ d \in Levels \ {3} /\ d \in Int /\ k \in Int
    BY <1>2, LevelFacts
  <2>2. CASE d + 1 <= k
    <3>1. Path(p)[d] = Path(q)[d] /\ Index(p, d) = Index(q, d)
      BY <1>2, <2>1, <2>2
    <3>2. Reached(p, d) = Reached(q, d)
      BY <3>1 DEF Reached
    <3> QED
      BY <1>0, <2>1, <3>2 DEF PathLaw
  <2> QED
    BY <2>1, <2>2
<1> HIDE DEF S
<1>3. S = Levels
  <2>1. S \in SUBSET Levels
    BY DEF S
  <2> QED
    BY <1>1, <1>2, <2>1, Upward
<1> QED
  BY <1>3 DEF S

LEMMA OnePathDown ==
  ASSUME TypesInv, TreeInv, TreesApart, NEW p \in Nat, NEW q \in Nat, NEW k \in Levels,
         Path(p)[k] = Path(q)[k], Path(p)[k] # Nothing, Index(p, k) = Index(q, k)
  PROVE  \A d \in Levels : d <= k => Index(p, d) = Index(q, d)
<1>0. PathLaw(p) /\ PathLaw(q) /\ LinkLaw /\ k \in Int
  BY PathFacts, LinkFacts, LevelFacts
<1> DEFINE S == {d \in Levels : d <= k => /\ Path(p)[d] = Path(q)[d] /\ Path(p)[d] # Nothing
                                          /\ Index(p, d) = Index(q, d)}
<1>1. 3 \in S
  BY LevelFacts DEF Levels
<1>2. ASSUME NEW d \in Levels \ {3}, d + 1 \in S PROVE d \in S
  <2>1. d \in Int /\ d + 1 \in Levels
    BY LevelFacts
  <2>2. CASE d = k
    BY <2>2
  <2>3. CASE d < k
    <3>1. Path(p)[d + 1] = Path(q)[d + 1] /\ Path(p)[d + 1] # Nothing
      BY <1>0, <1>2, <2>1, <2>3
    <3>2. /\ Follow(Reached(p, d), d) = Follow(Reached(q, d), d)
          /\ Follow(Reached(p, d), d) # Nothing
      BY <1>0, <3>1 DEF PathLaw
    <3>3. /\ Path(p)[d] \in TablesAt[d] /\ Path(p)[d] # Nothing
          /\ Path(q)[d] \in TablesAt[d] /\ Path(q)[d] # Nothing
      BY <1>0, <3>2 DEF PathLaw, Follow
    <3>4. PICK t, i, u, j : t = Path(p)[d] /\ i = Index(p, d) /\ u = Path(q)[d] /\ j = Index(q, d)
      OBVIOUS
    <3>5. /\ t \in TablesAt[d] /\ i \in Entries(d) /\ u \in TablesAt[d] /\ j \in Entries(d)
          /\ Follow(Read(t, i), d) = Follow(Read(u, j), d) /\ Follow(Read(t, i), d) # Nothing
      BY <3>2, <3>3, <3>4, IndexFacts DEF Reached
    <3>6. <<d, t, i>> \in Links /\ <<d, u, j>> \in Links /\ Read(t, i).frame = Read(u, j).frame
      BY <1>0, <3>5 DEF LinkLaw
    <3>7. <<d, t, i>> = <<d, u, j>>
      BY <3>6 DEF TreesApart
    <3> QED
      BY <3>3, <3>4, <3>7
  <2>4. CASE k < d
    BY <1>0, <2>1, <2>4
  <2> QED
    BY <1>0, <2>1, <2>2, <2>3, <2>4
<1> HIDE DEF S
<1>3. S = Levels
  <2>1. S \in SUBSET Levels
    BY DEF S
  <2> QED
    BY <1>1, <1>2, <2>1, Downward
<1> QED
  BY <1>3 DEF S

-----------------------------------------------------------------------------
(* A leaf written changes the translation of one aligned block of pages that had none, or
   of none. *)
LEMMA EntryOfPages ==
  ASSUME Inv, NEW k \in Types, NEW T \in TablesAt[k], NEW I \in Entries(k),
         NEW p \in Pages, Path(p)[k] = T, Index(p, k) = I
  PROVE  LET begin == p - (p % Size(k)) IN
         /\ begin \in Nat /\ begin % Size(k) = 0
         /\ {q \in Pages : Path(q)[k] = T /\ Index(q, k) = I} = begin .. (begin + Size(k) - 1)
         /\ \A q \in begin .. (begin + Size(k) - 1) : q % Size(k) = q - begin
<1> DEFINE begin == p - (p % Size(k))
<1>0. /\ p \in Nat /\ k \in Levels /\ k \in Int /\ T # Nothing /\ TypesInv /\ TreeInv /\ TreesApart
      /\ Pages \subseteq Nat /\ Top \in Levels /\ Top <= k
  BY PageNumbers, LevelFacts, TreeFacts, TablesApart, BeginsAtRoot DEF Inv, TableLaw
<1>1. PICK s \in Nat \ {0} : s = Size(k)
  BY <1>0, SizeFacts DEF Size
<1>2. PICK n \in Nat, r \in Nat : n = p \div s /\ r = p % s /\ r < s /\ p = n * s + r
  BY <1>0, DivMod
<1>3. PICK b \in Nat : b = n * s
  BY <1>2
<1>4. begin = b
  <2>1. p = b + r /\ begin = p - r
    BY <1>1, <1>2, <1>3
  <2> QED
    BY <1>2, <1>3, <2>1
<1> HIDE DEF begin
<1>5. \A q \in Nat : q \in b .. (b + s - 1) <=> q \div s = n
  <2> TAKE q \in Nat
  <2>1. PICK m \in Nat, t \in Nat : m = q \div s /\ t < s /\ q = m * s + t
    BY DivMod
  <2>2. CASE m = n
    BY <1>2, <1>3, <2>1, <2>2
  <2>3. CASE m < n
    <3>1. PICK x \in Nat \ {0} : n = m + x
      BY <2>3
    <3>2. b = m * s + x * s /\ x * s >= s /\ x * s \in Nat /\ m * s \in Nat
      BY <1>3, <3>1
    <3> QED
      BY <2>1, <2>3, <3>2
  <2>4. CASE n < m
    <3>1. PICK x \in Nat \ {0} : m = n + x
      BY <2>4
    <3>2. m * s = b + x * s /\ x * s >= s /\ x * s \in Nat /\ m * s \in Nat
      BY <1>3, <3>1
    <3> QED
      BY <2>1, <2>4, <3>2
  <2> QED
    BY <2>1, <2>2, <2>3, <2>4
<1>6. ASSUME NEW q \in b .. (b + s - 1) PROVE q % s = q - b
  <2>1. q \in Nat /\ q \div s = n
    BY <1>5, <1>6
  <2>2. PICK t \in Nat : t = q % s /\ q = n * s + t
    BY <2>1, DivMod
  <2> QED
    BY <1>3, <2>1, <2>2
<1>7. b % s = 0
  <2>1. b \in b .. (b + s - 1)
    OBVIOUS
  <2> QED
    BY <1>6, <2>1
<1>8. ASSUME NEW q \in Nat, q \div s = n
      PROVE  q \in Pages /\ Path(q)[k] = T /\ Index(q, k) = I
  <2>0. q \div Size(k) = p \div Size(k)
    BY <1>1, <1>2, <1>8
  <2>1. \A d \in Levels : d <= k => Index(q, d) = Index(p, d) /\ q \div Size(d) = p \div Size(d)
    BY <1>0, <2>0, SameNumber
  <2>2. q \div Size(Top) < Fan[Top]
    BY <1>0, <2>1, PageNumbers
  <2>3. Path(q)[k] = Path(p)[k] /\ Index(q, k) = Index(p, k)
    BY <1>0, <2>1, SamePath
  <2> QED
    BY <2>2, <2>3, PageNumbers
<1>9. ASSUME NEW q \in Pages, Path(q)[k] = T, Index(q, k) = I
      PROVE  q \div s = n
  <2>1. q \in Nat
    BY <1>0
  <2>2. Path(q)[k] = Path(p)[k] /\ Path(q)[k] # Nothing /\ Index(q, k) = Index(p, k)
    BY <1>0, <1>9
  <2>3. \A d \in Levels : d <= k => Index(q, d) = Index(p, d)
    BY <1>0, <2>1, <2>2, OnePathDown
  <2>4. q \div Size(k) = p \div Size(k)
    BY <1>0, <2>3, SameIndices
  <2> QED
    BY <1>1, <1>2, <2>4
<1>10. {q \in Pages : Path(q)[k] = T /\ Index(q, k) = I} = b .. (b + s - 1)
  <2>1. \A q \in b .. (b + s - 1) : q \in Nat
    OBVIOUS
  <2>2. \A q \in Pages : Path(q)[k] = T /\ Index(q, k) = I <=> q \in b .. (b + s - 1)
    BY <1>0, <1>5, <1>8, <1>9
  <2>3. \A q \in b .. (b + s - 1) : q \in Pages
    BY <1>5, <1>8, <2>1
  <2> QED
    BY <2>2, <2>3
<1> QED
  BY <1>1, <1>4, <1>6, <1>7, <1>10 DEF begin

-----------------------------------------------------------------------------
(* The refinement: of the steps, only a leaf that is written and the end of the tables
   change the mapping, and each does what AddressSpace says. *)
LEMMA MappingValues ==
  /\ \A p \in Pages : mapping[p] = Translation(p) /\ mapping'[p] = Translation(p)'
  /\ (\A p \in Pages : Translation(p)' = Translation(p)) => mapping' = mapping
BY DEF mapping, Pages, Span, Size

LEMMA LeavesAreMapped ==
  ASSUME Inv, NEW c \in Cores, write_leaf(c), mapping' # mapping
  PROVE  AddressSpaceOfTables!Next
<1>1. PICK k, T, I, e :
        k = call[c].type /\ T = call[c].table /\ I = Index(call[c].va, call[c].type) /\ e = call[c].entry
  OBVIOUS
<1>2. TypesInv' /\ Writes(k, T, I, e)
  BY <1>1, WriteIsTyped
<1>3. \A va \in Nat :
        /\ ~(Path(va)[k] = T /\ Index(va, k) = I) => Translation(va)' = Translation(va)
        /\ Path(va)[k] = T /\ Index(va, k) = I =>
             /\ Translation(va)' = e.frame + (va % Size(k))
             /\ Translation(va) \in {Nothing, Translation(va)'}
             /\ Read(T, I) = Nothing => Translation(va) = Nothing
             /\ Read(T, I) # Nothing => Translation(va) # Nothing
  BY <1>2, LeafWritten DEF Inv
<1>4. PICK p \in Pages : Translation(p)' # Translation(p)
  BY MappingValues
<1>5. /\ Pages \subseteq Nat /\ Path(p)[k] = T /\ Index(p, k) = I /\ Read(T, I) = Nothing
      /\ k \in Types /\ T \in TablesAt[k] /\ I \in Entries(k)
      /\ e.frame \in Nat /\ Nothing \notin Nat
  <2>1. Pages \subseteq Nat
    BY PageNumbers
  <2>2. k \in Types /\ T \in TablesAt[k] /\ I \in Entries(k) /\ e \in Entry
    BY <1>2 DEF Writes
  <2>3. e.frame \in Nat /\ Nothing \notin Nat
    BY <2>2, PageTableAssumption DEF Entry
  <2> QED
    BY <1>3, <1>4, <2>1, <2>2, <2>3
<1>6. PICK b, s : b = p - (p % Size(k)) /\ s = Size(k)
  OBVIOUS
<1>7. /\ b \in Nat /\ b % s = 0
      /\ {q \in Pages : Path(q)[k] = T /\ Index(q, k) = I} = b .. (b + s - 1)
      /\ \A q \in b .. (b + s - 1) : q % s = q - b
  BY <1>5, <1>6, EntryOfPages
<1>8. \A q \in b .. (b + s - 1) :
        /\ q \in Pages /\ mapping[q] = Nothing /\ mapping'[q] = e.frame + (q - b)
        /\ mapping'[q] # mapping[q]
  <2> TAKE q \in b .. (b + s - 1)
  <2>1. q \in Pages /\ q \in Nat /\ Path(q)[k] = T /\ Index(q, k) = I
    BY <1>5, <1>7
  <2>2. Translation(q)' = e.frame + (q % s) /\ Translation(q) = Nothing
    BY <1>3, <1>5, <1>6, <2>1
  <2>3. e.frame + (q - b) \in Nat
    BY <1>5, <1>7
  <2> QED
    BY <1>5, <1>7, <2>1, <2>2, <2>3, MappingValues
<1>9. \A q \in Pages : q \notin b .. (b + s - 1) => mapping'[q] = mapping[q]
  BY <1>3, <1>5, <1>7, MappingValues
<1>10. {q \in Pages : mapping'[q] # mapping[q]} = b .. (b + s - 1)
  BY <1>8, <1>9
<1>11. b \in b .. (b + s - 1) /\ s \in {Size(type) : type \in Types}
  BY <1>5, <1>6, <1>7, SizeFacts, LevelFacts DEF Size
<1>12. mapping'[b] = e.frame
  <2>1. mapping'[b] = e.frame + (b - b)
    BY <1>8, <1>11
  <2> QED
    BY <1>5, <1>7, <2>1
<1>13. AddressSpaceOfTables!Map(b .. (b + s - 1))
  BY <1>7, <1>8, <1>11, <1>12 DEF AddressSpaceOfTables!Map
<1> QED
  BY <1>10, <1>13 DEF AddressSpaceOfTables!Next

LEMMA StepsImplement ==
  ASSUME Inv, Inv', [Next]_vars
  PROVE  AddressSpaceOfTables!Next \/ UNCHANGED mapping
<1>1. Mappers \subseteq Cores /\ Pages \subseteq Nat
  BY PageNumbers DEF Cores
<1>2. SameTranslations => UNCHANGED mapping
  BY <1>1, MappingValues DEF SameTranslations
<1>3. ASSUME UNCHANGED <<memory, root>> PROVE UNCHANGED mapping
  <2>1. \A d \in Levels : \A t \in TablesAt[d] : \A i \in Entries(d) : Read(t, i)' = Read(t, i)
    BY <1>3 DEF Read
  <2> QED
    BY <1>2, <1>3, <2>1, ReadsKept DEF Inv, SameTree
<1>4. CASE new
  <2>1. memory' = [memory EXCEPT ![root'] = Zeroed] /\ root = Nothing /\ root' \in Frames
    BY <1>4, GrantedIsFree DEF new, Inv, TypesInv, Types
  <2>2. \A i \in Entries(Top) : Read(root, i)' = Nothing
    BY <2>1, MemoryFacts, IndexFacts, LevelFacts DEF Read, Inv, TypesInv
  <2>3. EmptyTree /\ EmptyTree'
    BY <2>1, <2>2, NoRoot, RootOnlyLater DEF Entries, Inv
  <2> QED
    BY <1>2, <2>3 DEF EmptyTree, SameTranslations
<1>5. CASE destroy
  <2>1. EmptyTree'
    BY <1>5, NoRootLater DEF destroy, Inv
  <2>2. \A p \in Pages : mapping'[p] = Nothing
    BY <1>1, <2>1, MappingValues DEF EmptyTree
  <2> QED
    BY <2>2 DEF AddressSpaceOfTables!Next, AddressSpaceOfTables!Destroy
<1>6. ASSUME NEW c \in Mappers, MapStep(c)
      PROVE  AddressSpaceOfTables!Next \/ UNCHANGED mapping
  <2>1. CASE map_new(c) \/ remap(c)
    BY <1>3, <2>1 DEF map_new, remap, map_init, map_raw
  <2>2. CASE walk_down(c) \/ add_table(c) \/ fail(c)
    BY <1>3, <2>2 DEF walk_down, add_table, fail
  <2>3. CASE alloc_page(c)
    BY <1>1, <1>2, <2>3, AllocPage
  <2>4. CASE link_table(c)
    BY <1>1, <1>2, <2>4, LinkTable
  <2>5. CASE write_leaf(c)
    BY <1>1, <2>5, LeavesAreMapped
  <2> QED
    BY <1>6, <2>1, <2>2, <2>3, <2>4, <2>5 DEF MapStep
<1>7. ASSUME NEW c \in Readers, LookupStep(c)
      PROVE  UNCHANGED mapping
  BY <1>3, <1>7 DEF LookupStep, virt_to_phys, lookup_step, lookup_return
<1>8. CASE UNCHANGED vars
  BY <1>3, <1>8 DEF vars
<1> QED
  BY <1>4, <1>5, <1>6, <1>7, <1>8 DEF Next

LEMMA BeginsEmpty == Init => AddressSpaceOfTables!Init
<1> SUFFICES ASSUME Init PROVE AddressSpaceOfTables!Init
  OBVIOUS
<1>1. EmptyTree /\ Pages \subseteq Nat
  BY InitInv, NoRoot, PageNumbers DEF Init, Inv
<1>2. \A p \in Pages : Translation(p) = Nothing
  BY <1>1 DEF EmptyTree
<1> QED
  BY <1>2 DEF AddressSpaceOfTables!Init, mapping

(* The tables are a partial function from pages to frames: growing the tree changes no
   translation, a leaf adds one aligned block of consecutive frames where nothing was
   mapped, writing it again changes none, and only destroy takes translations away. *)
THEOREM TablesImplementAddressSpace == Spec => ImplementsAddressSpace
<1>1. Inv /\ Inv' /\ [Next]_vars => AddressSpaceOfTables!Next \/ UNCHANGED mapping
  BY StepsImplement
<1>2. Inv /\ Inv' /\ [Next]_vars => [AddressSpaceOfTables!Next]_mapping
  BY <1>1
<1> QED
  BY <1>2, BeginsEmpty, TablesInvariant, PTL
     DEF Spec, ImplementsAddressSpace, AddressSpaceOfTables!Spec
=============================================================================
