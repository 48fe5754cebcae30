--------------------------- MODULE RangeSetProofs ---------------------------
(***************************************************************************)
(* Proofs about RangeSet, for any width of addresses, any length of the    *)
(* array and any arguments: its entries stay apart, it runs out of entries *)
(* only when the set needs more, an allocation is a best fit and is        *)
(* refused for one of two reasons only, and the calls implement the set    *)
(* operations of FreeMemory.                                               *)
(***************************************************************************)
EXTENDS RangeSet, SequenceTheorems, FiniteSetTheorems, TLAPS

Entries == DOMAIN ranges

Types ==
  /\ TypeOK
  /\ ranges \in Seq(Ranges)
  /\ idx <= Len(ranges) + 1

(* Two entries that are apart. *)
Separate(a, b) == a.end + 1 < b.start \/ b.end + 1 < a.start

Apart == \A i, j \in Entries : i # j => Separate(ranges[i], ranges[j])

(* What the loops have established of the entries before the loop index. *)
Checked ==
  /\ op = "idle" => idx = 1
  /\ op = "insert" => \A j \in Entries : j < idx => ~touches(range, ranges[j])
  /\ op = "remove" => \A j \in Entries : j < idx => ~overlaps(range, ranges[j])

(* The best candidate is an entry that fits and that no other one passed so far beats. *)
NotBeatenBy(r) ==
  \/ best.padding < Padding(r)
  \/ best.padding = Padding(r) /\ best.size <= WrappedSize(r)

BestSoFar ==
  /\ op # "allocate" => best = NoCandidate
  /\ op = "allocate" =>
       /\ request.size > 0 /\ request.align > 0
       /\ best.found => \E j \in Entries : Fits(ranges[j]) /\ best = Candidate(ranges[j])
       /\ \A j \in Entries : j < idx /\ Fits(ranges[j]) => best.found /\ NotBeatenBy(ranges[j])

(* Where a call is that found no room. *)
Stopped ==
  out_of_space =>
    /\ Len(ranges) = Capacity
    /\ \/ op = "insert" /\ idx > Len(ranges)
       \/ /\ op = "remove" /\ idx <= Len(ranges)
          /\ ranges[idx].start < range.start /\ range.end < ranges[idx].end

Inv == Types /\ Apart /\ Checked /\ BestSoFar /\ Stopped

-----------------------------------------------------------------------------
(* Arithmetic of the alignment.                                             *)
LEMMA Quotient ==
  ASSUME NEW s \in Nat, NEW a \in Nat \ {0}
  PROVE  /\ s = (a * (s \div a)) + (s % a) /\ (s \div a) \in Nat
         /\ s % a \in 0 .. a - 1
  OBVIOUS

LEMMA Multiple ==
  ASSUME NEW q \in Nat, NEW a \in Nat \ {0}
  PROVE  (q * a) % a = 0
  OBVIOUS

(* Padding takes an address to the next multiple of the alignment. *)
LEMMA Aligned ==
  ASSUME NEW s \in Nat, NEW a \in Nat \ {0}
  PROVE  /\ ((a - (s % a)) % a) \in 0 .. a - 1
         /\ (s + ((a - (s % a)) % a)) % a = 0
<1> DEFINE q == s \div a
           m == s % a
<1>1. s = (a * q) + m /\ q \in Nat /\ m \in 0 .. a - 1
  BY Quotient
<1>2. CASE m = 0
  <2>1. a % a = 0
    BY Multiple, 1 * a = a
  <2>2. (a - m) % a = 0
    BY <1>2, <2>1
  <2>3. s = q * a
    BY <1>1, <1>2
  <2> QED
    BY <1>1, <2>2, <2>3, Multiple
<1>3. CASE m # 0
  <2>1. (a - m) % a = a - m
    BY <1>1, <1>3
  <2>2. s + (a - m) = (q + 1) * a
    BY <1>1
  <2>3. ((q + 1) * a) % a = 0
    BY <1>1, Multiple
  <2> QED
    BY <1>1, <1>3, <2>1, <2>2, <2>3
<1> QED
  BY <1>2, <1>3

-----------------------------------------------------------------------------
(* The array without one of its entries. *)
LEMMA Deleted ==
  ASSUME ranges \in Seq(Ranges), NEW i \in 1 .. Len(ranges)
  PROVE  /\ delete_entry(i) \in Seq(Ranges)
         /\ Len(delete_entry(i)) = Len(ranges) - 1
         /\ \A j \in 1 .. Len(ranges) - 1 :
              delete_entry(i)[j] = IF j < i THEN ranges[j] ELSE ranges[j + 1]
<1> DEFINE d == delete_entry(i)
<1>1. Len(ranges) \in Nat /\ \A j \in 1 .. Len(ranges) : ranges[j] \in Ranges
  BY ElementOfSeq
<1>2. d = [j \in 1 .. Len(ranges) - 1 |-> IF j < i THEN ranges[j] ELSE ranges[j + 1]]
  BY DEF delete_entry
<1>3. d \in [1 .. Len(ranges) - 1 -> Ranges]
  BY <1>1, <1>2
<1>4. d \in Seq(Ranges)
  BY <1>1, <1>3
<1>5. Len(d) = Len(ranges) - 1
  BY <1>1, <1>3, <1>4
<1> QED
  BY <1>1, <1>2, <1>4, <1>5

(* Two entries touch unless an address lies between them. *)
LEMMA Touching ==
  ASSUME NEW a \in Ranges, NEW b \in Ranges
  PROVE  ~touches(a, b) <=> Separate(a, b)
<1>1. /\ Widened(a) = [start |-> a.start, end |-> SaturatingInc(a.end)]
      /\ Widened(b) = [start |-> b.start, end |-> SaturatingInc(b.end)]
  BY DEF Widened, Ranges
<1>2. {a.start, a.end, b.start, b.end} \subseteq Addr /\ U64Max \in Nat
  BY RangeSetAssumption DEF Ranges
<1>3. touches(a, b) <=> a.start <= SaturatingInc(b.end) /\ b.start <= SaturatingInc(a.end)
  BY <1>1 DEF touches, overlaps
<1> QED
  BY <1>2, <1>3 DEF SaturatingInc, Smaller, Addr, Separate

(* What is left of an entry when a range is cut off its front, its back or its inside. *)
Upper(r, c) == [start |-> r.end + 1, end |-> c.end]
Lower(r, c) == [start |-> c.start, end |-> r.start - 1]

LEMMA CutFront ==
  ASSUME NEW r \in Ranges, NEW c \in Ranges, r.start <= c.start, overlaps(r, c), ~contains(r, c)
  PROVE  /\ SaturatingInc(r.end) = r.end + 1 /\ Upper(r, c) \in Ranges /\ ~overlaps(r, Upper(r, c))
         /\ Upper(r, c).start >= c.start /\ Upper(r, c).end = c.end
<1>1. {r.start, r.end, c.start, c.end} \subseteq 0 .. U64Max /\ r.start <= r.end /\ c.start <= c.end
  BY DEF Ranges, Addr
<1>2. r.end < c.end /\ c.start <= r.end
  BY <1>1 DEF overlaps, contains
<1>3. Upper(r, c).start = r.end + 1 /\ Upper(r, c).end = c.end
  BY DEF Upper
<1>4. SaturatingInc(r.end) = r.end + 1
  BY <1>1, <1>2, RangeSetAssumption DEF SaturatingInc, Smaller
<1>5. Upper(r, c) \in Ranges
  BY <1>1, <1>2, RangeSetAssumption DEF Upper, Ranges, Addr
<1> QED
  BY <1>1, <1>2, <1>3, <1>4, <1>5 DEF overlaps

LEMMA CutBack ==
  ASSUME NEW r \in Ranges, NEW c \in Ranges, r.start > c.start, overlaps(r, c)
  PROVE  /\ SaturatingDec(r.start) = r.start - 1 /\ Lower(r, c) \in Ranges /\ ~overlaps(r, Lower(r, c))
         /\ Lower(r, c).start = c.start /\ (r.end >= c.end => Lower(r, c).end <= c.end)
<1>1. {r.start, r.end, c.start, c.end} \subseteq 0 .. U64Max /\ r.start <= r.end /\ c.start <= c.end
  BY DEF Ranges, Addr
<1>2. r.start <= c.end
  BY <1>1 DEF overlaps
<1>3. Lower(r, c).start = c.start /\ Lower(r, c).end = r.start - 1
  BY DEF Lower
<1>4. SaturatingDec(r.start) = r.start - 1
  BY <1>1, <1>2, RangeSetAssumption DEF SaturatingDec, Larger
<1>5. Lower(r, c) \in Ranges
  BY <1>1, <1>2, RangeSetAssumption DEF Lower, Ranges, Addr
<1> QED
  BY <1>1, <1>2, <1>3, <1>4, <1>5 DEF overlaps

(* Parts of separate entries are separate, and so are the two parts of one. *)
LEMMA PartsSeparate ==
  /\ \A a, b, c \in Ranges : Separate(a, b) /\ a.start <= c.start /\ c.end <= a.end => Separate(c, b) /\ Separate(b, c)
  /\ \A r, c \in Ranges : c.start < r.start /\ r.end < c.end => Separate(Lower(r, c), Upper(r, c))
<1>1. \A r \in Ranges : r.start \in Nat /\ r.end \in Nat /\ r.start <= r.end
  BY DEF Ranges, Addr
<1> QED
  BY <1>1 DEF Separate, Lower, Upper

(* What Inv says of the sequence, in the form the steps use. *)
LEMMA Shape ==
  ASSUME Inv
  PROVE  /\ ranges \in Seq(Ranges) /\ Len(ranges) \in 0 .. Capacity
         /\ Entries = 1 .. Len(ranges)
         /\ \A i \in 1 .. Len(ranges) : /\ ranges[i] \in Ranges
                                        /\ ranges[i] = [start |-> ranges[i].start, end |-> ranges[i].end]
                                        /\ ranges[i].start \in Addr /\ ranges[i].end \in Addr
                                        /\ ranges[i].start <= ranges[i].end
         /\ range \in Ranges /\ range.start \in Addr /\ range.end \in Addr /\ range.start <= range.end
         /\ idx \in 1 .. Len(ranges) + 1
         /\ U64Max \in Nat \ {0} /\ Capacity \in Nat \ {0} /\ Addr \subseteq Nat
<1>1. ranges \in Seq(Ranges) /\ Len(ranges) \in Nat /\ Len(ranges) <= Capacity /\ DOMAIN ranges = 1 .. Len(ranges)
  BY DEF Inv, Types, TypeOK
<1>2. \A i \in 1 .. Len(ranges) : ranges[i] \in Ranges
  BY <1>1
<1>3. \A r \in Ranges : /\ r = [start |-> r.start, end |-> r.end]
                       /\ r.start \in Addr /\ r.end \in Addr /\ r.start <= r.end
  BY DEF Ranges
<1>4. range \in Ranges /\ idx \in 1 .. Capacity + 1 /\ idx <= Len(ranges) + 1
  BY DEF Inv, Types, TypeOK
<1> QED
  BY <1>1, <1>2, <1>3, <1>4, RangeSetAssumption DEF Entries, Addr

LEMMA InvInit == Init => Inv
<1> SUFFICES ASSUME Init PROVE Inv
  OBVIOUS
<1>1. ranges = <<>> /\ Len(ranges) = 0 /\ ranges \in Seq(Ranges) /\ DOMAIN ranges = {}
  BY DEF Init
<1>2. Types
  <2>1. NoRange \in Ranges
    BY RangeSetAssumption DEF NoRange, Ranges, Addr
  <2>2. NoRequest \in [size : Addr, align : Addr, max : Addr]
    BY RangeSetAssumption DEF NoRequest, Addr
  <2>3. NoCandidate \in [padding : Addr, start : Addr, end : Addr, size : Addr, found : BOOLEAN]
    BY RangeSetAssumption DEF NoCandidate, Addr
  <2>4. NoBlock \in [start : Addr, size : Addr]
    BY RangeSetAssumption DEF NoBlock, Addr
  <2>5. Len(ranges) <= Capacity /\ 1 <= Len(ranges) + 1 /\ 1 \in 1 .. Capacity + 1
    BY <1>1, RangeSetAssumption
  <2> QED
    BY <1>1, <2>1, <2>2, <2>3, <2>4, <2>5 DEF Init, Types, TypeOK, Calls
<1> QED
  BY <1>1, <1>2 DEF Init, Inv, Apart, Entries, Checked, BestSoFar, Stopped

-----------------------------------------------------------------------------
(* A call begins. *)
LEMMA CallKeepsInv == ASSUME Inv, Call PROVE Inv'
<1> USE DEF callVars
<1>1. ASSUME NEW r \in Ranges, insert(r) \/ remove(r) PROVE Inv'
  <2>1. NoBlock \in [start : Addr, size : Addr]
    BY RangeSetAssumption DEF NoBlock, Addr
  <2>2. Types'
    <3>1. asked' \in Calls
      BY <1>1 DEF insert, remove, Calls, Ranges
    <3> QED
      BY <1>1, <2>1, <3>1 DEF insert, remove, Inv, Types, TypeOK
  <2>3. idx = 1 /\ idx' = 1 /\ ranges' = ranges
    BY <1>1 DEF insert, remove, Inv, Checked
  <2>4. Checked'
    BY <1>1, <2>3, Shape DEF insert, remove, Checked, Entries
  <2> QED
    BY <1>1, <2>2, <2>3, <2>4 DEF insert, remove, Inv, Apart, Entries, BestSoFar, Stopped
<1>2. ASSUME NEW size \in Sizes, NEW align \in Aligns, allocate_invalid(size, align) PROVE Inv'
  <2>1. NoBlock \in [start : Addr, size : Addr]
    BY RangeSetAssumption DEF NoBlock, Addr
  <2> QED
    BY <1>2, <2>1 DEF allocate_invalid, Inv, Types, TypeOK, Apart, Entries, Checked, BestSoFar, Stopped
<1>3. ASSUME NEW size \in Sizes, NEW align \in Aligns, NEW max \in Limits, allocate_limited(size, align, max)
      PROVE  Inv'
  <2>1. size \in Addr /\ align \in Addr /\ Smaller(max, UsizeMax) \in Addr
    BY RangeSetAssumption DEF Smaller
  <2>2. request' = [size |-> size, align |-> align, max |-> Smaller(max, UsizeMax)] /\ size > 0 /\ align > 0
    BY <1>3 DEF allocate_limited, IsPowerOfTwo
  <2>3. idx = 1 /\ idx' = 1 /\ ranges' = ranges /\ op' = "allocate" /\ op = "idle"
    BY <1>3 DEF allocate_limited, Inv, Checked
  <2>4. Types'
    <3>1. asked' \in Calls
      BY <1>3, <2>1, RangeSetAssumption DEF allocate_limited, Calls
    <3>2. granted' \in [start : Addr, size : Addr]
      BY <1>3, RangeSetAssumption DEF allocate_limited, NoBlock, Addr
    <3> QED
      BY <1>3, <2>1, <2>2, <2>3, <3>1, <3>2 DEF allocate_limited, Inv, Types, TypeOK
  <2>5. best' = best /\ ~best.found
    BY <1>3, <2>3 DEF Inv, BestSoFar, allocate_limited, NoCandidate
  <2>6. BestSoFar'
    BY <2>2, <2>3, <2>5, Shape DEF BestSoFar, Entries
  <2> QED
    BY <1>3, <2>3, <2>4, <2>6 DEF allocate_limited, Inv, Apart, Entries, Checked, Stopped
<1>4. CASE clear
  <2>1. ranges' = <<>> /\ Len(ranges') = 0 /\ ranges' \in Seq(Ranges) /\ DOMAIN ranges' = {}
    BY <1>4 DEF clear
  <2>2. NoBlock \in [start : Addr, size : Addr]
    BY RangeSetAssumption DEF NoBlock, Addr
  <2>3. idx = 1 /\ idx' = 1 /\ op = "idle" /\ op' = "idle" /\ out_of_space' = FALSE
    BY <1>4 DEF clear, Inv, Checked, Stopped, Types, TypeOK
  <2>4. Types'
    BY <1>4, <2>1, <2>2, <2>3, RangeSetAssumption DEF clear, Inv, Types, TypeOK
  <2> QED
    BY <1>4, <2>1, <2>3, <2>4 DEF clear, Inv, Apart, Entries, Checked, BestSoFar, Stopped
<1> QED
  BY <1>1, <1>2, <1>3, <1>4 DEF Call

-----------------------------------------------------------------------------
(* A step of a loop goes on, or the call returns. *)
LEMMA GoingOn ==
  ASSUME Inv, op \in {"insert", "remove"}, ~out_of_space,
         UNCHANGED <<op, asked, request, best, granted, out_of_space>>,
         ranges' \in Seq(Ranges), Len(ranges') <= Capacity, range' \in Ranges,
         idx' \in 1 .. Len(ranges') + 1, Apart', Checked'
  PROVE  Inv'
<1>1. Len(ranges') \in Nat /\ DOMAIN ranges' = 1 .. Len(ranges')
      /\ \A i \in 1 .. Len(ranges') : ranges'[i] \in Ranges
  OBVIOUS
<1>2. Types'
  BY <1>1, RangeSetAssumption DEF Inv, Types, TypeOK
<1> QED
  BY <1>2 DEF Inv, BestSoFar, Stopped

LEMMA Returning ==
  ASSUME Inv, Finish, ~out_of_space, granted' \in {granted, NoBlock},
         ranges' \in Seq(Ranges), Len(ranges') <= Capacity, Apart'
  PROVE  Inv'
<1>1. Len(ranges') \in Nat /\ DOMAIN ranges' = 1 .. Len(ranges')
      /\ \A i \in 1 .. Len(ranges') : ranges'[i] \in Ranges
  OBVIOUS
<1>2. NoRange \in Ranges
  BY RangeSetAssumption DEF NoRange, Ranges, Addr
<1>3. NoRequest \in [size : Addr, align : Addr, max : Addr]
  BY RangeSetAssumption DEF NoRequest, Addr
<1>4. NoCandidate \in [padding : Addr, start : Addr, end : Addr, size : Addr, found : BOOLEAN]
  BY RangeSetAssumption DEF NoCandidate, Addr
<1>5. granted' \in [start : Addr, size : Addr]
  BY RangeSetAssumption DEF NoBlock, Addr, Inv, Types, TypeOK
<1>6. Types'
  <2>1. op' = "idle" /\ asked' = NoCall /\ idx' = 1 /\ range' = NoRange /\ request' = NoRequest /\ best' = NoCandidate
        /\ out_of_space' = out_of_space /\ out_of_space \in BOOLEAN
    BY DEF Finish, Inv, Types, TypeOK
  <2>2. 1 \in 1 .. Capacity + 1 /\ 1 <= Len(ranges') + 1
    BY <1>1, RangeSetAssumption
  <2> QED
    BY <1>1, <1>2, <1>3, <1>4, <1>5, <2>1, <2>2 DEF Types, TypeOK, Calls
<1> QED
  BY <1>6 DEF Finish, Inv, Checked, BestSoFar, Stopped

(* Entries stay apart when one goes. *)
LEMMA DeletedApart ==
  ASSUME Inv, NEW i \in 1 .. Len(ranges), ranges' = delete_entry(i)
  PROVE  /\ ranges' \in Seq(Ranges) /\ Len(ranges') <= Capacity
         /\ Apart'
<1>1. /\ ranges' \in Seq(Ranges) /\ Len(ranges') = Len(ranges) - 1
      /\ \A j \in 1 .. Len(ranges) - 1 : ranges'[j] = IF j < i THEN ranges[j] ELSE ranges[j + 1]
  BY Deleted, Shape
<1>2. DOMAIN ranges' = 1 .. Len(ranges) - 1
  BY <1>1
<1>3. ASSUME NEW j \in 1 .. Len(ranges) - 1, NEW k \in 1 .. Len(ranges) - 1, j # k
      PROVE  Separate(ranges'[j], ranges'[k])
  <2> DEFINE Old(m) == IF m < i THEN m ELSE m + 1
  <2>1. Old(j) \in 1 .. Len(ranges) /\ Old(k) \in 1 .. Len(ranges) /\ Old(j) # Old(k)
    BY <1>3, Shape
  <2>2. ranges'[j] = ranges[Old(j)] /\ ranges'[k] = ranges[Old(k)]
    BY <1>1
  <2> QED
    BY <2>1, <2>2, Shape DEF Inv, Apart
<1>4. Apart'
  BY <1>2, <1>3 DEF Apart, Entries
<1>5. Len(ranges') <= Capacity
  BY <1>1, Shape
<1> QED
  BY <1>1, <1>4, <1>5

(* The array without the inside of one of its entries. *)
InsideCut == Append([ranges EXCEPT ![idx] = Upper(range, ranges[idx])], Lower(range, ranges[idx]))

LEMMA SplitApart ==
  ASSUME Inv, idx \in 1 .. Len(ranges), ranges[idx].start < range.start, range.end < ranges[idx].end
  PROVE  /\ Upper(range, ranges[idx]) \in Ranges /\ Lower(range, ranges[idx]) \in Ranges
         /\ SaturatingInc(range.end) = range.end + 1 /\ SaturatingDec(range.start) = range.start - 1
         /\ InsideCut \in Seq(Ranges) /\ Len(InsideCut) = Len(ranges) + 1
         /\ \A j \in 1 .. Len(ranges) : InsideCut[j] = IF j = idx THEN Upper(range, ranges[idx]) ELSE ranges[j]
         /\ InsideCut[Len(ranges) + 1] = Lower(range, ranges[idx])
         /\ \A i, j \in 1 .. Len(ranges) + 1 : i # j => Separate(InsideCut[i], InsideCut[j])
<1> DEFINE entry == ranges[idx]
           upper == Upper(range, entry)
           lower == Lower(range, entry)
           cut == [ranges EXCEPT ![idx] = upper]
<1>1. /\ entry \in Ranges /\ entry = [start |-> entry.start, end |-> entry.end] /\ range \in Ranges
      /\ {entry.start, entry.end, range.start, range.end} \subseteq 0 .. U64Max /\ range.start <= range.end
  BY Shape DEF Addr
<1>2. SaturatingInc(range.end) = range.end + 1 /\ upper \in Ranges
  BY <1>1, RangeSetAssumption DEF Upper, SaturatingInc, Smaller, Ranges, Addr
<1>3. SaturatingDec(range.start) = range.start - 1 /\ lower \in Ranges
  BY <1>1, RangeSetAssumption DEF Lower, SaturatingDec, Larger, Ranges, Addr
<1>4. /\ entry.start <= upper.start /\ upper.end <= entry.end
      /\ entry.start <= lower.start /\ lower.end <= entry.end
  BY <1>1 DEF Upper, Lower
<1>5. /\ cut \in Seq(Ranges) /\ Len(cut) = Len(ranges)
      /\ \A j \in 1 .. Len(ranges) : cut[j] = IF j = idx THEN upper ELSE ranges[j]
  BY <1>2, Shape, ExceptSeq
<1>6. Separate(lower, upper) /\ Separate(upper, lower)
  BY <1>1, <1>2, <1>3, PartsSeparate DEF Separate
<1>7. InsideCut = Append(cut, lower)
  BY DEF InsideCut
<1> HIDE DEF cut, upper, lower
<1>8. /\ InsideCut \in Seq(Ranges) /\ Len(InsideCut) = Len(ranges) + 1
      /\ \A j \in 1 .. Len(ranges) : InsideCut[j] = IF j = idx THEN upper ELSE ranges[j]
      /\ InsideCut[Len(ranges) + 1] = lower
  BY <1>3, <1>5, <1>7, AppendProperties
<1>9. ASSUME NEW i \in 1 .. Len(ranges), NEW j \in 1 .. Len(ranges), i # j
      PROVE  Separate(InsideCut[i], InsideCut[j])
  <2>1. Separate(ranges[i], ranges[j]) /\ ranges[i] \in Ranges /\ ranges[j] \in Ranges
        /\ Separate(ranges[j], ranges[i])
    BY <1>9, Shape DEF Inv, Apart
  <2> QED
    BY <1>2, <1>4, <1>8, <1>9, <2>1, PartsSeparate
<1>10. ASSUME NEW i \in 1 .. Len(ranges)
       PROVE  Separate(InsideCut[i], lower) /\ Separate(lower, InsideCut[i])
  <2>1. CASE i = idx
    BY <1>6, <1>8, <2>1
  <2>2. CASE i # idx
    <3>1. Separate(entry, ranges[i]) /\ ranges[i] \in Ranges
      BY <2>2, Shape DEF Inv, Apart
    <3> QED
      BY <1>1, <1>3, <1>4, <1>8, <2>2, <3>1, PartsSeparate
  <2> QED
    BY <2>1, <2>2
<1>11. \A k \in 1 .. Len(ranges) + 1 : k \in 1 .. Len(ranges) \/ k = Len(ranges) + 1
  BY Shape
<1>12. \A i, j \in 1 .. Len(ranges) + 1 : i # j => Separate(InsideCut[i], InsideCut[j])
  BY <1>8, <1>9, <1>10, <1>11
<1> QED
  BY <1>2, <1>3, <1>8, <1>12 DEF upper, lower

LEMMA SplitArray ==
  ASSUME Inv, remove_split
  PROVE  ranges' = InsideCut
<1>1. idx \in 1 .. Len(ranges) /\ range.start > ranges[idx].start /\ range.end < ranges[idx].end
  BY Shape DEF remove_split, InsideEntry, PartlyOverlapped, Scanning
<1>2. ranges' = Append([ranges EXCEPT ![idx].start = range.end + 1], [start |-> ranges[idx].start, end |-> range.start - 1])
  BY <1>1, SplitApart, Shape DEF remove_split
<1>3. [ranges[idx] EXCEPT !.start = range.end + 1] = Upper(range, ranges[idx])
  <2>1. ranges[idx] = [start |-> ranges[idx].start, end |-> ranges[idx].end]
    BY <1>1, Shape
  <2> QED
    BY <2>1 DEF Upper
<1>4. [ranges EXCEPT ![idx].start = range.end + 1]
      = [ranges EXCEPT ![idx] = [ranges[idx] EXCEPT !.start = range.end + 1]]
  OBVIOUS
<1> QED
  BY <1>2, <1>3, <1>4 DEF InsideCut, Lower

(* The array with the range added that touches none of its entries. *)
LEMMA AddedApart ==
  ASSUME Inv, op = "insert", idx > Len(ranges)
  PROVE  /\ Append(ranges, range) \in Seq(Ranges) /\ Len(Append(ranges, range)) = Len(ranges) + 1
         /\ \A i \in 1 .. Len(ranges) : Append(ranges, range)[i] = ranges[i]
         /\ Append(ranges, range)[Len(ranges) + 1] = range
         /\ \A i, j \in 1 .. Len(ranges) + 1 : i # j => Separate(Append(ranges, range)[i], Append(ranges, range)[j])
<1> DEFINE more == Append(ranges, range)
<1>1. /\ more \in Seq(Ranges) /\ Len(more) = Len(ranges) + 1
      /\ \A i \in 1 .. Len(ranges) : more[i] = ranges[i]
      /\ more[Len(ranges) + 1] = range
  BY Shape, AppendProperties
<1>2. \A i \in 1 .. Len(ranges) : Separate(ranges[i], range) /\ Separate(range, ranges[i])
  BY Shape, Touching DEF Inv, Checked, Entries, Separate
<1>3. \A i, j \in 1 .. Len(ranges) : i # j => Separate(ranges[i], ranges[j])
  BY Shape DEF Inv, Apart
<1>4. \A k \in 1 .. Len(ranges) + 1 : k \in 1 .. Len(ranges) \/ k = Len(ranges) + 1
  BY Shape
<1> HIDE DEF more
<1>5. \A i, j \in 1 .. Len(ranges) + 1 : i # j => Separate(more[i], more[j])
  BY <1>1, <1>2, <1>3, <1>4
<1> QED
  BY <1>1, <1>5 DEF more

-----------------------------------------------------------------------------
(* The union of two ranges that touch. *)
Merged(a, b) == [start |-> Smaller(a.start, b.start), end |-> Larger(a.end, b.end)]

LEMMA InsertKeepsInv == ASSUME Inv, InsertStep PROVE Inv'
<1> USE DEF callVars, Scanning, Scanned
<1>1. CASE insert_skip
  <2>1. op = "insert" /\ ~out_of_space /\ idx <= Len(ranges) /\ ~touches(range, ranges[idx])
        /\ idx' = idx + 1 /\ UNCHANGED <<ranges, range, op, asked, request, best, granted, out_of_space>>
    BY <1>1 DEF insert_skip, Advance
  <2>2. Checked'
    BY <2>1, Shape DEF Inv, Checked, Entries
  <2>3. Apart'
    BY <2>1 DEF Inv, Apart, Entries
  <2> QED
    BY <2>1, <2>2, <2>3, Shape, GoingOn
<1>2. CASE insert_merge
  <2>1. op = "insert" /\ ~out_of_space /\ idx \in 1 .. Len(ranges) /\ range' = Merged(range, ranges[idx])
        /\ ranges' = delete_entry(idx) /\ idx' = 1 /\ UNCHANGED <<op, asked, request, best, granted, out_of_space>>
    BY <1>2, Shape DEF insert_merge, Restart, Merged
  <2>2. range' \in Ranges
    BY <2>1, Shape DEF Merged, Smaller, Larger, Ranges
  <2>3. Checked'
    BY <2>1, DeletedApart DEF Checked, Entries
  <2> QED
    BY <2>1, <2>2, <2>3, DeletedApart, GoingOn
<1>3. CASE insert_add
  <2>1. op = "insert" /\ ~out_of_space /\ idx > Len(ranges) /\ Len(ranges) < Capacity
        /\ ranges' = Append(ranges, range) /\ Finish /\ granted' = granted
    BY <1>3 DEF insert_add
  <2>2. /\ ranges' \in Seq(Ranges) /\ Len(ranges') = Len(ranges) + 1 /\ DOMAIN ranges' = 1 .. Len(ranges) + 1
        /\ \A i, j \in 1 .. Len(ranges) + 1 : i # j => Separate(ranges'[i], ranges'[j])
    BY <2>1, AddedApart, Shape
  <2>3. Apart' /\ Len(ranges') <= Capacity
    BY <2>1, <2>2, Shape DEF Apart, Entries
  <2> QED
    BY <2>1, <2>2, <2>3, Returning
<1>4. CASE insert_overflow
  BY <1>4, Shape DEF insert_overflow, Overflow, Inv, Types, TypeOK, Apart, Entries, Checked, BestSoFar, Stopped, NotBeatenBy, Padding, Fits, Candidate, AllocationEnd
<1> QED
  BY <1>1, <1>2, <1>3, <1>4 DEF InsertStep

-----------------------------------------------------------------------------
(* What remove_front and remove_back leave of the entry. *)
LEMMA PartlyCut ==
  ASSUME Inv, remove_front \/ remove_back
  PROVE  \E r \in Ranges : /\ ranges' = [ranges EXCEPT ![idx] = r]
                           /\ ranges[idx].start <= r.start /\ r.end <= ranges[idx].end
                           /\ ~overlaps(range, r)
                           /\ Interval(r) \ Interval(range) = Interval(ranges[idx]) \ Interval(range)
<1> DEFINE entry == ranges[idx]
<1>1. /\ ranges \in Seq(Ranges) /\ idx \in 1 .. Len(ranges)
      /\ entry \in Ranges /\ entry = [start |-> entry.start, end |-> entry.end]
      /\ entry.start \in Nat /\ entry.end \in Nat /\ range \in Ranges
      /\ range.start \in Nat /\ range.end \in Nat /\ range.start <= range.end
  BY Shape DEF remove_front, remove_back, PartlyOverlapped, Scanning, Addr
<1>2. CASE remove_front
  <2>1. overlaps(range, entry) /\ ~contains(range, entry) /\ range.start <= entry.start
        /\ ranges' = [ranges EXCEPT ![idx].start = SaturatingInc(range.end)]
    BY <1>2 DEF remove_front, PartlyOverlapped
  <2>2. ranges' = [ranges EXCEPT ![idx] = Upper(range, entry)]
    <3>1. ranges' = [ranges EXCEPT ![idx].start = range.end + 1]
      BY <1>1, <2>1, CutFront
    <3>2. [ranges[idx] EXCEPT !.start = range.end + 1] = Upper(range, entry)
      BY <1>1 DEF Upper
    <3>3. [ranges EXCEPT ![idx].start = range.end + 1]
          = [ranges EXCEPT ![idx] = [ranges[idx] EXCEPT !.start = range.end + 1]]
      OBVIOUS
    <3> QED
      BY <3>1, <3>2, <3>3
  <2>3. Upper(range, entry) \in Ranges /\ ~overlaps(range, Upper(range, entry))
        /\ entry.start <= Upper(range, entry).start /\ Upper(range, entry).end <= entry.end
    BY <1>1, <2>1, CutFront
  <2>4. Interval(Upper(range, entry)) \ Interval(range) = Interval(entry) \ Interval(range)
    <3>1. Upper(range, entry).start = range.end + 1 /\ Upper(range, entry).end = entry.end
      BY DEF Upper
    <3> QED
      BY <1>1, <2>1, <3>1 DEF Interval, overlaps
  <2> QED
    BY <2>2, <2>3, <2>4
<1>3. CASE remove_back
  <2>1. overlaps(range, entry) /\ range.start > entry.start /\ range.end >= entry.end
        /\ ranges' = [ranges EXCEPT ![idx].end = SaturatingDec(range.start)]
    BY <1>3 DEF remove_back, PartlyOverlapped
  <2>2. ranges' = [ranges EXCEPT ![idx] = Lower(range, entry)]
    <3>1. ranges' = [ranges EXCEPT ![idx].end = range.start - 1]
      BY <1>1, <2>1, CutBack
    <3>2. [ranges[idx] EXCEPT !.end = range.start - 1] = Lower(range, entry)
      BY <1>1 DEF Lower
    <3>3. [ranges EXCEPT ![idx].end = range.start - 1]
          = [ranges EXCEPT ![idx] = [ranges[idx] EXCEPT !.end = range.start - 1]]
      OBVIOUS
    <3> QED
      BY <3>1, <3>2, <3>3
  <2>3. Lower(range, entry) \in Ranges /\ ~overlaps(range, Lower(range, entry))
        /\ entry.start <= Lower(range, entry).start /\ Lower(range, entry).end <= entry.end
    BY <1>1, <2>1, CutBack
  <2>4. Interval(Lower(range, entry)) \ Interval(range) = Interval(entry) \ Interval(range)
    <3>1. Lower(range, entry).start = entry.start /\ Lower(range, entry).end = range.start - 1
      BY DEF Lower
    <3> QED
      BY <1>1, <2>1, <3>1 DEF Interval, overlaps
  <2> QED
    BY <2>2, <2>3, <2>4
<1> QED
  BY <1>2, <1>3

LEMMA RemoveKeepsInv == ASSUME Inv, RemoveStep PROVE Inv'
<1> USE DEF callVars, Scanning, Scanned
<1>1. CASE remove_skip
  <2>1. op = "remove" /\ ~out_of_space /\ idx <= Len(ranges) /\ ~overlaps(range, ranges[idx])
        /\ idx' = idx + 1 /\ UNCHANGED <<ranges, range, op, asked, request, best, granted, out_of_space>>
    BY <1>1 DEF remove_skip, Advance
  <2>2. Checked'
    BY <2>1, Shape DEF Inv, Checked, Entries
  <2>3. Apart'
    BY <2>1 DEF Inv, Apart, Entries
  <2> QED
    BY <2>1, <2>2, <2>3, Shape, GoingOn
<1>2. CASE remove_delete
  <2>1. op = "remove" /\ ~out_of_space /\ idx \in 1 .. Len(ranges) /\ range' = range
        /\ ranges' = delete_entry(idx) /\ idx' = 1 /\ UNCHANGED <<op, asked, request, best, granted, out_of_space>>
    BY <1>2, Shape DEF remove_delete, Restart
  <2>2. Checked'
    BY <2>1, DeletedApart DEF Checked, Entries
  <2> QED
    BY <2>1, <2>2, DeletedApart, GoingOn, Shape
<1>3. CASE remove_front \/ remove_back
  <2> DEFINE entry == ranges[idx]
  <2>1. PICK r \in Ranges : /\ ranges' = [ranges EXCEPT ![idx] = r]
                           /\ entry.start <= r.start /\ r.end <= entry.end
                           /\ ~overlaps(range, r)
    BY <1>3, PartlyCut
  <2>2. op = "remove" /\ ~out_of_space /\ idx \in 1 .. Len(ranges)
        /\ idx' = idx + 1 /\ UNCHANGED <<range, op, asked, request, best, granted, out_of_space>>
    BY <1>3, Shape DEF remove_front, remove_back, PartlyOverlapped, Advance
  <2>3. /\ ranges' \in Seq(Ranges) /\ Len(ranges') = Len(ranges) /\ DOMAIN ranges' = 1 .. Len(ranges)
        /\ \A j \in 1 .. Len(ranges) : ranges'[j] = IF j = idx THEN r ELSE ranges[j]
    BY <2>1, <2>2, Shape, ExceptSeq
  <2>4. Apart'
    <3> SUFFICES ASSUME NEW i \in 1 .. Len(ranges), NEW j \in 1 .. Len(ranges), i # j
                 PROVE  Separate(ranges'[i], ranges'[j])
      BY <2>3 DEF Apart, Entries
    <3>1. Separate(ranges[i], ranges[j]) /\ ranges[i] \in Ranges /\ ranges[j] \in Ranges
          /\ Separate(ranges[j], ranges[i])
      BY Shape DEF Inv, Apart
    <3> QED
      BY <2>1, <2>3, <3>1, PartsSeparate
  <2>5. Checked'
    BY <2>1, <2>2, <2>3, Shape DEF Inv, Checked, Entries
  <2> QED
    BY <2>2, <2>3, <2>4, <2>5, Shape, GoingOn
<1>4. CASE remove_split
  <2>1. op = "remove" /\ ~out_of_space /\ idx \in 1 .. Len(ranges) /\ Len(ranges) < Capacity
        /\ idx' = 1 /\ UNCHANGED <<range, op, asked, request, best, granted, out_of_space>>
        /\ ranges[idx].start < range.start /\ range.end < ranges[idx].end
    BY <1>4, Shape DEF remove_split, InsideEntry, PartlyOverlapped, Restart
  <2>2. ranges' = InsideCut
    BY <1>4, <2>1, SplitArray
  <2>3. /\ ranges' \in Seq(Ranges) /\ Len(ranges') = Len(ranges) + 1 /\ DOMAIN ranges' = 1 .. Len(ranges) + 1
        /\ \A i, j \in 1 .. Len(ranges) + 1 : i # j => Separate(ranges'[i], ranges'[j])
    BY <2>1, <2>2, SplitApart, Shape
  <2>4. Apart' /\ Checked'
    BY <2>1, <2>3 DEF Apart, Checked, Entries
  <2>5. Len(ranges) + 1 <= Capacity /\ 1 \in 1 .. (Len(ranges) + 2)
    BY <2>1, Shape
  <2> QED
    BY <2>1, <2>3, <2>4, <2>5, Shape, GoingOn
<1>5. CASE remove_overflow
  <2>1. op = "remove" /\ idx <= Len(ranges) /\ Len(ranges) = Capacity /\ out_of_space' = TRUE
        /\ range.start > ranges[idx].start /\ range.end < ranges[idx].end
        /\ UNCHANGED <<ranges, op, idx, asked, range, request, best, granted>>
    BY <1>5 DEF remove_overflow, InsideEntry, PartlyOverlapped, Overflow
  <2>2. Types' /\ Apart' /\ Checked'
    BY <2>1 DEF Inv, Types, TypeOK, Apart, Entries, Checked
  <2> QED
    BY <2>1, <2>2, Shape DEF Inv, BestSoFar, Stopped
<1>6. CASE remove_done
  <2>1. Apart'
    BY <1>6 DEF remove_done, Inv, Apart, Entries
  <2> QED
    BY <1>6, <2>1, Shape, Returning DEF remove_done
<1> QED
  BY <1>1, <1>2, <1>3, <1>4, <1>5, <1>6 DEF RemoveStep

-----------------------------------------------------------------------------
(* The numbers an allocation compares. *)
LEMMA Numbers ==
  ASSUME Inv, op = "allocate", NEW r \in Ranges
  PROVE  /\ request.size \in 1 .. U64Max /\ request.align \in 1 .. U64Max /\ request.max \in Addr
         /\ r.start \in Addr /\ r.end \in Addr
         /\ Padding(r) \in Nat /\ Padding(r) < request.align /\ (r.start + Padding(r)) % request.align = 0
         /\ WrappedSize(r) \in Addr
         /\ AllocationEnd(r) \in Nat /\ r.start + Padding(r) <= AllocationEnd(r)
         /\ AllocationEnd(r) = (r.start + Padding(r)) + (request.size - 1)
         /\ Fits(r) => AllocationEnd(r) \in Addr
         /\ best.padding \in Addr /\ best.size \in Addr /\ best.found \in BOOLEAN
<1>1. request \in [size : Addr, align : Addr, max : Addr] /\ request.size > 0 /\ request.align > 0
      /\ best \in [padding : Addr, start : Addr, end : Addr, size : Addr, found : BOOLEAN]
  BY DEF Inv, Types, TypeOK, BestSoFar
<1>2. r.start \in Addr /\ r.end \in Addr /\ r.start <= r.end
  BY DEF Ranges
<1>3. U64Max \in Nat \ {0} /\ Addr = 0 .. U64Max
  BY RangeSetAssumption DEF Addr
<1>4. Padding(r) \in Nat /\ Padding(r) < request.align /\ (r.start + Padding(r)) % request.align = 0
  <2>1. request.align \in Nat \ {0} /\ r.start \in Nat
    BY <1>1, <1>2, <1>3
  <2> QED
    BY <2>1, Aligned DEF Padding
<1>5. WrappedSize(r) \in Addr
  <2>1. (r.end - r.start + 1) \in Nat /\ U64Max + 1 \in Nat \ {0}
    BY <1>2, <1>3
  <2>2. (r.end - r.start + 1) % (U64Max + 1) \in 0 .. (U64Max + 1) - 1
    BY <2>1, Quotient
  <2> QED
    BY <1>3, <2>2 DEF WrappedSize
<1>6. AllocationEnd(r) = (r.start + Padding(r)) + (request.size - 1)
  BY <1>1, <1>2, <1>3, <1>4 DEF AllocationEnd
<1>7. AllocationEnd(r) \in Nat /\ r.start + Padding(r) <= AllocationEnd(r)
  <2>1. r.start \in Nat /\ request.align \in Nat /\ request.size - 1 \in Nat
    BY <1>1, <1>2, <1>3
  <2>2. Padding(r) \in Nat
    BY <1>4, <2>1
  <2> QED
    BY <1>6, <2>1, <2>2
<1>8. Fits(r) => AllocationEnd(r) \in Addr
  BY <1>2, <1>3, <1>7 DEF Fits
<1>9. request.size \in 1 .. U64Max /\ request.align \in 1 .. U64Max /\ request.max \in Addr
      /\ best.padding \in Addr /\ best.size \in Addr /\ best.found \in BOOLEAN
  BY <1>1, <1>3
<1> QED
  BY <1>2, <1>4, <1>5, <1>6, <1>7, <1>8, <1>9

LEMMA AllocateKeepsInv == ASSUME Inv, AllocateStep PROVE Inv'
<1> USE DEF callVars, Scanning, Scanned
<1>1. CASE allocate_abort
  BY <1>1, Shape, Returning DEF allocate_abort, Inv, Apart, Entries
<1>2. CASE allocate_none
  BY <1>2, Shape, Returning DEF allocate_none, Inv, Apart, Entries
<1>3. CASE allocate_skip
  <2>1. op = "allocate" /\ idx \in 1 .. Len(ranges) /\ ~out_of_space /\ idx' = idx + 1
        /\ UNCHANGED <<ranges, op, asked, range, request, best, granted, out_of_space>>
        /\ ~(Fits(ranges[idx]) /\ Replaces(Candidate(ranges[idx])))
    BY <1>3, Shape DEF allocate_skip, Advance
  <2>2. Fits(ranges[idx]) => best.found /\ NotBeatenBy(ranges[idx])
    <3>1. /\ Candidate(ranges[idx]).padding = Padding(ranges[idx])
          /\ Candidate(ranges[idx]).size = WrappedSize(ranges[idx])
      BY DEF Candidate
    <3>2. /\ Padding(ranges[idx]) \in Nat /\ WrappedSize(ranges[idx]) \in Nat
          /\ best.padding \in Nat /\ best.size \in Nat /\ best.found \in BOOLEAN
      <4>1. ranges[idx] \in Ranges /\ Addr \subseteq Nat
        BY <2>1, Shape
      <4>2. /\ Padding(ranges[idx]) \in Nat /\ WrappedSize(ranges[idx]) \in Addr
            /\ best.padding \in Addr /\ best.size \in Addr /\ best.found \in BOOLEAN
        BY <2>1, <4>1, Numbers
      <4> QED
        BY <4>1, <4>2
    <3> QED
      BY <2>1, <3>1, <3>2 DEF Replaces, NotBeatenBy
  <2>3. \A j \in Entries : j < idx' /\ Fits(ranges[j]) => best.found /\ NotBeatenBy(ranges[j])
    BY <2>1, <2>2, Shape DEF Inv, BestSoFar
  <2>4. BestSoFar'
    BY <2>1, <2>3 DEF Inv, BestSoFar, Entries, Fits, AllocationEnd, Padding, Candidate, NotBeatenBy, WrappedSize
  <2>5. Types'
    <3>1. idx' \in 1 .. Capacity + 1 /\ idx' <= Len(ranges) + 1
      BY <2>1, Shape
    <3> QED
      BY <2>1, <3>1 DEF Inv, Types, TypeOK
  <2> QED
    BY <2>1, <2>4, <2>5 DEF Inv, Apart, Entries, Checked, Stopped
<1>4. CASE allocate_replace
  <2> DEFINE entry == ranges[idx]
  <2>1. op = "allocate" /\ idx \in 1 .. Len(ranges) /\ ~out_of_space /\ idx' = idx + 1
        /\ UNCHANGED <<ranges, op, asked, range, request, granted, out_of_space>>
        /\ Fits(entry) /\ Replaces(Candidate(entry)) /\ best' = Candidate(entry)
    BY <1>4, Shape DEF allocate_replace
  <2>2. entry \in Ranges /\ entry.start \in Addr /\ U64Max \in Nat /\ Addr = 0 .. U64Max
    BY <2>1, Shape DEF Addr
  <2>3. Candidate(entry) \in [padding : Addr, start : Addr, end : Addr, size : Addr, found : BOOLEAN]
    <3>1. Padding(entry) \in Addr /\ AllocationEnd(entry) \in Addr /\ WrappedSize(entry) \in Addr
      <4>1. /\ Padding(entry) \in Nat /\ Padding(entry) < request.align /\ request.align \in 1 .. U64Max
            /\ AllocationEnd(entry) \in Addr /\ WrappedSize(entry) \in Addr
        BY <2>1, <2>2, Numbers
      <4> QED
        BY <2>2, <4>1
    <3> QED
      BY <2>2, <3>1 DEF Candidate
  <2>4. ASSUME NEW j \in Entries, j < idx', Fits(ranges[j])
        PROVE  \/ Padding(entry) < Padding(ranges[j])
               \/ Padding(entry) = Padding(ranges[j]) /\ WrappedSize(entry) <= WrappedSize(ranges[j])
    <3>1. /\ Padding(ranges[j]) \in Nat /\ WrappedSize(ranges[j]) \in Nat
          /\ Padding(entry) \in Nat /\ WrappedSize(entry) \in Nat
          /\ best.padding \in Nat /\ best.size \in Nat
      <4>1. ranges[j] \in Ranges /\ Addr \subseteq Nat
        BY <2>4, Shape
      <4> QED
        BY <2>1, <2>2, <4>1, Numbers
    <3>2. CASE j = idx
      BY <3>1, <3>2
    <3>3. CASE j # idx
      <4>1. best.found /\ NotBeatenBy(ranges[j])
        BY <2>1, <2>4, <3>3, Shape DEF Inv, BestSoFar
      <4>2. \/ Padding(entry) < best.padding
            \/ Padding(entry) = best.padding /\ WrappedSize(entry) < best.size
        BY <2>1, <4>1 DEF Replaces, Candidate
      <4> QED
        BY <3>1, <4>1, <4>2 DEF NotBeatenBy
    <3> QED
      BY <3>2, <3>3
  <2>5. best'.found /\ best'.padding = Padding(entry) /\ best'.size = WrappedSize(entry)
    BY <2>1 DEF Candidate
  <2>6. BestSoFar'
    <3>1. request.size > 0 /\ request.align > 0
      BY <2>1 DEF Inv, BestSoFar
    <3>2. \E j \in Entries : Fits(ranges[j]) /\ best' = Candidate(ranges[j])
      BY <2>1, Shape
    <3>3. \A j \in Entries : j < idx' /\ Fits(ranges[j]) =>
            \/ best'.padding < Padding(ranges[j])
            \/ best'.padding = Padding(ranges[j]) /\ best'.size <= WrappedSize(ranges[j])
      BY <2>4, <2>5
    <3> QED
      BY <2>1, <2>5, <3>1, <3>2, <3>3
      DEF BestSoFar, Entries, Fits, AllocationEnd, Padding, Candidate, NotBeatenBy, WrappedSize
  <2>7. Types'
    <3>1. idx' \in 1 .. Capacity + 1 /\ idx' <= Len(ranges) + 1
      BY <2>1, Shape
    <3> QED
      BY <2>1, <2>3, <3>1 DEF Inv, Types, TypeOK
  <2> QED
    BY <2>1, <2>6, <2>7 DEF Inv, Apart, Entries, Checked, Stopped
<1>5. CASE allocate_take
  <2>1. op = "allocate" /\ best.found /\ ~out_of_space /\ op' = "remove" /\ idx' = 1
        /\ range' = [start |-> IF best.padding >= PadLimit THEN best.start + best.padding ELSE best.start,
                     end |-> best.end]
        /\ granted' = [start |-> best.start + best.padding, size |-> request.size]
        /\ request' = NoRequest /\ best' = NoCandidate /\ UNCHANGED <<ranges, asked, out_of_space>>
    BY <1>5 DEF allocate_take
  <2>2. PICK j \in Entries : Fits(ranges[j]) /\ best = Candidate(ranges[j])
    BY <2>1 DEF Inv, BestSoFar
  <2> DEFINE entry == ranges[j]
  <2>3. entry \in Ranges /\ best.padding = Padding(entry) /\ best.start = entry.start /\ best.end = AllocationEnd(entry)
    BY <2>2, Shape DEF Candidate
  <2>4. /\ entry.start \in Addr /\ Padding(entry) \in Nat /\ AllocationEnd(entry) \in Addr
        /\ entry.start + Padding(entry) <= AllocationEnd(entry) /\ request.size \in Addr
        /\ PadLimit \in Nat /\ Addr = 0 .. U64Max /\ U64Max \in Nat
    BY <2>1, <2>2, <2>3, Numbers, RangeSetAssumption DEF Addr
  <2>5. range' \in Ranges
    BY <2>1, <2>3, <2>4 DEF Ranges
  <2>6. granted' \in [start : Addr, size : Addr]
    BY <2>1, <2>3, <2>4
  <2>7. NoRequest \in [size : Addr, align : Addr, max : Addr]
    BY RangeSetAssumption DEF NoRequest, Addr
  <2>8. NoCandidate \in [padding : Addr, start : Addr, end : Addr, size : Addr, found : BOOLEAN]
    BY RangeSetAssumption DEF NoCandidate, Addr
  <2>9. Types'
    <3>1. idx' \in 1 .. Capacity + 1 /\ idx' <= Len(ranges) + 1
      BY <2>1, Shape
    <3> QED
      BY <2>1, <2>5, <2>6, <2>7, <2>8, <3>1 DEF Inv, Types, TypeOK
  <2> QED
    BY <2>1, <2>9, Shape DEF Inv, Apart, Entries, Checked, BestSoFar, Stopped
<1> QED
  BY <1>1, <1>2, <1>3, <1>4, <1>5 DEF AllocateStep

LEMMA InvStep == Inv /\ [Next]_vars => Inv'
<1> SUFFICES ASSUME Inv, [Next]_vars PROVE Inv'
  OBVIOUS
<1>1. CASE UNCHANGED vars
  BY <1>1 DEF vars, Inv, Types, TypeOK, Apart, Entries, Checked, BestSoFar, Stopped, touches, overlaps, Widened,
     NotBeatenBy, Padding, Fits, Candidate, AllocationEnd, WrappedSize
<1>2. CASE Next
  BY <1>2, CallKeepsInv, InsertKeepsInv, RemoveKeepsInv, AllocateKeepsInv DEF Next, LoopStep
<1> QED
  BY <1>1, <1>2

-----------------------------------------------------------------------------
(* No two entries overlap or touch, whatever the callers insert, remove or allocate, and  *)
(* at every iteration of the loops (libs/rangeset/src/lib.rs: insert, remove).             *)
THEOREM EntriesStayApart == Spec => []EntriesApart
<1>1. Inv => EntriesApart
  BY DEF Inv, Types, Apart, Entries, Separate, EntriesApart
<1> QED
  BY <1>1, InvInit, InvStep, PTL DEF Spec

-----------------------------------------------------------------------------
(* What the outcome of allocate_limited says of the entries.                *)
LEMMA Outcome ==
  ASSUME Inv, Next, op = "allocate", op' # "allocate"
  PROVE  \/ allocate_abort
         \/ allocate_none
         \/ allocate_take
  BY DEF Next, Call, insert, remove, allocate_invalid, allocate_limited, clear, LoopStep, InsertStep, RemoveStep,
     AllocateStep, insert_skip, insert_merge, insert_add, insert_overflow, remove_skip, remove_delete, remove_front,
     remove_back, remove_split, remove_overflow, remove_done, allocate_skip, allocate_replace, PartlyOverlapped,
     InsideEntry, Scanning, Scanned, Advance

(* The block is carved out of an entry with the least padding, and of those out of a       *)
(* smallest (allocate_limited, "best" of lib.rs).                                          *)
THEOREM BestFitHolds == Spec => BestFit
<1> DEFINE A == op = "allocate" /\ op' = "remove" =>
       \A i \in FittingEntries :
         \/ best.padding < Padding(ranges[i])
         \/ best.padding = Padding(ranges[i]) /\ best.size <= WrappedSize(ranges[i])
<1>1. Inv /\ [Next]_vars => [A]_vars
  <2> SUFFICES ASSUME Inv, Next, op = "allocate", op' = "remove", NEW i \in FittingEntries
               PROVE  NotBeatenBy(ranges[i])
    BY DEF NotBeatenBy
  <2>1. allocate_take
    BY Outcome DEF allocate_abort, allocate_none, Finish
  <2>2. i \in Entries /\ i < idx /\ Fits(ranges[i])
    BY <2>1, Shape DEF allocate_take, Scanned, FittingEntries, Entries
  <2> QED
    BY <2>2 DEF Inv, BestSoFar
<1> QED
  BY <1>1, InvInit, InvStep, PTL DEF Spec, BestFit

(* None is returned only if no entry fits, or if the end of the block would overflow in    *)
(* one (checked_add(..)? in allocate_limited).                                              *)
THEOREM RefusalHolds == Spec => RefusalIsJustified
<1> DEFINE A == op = "allocate" /\ op' = "idle" =>
       \/ FittingEntries = {}
       \/ \E i \in DOMAIN ranges : AllocationEnd(ranges[i]) > U64Max
<1>1. Inv /\ [Next]_vars => [A]_vars
  <2> SUFFICES ASSUME Inv, Next, op = "allocate", op' = "idle"
               PROVE  \/ FittingEntries = {}
                      \/ \E i \in DOMAIN ranges : AllocationEnd(ranges[i]) > U64Max
    OBVIOUS
  <2>1. CASE allocate_abort
    BY <2>1, Shape DEF allocate_abort, Scanning, Entries
  <2>2. CASE allocate_none
    <3>1. \A i \in Entries : i < idx /\ ~best.found
      BY <2>2, Shape DEF allocate_none, Scanned
    <3> QED
      BY <3>1 DEF Inv, BestSoFar, FittingEntries, Entries
  <2> QED
    BY <2>1, <2>2, Outcome DEF allocate_take
<1> QED
  BY <1>1, InvInit, InvStep, PTL DEF Spec, RefusalIsJustified

-----------------------------------------------------------------------------
(* The addresses of an array, and its runs.                                 *)
CoveredBy(s) == UNION {Interval(s[i]) : i \in DOMAIN s}

RunStarts(S) == {a \in S : a - 1 \notin S}

(* Separate entries are separate runs. *)
LEMMA SeparateRuns ==
  ASSUME NEW n \in Nat, NEW s \in Seq(Ranges), Len(s) = n,
         \A i, j \in 1 .. n : i # j => Separate(s[i], s[j])
  PROVE  Cardinality(RunStarts(CoveredBy(s))) \in Nat /\ Cardinality(RunStarts(CoveredBy(s))) >= n
<1> DEFINE S == RunStarts(CoveredBy(s))
           f == [i \in 1 .. n |-> s[i].start]
<1>1. /\ DOMAIN s = 1 .. n
      /\ \A i \in 1 .. n : s[i].start \in Nat /\ s[i].end \in Nat /\ s[i].start <= s[i].end /\ s[i].end <= U64Max
  BY RangeSetAssumption DEF Ranges, Addr
<1>2. \A a : a \in CoveredBy(s) <=> \E i \in 1 .. n : a \in s[i].start .. s[i].end
  BY <1>1 DEF CoveredBy, Interval
<1>3. IsFiniteSet(S)
  <2>1. S \in SUBSET (0 .. U64Max)
    BY <1>1, <1>2, RangeSetAssumption DEF RunStarts
  <2>2. IsFiniteSet(0 .. U64Max)
    BY FS_Interval, RangeSetAssumption
  <2> HIDE DEF S
  <2> QED
    BY <2>1, <2>2, FS_Subset
<1>4. \A i \in 1 .. n : s[i].start \in S
  <2> SUFFICES ASSUME NEW i \in 1 .. n PROVE s[i].start \in S
    OBVIOUS
  <2>1. s[i].start \in CoveredBy(s)
    BY <1>1, <1>2
  <2>2. ASSUME NEW j \in 1 .. n, s[i].start - 1 \in s[j].start .. s[j].end PROVE FALSE
    BY <1>1, <2>2 DEF Separate
  <2> QED
    BY <1>2, <2>1, <2>2 DEF RunStarts
<1>5. f \in Injection(1 .. n, S)
  <2>1. \A i, j \in 1 .. n : i # j => s[i].start # s[j].start
    BY <1>1 DEF Separate
  <2> HIDE DEF S
  <2> QED
    BY <1>4, <2>1 DEF Injection, IsInjective
<1>6. Cardinality(1 .. n) <= Cardinality(S) /\ Cardinality(S) \in Nat
  BY <1>3, <1>5, FS_Injection, FS_CardinalityType
<1>7. Cardinality(1 .. n) = n
  BY FS_Interval
<1> QED
  BY <1>6, <1>7

(* The addresses an array covers change with one of its entries. *)
LEMMA CoveredAdded ==
  ASSUME Inv, op = "insert", idx > Len(ranges)
  PROVE  CoveredBy(Append(ranges, range)) = Covered \cup Interval(range)
<1>1. /\ DOMAIN Append(ranges, range) = 1 .. Len(ranges) + 1 /\ DOMAIN ranges = 1 .. Len(ranges)
      /\ \A i \in 1 .. Len(ranges) : Append(ranges, range)[i] = ranges[i]
      /\ Append(ranges, range)[Len(ranges) + 1] = range
      /\ Len(ranges) \in Nat
  BY AddedApart, Shape
<1> DEFINE more == Append(ranges, range)
<1> HIDE DEF more
<1>2. \A k \in 1 .. Len(ranges) + 1 : k \in 1 .. Len(ranges) \/ k = Len(ranges) + 1
  BY <1>1
<1>3. \A a : (\E k \in 1 .. Len(ranges) + 1 : a \in Interval(more[k]))
              <=> (\E k \in 1 .. Len(ranges) : a \in Interval(ranges[k])) \/ a \in Interval(range)
  BY <1>1, <1>2 DEF more
<1> QED
  BY <1>1, <1>3 DEF CoveredBy, Covered, more

LEMMA InCovered ==
  ASSUME Inv
  PROVE  \A a : a \in Covered <=> \E k \in 1 .. Len(ranges) : a \in Interval(ranges[k])
BY Shape DEF Covered

LEMMA CoveredDeleted ==
  ASSUME Inv, NEW i \in 1 .. Len(ranges)
  PROVE  CoveredBy(delete_entry(i)) \cup Interval(ranges[i]) = Covered
<1> DEFINE d == delete_entry(i)
<1>1. /\ DOMAIN d = 1 .. Len(ranges) - 1 /\ Len(ranges) \in Nat
      /\ \A j \in 1 .. Len(ranges) - 1 : d[j] = IF j < i THEN ranges[j] ELSE ranges[j + 1]
  BY Deleted, Shape
<1> HIDE DEF d
<1>2. ASSUME NEW k \in 1 .. Len(ranges), k # i
      PROVE  \E j \in 1 .. Len(ranges) - 1 : d[j] = ranges[k]
  <2>1. CASE k < i
    BY <1>1, <2>1
  <2>2. CASE k > i
    <3>1. k - 1 \in 1 .. Len(ranges) - 1 /\ ~(k - 1 < i) /\ (k - 1) + 1 = k
      BY <1>1, <2>2
    <3>2. d[k - 1] = ranges[k]
      BY <1>1, <3>1
    <3> QED
      BY <3>1, <3>2
  <2> QED
    BY <1>2, <2>1, <2>2
<1>3. ASSUME NEW j \in 1 .. Len(ranges) - 1
      PROVE  \E k \in 1 .. Len(ranges) : d[j] = ranges[k]
  <2>1. j \in 1 .. Len(ranges) /\ j + 1 \in 1 .. Len(ranges)
    BY <1>1
  <2> QED
    BY <1>1, <2>1
<1>4. \A a : a \in CoveredBy(d) <=> \E j \in 1 .. Len(ranges) - 1 : a \in Interval(d[j])
  BY <1>1 DEF CoveredBy
<1>5. \A a : a \in CoveredBy(d) \/ a \in Interval(ranges[i]) <=> a \in Covered
  BY <1>2, <1>3, <1>4, InCovered
<1> QED
  BY <1>5 DEF d

(* Of separate entries only one holds an address. *)
LEMMA OneEntry ==
  ASSUME Inv, NEW i \in 1 .. Len(ranges), NEW j \in 1 .. Len(ranges), i # j,
         NEW a \in Interval(ranges[i])
  PROVE  a \notin Interval(ranges[j])
<1>1. Separate(ranges[i], ranges[j])
  BY Shape DEF Inv, Apart
<1>2. {ranges[i].start, ranges[i].end, ranges[j].start, ranges[j].end} \subseteq Nat
  BY Shape
<1> QED
  BY <1>1, <1>2 DEF Separate, Interval

LEMMA IntervalsMerged ==
  ASSUME NEW a \in Ranges, NEW b \in Ranges, touches(a, b)
  PROVE  Interval(Merged(a, b)) = Interval(a) \cup Interval(b)
<1>1. ~Separate(a, b)
  BY Touching
<1>2. a.start \in Nat /\ a.end \in Nat /\ b.start \in Nat /\ b.end \in Nat /\ a.start <= a.end /\ b.start <= b.end
  BY RangeSetAssumption DEF Ranges, Addr
<1>3. Merged(a, b).start = Smaller(a.start, b.start) /\ Merged(a, b).end = Larger(a.end, b.end)
  BY DEF Merged
<1> QED
  BY <1>1, <1>2, <1>3 DEF Separate, Interval, Smaller, Larger

(* An array with one entry cut to what is outside of range. *)
LEMMA CoveredCut ==
  ASSUME Inv, idx \in 1 .. Len(ranges), NEW r \in Ranges,
         Interval(r) \ Interval(range) = Interval(ranges[idx]) \ Interval(range)
  PROVE  CoveredBy([ranges EXCEPT ![idx] = r]) \ Interval(range) = Covered \ Interval(range)
<1> DEFINE cut == [ranges EXCEPT ![idx] = r]
<1>1. /\ DOMAIN cut = 1 .. Len(ranges)
      /\ \A j \in 1 .. Len(ranges) : cut[j] = IF j = idx THEN r ELSE ranges[j]
  BY Shape, ExceptSeq
<1> HIDE DEF cut
<1>2. \A a : a \in CoveredBy(cut) <=> \E j \in 1 .. Len(ranges) : a \in Interval(cut[j])
  BY <1>1 DEF CoveredBy
<1>3. \A a : a \notin Interval(range) => (a \in Interval(r) <=> a \in Interval(ranges[idx]))
  OBVIOUS
<1>4. \A a : a \notin Interval(range) => (a \in CoveredBy(cut) <=> a \in Covered)
  BY <1>1, <1>2, <1>3, InCovered
<1> QED
  BY <1>4 DEF cut

LEMMA CoveredSplit ==
  ASSUME Inv, idx \in 1 .. Len(ranges), ranges[idx].start < range.start, range.end < ranges[idx].end
  PROVE  CoveredBy(InsideCut) = Covered \ Interval(range)
<1> DEFINE upper == Upper(range, ranges[idx])
           lower == Lower(range, ranges[idx])
<1>1. /\ DOMAIN InsideCut = 1 .. Len(ranges) + 1 /\ Len(ranges) \in Nat
      /\ \A j \in 1 .. Len(ranges) : InsideCut[j] = IF j = idx THEN upper ELSE ranges[j]
      /\ InsideCut[Len(ranges) + 1] = lower
  BY SplitApart, Shape
<1>2. \A k \in 1 .. Len(ranges) + 1 : k \in 1 .. Len(ranges) \/ k = Len(ranges) + 1
  BY <1>1
<1>3. 1 .. Len(ranges) \subseteq 1 .. Len(ranges) + 1 /\ Len(ranges) + 1 \in 1 .. Len(ranges) + 1
  BY <1>1
<1>4. \A a : a \in CoveredBy(InsideCut) <=> \E k \in 1 .. Len(ranges) + 1 : a \in Interval(InsideCut[k])
  BY <1>1 DEF CoveredBy
<1>5. Interval(upper) \cup Interval(lower) = Interval(ranges[idx]) \ Interval(range)
  <2>1. {ranges[idx].start, ranges[idx].end, range.start, range.end} \subseteq Nat /\ range.start <= range.end
    BY Shape
  <2>2. upper.start = range.end + 1 /\ upper.end = ranges[idx].end
        /\ lower.start = ranges[idx].start /\ lower.end = range.start - 1
    BY DEF Upper, Lower
  <2> HIDE DEF upper, lower
  <2> QED
    BY <2>1, <2>2 DEF Interval
<1>6. Interval(range) \subseteq Interval(ranges[idx])
  <2>1. {ranges[idx].start, ranges[idx].end, range.start, range.end} \subseteq Nat
    BY Shape
  <2> QED
    BY <2>1 DEF Interval
<1>7. \A j \in 1 .. Len(ranges) : j # idx => \A a \in Interval(ranges[j]) : a \notin Interval(range)
  BY <1>6, OneEntry
<1> HIDE DEF upper, lower
<1>8. \A a : (\E k \in 1 .. Len(ranges) + 1 : a \in Interval(InsideCut[k]))
              <=> \/ a \in Interval(upper) \/ a \in Interval(lower)
                  \/ \E k \in 1 .. Len(ranges) : k # idx /\ a \in Interval(ranges[k])
  BY <1>1, <1>2, <1>3
<1>9. \A a : a \in CoveredBy(InsideCut) <=> a \in Covered /\ a \notin Interval(range)
  BY <1>4, <1>5, <1>7, <1>8, InCovered
<1> QED
  BY <1>9

-----------------------------------------------------------------------------
(* The assertion of add_entry fails only when the set asked for has more separate runs     *)
(* of addresses than the array has entries: no call runs out of room for a set that fits,   *)
(* in whatever order its ranges came.                                                       *)
THEOREM OverflowJustified == Spec => []OverflowOnlyWhenFull
<1>1. ASSUME Inv, out_of_space PROVE Cardinality(RunStarts(FreeAddresses)) > Capacity
  <2>1. Len(ranges) = Capacity /\ Capacity + 1 \in Nat
    BY <1>1, RangeSetAssumption DEF Inv, Stopped
  <2>2. CASE op = "insert" /\ idx > Len(ranges)
    <3>1. FreeAddresses = CoveredBy(Append(ranges, range))
      BY <1>1, <2>2, CoveredAdded DEF FreeAddresses
    <3>2. Cardinality(RunStarts(FreeAddresses)) \in Nat /\ Cardinality(RunStarts(FreeAddresses)) >= Capacity + 1
      BY <1>1, <2>1, <2>2, <3>1, AddedApart, SeparateRuns
    <3> QED
      BY <3>2, RangeSetAssumption
  <2>3. CASE /\ op = "remove" /\ idx <= Len(ranges)
             /\ ranges[idx].start < range.start /\ range.end < ranges[idx].end
    <3>1. idx \in 1 .. Len(ranges)
      BY <1>1, <2>3, Shape
    <3>2. FreeAddresses = CoveredBy(InsideCut)
      BY <1>1, <2>3, <3>1, CoveredSplit DEF FreeAddresses
    <3>3. Cardinality(RunStarts(FreeAddresses)) \in Nat /\ Cardinality(RunStarts(FreeAddresses)) >= Capacity + 1
      BY <1>1, <2>1, <2>3, <3>1, <3>2, SplitApart, SeparateRuns
    <3> QED
      BY <3>3, RangeSetAssumption
  <2> QED
    BY <1>1, <2>2, <2>3 DEF Inv, Stopped
<1>2. Inv => OverflowOnlyWhenFull
  BY <1>1 DEF OverflowOnlyWhenFull, RunStarts
<1> QED
  BY <1>2, InvInit, InvStep, PTL DEF Spec

-----------------------------------------------------------------------------
(* What a call in progress knows of the arguments it was made with.         *)
Asking ==
  /\ op = "idle" => asked = NoCall
  /\ op # "idle" => asked.call # "none"
  /\ op = "allocate" =>
       /\ asked.call = "allocate"
       /\ request = [size |-> asked.size, align |-> asked.align, max |-> Smaller(asked.max, UsizeMax)]
       /\ granted = NoBlock

(* The steps of a loop ask for nothing new. *)
LEMMA AskingGoesOn ==
  ASSUME Inv, Asking, LoopStep
  PROVE  Asking'
<1> USE DEF Asking, callVars, Scanning, Scanned
<1>1. ASSUME Finish PROVE Asking'
  BY <1>1 DEF Finish
<1>2. CASE insert_skip \/ insert_merge \/ insert_overflow
  BY <1>2 DEF insert_skip, insert_merge, insert_overflow, Advance, Restart, Overflow
<1>3. CASE remove_skip \/ remove_delete \/ remove_front \/ remove_back \/ remove_split \/ remove_overflow
  BY <1>3 DEF remove_skip, remove_delete, remove_front, remove_back, remove_split, remove_overflow,
     InsideEntry, PartlyOverlapped, Advance, Restart, Overflow
<1>4. CASE allocate_skip \/ allocate_replace
  BY <1>4 DEF allocate_skip, allocate_replace, Advance
<1>5. CASE allocate_take
  BY <1>5 DEF allocate_take
<1>6. CASE insert_add \/ remove_done \/ allocate_abort \/ allocate_none
  BY <1>1, <1>6 DEF insert_add, remove_done, allocate_abort, allocate_none
<1> QED
  BY <1>2, <1>3, <1>4, <1>5, <1>6 DEF LoopStep, InsertStep, RemoveStep, AllocateStep

LEMMA AskingStep == Inv /\ Asking /\ [Next]_vars => Asking'
<1> SUFFICES ASSUME Inv, Asking, [Next]_vars PROVE Asking'
  OBVIOUS
<1> USE DEF Asking, callVars
<1>1. ASSUME NEW r \in Ranges, insert(r) \/ remove(r) PROVE Asking'
  BY <1>1 DEF insert, remove
<1>2. ASSUME NEW size \in Sizes, NEW align \in Aligns, allocate_invalid(size, align) PROVE Asking'
  BY <1>2 DEF allocate_invalid
<1>3. ASSUME NEW size \in Sizes, NEW align \in Aligns, NEW max \in Limits, allocate_limited(size, align, max)
      PROVE  Asking'
  <2>1. /\ asked' = [call |-> "allocate", size |-> size, align |-> align, max |-> max]
        /\ request' = [size |-> size, align |-> align, max |-> Smaller(max, UsizeMax)]
        /\ op' = "allocate" /\ granted' = NoBlock
    BY <1>3 DEF allocate_limited
  <2>2. asked'.call = "allocate" /\ asked'.size = size /\ asked'.align = align /\ asked'.max = max
    BY <2>1
  <2> QED
    BY <2>1, <2>2 DEF Smaller
<1>4. CASE clear
  BY <1>4 DEF clear
<1>5. CASE UNCHANGED vars
  BY <1>5 DEF vars, Smaller
<1> QED
  BY <1>1, <1>2, <1>3, <1>4, <1>5, AskingGoesOn DEF Next, Call

-----------------------------------------------------------------------------
(* The steps of a call change the array, and not the set it leads to.       *)
LEMMA FreeSame ==
  ASSUME Inv, UNCHANGED <<ranges, op, range>>
  PROVE  FreeAddresses' = FreeAddresses
  BY DEF FreeAddresses, Covered, Interval

(* A step of the call stutters, or is the call's return. *)
Abiding == FreeAddresses' = FreeAddresses /\ granted' = granted /\ asked' \in {asked, NoCall}

LEMMA InsertStutters ==
  ASSUME Inv, InsertStep
  PROVE  Abiding
<1> USE DEF callVars, Scanning, Scanned, Abiding
<1>1. CASE insert_skip \/ insert_overflow
  BY <1>1, FreeSame DEF insert_skip, insert_overflow, Advance, Overflow
<1>2. CASE insert_merge
  <2>1. op = "insert" /\ op' = "insert" /\ idx \in 1 .. Len(ranges) /\ range' = Merged(range, ranges[idx])
        /\ ranges' = delete_entry(idx) /\ granted' = granted /\ asked' = asked /\ touches(range, ranges[idx])
    BY <1>2, Shape DEF insert_merge, Restart, Merged
  <2>2. Interval(range') = Interval(range) \cup Interval(ranges[idx])
    BY <2>1, Shape, IntervalsMerged
  <2>3. Covered' = CoveredBy(delete_entry(idx))
    BY <2>1 DEF Covered, CoveredBy, Interval
  <2>4. CoveredBy(delete_entry(idx)) \cup Interval(ranges[idx]) = Covered
    BY <2>1, CoveredDeleted
  <2>5. FreeAddresses = Covered \cup Interval(range)
    BY <2>1 DEF FreeAddresses
  <2>6. FreeAddresses' = Covered' \cup Interval(range')
    BY <2>1 DEF FreeAddresses, Interval
  <2> QED
    BY <2>1, <2>2, <2>3, <2>4, <2>5, <2>6
<1>3. CASE insert_add
  <2>1. op = "insert" /\ op' = "idle" /\ idx > Len(ranges) /\ ranges' = Append(ranges, range) /\ granted' = granted
        /\ asked' = NoCall
    BY <1>3 DEF insert_add, Finish
  <2>2. Covered' = CoveredBy(Append(ranges, range))
    BY <2>1 DEF Covered, CoveredBy, Interval
  <2>3. FreeAddresses = Covered \cup Interval(range) /\ FreeAddresses' = Covered'
    BY <2>1 DEF FreeAddresses
  <2> QED
    BY <2>1, <2>2, <2>3, CoveredAdded
<1> QED
  BY <1>1, <1>2, <1>3 DEF InsertStep

LEMMA RemoveStutters ==
  ASSUME Inv, RemoveStep
  PROVE  Abiding
<1> USE DEF callVars, Scanning, Scanned, Abiding
<1>1. CASE remove_skip \/ remove_overflow
  BY <1>1, FreeSame DEF remove_skip, remove_overflow, InsideEntry, PartlyOverlapped, Advance, Overflow
<1>2. ASSUME op = "remove", op' = "remove", range' = range,
             Covered' \ Interval(range) = Covered \ Interval(range)
      PROVE  FreeAddresses' = FreeAddresses
  <2>1. Interval(range') = Interval(range)
    BY <1>2
  <2>2. FreeAddresses' = Covered' \ Interval(range')
    BY <1>2 DEF FreeAddresses, Interval
  <2> QED
    BY <1>2, <2>1, <2>2 DEF FreeAddresses
<1>3. CASE remove_delete
  <2>1. op = "remove" /\ op' = "remove" /\ range' = range /\ idx \in 1 .. Len(ranges)
        /\ ranges' = delete_entry(idx) /\ granted' = granted /\ asked' = asked /\ contains(range, ranges[idx])
    BY <1>3, Shape DEF remove_delete, Restart
  <2>2. Covered' = CoveredBy(delete_entry(idx))
    BY <2>1 DEF Covered, CoveredBy, Interval
  <2>3. CoveredBy(delete_entry(idx)) \cup Interval(ranges[idx]) = Covered
    BY <2>1, CoveredDeleted
  <2>4. Interval(ranges[idx]) \subseteq Interval(range)
    <3>1. {ranges[idx].start, ranges[idx].end, range.start, range.end} \subseteq Nat
      BY <2>1, Shape
    <3> QED
      BY <2>1, <3>1 DEF Interval, contains
  <2> QED
    BY <1>2, <2>1, <2>2, <2>3, <2>4
<1>4. CASE remove_front \/ remove_back
  <2>1. op = "remove" /\ op' = "remove" /\ range' = range /\ idx \in 1 .. Len(ranges) /\ granted' = granted
        /\ asked' = asked
    BY <1>4, Shape DEF remove_front, remove_back, PartlyOverlapped, Advance
  <2>2. PICK r \in Ranges : /\ ranges' = [ranges EXCEPT ![idx] = r]
                           /\ Interval(r) \ Interval(range) = Interval(ranges[idx]) \ Interval(range)
    BY <1>4, PartlyCut
  <2>3. Covered' = CoveredBy([ranges EXCEPT ![idx] = r])
    BY <2>2 DEF Covered, CoveredBy, Interval
  <2> QED
    BY <1>2, <2>1, <2>2, <2>3, CoveredCut
<1>5. CASE remove_split
  <2>1. op = "remove" /\ op' = "remove" /\ range' = range /\ idx \in 1 .. Len(ranges) /\ granted' = granted
        /\ asked' = asked
        /\ ranges[idx].start < range.start /\ range.end < ranges[idx].end
    BY <1>5, Shape DEF remove_split, InsideEntry, PartlyOverlapped, Restart
  <2>2. ranges' = InsideCut
    BY <1>5, SplitArray
  <2>3. Covered' = CoveredBy(InsideCut)
    BY <2>2 DEF Covered, CoveredBy, Interval
  <2> QED
    BY <1>2, <2>1, <2>3, CoveredSplit
<1>6. CASE remove_done
  <2>1. op = "remove" /\ op' = "idle" /\ idx > Len(ranges) /\ UNCHANGED <<ranges, granted>>
        /\ asked' = NoCall
    BY <1>6 DEF remove_done, Finish
  <2>2. \A j \in 1 .. Len(ranges) : ~overlaps(range, ranges[j])
    BY <2>1, Shape DEF Inv, Checked
  <2>3. \A j \in 1 .. Len(ranges), a \in Interval(range) : a \notin Interval(ranges[j])
    <3> SUFFICES ASSUME NEW j \in 1 .. Len(ranges), NEW a \in Interval(range) PROVE a \notin Interval(ranges[j])
      OBVIOUS
    <3>1. {ranges[j].start, ranges[j].end, range.start, range.end} \subseteq Nat
      BY Shape
    <3> QED
      BY <2>2, <3>1 DEF Interval, overlaps
  <2>4. Covered \ Interval(range) = Covered
    BY <2>3, InCovered
  <2>5. Covered' = Covered
    BY <2>1 DEF Covered, Interval
  <2>6. FreeAddresses' = Covered' /\ FreeAddresses = Covered \ Interval(range)
    BY <2>1 DEF FreeAddresses
  <2> QED
    BY <2>1, <2>4, <2>5, <2>6
<1> QED
  BY <1>1, <1>3, <1>4, <1>5, <1>6 DEF RemoveStep

LEMMA StutterOrReturn ==
  ASSUME Abiding
  PROVE  [Abstract!Next]_<<asked, FreeAddresses, granted>>
<1>1. CASE asked' = asked
  BY <1>1 DEF Abiding
<1>2. CASE asked' # asked
  <2>1. Abstract!Return
    BY <1>2 DEF Abiding, Abstract!Return, Abstract!NoCall, NoCall
  <2> QED
    BY <2>1 DEF Abstract!Next
<1> QED
  BY <1>1, <1>2

LEMMA CallIsAbstract ==
  ASSUME Inv, Asking, Call
  PROVE  [Abstract!Next]_<<asked, FreeAddresses, granted>>
<1> USE DEF callVars
<1>0. op = "idle" => asked = NoCall
  BY DEF Asking
<1>1. ASSUME NEW r \in Ranges, insert(r) \/ remove(r)
      PROVE  Abstract!Next
  <2>1. r.start \in Addr /\ r.end \in Addr
    BY DEF Ranges
  <2>2. FreeAddresses = Covered /\ Covered' = Covered /\ granted' = NoBlock /\ asked = NoCall
    BY <1>0, <1>1 DEF insert, remove, FreeAddresses, Covered, Interval
  <2>3. CASE insert(r)
    <3>1. op' = "insert" /\ range' = r /\ asked' = [call |-> "insert", start |-> r.start, end |-> r.end]
      BY <2>3 DEF insert
    <3>2. FreeAddresses' = Covered' \cup Interval(r)
      BY <3>1 DEF FreeAddresses, Interval
    <3>3. Abstract!Insert(r.start, r.end)
      BY <2>2, <3>1, <3>2 DEF Abstract!Insert, Abstract!NoBlock, NoBlock, Abstract!NoCall, NoCall, Interval
    <3> QED
      BY <2>1, <3>3 DEF Abstract!Next
  <2>4. CASE remove(r)
    <3>1. op' = "remove" /\ range' = r /\ asked' = [call |-> "remove", start |-> r.start, end |-> r.end]
      BY <2>4 DEF remove
    <3>2. FreeAddresses' = Covered' \ Interval(r)
      BY <3>1 DEF FreeAddresses, Interval
    <3>3. Abstract!Remove(r.start, r.end)
      BY <2>2, <3>1, <3>2 DEF Abstract!Remove, Abstract!NoBlock, NoBlock, Abstract!NoCall, NoCall, Interval
    <3> QED
      BY <2>1, <3>3 DEF Abstract!Next
  <2> QED
    BY <1>1, <2>3, <2>4
<1>2. ASSUME NEW size \in Sizes, NEW align \in Aligns, allocate_invalid(size, align)
      PROVE  Abstract!Next
  <2>1. granted' = NoBlock /\ UNCHANGED <<ranges, op, range, asked>> /\ asked = NoCall
    BY <1>0, <1>2 DEF allocate_invalid
  <2>2. FreeAddresses' = FreeAddresses
    BY <2>1, FreeSame
  <2>3. Abstract!Refuse
    BY <2>1, <2>2 DEF Abstract!Refuse, Abstract!NoBlock, NoBlock, Abstract!NoCall, NoCall
  <2> QED
    BY <2>3 DEF Abstract!Next
<1>3. ASSUME NEW size \in Sizes, NEW align \in Aligns, NEW max \in Limits, allocate_limited(size, align, max)
      PROVE  Abstract!Next
  <2>1. /\ op = "idle" /\ op' = "allocate" /\ ranges' = ranges /\ granted' = NoBlock /\ asked = NoCall
        /\ asked' = [call |-> "allocate", size |-> size, align |-> align, max |-> max]
        /\ size > 0 /\ align > 0
    BY <1>0, <1>3 DEF allocate_limited, IsPowerOfTwo
  <2>2. FreeAddresses' = FreeAddresses
    BY <2>1 DEF FreeAddresses, Covered, Interval
  <2>3. Abstract!Ask(size, align, max)
    BY <2>1, <2>2 DEF Abstract!Ask, Abstract!NoBlock, NoBlock, Abstract!NoCall, NoCall
  <2>4. size \in Addr \ {0} /\ align \in Addr \ {0} /\ max \in Addr
    BY <2>1, RangeSetAssumption DEF Addr
  <2> QED
    BY <2>3, <2>4 DEF Abstract!Next
<1>4. CASE clear
  <2>1. ranges' = <<>> /\ op' = "idle" /\ granted' = NoBlock /\ asked = NoCall /\ asked' = asked
    BY <1>0, <1>4 DEF clear
  <2>2. FreeAddresses' = {}
    BY <2>1 DEF FreeAddresses, Covered
  <2>3. Abstract!Clear
    BY <2>1, <2>2 DEF Abstract!Clear, Abstract!NoBlock, NoBlock, Abstract!NoCall, NoCall
  <2> QED
    BY <2>3 DEF Abstract!Next
<1> QED
  BY <1>1, <1>2, <1>3, <1>4 DEF Call

(* The block that is granted, with the padding that leaves the set with it. *)
LEMMA TakeIsGrant == ASSUME Inv, Asking, allocate_take PROVE Abstract!Next
<1> DEFINE start == best.start + best.padding
           pad == IF best.padding >= PadLimit THEN 0 ELSE best.padding
<1>1. op = "allocate" /\ best.found /\ op' = "remove"
      /\ range' = [start |-> IF best.padding >= PadLimit THEN start ELSE best.start, end |-> best.end]
      /\ granted' = [start |-> start, size |-> request.size] /\ ranges' = ranges /\ asked' = asked
  BY DEF allocate_take, Scanned
<1>2. PICK j \in 1 .. Len(ranges) : Fits(ranges[j]) /\ best = Candidate(ranges[j])
  BY <1>1, Shape DEF Inv, BestSoFar
<1>3. ranges[j] \in Ranges /\ best.padding = Padding(ranges[j]) /\ best.start = ranges[j].start
      /\ best.end = AllocationEnd(ranges[j])
  BY <1>2, Shape DEF Candidate
<1>4. /\ best.start \in Nat /\ ranges[j].end \in Nat /\ best.padding \in Nat /\ PadLimit \in Nat \ {0}
      /\ best.end \in Addr /\ start <= best.end /\ start % request.align = 0
      /\ best.end = start + (request.size - 1)
      /\ request.size \in 1 .. U64Max /\ request.align \in 1 .. U64Max /\ request.max \in Addr
      /\ Addr = 0 .. U64Max /\ U64Max \in Nat
  BY <1>1, <1>2, <1>3, Numbers, RangeSetAssumption DEF Addr
<1>5. best.end <= ranges[j].end /\ best.end <= request.max
  BY <1>2, <1>3 DEF Fits
<1>6. /\ start \in Addr /\ request.size \in Addr \ {0} /\ request.align \in Addr \ {0}
      /\ best.end = start + request.size - 1
  <2>1. start \in Nat /\ start <= best.end
    BY <1>4
  <2> HIDE DEF start
  <2> QED
    BY <1>4, <2>1
<1>7. /\ pad \in 0 .. PadLimit - 1 /\ start - pad \in Nat /\ best.start <= start - pad
      /\ range'.start = start - pad /\ range'.end = start + request.size - 1
  <2>1. range'.start = IF best.padding >= PadLimit THEN start ELSE best.start
    BY <1>1
  <2>2. range'.end = best.end
    BY <1>1
  <2>3. CASE best.padding >= PadLimit
    <3>1. pad = 0 /\ range'.start = start
      BY <2>1, <2>3
    <3>2. 0 \in 0 .. PadLimit - 1
      BY <1>4
    <3>3. start - 0 = start /\ start \in Nat /\ best.start <= start
      BY <1>4
    <3> QED
      BY <1>6, <2>2, <3>1, <3>2, <3>3
  <2>4. CASE best.padding < PadLimit
    <3>1. pad = best.padding /\ range'.start = best.start
      BY <1>4, <2>1, <2>4
    <3>2. best.padding \in 0 .. PadLimit - 1
      BY <1>4, <2>4
    <3>3. start - best.padding = best.start
      BY <1>4
    <3> QED
      BY <1>4, <1>6, <2>2, <3>1, <3>2, <3>3
  <2> QED
    BY <1>4, <2>3, <2>4
<1>8. FreeAddresses = Covered /\ FreeAddresses' = Covered \ ((start - pad) .. (start + request.size - 1))
  <2>1. Covered' = Covered
    BY <1>1 DEF Covered, Interval
  <2>2. Interval(range') = (start - pad) .. (start + request.size - 1)
    BY <1>7 DEF Interval
  <2>3. FreeAddresses' = Covered' \ Interval(range')
    BY <1>1 DEF FreeAddresses, Interval
  <2> QED
    BY <1>1, <2>1, <2>2, <2>3 DEF FreeAddresses
<1>9. (start - pad) .. (start + request.size - 1) \subseteq Covered
  <2> HIDE DEF start, pad
  <2>1. (start - pad) .. best.end \subseteq Interval(ranges[j])
    <3>1. best.end \in Nat
      BY <1>4
    <3> QED
      BY <1>3, <1>4, <1>5, <1>7, <3>1 DEF Interval
  <2> QED
    BY <1>6, <2>1, InCovered
<1> HIDE DEF start, pad
<1>10. /\ asked.call = "allocate" /\ granted = NoBlock /\ asked.size = request.size
       /\ asked.align = request.align /\ request.max <= asked.max /\ request.max <= UsizeMax
  <2>1. asked.call = "allocate" /\ granted = NoBlock
        /\ request = [size |-> asked.size, align |-> asked.align, max |-> Smaller(asked.max, UsizeMax)]
    BY <1>1 DEF Asking
  <2>2. asked \in Calls
    BY DEF Inv, Types, TypeOK
  <2>3. asked.max \in Addr
    BY <2>1, <2>2 DEF Calls, NoCall
  <2>4. asked.max \in Nat /\ UsizeMax \in Nat /\ request.max = Smaller(asked.max, UsizeMax)
    BY <1>4, <2>1, <2>3, RangeSetAssumption DEF Addr
  <2>5. request.max <= asked.max /\ request.max <= UsizeMax
    BY <2>4 DEF Smaller
  <2> QED
    BY <2>1, <2>5
<1>11. Abstract!Grant(start, pad)
  <2>1. pad < PadLimit /\ start % asked.align = 0
    BY <1>4, <1>7, <1>10
  <2>2. start + asked.size - 1 <= asked.max /\ start + asked.size - 1 <= UsizeMax
    <3>1. start + asked.size - 1 = best.end
      BY <1>6, <1>10
    <3>2. /\ best.end \in Nat /\ request.max \in Nat /\ asked.max \in Nat /\ UsizeMax \in Nat
      <4>1. asked.max \in Addr
        BY <1>10 DEF Inv, Types, TypeOK, Calls, NoCall
      <4> QED
        BY <1>4, <4>1, RangeSetAssumption DEF Addr
    <3> QED
      BY <1>5, <1>10, <3>1, <3>2
  <2> QED
    BY <1>1, <1>8, <1>9, <1>10, <2>1, <2>2 DEF Abstract!Grant, Abstract!NoBlock, NoBlock
<1> QED
  BY <1>6, <1>7, <1>11 DEF Abstract!Next

LEMMA AllocateIsAbstract ==
  ASSUME Inv, Asking, AllocateStep
  PROVE  [Abstract!Next]_<<asked, FreeAddresses, granted>>
<1> USE DEF callVars, Scanning, Scanned
<1>1. CASE allocate_skip \/ allocate_replace
  BY <1>1, FreeSame DEF allocate_skip, allocate_replace, Advance
<1>2. CASE allocate_abort \/ allocate_none
  <2>1. op = "allocate" /\ op' = "idle" /\ ranges' = ranges /\ granted' = NoBlock /\ asked' = NoCall
    BY <1>2 DEF allocate_abort, allocate_none, Finish
  <2>2. FreeAddresses' = FreeAddresses
    BY <2>1 DEF FreeAddresses, Covered, Interval
  <2>3. granted' = granted
    BY <2>1 DEF Asking
  <2> QED
    BY <2>1, <2>2, <2>3, StutterOrReturn DEF Abiding
<1>3. CASE allocate_take
  BY <1>3, TakeIsGrant
<1> QED
  BY <1>1, <1>2, <1>3 DEF AllocateStep

(* insert, remove, clear and allocate_limited have the effect of the set operations they    *)
(* stand for on the arguments they were called with, for every set and every argument: a   *)
(* merge, a trim or a split loses no address and adds none, and the block of an allocation  *)
(* has the size and the alignment its caller asked for, ends at or below the caller's limit *)
(* and the processor's, and was free before. *)
THEOREM RangeSetIsFreeMemory == Spec => ImplementsFreeMemory
<1>1. Init => Abstract!Init /\ Asking
  <2>1. Init => FreeAddresses = {}
    BY DEF Init, FreeAddresses, Covered
  <2> QED
    BY <2>1 DEF Init, Asking, Abstract!Init, Abstract!NoBlock, NoBlock, Abstract!NoCall, NoCall
<1>2. Inv /\ Asking /\ [Next]_vars => [Abstract!Next]_<<asked, FreeAddresses, granted>>
  <2>1. CASE UNCHANGED vars
    BY <2>1 DEF vars, FreeAddresses, Covered, Interval
  <2>2. ASSUME Inv, Asking, Next PROVE [Abstract!Next]_<<asked, FreeAddresses, granted>>
    BY <2>2, CallIsAbstract, InsertStutters, RemoveStutters, StutterOrReturn, AllocateIsAbstract
    DEF Next, LoopStep
  <2> QED
    BY <2>1, <2>2
<1> QED
  BY <1>1, <1>2, InvInit, InvStep, AskingStep, PTL DEF Spec, ImplementsFreeMemory, Abstract!Spec
=============================================================================
