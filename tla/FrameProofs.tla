------------------------------ MODULE FrameProofs -----------------------------
(***************************************************************************)
(* The EarlyFrameAllocator, for every memory map without overlaps, every   *)
(* frame size and every sequence of grants, transactions and rollbacks.    *)
(***************************************************************************)
EXTENDS FrameAllocator, MinProofs, SequenceTheorems

(***************************************************************************)
(* Arithmetic of whole frames.                                             *)
(***************************************************************************)

Whole(address) == \E q \in Nat : address = q * FrameSize

\* align_up rounds up, to a whole number of frames.
LEMMA AlignUpFacts ==
    ASSUME NEW x \in Nat
    PROVE  AlignUp(x) \in Nat /\ AlignUp(x) >= x /\ Whole(AlignUp(x))
<1> DEFINE F == FrameSize
           q == (x + F - 1) \div F
           r == (x + F - 1) % F
<1>1. F \in Nat /\ F > 0
  BY FrameAssumption
<1>2. q \in Nat /\ r \in 0 .. F - 1
  BY <1>1
<1>3. x + F - 1 = F * q + r
  BY <1>1
<1>4. F * q = q * F /\ q * F \in Nat
  BY <1>1, <1>2
<1>5. q * F >= x
  <2> HIDE DEF q, r
  <2> QED BY <1>1, <1>2, <1>3, <1>4
<1>6. AlignUp(x) = q * F
  BY DEF AlignUp
<1> QED BY <1>2, <1>4, <1>5, <1>6 DEF Whole

LEMMA WholeSum ==
    ASSUME NEW x, Whole(x), NEW k \in Nat
    PROVE  Whole(x + k * FrameSize)
<1>1. PICK q \in Nat : x = q * FrameSize
  BY DEF Whole
<1>2. x + k * FrameSize = (q + k) * FrameSize
  BY <1>1, FrameAssumption
<1> QED BY <1>2 DEF Whole

\* A product with FrameSize grows with its other factor.
LEMMA Scaled ==
    ASSUME NEW a \in Int, NEW b \in Int, a <= b
    PROVE  a * FrameSize <= b * FrameSize
<1>1. FrameSize \in Nat /\ b - a \in Nat
  BY FrameAssumption
<1>2. (b - a) * FrameSize >= 0
  BY <1>1
<1>3. (b - a) * FrameSize = b * FrameSize - a * FrameSize
  BY <1>1
<1>4. a * FrameSize \in Int /\ b * FrameSize \in Int
  BY <1>1
<1> QED BY <1>2, <1>3, <1>4

(***************************************************************************)
(* What an allocator has still to give, and how a request moves it.        *)
(***************************************************************************)

\* The bytes of the current region from the cursor on, and of the regions ahead.
InCurrent(a, x) == a.next_address <= x /\ x < a.current_end
InRegion(region, x) == region.start <= x /\ x < region.end
Ahead(a) ==
    {x \in Nat : InCurrent(a, x) \/ \E i \in SelectableAhead(a) : InRegion(a.regions[i], x)}

\* The cursor is at a frame, and no byte is ahead of the allocator twice.
AllocatorOk(a) ==
    /\ a \in [regions : Seq(Region), current_end : Nat, next_address : Nat]
    /\ Whole(a.next_address)
    /\ \A i \in SelectableAhead(a), x \in Nat : InRegion(a.regions[i], x) => ~ InCurrent(a, x)
    /\ \A i, j \in SelectableAhead(a), x \in Nat :
        InRegion(a.regions[i], x) /\ InRegion(a.regions[j], x) => i = j

LEMMA RegionFacts ==
    ASSUME NEW region \in Region
    PROVE  region.start \in Nat /\ region.end \in Nat
BY FrameAssumption DEF Region, Address

\* Going on to a region ahead loses what lies before it, and nothing is gained.
LEMMA AtRegionFacts ==
    ASSUME NEW a, AllocatorOk(a), NEW i \in SelectableAhead(a)
    PROVE  LET here == AtRegion(a, i)
           IN  /\ AllocatorOk(here)
               /\ Ahead(here) \subseteq Ahead(a)
               /\ here.next_address < here.current_end
<1> DEFINE here == AtRegion(a, i)
           region == a.regions[i]
<1>1. /\ a.regions \in Seq(Region) /\ i \in 1 .. Len(a.regions) /\ Len(a.regions) \in Nat
      /\ region \in Region /\ Selectable(region)
  BY DEF AllocatorOk, SelectableAhead
<1>2. region.start \in Nat /\ region.end \in Nat
  BY <1>1, RegionFacts
<1>3. /\ here.next_address \in Nat /\ here.next_address >= region.start
      /\ Whole(here.next_address)
      /\ here.current_end = region.end /\ here.next_address < here.current_end
  BY <1>1, <1>2, AlignUpFacts DEF AtRegion, Selectable
<1>4. /\ here.regions \in Seq(Region)
      /\ Len(here.regions) = Len(a.regions) - i
      /\ \A k \in 1 .. Len(a.regions) - i : here.regions[k] = a.regions[i + k]
  <2>1. here.regions = SubSeq(a.regions, i + 1, Len(a.regions))
    BY DEF AtRegion
  <2>2. i + 1 \in Int /\ \A k \in i + 1 .. Len(a.regions) : a.regions[k] \in Region
    BY <1>1
  <2>3. /\ SubSeq(a.regions, i + 1, Len(a.regions)) \in Seq(Region)
        /\ Len(here.regions) = IF i + 1 <= Len(a.regions) THEN Len(a.regions) - (i + 1) + 1 ELSE 0
        /\ \A k \in 1 .. Len(a.regions) - (i + 1) + 1 : here.regions[k] = a.regions[i + 1 + k - 1]
    BY <1>1, <2>1, <2>2, SubSeqProperties
  <2> HIDE DEF here
  <2>4. Len(here.regions) = Len(a.regions) - i
    BY <1>1, <2>3
  <2>5. ASSUME NEW k \in 1 .. Len(a.regions) - i PROVE here.regions[k] = a.regions[i + k]
    <3>1. k \in 1 .. Len(a.regions) - (i + 1) + 1 /\ i + 1 + k - 1 = i + k
      BY <1>1
    <3>2. here.regions[k] = a.regions[i + 1 + k - 1]
      BY <2>3, <3>1
    <3> QED BY <3>1, <3>2
  <2>6. here.regions \in Seq(Region)
    BY <2>1, <2>3
  <2> QED BY <2>4, <2>5, <2>6
<1>5. ASSUME NEW k \in SelectableAhead(here)
      PROVE  i + k \in SelectableAhead(a) /\ i + k # i /\ here.regions[k] = a.regions[i + k] /\ k \in Nat
  <2>1. k \in 1 .. Len(a.regions) - i /\ Selectable(here.regions[k])
    BY <1>4 DEF SelectableAhead
  <2>2. i + k \in 1 .. Len(a.regions) /\ here.regions[k] = a.regions[i + k]
    BY <1>1, <1>4, <2>1
  <2> QED BY <1>1, <2>1, <2>2 DEF SelectableAhead
<1>6. ASSUME NEW x \in Nat, InCurrent(here, x) PROVE InRegion(region, x)
  BY <1>2, <1>3, <1>6 DEF InCurrent, InRegion
<1>7. here \in [regions : Seq(Region), current_end : Nat, next_address : Nat]
  BY <1>2, <1>3, <1>4 DEF AtRegion
<1>8. ASSUME NEW k \in SelectableAhead(here), NEW x \in Nat, InRegion(here.regions[k], x)
      PROVE  ~ InCurrent(here, x)
  BY <1>5, <1>6, <1>8 DEF AllocatorOk
<1>9. ASSUME NEW k \in SelectableAhead(here), NEW l \in SelectableAhead(here), NEW x \in Nat,
             InRegion(here.regions[k], x), InRegion(here.regions[l], x)
      PROVE  k = l
  <2>1. i + k = i + l
    BY <1>5, <1>9 DEF AllocatorOk
  <2> QED BY <1>1, <1>5, <2>1
<1>10. AllocatorOk(here)
  <2> HIDE DEF here
  <2> QED BY <1>3, <1>7, <1>8, <1>9 DEF AllocatorOk
<1>11. Ahead(here) \subseteq Ahead(a)
  <2> HIDE DEF here
  <2> QED BY <1>5, <1>6 DEF Ahead
<1> QED BY <1>3, <1>10, <1>11

\* Moving the cursor on gives up the bytes it passes, for good.
LEMMA AdvanceFacts ==
    ASSUME NEW here, AllocatorOk(here), NEW next \in Nat, Whole(next), here.next_address <= next
    PROVE  LET moved == [here EXCEPT !.next_address = next]
           IN  /\ AllocatorOk(moved)
               /\ Ahead(moved) \subseteq Ahead(here)
               /\ \A x \in Nat : InCurrent(here, x) /\ x < next => x \in Ahead(here) /\ x \notin Ahead(moved)
<1> DEFINE moved == [here EXCEPT !.next_address = next]
<1>1. here \in [regions : Seq(Region), current_end : Nat, next_address : Nat]
  BY DEF AllocatorOk
<1>2. /\ moved \in [regions : Seq(Region), current_end : Nat, next_address : Nat]
      /\ moved.regions = here.regions /\ moved.current_end = here.current_end
      /\ moved.next_address = next
      /\ here.next_address \in Nat /\ here.current_end \in Nat
  BY <1>1
<1>3. SelectableAhead(moved) = SelectableAhead(here)
  BY <1>2 DEF SelectableAhead
<1> HIDE DEF moved
<1>4. \A x \in Nat : InCurrent(moved, x) <=> InCurrent(here, x) /\ next <= x
  BY <1>2 DEF InCurrent
<1>5. AllocatorOk(moved)
  BY <1>2, <1>3, <1>4 DEF AllocatorOk
<1>6. Ahead(moved) \subseteq Ahead(here)
  BY <1>2, <1>3, <1>4 DEF Ahead
<1>7. ASSUME NEW x \in Nat, InCurrent(here, x), x < next
      PROVE  x \in Ahead(here) /\ x \notin Ahead(moved)
  <2>1. ~ InCurrent(moved, x)
    BY <1>4, <1>7
  <2>2. \A i \in SelectableAhead(moved) : ~ InRegion(moved.regions[i], x)
    BY <1>2, <1>3, <1>7 DEF AllocatorOk
  <2> QED BY <1>7, <2>1, <2>2 DEF Ahead
<1> QED BY <1>5, <1>6, <1>7 DEF moved

\* A place the allocator may serve a request from: the cursor stands in a region
\* whose bytes were all ahead of it.
Serves(a, here) ==
    /\ AllocatorOk(here)
    /\ Ahead(here) \subseteq Ahead(a)
    /\ here.next_address < here.current_end

LEMMA StationFacts ==
    ASSUME NEW a, AllocatorOk(a), NEW S \in SUBSET Stations(a), S # {}
    PROVE  Min(S) \in S /\ Serves(a, Station(a, Min(S)))
<1>1. /\ a.regions \in Seq(Region) /\ Len(a.regions) \in Nat
      /\ SelectableAhead(a) \subseteq 1 .. Len(a.regions)
  BY DEF AllocatorOk, SelectableAhead
<1>2. Stations(a) \subseteq 0 .. Len(a.regions)
  BY <1>1 DEF Stations
<1>3. S \in SUBSET Int /\ IsFiniteSet(S)
  <2>1. IsFiniteSet(0 .. Len(a.regions))
    BY <1>1, FS_Interval
  <2> QED BY <1>2, <2>1, FS_Subset
<1>4. Min(S) \in S
  BY <1>3, MinFacts
<1>5. CASE Min(S) = 0
  <2>1. Station(a, Min(S)) = a /\ a.next_address < a.current_end
    BY <1>1, <1>4, <1>5 DEF Station, Stations
  <2> QED BY <1>4, <2>1 DEF Serves
<1>6. CASE Min(S) # 0
  <2>1. Min(S) \in SelectableAhead(a) /\ Station(a, Min(S)) = AtRegion(a, Min(S))
    BY <1>4, <1>6 DEF Station, Stations
  <2> QED BY <1>4, <2>1, AtRegionFacts DEF Serves
<1> QED BY <1>5, <1>6

LEMMA ExhaustedFacts == AllocatorOk(Exhausted) /\ Ahead(Exhausted) = {}
<1>1. Exhausted = [regions |-> <<>>, current_end |-> 0, next_address |-> 0]
  BY DEF Exhausted, NewAllocator
<1>2. SelectableAhead(Exhausted) = {}
  BY <1>1 DEF SelectableAhead
<1>3. \A x \in Nat : ~ InCurrent(Exhausted, x)
  BY <1>1 DEF InCurrent
<1>4. Exhausted \in [regions : Seq(Region), current_end : Nat, next_address : Nat]
  BY <1>1
<1>5. Whole(0)
  BY FrameAssumption DEF Whole
<1> QED BY <1>1, <1>2, <1>3, <1>4, <1>5 DEF AllocatorOk, Ahead

\* A request takes frames that were ahead of the allocator, and leaves none of
\* them ahead of it.
Takes(a, after, frames) ==
    /\ AllocatorOk(after)
    /\ Ahead(after) \subseteq Ahead(a)
    /\ frames \subseteq Ahead(a)
    /\ frames \cap Ahead(after) = {}
    /\ \A f \in frames : Whole(f)

LEMMA AllocateFrameTakes ==
    ASSUME NEW a, AllocatorOk(a)
    PROVE  Takes(a, AllocateFrame(a).allocator, {AllocateFrame(a).frame} \ {None})
<1> DEFINE result == AllocateFrame(a)
           here == Station(a, Min(Stations(a)))
<1>1. CASE Stations(a) = {}
  <2>1. result.allocator = Exhausted /\ result.frame = None
    BY <1>1 DEF AllocateFrame
  <2> HIDE DEF result
  <2> QED BY <2>1, ExhaustedFacts DEF Takes, result
<1>2. CASE Stations(a) # {}
  <2>1. Serves(a, here)
    BY <1>2, StationFacts
  <2>2. here.next_address \in Nat /\ here.current_end \in Nat /\ FrameSize \in Nat \ {0}
    BY <2>1, FrameAssumption DEF Serves, AllocatorOk
  <2>3. CASE Fits(here.next_address + FrameSize)
    <3> DEFINE next == here.next_address + FrameSize
               moved == [here EXCEPT !.next_address = next]
    <3>1. result.frame = here.next_address /\ result.allocator = moved
      BY <1>2, <2>3 DEF AllocateFrame
    <3> HIDE DEF result, here
    <3>2. next \in Nat /\ here.next_address < next
      BY <2>2
    <3>5. Whole(here.next_address) /\ Whole(next)
      <4>1. Whole(here.next_address)
        BY <2>1 DEF Serves, AllocatorOk
      <4>2. next = here.next_address + 1 * FrameSize
        BY <2>2
      <4> QED BY <4>1, <4>2, WholeSum
    <3>3. InCurrent(here, here.next_address)
      BY <2>1, <2>2 DEF Serves, InCurrent
    <3> HIDE DEF next
    <3>4. /\ AllocatorOk(moved) /\ Ahead(moved) \subseteq Ahead(here)
          /\ here.next_address \in Ahead(here) /\ here.next_address \notin Ahead(moved)
      BY <2>1, <2>2, <3>2, <3>3, <3>5, AdvanceFacts DEF Serves
    <3> HIDE DEF moved
    <3> QED BY <2>1, <3>1, <3>4, <3>5 DEF Takes, Serves, result
  <2>4. CASE ~ Fits(here.next_address + FrameSize)
    <3>1. result.frame = None /\ result.allocator = here
      BY <1>2, <2>4 DEF AllocateFrame
    <3> HIDE DEF result, here
    <3> QED BY <2>1, <3>1 DEF Takes, Serves, result
  <2> QED BY <2>3, <2>4
<1> QED BY <1>1, <1>2

\* The frames of a range of count frames.
IsRange(start, count, frames) ==
    frames = {start + k * FrameSize : k \in 0 .. count - 1} /\ Whole(start)

LEMMA AllocateContiguousTakes ==
    ASSUME NEW a, AllocatorOk(a), NEW count \in Nat \ {0}
    PROVE  LET result == AllocateContiguous(a, count)
           IN  /\ Takes(a, result.allocator, result.frames)
               /\ \A f \in result.frames : Bytes(f) \subseteq Ahead(a)
               /\ result.frames # {} => \E start \in Nat : IsRange(start, count, result.frames)
<1> DEFINE result == AllocateContiguous(a, count)
           end(i) == Station(a, i).next_address + count * FrameSize
           stops == {i \in Stations(a) : ~ Fits(end(i)) \/ end(i) <= Station(a, i).current_end}
           here == Station(a, Min(stops))
<1>1. CASE stops = {}
  <2>1. result.allocator = Exhausted /\ result.frames = {}
    BY <1>1 DEF AllocateContiguous
  <2> HIDE DEF result
  <2> QED BY <2>1, ExhaustedFacts DEF Takes, result
<1>2. CASE stops # {}
  <2>1. Min(stops) \in stops /\ Serves(a, here)
    <3> HIDE DEF end
    <3>1. stops \in SUBSET Stations(a)
      OBVIOUS
    <3> HIDE DEF stops
    <3> QED BY <1>2, <3>1, StationFacts
  <2>2. here.next_address \in Nat /\ here.current_end \in Nat /\ FrameSize \in Nat \ {0}
    BY <2>1, FrameAssumption DEF Serves, AllocatorOk
  <2>3. CASE ~ Fits(end(Min(stops)))
    <3>1. result.frames = {} /\ result.allocator = here
      BY <1>2, <2>3 DEF AllocateContiguous
    <3> HIDE DEF result, here
    <3> QED BY <2>1, <3>1 DEF Takes, Serves, result
  <2>4. CASE Fits(end(Min(stops)))
    <3> DEFINE next == here.next_address + count * FrameSize
               moved == [here EXCEPT !.next_address = next]
    <3>1. /\ result.frames = {here.next_address + k * FrameSize : k \in 0 .. count - 1}
          /\ result.allocator = moved
      BY <1>2, <2>4 DEF AllocateContiguous
    <3>2. next <= here.current_end
      BY <2>1, <2>4
    <3> HIDE DEF result, here, end, stops
    <3>3. count * FrameSize \in Nat /\ next \in Nat /\ here.next_address <= next
      BY <2>2
    <3>9. Whole(here.next_address) /\ Whole(next)
      <4>1. Whole(here.next_address)
        BY <2>1 DEF Serves, AllocatorOk
      <4> QED BY <4>1, WholeSum
    <3>4. ASSUME NEW f \in result.frames
          PROVE  Whole(f) /\ f \in Nat /\ here.next_address <= f /\ f + FrameSize <= next
      <4>1. PICK k \in 0 .. count - 1 : f = here.next_address + k * FrameSize
        BY <3>1
      <4>2. k * FrameSize \in Nat /\ (k + 1) * FrameSize = k * FrameSize + FrameSize
        BY <2>2, <4>1
      <4>3. (k + 1) * FrameSize <= count * FrameSize
        BY <4>1, Scaled
      <4>4. Whole(f)
        BY <3>9, <4>1, WholeSum
      <4> QED BY <2>2, <3>3, <4>1, <4>2, <4>3, <4>4
    <3>5. ASSUME NEW f \in result.frames, NEW x \in Bytes(f)
          PROVE  x \in Nat /\ InCurrent(here, x) /\ x < next
      BY <2>2, <3>2, <3>3, <3>4 DEF Bytes, InCurrent
    <3> HIDE DEF next
    <3>6. /\ AllocatorOk(moved) /\ Ahead(moved) \subseteq Ahead(here)
          /\ \A x \in Nat : InCurrent(here, x) /\ x < next => x \in Ahead(here) /\ x \notin Ahead(moved)
      BY <2>1, <3>3, <3>9, AdvanceFacts DEF Serves
    <3> HIDE DEF moved
    <3>7. \A f \in result.frames : f \in Bytes(f)
      BY <2>2, <3>4 DEF Bytes
    <3>8. \A f \in result.frames : Bytes(f) \subseteq Ahead(here) /\ f \in Ahead(here) /\ f \notin Ahead(moved)
      BY <3>5, <3>6, <3>7
    <3>10. IsRange(here.next_address, count, result.frames)
      BY <3>1, <3>9 DEF IsRange
    <3> QED BY <2>1, <2>2, <3>1, <3>4, <3>6, <3>8, <3>10 DEF Takes, Serves, result
  <2> QED BY <2>3, <2>4
<1> QED BY <1>1, <1>2

(***************************************************************************)
(* The invariant.                                                          *)
(***************************************************************************)

\* What is in use is usable, and none of it is ahead of the allocator.
Sound(a, frames, whole) ==
    /\ AllocatorOk(a)
    /\ Ahead(a) \subseteq UsableBytes(boot_map)
    /\ frames \cap Ahead(a) = {}
    /\ frames \subseteq UsableBytes(boot_map)
    /\ \A f \in frames : Whole(f)
    /\ \A f \in whole : Bytes(f) \subseteq UsableBytes(boot_map)

\* A rollback makes the checkpoint's allocator and frames current again, so they
\* have to be sound all the time they are kept.
FrameInv ==
    /\ boot_map \in MemoryMaps
    /\ Sound(allocator, granted, ranges)
    /\ checkpoint # None => Sound(checkpoint.allocator, checkpoint.granted, checkpoint.ranges)
    /\ reused = {}

LEMMA InitSound == Init => FrameInv
<1> SUFFICES ASSUME Init PROVE FrameInv
  OBVIOUS
<1>1. boot_map \in MemoryMaps /\ boot_map \in Seq(Region)
  BY MapsAssumption DEF Init
<1>2. allocator = [regions |-> boot_map, current_end |-> 0, next_address |-> 0]
  BY DEF Init, NewAllocator
<1>3. \A x \in Nat : ~ InCurrent(allocator, x)
  BY <1>2 DEF InCurrent
<1>4. \A i \in SelectableAhead(allocator) :
        i \in DOMAIN boot_map /\ Selectable(boot_map[i]) /\ boot_map[i] \in Region
  BY <1>1, <1>2 DEF SelectableAhead
<1>5. ASSUME NEW i \in SelectableAhead(allocator), NEW j \in SelectableAhead(allocator),
             NEW x \in Nat, InRegion(boot_map[i], x), InRegion(boot_map[j], x)
      PROVE  i = j
  <2>1. /\ boot_map[i].start \in Nat /\ boot_map[i].end \in Nat
        /\ boot_map[j].start \in Nat /\ boot_map[j].end \in Nat
    BY <1>4, RegionFacts
  <2>2. i # j => boot_map[i].end <= boot_map[j].start \/ boot_map[j].end <= boot_map[i].start
    BY <1>1, <1>4, DisjointAssumption
  <2> QED BY <1>5, <2>1, <2>2 DEF InRegion
<1>6. AllocatorOk(allocator)
  <2>1. Whole(0)
    BY FrameAssumption DEF Whole
  <2> QED BY <1>1, <1>2, <1>3, <1>5, <2>1 DEF AllocatorOk
<1>7. ASSUME NEW x \in Ahead(allocator) PROVE x \in UsableBytes(boot_map)
  <2>1. PICK i \in SelectableAhead(allocator) : x \in Nat /\ InRegion(boot_map[i], x)
    BY <1>2, <1>3 DEF Ahead
  <2>2. i \in DOMAIN boot_map /\ boot_map[i].usable
    BY <1>4 DEF Selectable
  <2>3. x \in boot_map[i].start .. boot_map[i].end - 1
    BY <1>4, <2>1, RegionFacts DEF InRegion
  <2> QED BY <2>2, <2>3 DEF UsableBytes
<1> QED BY <1>1, <1>6, <1>7 DEF Init, FrameInv, Sound

\* A range that is granted leaves everything sound.
LEMMA GrantRangeKeeps ==
    ASSUME FrameInv, NEW count \in Nat \ {0}, GrantRange(count)
    PROVE  FrameInv'
<1> DEFINE result == AllocateContiguous(allocator, count)
<1>1. /\ Takes(allocator, result.allocator, result.frames)
      /\ \A f \in result.frames : Bytes(f) \subseteq Ahead(allocator)
  BY AllocateContiguousTakes DEF FrameInv, Sound
<1>2. /\ allocator' = result.allocator /\ granted' = granted \cup result.frames
      /\ ranges' = ranges \cup result.frames /\ reused' = reused \cup (granted \cap result.frames)
      /\ UNCHANGED <<boot_map, checkpoint>>
  BY DEF GrantRange, Grant
<1> HIDE DEF result
<1>3. /\ Sound(result.allocator, granted \cup result.frames, ranges \cup result.frames)
      /\ granted \cap result.frames = {}
  <2>1. Sound(allocator, granted, ranges)
    BY DEF FrameInv
  <2> QED BY <1>1, <2>1 DEF Sound, Takes
<1> QED BY <1>2, <1>3 DEF FrameInv, Sound

LEMMA NextSound == FrameInv /\ [Next]_vars => FrameInv'
<1> SUFFICES ASSUME FrameInv, [Next]_vars PROVE FrameInv'
  OBVIOUS
<1>1. CASE allocate_frame
  <2> DEFINE frames == {AllocateFrame(allocator).frame} \ {None}
  <2>1. Takes(allocator, AllocateFrame(allocator).allocator, frames)
    BY AllocateFrameTakes DEF FrameInv, Sound
  <2>2. /\ allocator' = AllocateFrame(allocator).allocator /\ granted' = granted \cup frames
        /\ reused' = reused \cup (granted \cap frames) /\ UNCHANGED <<boot_map, ranges, checkpoint>>
    BY <1>1 DEF allocate_frame, Grant
  <2> HIDE DEF frames
  <2>3. Sound(AllocateFrame(allocator).allocator, granted \cup frames, ranges) /\ granted \cap frames = {}
    BY <2>1 DEF FrameInv, Sound, Takes
  <2> QED BY <2>2, <2>3 DEF FrameInv, Sound
<1>2. ASSUME NEW count \in 1 .. MaxCount, allocate_contiguous(count) PROVE FrameInv'
  BY <1>2, CountAssumption, GrantRangeKeeps DEF allocate_contiguous
<1>3. ASSUME NEW offset \in Offsets, initialize_heap(offset) PROVE FrameInv'
  BY <1>3, CountAssumption, GrantRangeKeeps DEF initialize_heap
<1>4. CASE take_checkpoint
  <2>1. /\ checkpoint'.allocator = allocator /\ checkpoint'.granted = granted
        /\ checkpoint'.ranges = ranges
    BY <1>4 DEF take_checkpoint
  <2> QED BY <1>4, <2>1 DEF take_checkpoint, FrameInv, Sound
<1>5. CASE rollback
  <2>1. Sound(checkpoint.allocator, checkpoint.granted, checkpoint.ranges)
    BY <1>5 DEF rollback, FrameInv
  <2>2. /\ allocator' = checkpoint.allocator /\ granted' = checkpoint.granted
        /\ ranges' = checkpoint.ranges /\ checkpoint' = None /\ UNCHANGED <<boot_map, reused>>
    BY <1>5 DEF rollback, Restored
  <2>3. Sound(allocator, granted, ranges)'
    BY <2>1, <2>2 DEF Sound
  <2> QED BY <2>2, <2>3 DEF FrameInv
<1>6. CASE commit
  BY <1>6 DEF commit, FrameInv, Sound
<1>7. CASE UNCHANGED vars
  BY <1>7 DEF vars, FrameInv, Sound
<1> QED BY <1>1, <1>2, <1>3, <1>4, <1>5, <1>6, <1>7 DEF Next

(***************************************************************************)
(* The heap.                                                               *)
(***************************************************************************)

\* The heap is a range of usable frames that stay granted, to it alone: a
\* rollback gives up no frame that was granted before its checkpoint.
HeapInv ==
    /\ heap # None =>
        /\ \E start \in Nat :
            /\ IsRange(start, HeapFrames, heap.frames)
            /\ heap.start - heap.offset = start
        /\ heap.size = HeapFrames * FrameSize
        /\ heap.frames \subseteq granted
        /\ \A f \in heap.frames : Bytes(f) \subseteq UsableBytes(boot_map)
    /\ heap # None /\ checkpoint # None => heap.frames \subseteq checkpoint.granted

\* A range begins with its least frame.
LEMMA RangeMin ==
    ASSUME NEW start \in Nat, NEW count \in Nat \ {0}, NEW frames, IsRange(start, count, frames)
    PROVE  Min(frames) = start
<1>1. FrameSize \in Nat /\ FrameSize > 0
  BY FrameAssumption
<1>2. start \in frames
  <2>1. start = start + 0 * FrameSize /\ 0 \in 0 .. count - 1
    BY <1>1
  <2> QED BY <2>1 DEF IsRange
<1>3. \A f \in frames : f \in Nat /\ start <= f
  <2> SUFFICES ASSUME NEW k \in 0 .. count - 1
               PROVE  start + k * FrameSize \in Nat /\ start <= start + k * FrameSize
    BY DEF IsRange
  <2>1. k * FrameSize \in Nat
    BY <1>1
  <2> QED BY <2>1
<1>4. \A x \in frames : (\A y \in frames : x <= y) => x = start
  BY <1>2, <1>3
<1> QED BY <1>2, <1>3, <1>4 DEF Min

\* The bytes of a range are those of its frames, and a frame that shares a byte
\* with it is one of them.
LEMMA RangeBytes ==
    ASSUME NEW start \in Nat, NEW count \in Nat \ {0}, NEW frames, IsRange(start, count, frames),
           NEW f, Whole(f), NEW x \in start .. start + count * FrameSize - 1, x \in Bytes(f)
    PROVE  f \in frames
<1>1. PICK s \in Nat : start = s * FrameSize
  BY DEF IsRange, Whole
<1>2. PICK q \in Nat : f = q * FrameSize
  BY DEF Whole
<1>3. FrameSize \in Nat /\ FrameSize > 0
  BY FrameAssumption
<1>4. /\ s * FrameSize \in Nat /\ q * FrameSize \in Nat /\ count * FrameSize \in Nat /\ x \in Nat
      /\ (q + 1) * FrameSize = q * FrameSize + FrameSize
      /\ (s + count) * FrameSize = s * FrameSize + count * FrameSize
      /\ (q - s) * FrameSize = q * FrameSize - s * FrameSize
  BY <1>1, <1>2, <1>3
<1>5. q * FrameSize < (s + count) * FrameSize /\ s * FrameSize < (q + 1) * FrameSize
  BY <1>1, <1>2, <1>3, <1>4 DEF Bytes
<1>6. ~ (s + count <= q) /\ ~ (q + 1 <= s)
  <2>1. s + count <= q => (s + count) * FrameSize <= q * FrameSize
    BY <1>1, <1>2, Scaled
  <2>2. q + 1 <= s => (q + 1) * FrameSize <= s * FrameSize
    BY <1>1, <1>2, Scaled
  <2>3. (s + count) * FrameSize \in Int /\ (q + 1) * FrameSize \in Int
    BY <1>1, <1>2, <1>3
  <2>4. ~ ((s + count) * FrameSize <= q * FrameSize) /\ ~ ((q + 1) * FrameSize <= s * FrameSize)
    BY <1>4, <1>5, <2>3
  <2> QED BY <2>1, <2>2, <2>4
<1>7. q - s \in 0 .. count - 1
  BY <1>6
<1>8. f = start + (q - s) * FrameSize
  BY <1>1, <1>2, <1>4
<1> QED BY <1>7, <1>8 DEF IsRange

\* Every byte of a range is in one of its frames.
LEMMA RangeCovered ==
    ASSUME NEW start \in Nat, NEW count \in Nat \ {0}, NEW frames, IsRange(start, count, frames),
           NEW x \in start .. start + count * FrameSize - 1
    PROVE  \E f \in frames : x \in Bytes(f)
<1> DEFINE k == (x - start) \div FrameSize
           r == (x - start) % FrameSize
           f == start + k * FrameSize
<1>1. FrameSize \in Nat /\ FrameSize > 0
  BY FrameAssumption
<1>2. count * FrameSize \in Nat /\ x \in Nat /\ x - start \in Nat /\ x - start < count * FrameSize
  BY <1>1
<1>3. k \in Nat /\ r \in 0 .. FrameSize - 1
  BY <1>1, <1>2
<1>4. x - start = FrameSize * k + r
  BY <1>1, <1>2
<1> HIDE DEF k, r
<1>5. FrameSize * k = k * FrameSize /\ k * FrameSize \in Nat
  BY <1>1, <1>3
<1>6. k < count
  <2>1. count <= k => count * FrameSize <= k * FrameSize
    BY <1>3, Scaled
  <2>2. k * FrameSize <= x - start
    BY <1>1, <1>2, <1>3, <1>4, <1>5
  <2>3. k * FrameSize < count * FrameSize
    BY <1>2, <1>5, <2>2
  <2>4. ~ (count <= k)
    BY <1>2, <1>5, <2>1, <2>3
  <2> QED BY <1>3, <2>4
<1>7. f \in frames
  BY <1>3, <1>6 DEF IsRange
<1>8. x \in Bytes(f)
  BY <1>1, <1>2, <1>3, <1>4, <1>5 DEF Bytes
<1> QED BY <1>7, <1>8

\* What a grant or a checkpoint leaves of the heap's invariant.
LEMMA HeapKept ==
    ASSUME HeapInv, UNCHANGED <<boot_map, heap>>, granted \subseteq granted',
           checkpoint' = None \/ UNCHANGED checkpoint \/ checkpoint'.granted = granted
    PROVE  HeapInv'
<1>1. CASE heap = None
  BY <1>1 DEF HeapInv
<1>2. CASE heap # None
  <2>1. heap'.frames \subseteq granted' /\ heap' # None
    BY <1>2 DEF HeapInv
  <2>2. checkpoint' # None => heap'.frames \subseteq checkpoint'.granted
    BY <1>2 DEF HeapInv
  <2>3. /\ \E start \in Nat :
            IsRange(start, HeapFrames, heap'.frames) /\ heap'.start - heap'.offset = start
        /\ heap'.size = HeapFrames * FrameSize
        /\ \A f \in heap'.frames : Bytes(f) \subseteq UsableBytes(boot_map')
    BY <1>2 DEF HeapInv
  <2> QED BY <2>1, <2>2, <2>3 DEF HeapInv
<1> QED BY <1>1, <1>2

\* The heap block of main hands KernelHeap::init the range it was granted.
LEMMA HeapInitialized ==
    ASSUME FrameInv, HeapInv, NEW offset \in Offsets, initialize_heap(offset)
    PROVE  HeapInv'
<1> DEFINE result == AllocateContiguous(allocator, HeapFrames)
           size == HeapFrames * FrameSize
<1>1. /\ Takes(allocator, result.allocator, result.frames)
      /\ \A f \in result.frames : Bytes(f) \subseteq Ahead(allocator)
      /\ result.frames # {} => \E start \in Nat : IsRange(start, HeapFrames, result.frames)
  BY CountAssumption, AllocateContiguousTakes DEF FrameInv, Sound
<1>2. /\ checkpoint = None /\ UNCHANGED <<boot_map, checkpoint>>
      /\ granted' = granted \cup result.frames
  BY DEF initialize_heap, GrantRange, Grant
<1>3. CASE heap' = heap
  BY <1>2, <1>3, HeapKept
<1>4. CASE heap' # heap
  <2>1. /\ result.frames # {}
        /\ heap' = [ start |-> offset + Min(result.frames), size |-> size, offset |-> offset,
                     frames |-> result.frames ]
    BY <1>4 DEF initialize_heap
  <2>2. PICK start \in Nat : IsRange(start, HeapFrames, result.frames)
    BY <1>1, <2>1
  <2> HIDE DEF result
  <2>3. Min(result.frames) = start
    BY <2>2, CountAssumption, RangeMin
  <2>4. offset \in Int
    BY OffsetAssumption, FrameAssumption DEF Address
  <2>5. /\ heap'.frames = result.frames /\ heap'.size = size
        /\ heap'.start - heap'.offset = start
    BY <2>1, <2>3, <2>4
  <2>6. \A f \in result.frames : Bytes(f) \subseteq UsableBytes(boot_map)
    BY <1>1 DEF FrameInv, Sound
  <2> QED BY <1>2, <2>2, <2>5, <2>6 DEF HeapInv
<1> QED BY <1>3, <1>4

LEMMA NextHeap == FrameInv /\ HeapInv /\ [Next]_vars => HeapInv'
<1> SUFFICES ASSUME FrameInv, HeapInv, [Next]_vars PROVE HeapInv'
  OBVIOUS
<1>1. CASE allocate_frame
  BY <1>1, HeapKept DEF allocate_frame, Grant
<1>2. ASSUME NEW count \in 1 .. MaxCount, allocate_contiguous(count) PROVE HeapInv'
  BY <1>2, HeapKept DEF allocate_contiguous, GrantRange, Grant
<1>3. ASSUME NEW offset \in Offsets, initialize_heap(offset) PROVE HeapInv'
  BY <1>3, HeapInitialized
<1>4. CASE take_checkpoint
  <2>1. checkpoint'.granted = granted /\ UNCHANGED <<boot_map, heap, granted>>
    BY <1>4 DEF take_checkpoint
  <2> QED BY <2>1, HeapKept
<1>5. CASE rollback
  <2>1. /\ checkpoint # None /\ granted' = checkpoint.granted /\ checkpoint' = None
        /\ UNCHANGED <<boot_map, heap>>
    BY <1>5 DEF rollback
  <2> QED BY <2>1 DEF HeapInv
<1>6. CASE commit
  BY <1>6, HeapKept DEF commit
<1>7. CASE UNCHANGED vars
  BY <1>7, HeapKept DEF vars
<1> QED BY <1>1, <1>2, <1>3, <1>4, <1>5, <1>6, <1>7 DEF Next

\* The kernel heap is memory of its own for as long as the kernel runs.
THEOREM HeapStaysExclusive == Spec => []HeapIsExclusive
<1>1. Init => HeapInv
  BY DEF Init, HeapInv
<1>2. FrameInv /\ HeapInv => HeapIsExclusive
  <2> SUFFICES ASSUME FrameInv, HeapInv, heap # None PROVE HeapIsExclusive
    BY DEF HeapIsExclusive
  <2>1. PICK start \in Nat : IsRange(start, HeapFrames, heap.frames) /\ heap.start - heap.offset = start
    BY DEF HeapInv
  <2> DEFINE bytes == start .. start + HeapFrames * FrameSize - 1
  <2>2. bytes \subseteq UsableBytes(boot_map)
    <3> SUFFICES ASSUME NEW x \in bytes PROVE x \in UsableBytes(boot_map)
      OBVIOUS
    <3>1. PICK f \in heap.frames : x \in Bytes(f)
      BY <2>1, CountAssumption, RangeCovered
    <3> QED BY <3>1 DEF HeapInv
  <2>3. ASSUME NEW f \in granted \ heap.frames, NEW x \in bytes, x \in Bytes(f) PROVE FALSE
    <3>1. Whole(f)
      BY DEF FrameInv, Sound
    <3> QED BY <2>1, <2>3, <3>1, CountAssumption, RangeBytes
  <2> QED BY <2>1, <2>2, <2>3 DEF HeapInv, HeapIsExclusive
<1> QED BY <1>1, <1>2, InitSound, NextSound, NextHeap, PTL DEF Spec

\* No frame is granted while it is in use.
THEOREM FramesAreExclusive == Spec => []FramesExclusive
<1>1. FrameInv => FramesExclusive
  BY DEF FrameInv, FramesExclusive
<1> QED BY <1>1, InitSound, NextSound, PTL DEF Spec

\* Frames begin in usable memory, and ranges lie in it.
THEOREM FramesAreUsable == Spec => []GrantsAreUsable
<1>1. FrameInv => GrantsAreUsable
  BY DEF FrameInv, Sound, GrantsAreUsable
<1> QED BY <1>1, InitSound, NextSound, PTL DEF Spec
===============================================================================
