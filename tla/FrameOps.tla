------------------------------- MODULE FrameOps -------------------------------
(***************************************************************************)
(* EarlyFrameAllocator as operators on its value.  Addresses are naturals  *)
(* below AddressEnd, which stands for 2^64; a frame is known by its first  *)
(* address.                                                                *)
(***************************************************************************)
EXTENDS Integers, Sequences, FiniteSetsExt

CONSTANTS
    FrameSize,      \* FRAME_SIZE
    AddressEnd,     \* one more than u64::MAX
    None

ASSUME FrameAssumption ==
    /\ FrameSize \in Nat \ {0}
    /\ AddressEnd \in Nat
    /\ AddressEnd % FrameSize = 0

Address == 0 .. AddressEnd - 1
Region == [start : Address, end : Address, usable : BOOLEAN]

\* checked_add: does the sum fit?
Fits(sum) == sum < AddressEnd

AlignUp_Down(address) == (address \div FrameSize) * FrameSize   \* mutant: FRAME_SIZE - 1 is not added
AlignUp(address) == ((address + FrameSize - 1) \div FrameSize) * FrameSize
AlignUpOk(address) == Fits(address + FrameSize - 1)

\* The iterator over the regions is the sequence of those still to come.
NewAllocator(regions) == [regions |-> regions, current_end |-> 0, next_address |-> 0]

\* The regions select_next_usable_region does not pass over.
Selectable_AnyKind(region) ==   \* mutant: the kind is not looked at
    region.start <= region.end /\ AlignUp(region.start) < region.end
Selectable(region) ==
    /\ region.usable
    /\ region.start <= region.end
    /\ AlignUpOk(region.start)
    /\ AlignUp(region.start) < region.end

SelectableAhead(a) == {i \in DOMAIN a.regions : Selectable(a.regions[i])}

\* The allocator at the start of the i-th region ahead of it, and at the end
\* of the memory map.
AtRegion(a, i) ==
    [ regions      |-> SubSeq(a.regions, i + 1, Len(a.regions)),
      current_end  |-> a.regions[i].end,
      next_address |-> AlignUp(a.regions[i].start) ]
Exhausted == NewAllocator(<<>>)

\* The places allocate_contiguous tries, in order: 0 is the current region.
Station(a, i) == IF i = 0 THEN a ELSE AtRegion(a, i)
Stations(a) == SelectableAhead(a) \cup {i \in {0} : a.next_address < a.current_end}

\* allocate_frame: the frame, or None, and the allocator it leaves.
AllocateFrame_Again(a) ==   \* mutant: the cursor does not move
    IF Stations(a) = {}
    THEN [frame |-> None, allocator |-> Exhausted]
    ELSE LET here == Station(a, Min(Stations(a)))
         IN  [frame |-> here.next_address, allocator |-> here]

AllocateFrame(a) ==
    IF Stations(a) = {}
    THEN [frame |-> None, allocator |-> Exhausted]
    ELSE LET here == Station(a, Min(Stations(a)))
         IN  IF Fits(here.next_address + FrameSize)
             THEN [ frame     |-> here.next_address,
                    allocator |-> [here EXCEPT !.next_address = @ + FrameSize] ]
             ELSE [frame |-> None, allocator |-> here]

\* allocate_contiguous of count > 0 frames.  It gives up where the sum
\* overflows, and goes on to the next region where the range does not fit.
AllocateContiguous(a, count) ==
    LET end(i) == Station(a, i).next_address + count * FrameSize
        stops == {i \in Stations(a) : ~ Fits(end(i)) \/ end(i) <= Station(a, i).current_end}
        here == Station(a, Min(stops))
    IN  IF stops = {}
        THEN [frames |-> {}, allocator |-> Exhausted]
        ELSE IF ~ Fits(end(Min(stops)))
        THEN [frames |-> {}, allocator |-> here]
        ELSE [ frames    |-> {here.next_address + k * FrameSize : k \in 0 .. count - 1},
               allocator |-> [here EXCEPT !.next_address = end(Min(stops))] ]

\* What the bytes of a frame and of the usable regions are.
Bytes(frame) == frame .. frame + FrameSize - 1
UsableBytes(regions) ==
    UNION {regions[i].start .. regions[i].end - 1 : i \in {j \in DOMAIN regions : regions[j].usable}}

(***************************************************************************)
(* The kernel heap's region: main's conditions on the way from the frames  *)
(* to KernelHeap::init, and the HeapRegion it is given.                    *)
(***************************************************************************)

\* HeapRegion::new
HeapRegionOk(start, size) ==
    /\ start % FrameSize = 0
    /\ size # 0 /\ size % FrameSize = 0
    /\ Fits(start + size)

\* The ContiguousFrames are mapped at an offset; translate and translate_range
\* check both ends.
TranslatesOk(start, size, offset) == Fits(offset + start) /\ Fits(offset + start + size)
===============================================================================
