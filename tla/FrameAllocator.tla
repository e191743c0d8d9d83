---------------------------- MODULE FrameAllocator ----------------------------
(***************************************************************************)
(* The life of the EarlyFrameAllocator during boot: single frames,         *)
(* contiguous ranges, one of them for the kernel heap, and one transaction *)
(* at a time that may be rolled back to its checkpoint.  boot_map is       *)
(* whatever the bootloader reported.                                       *)
(***************************************************************************)
EXTENDS FrameOps

CONSTANTS
    MemoryMaps,     \* the memory maps the bootloader may report
    Offsets,        \* where physical memory may be mapped
    HeapFrames,     \* INITIAL_HEAP_FRAMES
    MaxCount        \* bound on the frames asked for at once

ASSUME MapsAssumption == MemoryMaps \subseteq Seq(Region)
ASSUME OffsetAssumption == Offsets \subseteq Address
ASSUME CountAssumption == MaxCount \in Nat /\ HeapFrames \in Nat \ {0}

\* The bootloader reports no byte in two usable regions.
ASSUME DisjointAssumption ==
    \A map \in MemoryMaps : \A i, j \in DOMAIN map :
        i # j /\ Selectable(map[i]) /\ Selectable(map[j]) =>
            map[i].end <= map[j].start \/ map[j].end <= map[i].start

VARIABLES
    boot_map,       \* the memory map
    allocator,      \* the EarlyFrameAllocator
    heap,           \* what the KernelHeap was initialized with, or None
    granted,        \* history: the frames in use
    ranges,         \* history: those of them granted as part of a range
    reused,         \* history: the frames granted while they were in use
    skipping,       \* history: a range was asked for, which may skip frames
    refused,        \* history: allocate_frame answered None
    checkpoint      \* what a transaction began with, or None

vars == <<boot_map, allocator, heap, granted, ranges, reused, skipping, refused, checkpoint>>

Init ==
    /\ boot_map \in MemoryMaps
    /\ allocator = NewAllocator(boot_map)
    /\ heap = None
    /\ granted = {}
    /\ ranges = {}
    /\ reused = {}
    /\ skipping = FALSE
    /\ refused = FALSE
    /\ checkpoint = None

Grant(frames) ==
    /\ granted' = granted \cup frames
    /\ reused' = reused \cup (granted \cap frames)

allocate_frame ==
    LET result == AllocateFrame(allocator)
    IN  /\ allocator' = result.allocator
        /\ Grant({result.frame} \ {None})
        /\ refused' = (refused \/ result.frame = None)
        /\ UNCHANGED <<boot_map, heap, ranges, skipping, checkpoint>>

GrantRange(count) ==
    LET result == AllocateContiguous(allocator, count)
    IN  /\ allocator' = result.allocator
        /\ Grant(result.frames)
        /\ ranges' = ranges \cup result.frames
        /\ skipping' = TRUE
        /\ UNCHANGED <<boot_map, refused, checkpoint>>

allocate_contiguous(count) == GrantRange(count) /\ UNCHANGED heap

\* main's heap block, outside of any transaction.  A heap that is initialized
\* stays as it is, and the frames are lost where a condition fails.
initialize_heap(offset) ==
    /\ checkpoint = None
    /\ GrantRange(HeapFrames)
    /\ LET frames == AllocateContiguous(allocator, HeapFrames).frames
           start == Min(frames)
           size == HeapFrames * FrameSize   \* INITIAL_HEAP_SIZE
       IN  heap' = IF /\ heap = None
                      /\ frames # {}
                      /\ TranslatesOk(start, size, offset)
                      /\ HeapRegionOk(offset + start, size)
                   THEN [start |-> offset + start, size |-> size, offset |-> offset, frames |-> frames]
                   ELSE heap

take_checkpoint ==
    /\ checkpoint = None
    /\ checkpoint' = [allocator |-> allocator, granted |-> granted, ranges |-> ranges]
    /\ UNCHANGED <<boot_map, allocator, heap, granted, ranges, reused, skipping, refused>>

\* The frames granted since the checkpoint are given up with it.
Restored_KeepsRegions(saved) ==   \* mutant: the iterator is not restored
    [saved EXCEPT !.regions = allocator.regions]
Restored(saved) == saved

rollback ==
    /\ checkpoint # None
    /\ allocator' = Restored(checkpoint.allocator)
    /\ granted' = checkpoint.granted
    /\ ranges' = checkpoint.ranges
    /\ refused' = FALSE
    /\ checkpoint' = None
    /\ UNCHANGED <<boot_map, heap, reused, skipping>>

\* The transaction succeeds, and its checkpoint is dropped.
commit ==
    /\ checkpoint # None
    /\ checkpoint' = None
    /\ UNCHANGED <<boot_map, allocator, heap, granted, ranges, reused, skipping, refused>>

Next ==
    \/ allocate_frame
    \/ \E count \in 1 .. MaxCount : allocate_contiguous(count)
    \/ \E offset \in Offsets : initialize_heap(offset)
    \/ take_checkpoint
    \/ rollback
    \/ commit

Spec == Init /\ [][Next]_vars

(***************************************************************************)
(* Properties.                                                             *)
(***************************************************************************)

\* No frame is granted while it is in use, whatever was rolled back in between:
\* the cursor only moves forward over regions that do not overlap, and a
\* rollback takes it back no further than the frames it gives up.
FramesExclusive == reused = {}

\* Every frame begins in usable memory, and a contiguous range lies in it
\* completely, also after the allocator moved on to other regions.
GrantsAreUsable ==
    /\ granted \subseteq UsableBytes(boot_map)
    /\ \A f \in ranges : Bytes(f) \subseteq UsableBytes(boot_map)

\* The memory KernelHeap::init writes its free list to and hands out from is
\* usable, and no byte of it is in a frame that page tables or images were given
\* before or after: its safety comment asks for a region "unused by every other
\* subsystem" that "will remain valid for the kernel lifetime".
HeapIsExclusive ==
    heap # None =>
        LET start == heap.start - heap.offset
            bytes == start .. start + heap.size - 1
        IN  /\ bytes \subseteq UsableBytes(boot_map)
            /\ heap.frames \subseteq granted
            /\ \A f \in granted \ heap.frames : Bytes(f) \cap bytes = {}

\* Until a range was asked for, allocate_frame answers None only when every
\* whole frame of usable memory is in use: no region is passed over, and a
\* rollback forgets none.
NoFrameForgotten ==
    refused /\ ~ skipping =>
        \A f \in {g \in Address : g % FrameSize = 0} :
            Bytes(f) \subseteq UsableBytes(boot_map) => f \in granted
===============================================================================
