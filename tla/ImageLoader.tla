------------------------------ MODULE ImageLoader -----------------------------
(***************************************************************************)
(* Loading a userspace image during boot: the heap takes its frames, the   *)
(* ELF image is parsed and planned, a page-table root is allocated, the    *)
(* image and its stack are mapped page by page, checked, filled with the   *)
(* file's bytes, and turned into a launch plan.  Any step may fail; the    *)
(* load then unmaps what it mapped and returns the frames it took.         *)
(*                                                                         *)
(* A virtual address is page * FrameSize + offset, and the layout is given *)
(* in pages.  The three lower levels of the page table are one level of    *)
(* tables here.                                                            *)
(***************************************************************************)
EXTENDS FrameOps, SequencesExt

CONSTANTS
    UserSpace, KernelSpace,     \* USER_SPACE_START, KERNEL_SPACE_START
    ImageBase,                  \* USER_IMAGE_BASE
    LayoutStack, LayoutStackPages,  \* the stack of UserAddressSpaceLayout
    StackTop, StackPages,       \* USER_STACK_TOP, USER_STACK_PAGES of user_stack.rs
    CanonicalEnd,               \* the first page the mapper cannot name
    TablePages,                 \* pages under one table
    MaxMappedPages,             \* MAX_MAPPED_PAGES
    HeapFrames,                 \* INITIAL_HEAP_FRAMES
    Images,                     \* the files the ramdisk may hold
    MemoryMaps,                 \* the memory maps the bootloader may report
    MaxLoads                    \* bound on the number of loads

ASSUME LayoutAssumption ==
    /\ 0 < UserSpace /\ UserSpace < ImageBase /\ ImageBase < LayoutStack - 1
    /\ LayoutStack + LayoutStackPages <= KernelSpace
    /\ StackTop - StackPages > LayoutStack /\ StackTop < KernelSpace

VARIABLES
    boot_map,       \* the memory map the bootloader reported
    allocator,      \* the EarlyFrameAllocator
    heap,           \* the frames of the heap; None before it is set up
    memory,         \* what the bytes of each frame are
    build,          \* the load under way, or None
    loaded,         \* the loads that succeeded
    outcome,        \* how the last load ended, and what its root still maps
    loads           \* the number of loads begun

vars == <<boot_map, allocator, heap, memory, build, loaded, outcome, loads>>

Frame == {f \in Address : f % FrameSize = 0}
Offset == 0 .. FrameSize - 1
Page == 0 .. KernelSpace - 1
Table == {p \div TablePages : p \in Page}
PageOf(address) == address \div FrameSize

(***************************************************************************)
(* The file: ElfImage::parse, LoadPlan::build and UserStackPlan::build.    *)
(* header stands for the checks of the ELF header and the program table,   *)
(* in_file for a segment whose bytes lie inside the file.                  *)
(***************************************************************************)

Extent(segment) == segment.start .. segment.start + segment.memory - 1

ParseOk(image) ==
    /\ image.header
    /\ image.segments # <<>>
    /\ \A i \in DOMAIN image.segments :
        LET s == image.segments[i]
        IN  /\ ~ (s.writable /\ s.executable)
            /\ s.file <= s.memory /\ s.in_file
            /\ s.memory > 0
            /\ s.start >= UserSpace * FrameSize
            /\ s.start + s.memory <= KernelSpace * FrameSize
    /\ \E i \in DOMAIN image.segments : image.entry \in Extent(image.segments[i])

\* map_span: the pages a segment touches.
Span(segment) == PageOf(segment.start) .. PageOf(segment.start + segment.memory - 1)

\* validate_image_range, with the layout's own guard page and stack.
ImageRangeOk_NoGuard(span) ==   \* mutant: the guard page is not looked at
    /\ span \subseteq UserSpace .. KernelSpace - 1
    /\ Min(span) >= ImageBase /\ Min(span) < LayoutStack
ImageRangeOk(span) ==
    /\ span \subseteq UserSpace .. KernelSpace - 1
    /\ LayoutStack - 1 \notin span
    /\ Min(span) >= ImageBase /\ Min(span) < LayoutStack

RangesOverlap_Bytes(s, t) == Extent(s) \cap Extent(t) # {}   \* mutant: not rounded to pages
RangesOverlap(s, t) == Span(s) \cap Span(t) # {}

PlanOk(image) ==
    /\ \A i \in DOMAIN image.segments :
        LET s == image.segments[i]
        IN  /\ ImageRangeOk(Span(s))
            /\ ~ (s.writable /\ s.executable)
            /\ \A j \in 1 .. i - 1 : ~ RangesOverlap(s, image.segments[j])
    /\ \E i \in DOMAIN image.segments :
        image.segments[i].executable /\ PageOf(image.entry) \in Span(image.segments[i])

ImageAccepted(image) == ParseOk(image) /\ PlanOk(image)

\* The pages map_load_plan maps, in order, and those of the stack.
ImagePages(image) ==
    FlattenSeq([i \in DOMAIN image.segments |->
        LET s == image.segments[i]
        IN  [k \in 1 .. Cardinality(Span(s)) |->
                [ page |-> Min(Span(s)) + k - 1,
                  writable |-> s.writable, executable |-> s.executable ]]])
StackPlan ==
    [k \in 1 .. StackPages |->
        [page |-> StackTop - StackPages + k - 1, writable |-> TRUE, executable |-> FALSE]]

(***************************************************************************)
(* A page-table root and X86PageTableMapper.  A table is writable when a   *)
(* writable page was mapped under it, which is what map_to does.           *)
(***************************************************************************)

NewSpace(root) ==
    [root |-> root, tables |-> [t \in Table |-> None], pages |-> [p \in Page |-> None]]
TableOf(page) == page \div TablePages

\* map_page checks the page and the flags; VirtAddr::new panics on a page it
\* cannot name; map_to refuses a page that is mapped.
MapChecked(want) ==
    /\ want.page \in UserSpace .. KernelSpace - 1
    /\ ~ (want.writable /\ want.executable)
MapPanics(want) == MapChecked(want) /\ want.page >= CanonicalEnd
MapOk(space, want) == MapChecked(want) /\ space.pages[want.page] = None

\* allocate_frame for the page, then map_page, which may need a second frame
\* for the table; and the frames and the root they leave.
Mapping(space, a, want) ==
    LET page == AllocateFrame(a)
        has_table == space.tables[TableOf(want.page)] # None
        table == IF has_table
                 THEN [frame |-> space.tables[TableOf(want.page)].frame, allocator |-> page.allocator]
                 ELSE AllocateFrame(page.allocator)
        entry == [ frame    |-> table.frame,
                   writable |-> want.writable \/ (has_table /\ space.tables[TableOf(want.page)].writable) ]
        leaf == [frame |-> page.frame, writable |-> want.writable, executable |-> want.executable]
    IN  [ ok        |-> page.frame # None /\ MapOk(space, want) /\ table.frame # None,
          refused   |-> page.frame # None /\ ~ MapOk(space, want),
          panics    |-> page.frame # None /\ MapPanics(want),
          new_table |-> IF has_table THEN None ELSE table.frame,
          allocator |-> table.allocator,
          space     |-> [space EXCEPT !.tables[TableOf(want.page)] = entry,
                                      !.pages[want.page] = leaf] ]

PageAccess(space, page) ==
    IF space.pages[page] = None
    THEN [mapped |-> FALSE, writable |-> FALSE, executable |-> FALSE]
    ELSE [ mapped     |-> TRUE,
           writable   |-> space.pages[page].writable /\ space.tables[TableOf(page)].writable,
           executable |-> space.pages[page].executable ]

\* rollback_stack and rollback_load: the first count pages of each plan.
Unmap(space, wants) ==
    [space EXCEPT !.pages = [p \in Page |->
        IF \E i \in DOMAIN wants : wants[i].page = p THEN None ELSE @[p]]]
UnmapOk(space, wants) == \A i \in DOMAIN wants : space.pages[wants[i].page] # None

(***************************************************************************)
(* What a load leaves in memory.                                           *)
(***************************************************************************)

Zeroed == [o \in Offset |-> <<"zero">>]
TableBytes == [o \in Offset |-> <<"table">>]

\* One segment of populate_image: each page is cleared as a whole, then gets
\* the bytes of the file that fall into it.
SegmentBytes(image, i, page) ==
    LET s == image.segments[i]
    IN  [o \in Offset |->
            LET k == page * FrameSize + o - s.start
            IN  IF k \in 0 .. s.file - 1 THEN <<"file", image.name, i, k>> ELSE <<"zero">>]
Populated_NotCleared(image, i, space) ==   \* mutant: only the file's bytes are written
    [f \in Frame |->
        IF \E p \in Span(image.segments[i]) : space.pages[p].frame = f
        THEN LET page == CHOOSE p \in Span(image.segments[i]) : space.pages[p].frame = f
                 bytes == SegmentBytes(image, i, page)
             IN  [o \in Offset |-> IF bytes[o] = <<"zero">> THEN memory[f][o] ELSE bytes[o]]
        ELSE memory[f]]
Populated(image, i, space) ==
    [f \in Frame |->
        IF \E p \in Span(image.segments[i]) : space.pages[p].frame = f
        THEN LET page == CHOOSE p \in Span(image.segments[i]) : space.pages[p].frame = f
             IN  SegmentBytes(image, i, page)
        ELSE memory[f]]

Init ==
    /\ boot_map \in MemoryMaps
    /\ allocator = NewAllocator(boot_map)
    /\ heap = None
    /\ memory = [f \in Frame |-> [o \in Offset |-> <<"stale">>]]
    /\ build = None
    /\ loaded = <<>>
    /\ outcome = [result |-> "none", still_mapped |-> {}]
    /\ loads = 0

\* kernel_main sets the heap up; without enough memory it goes on without.
heap_init ==
    /\ heap = None
    /\ LET result == AllocateContiguous(allocator, HeapFrames)
       IN  /\ allocator' = result.allocator
           /\ heap' = result.frames
    /\ UNCHANGED <<boot_map, memory, build, loaded, outcome, loads>>

Idle == heap # None /\ build = None /\ outcome.result # "panic"

reject_image(image) ==
    /\ Idle /\ loads < MaxLoads
    /\ ~ ImageAccepted(image)
    /\ outcome' = [result |-> "rejected", still_mapped |-> {}]
    /\ loads' = loads + 1
    /\ UNCHANGED <<boot_map, allocator, heap, memory, build, loaded>>

\* load_process_image takes a checkpoint, and new_user_root allocates and
\* fills the root.
load_process_image(image) ==
    /\ Idle /\ loads < MaxLoads
    /\ ImageAccepted(image)
    /\ loads' = loads + 1
    /\ LET root == AllocateFrame(allocator)
       IN  IF root.frame = None
           THEN /\ outcome' = [result |-> "no_root", still_mapped |-> {}]
                /\ UNCHANGED <<allocator, memory, build>>
           ELSE /\ allocator' = root.allocator
                /\ memory' = [memory EXCEPT ![root.frame] = TableBytes]
                /\ build' = [ image |-> image, checkpoint |-> allocator,
                              space |-> NewSpace(root.frame),
                              mapped |-> 0, stacked |-> 0, checked |-> FALSE, filled |-> 0 ]
                /\ UNCHANGED outcome
    /\ UNCHANGED <<boot_map, heap, loaded>>

\* What the load has mapped so far, and what it does when a step fails: it
\* unmaps all of it, and load_process_image restores the allocator.
Mapped ==
    SubSeq(ImagePages(build.image), 1, build.mapped) \o SubSeq(StackPlan, 1, build.stacked)
GiveBack_Nothing(checkpoint) == allocator   \* mutant: the frames are leaked
GiveBack(checkpoint) == checkpoint

Abandon(result, space) ==
    /\ outcome' = [result |-> result, still_mapped |-> {p \in Page : space.pages[p] # None}]
    /\ allocator' = GiveBack(build.checkpoint)
    /\ build' = None
    /\ UNCHANGED <<boot_map, heap, memory, loaded, loads>>
Fail(result) ==
    IF UnmapOk(build.space, Mapped)
    THEN Abandon(result, Unmap(build.space, Mapped))
    ELSE Abandon("rollback_failed", build.space)

\* One page: on success the tables and the page join the root.
MapNext(want, next_build) ==
    LET result == Mapping(build.space, allocator, want)
    IN  CASE result.panics ->
                /\ outcome' = [result |-> "panic", still_mapped |-> {}]
                /\ build' = None
                /\ UNCHANGED <<boot_map, allocator, heap, memory, loaded, loads>>
          [] ~ result.panics /\ result.ok ->
                /\ allocator' = result.allocator
                /\ build' = [next_build EXCEPT !.space = result.space]
                /\ memory' = [f \in Frame |-> IF f = result.new_table THEN TableBytes ELSE memory[f]]
                /\ UNCHANGED <<boot_map, heap, loaded, outcome, loads>>
          [] OTHER -> Fail(IF result.refused THEN "map_refused" ELSE "no_frame")

\* An iteration of map_load_plan.
map_image_page ==
    /\ build # None
    /\ build.mapped < Len(ImagePages(build.image))
    /\ IF build.mapped = MaxMappedPages
       THEN Fail("too_many_pages")
       ELSE MapNext(ImagePages(build.image)[build.mapped + 1],
                    [build EXCEPT !.mapped = @ + 1])

\* An iteration of the stack loop of build_address_space.
map_stack_page ==
    /\ build # None
    /\ build.mapped = Len(ImagePages(build.image))
    /\ build.stacked < StackPages
    /\ MapNext(StackPlan[build.stacked + 1], [build EXCEPT !.stacked = @ + 1])

\* build_address_space asks the mapper about the entry and the stack's top.
EntryAccess(space, image) == PageAccess(space, PageOf(image.entry))
StackAccess(space) == PageAccess(space, PageOf(StackTop * FrameSize - 1))
AccessOk(space, image) ==
    /\ EntryAccess(space, image).mapped /\ EntryAccess(space, image).executable
    /\ StackAccess(space).mapped /\ StackAccess(space).writable
    /\ ~ StackAccess(space).executable

check_access ==
    /\ build # None /\ ~ build.checked
    /\ build.mapped = Len(ImagePages(build.image)) /\ build.stacked = StackPages
    /\ IF AccessOk(build.space, build.image)
       THEN /\ build' = [build EXCEPT !.checked = TRUE]
            /\ UNCHANGED <<boot_map, allocator, heap, memory, loaded, outcome, loads>>
       ELSE Fail("access")

\* A segment of populate_image; all its pages are mapped.
populate_segment ==
    /\ build # None /\ build.checked
    /\ build.filled < Len(build.image.segments)
    /\ \A p \in Span(build.image.segments[build.filled + 1]) : build.space.pages[p] # None
    /\ memory' = Populated(build.image, build.filled + 1, build.space)
    /\ build' = [build EXCEPT !.filled = @ + 1]
    /\ UNCHANGED <<boot_map, allocator, heap, loaded, outcome, loads>>

\* UserLaunchPlan::from_populated.
LaunchOk(space, image) ==
    /\ \E i \in DOMAIN ImagePages(image) : ImagePages(image)[i].page = PageOf(image.entry)
    /\ EntryAccess(space, image).executable
    /\ \E i \in DOMAIN StackPlan : StackTop = StackPlan[i].page + 1
    /\ StackAccess(space).writable /\ ~ StackAccess(space).executable

\* The stack is cleared, the load succeeds, and kernel_main plans the launch.
populate_stack ==
    /\ build # None /\ build.checked
    /\ build.filled = Len(build.image.segments)
    /\ memory' = [f \in Frame |->
            IF \E i \in DOMAIN StackPlan : build.space.pages[StackPlan[i].page].frame = f
            THEN Zeroed ELSE memory[f]]
    /\ loaded' = Append(loaded, [image |-> build.image, space |-> build.space])
    /\ outcome' = [ result |-> IF LaunchOk(build.space, build.image) THEN "launched" ELSE "not_launched",
                    still_mapped |-> {} ]
    /\ build' = None
    /\ UNCHANGED <<boot_map, allocator, heap, loads>>

\* kernel_main, or the panic handler, spins.
spin ==
    /\ (Idle /\ loads = MaxLoads) \/ outcome.result = "panic"
    /\ UNCHANGED vars

Next ==
    \/ heap_init
    \/ \E image \in Images : reject_image(image) \/ load_process_image(image)
    \/ map_image_page
    \/ map_stack_page
    \/ check_access
    \/ populate_segment
    \/ populate_stack
    \/ spin

Spec == Init /\ [][Next]_vars

(***************************************************************************)
(* Properties.                                                             *)
(***************************************************************************)

\* Frames that are in use have one use.  The heap, and the root, the tables
\* and the pages of every loaded image and of the load under way are all
\* different frames, although a failed load's frames are given out again.
Spaces == {loaded[i].space : i \in DOMAIN loaded}
              \cup (IF build = None THEN {} ELSE {build.space})
Uses ==
    {<<"heap", f>> : f \in IF heap = None THEN {} ELSE heap}
    \cup {<<"root", s.root>> : s \in Spaces}
    \cup UNION {{<<"table", s.tables[t].frame, s.root, t>> :
                    t \in {u \in Table : s.tables[u] # None}} : s \in Spaces}
    \cup UNION {{<<"page", s.pages[p].frame, s.root, p>> :
                    p \in {q \in Page : s.pages[q] # None}} : s \in Spaces}
FramesExclusive == \A u, v \in Uses : u # v => u[2] # v[2]

\* A load that fails leaves nothing behind.  Its root maps no user page any more,
\* and no frame leaks: each one the bootloader reported is in use or still to be
\* given out, whatever loads have failed.
Ahead == UNION {Station(allocator, i).next_address .. Station(allocator, i).current_end - 1 :
                    i \in Stations(allocator)}
FailedLoadLeavesNothing ==
    /\ outcome.still_mapped = {}
    /\ heap \notin {None, {}} /\ outcome.result # "panic" =>
        UsableBytes(boot_map) \cap Frame \subseteq {u[2] : u \in Uses} \cup Ahead

\* "Clear the entire mapped page before writing segment bytes so prefix/suffix
\* padding and BSS cannot expose stale physical-frame contents" (populate.rs):
\* each page of a loaded image holds exactly the bytes its segments put there,
\* zeroes otherwise, and the stack is zero; later loads do not change it.
Expected(image, page) ==
    [o \in Offset |->
        LET into(i) == page * FrameSize + o - image.segments[i].start
            here == {i \in DOMAIN image.segments : into(i) \in 0 .. image.segments[i].file - 1}
        IN  IF here = {} THEN <<"zero">>
            ELSE <<"file", image.name, Min(here), into(Min(here))>>]
BytesExact ==
    \A i \in DOMAIN loaded : \A p \in Page :
        loaded[i].space.pages[p] # None =>
            memory[loaded[i].space.pages[p].frame] = Expected(loaded[i].image, p)

\* No root, finished or not, maps a page both writable and executable, and
\* both guard pages stay unmapped: the one the image is checked against and
\* the one below the stack that is really mapped, which differ.  The entry of
\* a loaded image is a byte of an executable segment, although parse only asks
\* for some segment around it, and LoadPlan for an executable one on its page.
LayoutHolds ==
    /\ \A s \in Spaces :
        /\ s.pages[LayoutStack - 1] = None
        /\ s.pages[StackTop - StackPages - 1] = None
        /\ \A p \in Page : s.pages[p] # None => ~ (s.pages[p].writable /\ s.pages[p].executable)
    /\ \A i \in DOMAIN loaded : \E j \in DOMAIN loaded[i].image.segments :
        /\ loaded[i].image.segments[j].executable
        /\ loaded[i].image.entry \in Extent(loaded[i].image.segments[j])

\* An image that parse and LoadPlan accept fails to load only for want of
\* frames or of room in the page list: the later checks of the mapper, of
\* build_address_space and of UserLaunchPlan never refuse it.
AcceptedImagesLaunch ==
    outcome.result \notin {"map_refused", "access", "rollback_failed", "not_launched"}

\* "X11-OS: userspace address space populated" (.github/workflows/kernel.yml),
\* and no panic, is what booting with the x86_64 mapper shows.
LoadDoesNotPanic == outcome.result # "panic"
===============================================================================
