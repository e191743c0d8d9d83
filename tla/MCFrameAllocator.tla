--------------------------- MODULE MCFrameAllocator ---------------------------
EXTENDS FrameAllocator

\* Maps of two or three regions: unaligned bounds, regions without a whole
\* frame, adjacent ones, a malformed one, one that is not usable, one that
\* ends at the top of the address space.
Usable(start, end) == [start |-> start, end |-> end, usable |-> TRUE]
Reserved(start, end) == [start |-> start, end |-> end, usable |-> FALSE]
Maps == {
    <<Reserved(0, 4), Usable(4, 12), Usable(14, 20)>>,
    <<Usable(1, 6), Usable(9, 13), Usable(13, 18)>>,
    <<Usable(12, 17), Usable(0, 3), Usable(5, 6)>>,
    <<Usable(8, 5), Usable(0, 7), Usable(20, 23)>>,
    <<Usable(4, 6), Usable(6, 8), Usable(8, 12)>> }
===============================================================================
