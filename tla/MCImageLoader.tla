----------------------------- MODULE MCImageLoader ----------------------------
EXTENDS ImageLoader

Segment(start, file, size, flags) ==
    [ start |-> start, file |-> file, memory |-> size, in_file |-> TRUE,
      writable |-> flags \in {"RW", "RWX"}, executable |-> flags \in {"RX", "RWX"} ]
Image(name, entry, segments) ==
    [name |-> name, header |-> TRUE, entry |-> entry, segments |-> segments]

\* One page of code; code, data and BSS; segments inside their pages.
Good == {
    Image(1, 4, <<Segment(4, 2, 2, "RX")>>),
    Image(2, 4, <<Segment(4, 2, 2, "RX"), Segment(6, 1, 4, "RW")>>),
    Image(3, 7, <<Segment(9, 1, 1, "R"), Segment(7, 1, 1, "RX")>>) }
\* Too many pages for the page list.
Large == {Image(4, 4, <<Segment(4, 8, 8, "RX")>>)}
\* A page shared by two segments, with the entry in the first or the second;
\* the entry outside, or in data; W and X; below the base; over the guard.
Bad == {
    Image(5, 4, <<Segment(4, 1, 1, "RX"), Segment(5, 1, 1, "R")>>),
    Image(6, 5, <<Segment(4, 1, 1, "RX"), Segment(5, 1, 1, "R")>>),
    Image(7, 7, <<Segment(4, 3, 3, "RX")>>),
    Image(8, 6, <<Segment(4, 2, 2, "RX"), Segment(6, 2, 2, "RW")>>),
    Image(9, 4, <<Segment(4, 2, 2, "RWX")>>),
    Image(10, 2, <<Segment(2, 2, 2, "RX")>>),
    Image(11, 11, <<Segment(11, 1, 3, "RX")>>),
    Image(12, 12, <<Segment(12, 1, 1, "RX")>>),
    [Image(13, 4, <<Segment(4, 2, 2, "RX")>>) EXCEPT !.header = FALSE] }
AllImages == Good \cup Large \cup Bad

\* Memory that runs out at every step of the first or of the second load.
Maps == {<<[start |-> 0, end |-> 2 * n, usable |-> TRUE]>> : n \in 1 .. 20}
===============================================================================
