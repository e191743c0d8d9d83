SPECIFICATION Spec
CONSTANTS
  None = None
  FrameSize = 2
  AddressEnd = 24
  MaxCount = 2
  HeapFrames = 2
  Offsets = {0, 1, 4, 8}
  MemoryMaps <- Maps
INVARIANTS FramesExclusive GrantsAreUsable HeapIsExclusive NoFrameForgotten
