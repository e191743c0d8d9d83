SPECIFICATION Spec
CONSTANTS
  None = None
  FrameSize = 2
  AddressEnd = 44
  UserSpace = 1
  KernelSpace = 12
  ImageBase = 2
  LayoutStack = 7
  LayoutStackPages = 1
  StackTop = 11
  StackPages = 2
  CanonicalEnd = 6
  TablePages = 6
  MaxMappedPages = 3
  HeapFrames = 2
  MaxLoads = 1
  Images <- Good
  MemoryMaps <- Maps
INVARIANTS LoadDoesNotPanic
