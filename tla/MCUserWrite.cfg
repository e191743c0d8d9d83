SPECIFICATION Spec
CONSTANTS
  None = None
  PageSize = 4
  ChunkSize = 2
  UserStart = 4
  KernelStart = 16
  AddressEnd = 20
  PhysicalOffset = 0
  AddressSpaces <- Spaces
INVARIANTS EmittedIsPrefix 
