SPECIFICATION Spec
CONSTANTS
  None = None
  NSlots = 1
  MaxGeneration = 2
  NProcesses = 2
  MaxProcessGeneration = 2
  AddressSpaces = {a1, a2}
INVARIANTS SlotsConsistent
PROPERTIES ImplementsLifecycle
