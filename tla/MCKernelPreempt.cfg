SPECIFICATION FairSpec
CONSTANTS
  None = None
  NSlots = 3
  MaxGeneration = 1
  MaxNow = 0
  Kinds = {"Kernel"}
  Clients = {"dispatch", "yield", "reschedule", "service", "disable", "sti"}
  SavedR12 = {TRUE}
INVARIANTS ResumesAtContinuation
 
