SPECIFICATION Spec
CONSTANTS
  None = None
  NSlots = 2
  MaxGeneration = 2
  MaxNow = 1
  Kinds = {"Kernel", "Userspace"}
  Clients = {"dispatch", "yield", "reschedule", "sleep", "exit", "service", "disable", "sti"}
  SavedR12 = {TRUE, FALSE}
INVARIANTS OwnersAgree RegistryExact
