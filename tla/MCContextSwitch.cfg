SPECIFICATION Spec
CONSTANTS
  None = None
  NTasks = 2
  StackBytes = 256
  Depths = {2, 3}
INVARIANTS SwitchReturnsToCaller
