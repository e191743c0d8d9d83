\* Four tasks and three process slots: a spawn finds the table full, kernel
\* tasks stand in the queue, and a process exits beside two others.
SPECIFICATION FairSpec
CONSTANTS
    None = None
    NSlots = 4
    MaxGeneration = 1
    NProcesses = 3
    MaxProcessGeneration = 1
    AddressSpaces = {a1, a2}
    Kinds = {"Userspace", "Kernel"}
    Calls = {"write", "yield", "exit"}
INVARIANTS OwnersAgree RegistriesExact CommitCannotFail ResumesAtContinuation
PROPERTIES ReadyProcessRuns
