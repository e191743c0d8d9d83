------------------------------ MODULE ProcessOps ------------------------------
(***************************************************************************)
(* The process registry of kernel/src/process/manager.rs as a value and    *)
(* its methods as operators on that value.                                 *)
(*                                                                         *)
(* A registry value m is a record                                          *)
(*   slots      index -> slot: generation, state, image, binding, code     *)
(*   next_hint  where register_ready starts to look for a free slot        *)
(*                                                                         *)
(* A process image is represented by its address space, which is all the   *)
(* registry reads of it, and a ProcessExecutionBinding by its task: its    *)
(* process is the slot, its execution handle is the task's and its address *)
(* space is the image's, or attach_execution would have refused it.        *)
(***************************************************************************)
EXTENDS SchedulerOps

CONSTANTS
    NProcesses,             \* MAX_PROCESSES
    MaxProcessGeneration,   \* u32::MAX, the last generation of a slot
    AddressSpaces           \* the address spaces images are built for

ProcessIndex == 0 .. NProcesses - 1
ProcessId == [index : ProcessIndex, generation : 1 .. MaxProcessGeneration]
ProcessState == {"Ready", "Running", "Exited"}
ExitCode == {0, 1}

ASSUME ProcessesAssumption == NProcesses \in Nat \ {0}
ASSUME ProcessGenerationAssumption == MaxProcessGeneration \in Nat \ {0}
ASSUME NoneIsNoState ==
    None \notin ProcessState /\ None \notin AddressSpaces /\ None \notin ExitCode

Slot ==
    [ generation : 0 .. MaxProcessGeneration,
      state      : ProcessState \cup {None},
      image      : AddressSpaces \cup {None},
      binding    : TaskId \cup {None},
      exit_code  : ExitCode \cup {None} ]

EmptySlot(generation) ==
    [ generation |-> generation, state |-> None, image |-> None,
      binding |-> None, exit_code |-> None ]

NewManager ==
    [slots |-> [i \in ProcessIndex |-> EmptySlot(0)], next_hint |-> 0]

\* slot and slot_mut: the generation must match, and the slot be occupied.
Registered(m, p) ==
    m.slots[p.index].generation = p.generation /\ m.slots[p.index].state # None
ProcessIn(m, p, state) == Registered(m, p) /\ m.slots[p.index].state = state
BindingOf(m, p) == m.slots[p.index].binding
ImageOf(m, p) == m.slots[p.index].image

SetState(m, p, state) == [m EXCEPT !.slots[p.index].state = state]

\* register_ready takes the first free slot from next_hint on, and fails when
\* that slot has no generation left.
FreeOffsets(m) ==
    {o \in ProcessIndex : m.slots[(m.next_hint + o) % NProcesses].state = None}
FirstFree(m) == (m.next_hint + Min(FreeOffsets(m))) % NProcesses
RegisterReadyOk(m) ==
    FreeOffsets(m) # {} /\ m.slots[FirstFree(m)].generation # MaxProcessGeneration
NextProcessId(m) ==
    LET i == FirstFree(m)
    IN  [index |-> i, generation |-> m.slots[i].generation + 1]
RegisterReady(m, image) ==
    LET p == NextProcessId(m)
        slot == [ generation |-> p.generation, state |-> "Ready", image |-> image,
                  binding |-> None, exit_code |-> None ]
    IN  [slots     |-> [m.slots EXCEPT ![p.index] = slot],
         next_hint |-> (p.index + 1) % NProcesses]

RemoveRegistered(m, p) ==
    [m EXCEPT !.slots[p.index] = EmptySlot(p.generation)]

AttachProcessOk(m, p, task, execution, address_space) ==
    /\ Registered(m, p)
    /\ BindingOf(m, p) = None
    /\ ImageOf(m, p) = address_space
    /\ execution = task
AttachProcess(m, p, task) == [m EXCEPT !.slots[p.index].binding = task]

\* spawn_ready: a process whose execution cannot be attached is removed again,
\* and its generation is spent.
SpawnReadyOk(m, image, task, execution, address_space) ==
    RegisterReadyOk(m)
        /\ AttachProcessOk(RegisterReady(m, image), NextProcessId(m), task, execution, address_space)
SpawnReady(m, image, task, execution, address_space) ==
    LET p == NextProcessId(m)
        registered == RegisterReady(m, image)
    IN  IF ~ RegisterReadyOk(m) THEN m
        ELSE IF AttachProcessOk(registered, p, task, execution, address_space)
        THEN AttachProcess(registered, p, task)
        ELSE RemoveRegistered(registered, p)

StartOk_Unbound(m, p) == ProcessIn(m, p, "Ready")   \* mutant: binding not checked
StartOk(m, p) == ProcessIn(m, p, "Ready") /\ BindingOf(m, p) # None

YieldOk(m, p, successor) ==
    /\ p # successor
    /\ ProcessIn(m, p, "Running")
    /\ ProcessIn(m, successor, "Ready")
    /\ BindingOf(m, p) # None /\ BindingOf(m, successor) # None
YieldTo(m, p, successor) == SetState(SetState(m, p, "Ready"), successor, "Running")

RequestExitOk_Again(m, p) == Registered(m, p)   \* mutant: exits twice
RequestExitOk(m, p) == ProcessIn(m, p, "Ready") \/ ProcessIn(m, p, "Running")
RequestExit(m, p, code) ==
    [m EXCEPT !.slots[p.index].state = "Exited", !.slots[p.index].exit_code = code]

ReapOk(m, p) ==
    /\ ProcessIn(m, p, "Exited")
    /\ ImageOf(m, p) # None
    /\ m.slots[p.index].exit_code # None
Reap(m, p) ==
    [slots     |-> [m.slots EXCEPT ![p.index] = EmptySlot(p.generation)],
     next_hint |-> p.index]

AbortReadyOk(m, p) == ProcessIn(m, p, "Ready")
===============================================================================
