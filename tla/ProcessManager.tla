---------------------------- MODULE ProcessManager ----------------------------
(***************************************************************************)
(* The process registry under an arbitrary caller: every public method in  *)
(* every order, with every process id ever issued, stale ones included.    *)
(***************************************************************************)
EXTENDS ProcessOps

VARIABLES
    manager     \* the ProcessManager value

Init == manager = NewManager

IssuedProcess(m) == {p \in ProcessId : p.generation <= m.slots[p.index].generation}

register_ready(image) ==
    RegisterReadyOk(manager) /\ manager' = RegisterReady(manager, image)

spawn_ready(image, task, execution, address_space) ==
    manager' = SpawnReady(manager, image, task, execution, address_space)

attach_execution(p, task, execution, address_space) ==
    /\ AttachProcessOk(manager, p, task, execution, address_space)
    /\ manager' = AttachProcess(manager, p, task)

start(p) == StartOk(manager, p) /\ manager' = SetState(manager, p, "Running")

yield_to(p, successor) ==
    YieldOk(manager, p, successor) /\ manager' = YieldTo(manager, p, successor)

request_exit(p, exit_code) ==
    RequestExitOk(manager, p) /\ manager' = RequestExit(manager, p, exit_code)

exit(p) == RequestExitOk(manager, p) /\ manager' = RequestExit(manager, p, 0)

reap(p) == ReapOk(manager, p) /\ manager' = Reap(manager, p)

abort_ready(p) == AbortReadyOk(manager, p) /\ manager' = RemoveRegistered(manager, p)

Next ==
    \/ \E image \in AddressSpaces :
        \/ register_ready(image)
        \/ \E task, execution \in TaskId, space \in AddressSpaces :
            spawn_ready(image, task, execution, space)
    \/ \E p \in IssuedProcess(manager) :
        \/ \E task, execution \in TaskId, space \in AddressSpaces :
            attach_execution(p, task, execution, space)
        \/ start(p)
        \/ \E successor \in IssuedProcess(manager) : yield_to(p, successor)
        \/ \E c \in ExitCode : request_exit(p, c)
        \/ exit(p)
        \/ reap(p)
        \/ abort_ready(p)

Spec == Init /\ [][Next]_manager

(***************************************************************************)
(* Properties.                                                             *)
(***************************************************************************)

\* The type of the registry.
TypeOK == manager \in [slots : [ProcessIndex -> Slot], next_hint : ProcessIndex]

\* A free slot holds nothing but a generation, so that nothing of a process is
\* found by the next one; an occupied slot has an image; exactly the exited
\* processes have a code; and a running one has an execution binding, however it
\* came to run (start, or yield_to from another one) and whatever its slot was
\* used for before.
SlotsConsistent ==
    /\ TypeOK
    /\ \A i \in ProcessIndex :
        LET slot == manager.slots[i]
        IN  /\ slot.state = None => slot = EmptySlot(slot.generation)
            /\ slot.state # None => slot.image # None /\ slot.generation > 0
            /\ slot.exit_code # None <=> slot.state = "Exited"
            /\ slot.state = "Running" => slot.binding # None

\* The life an id leads as the slots show it: an id above its slot's
\* generation is not issued yet, one below it was removed.
Life(p) ==
    LET slot == manager.slots[p.index]
    IN  IF p.generation > slot.generation THEN "Unborn"
        ELSE IF p.generation < slot.generation \/ slot.state = None THEN "Gone"
        ELSE slot.state
CodeOf(p) ==
    IF Registered(manager, p) THEN manager.slots[p.index].exit_code ELSE None

Lifecycle ==
    INSTANCE ProcessLifecycle WITH
        Ids <- ProcessId, Codes <- ExitCode, NoCode <- None,
        life <- [p \in ProcessId |-> Life(p)],
        code <- [p \in ProcessId |-> CodeOf(p)]

\* The registry implements the life cycle: ids are never reused, an exit code
\* stays until the one reap of its process, and no method revives a process
\* ("State transitions are explicit and one-way", process/state.rs).
ImplementsLifecycle == Lifecycle!Spec
===============================================================================
