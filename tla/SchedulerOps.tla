----------------------------- MODULE SchedulerOps -----------------------------
(***************************************************************************)
(* The architecture-independent scheduler of kernel/src/scheduler as a     *)
(* value and its methods as operators on that value.                       *)
(*                                                                         *)
(* A scheduler value s is a record                                         *)
(*   tasks        slot -> task control block, or None                      *)
(*   generations  slot -> last generation issued for that slot             *)
(*   ready        the run queue                                            *)
(*   current      the task that owns the CPU, or None                      *)
(*                                                                         *)
(* The code's slot table is a Vec that grows by one slot when no slot can  *)
(* be reused.  Here it has NSlots slots from the start: a slot the Vec has *)
(* not grown to yet is None with generation 0.  Such slots lie after all   *)
(* the others, so "the first reusable slot, else a new one of generation   *)
(* 1" is the first slot that is None and not retired, one generation on.   *)
(* Priorities are stored by the code and read by nobody; they are left     *)
(* out.  An execution handle is a function of the task id (ExecutionHandle *)
(* ::for_task), so a task control block only records whether one is        *)
(* attached.                                                               *)
(***************************************************************************)
EXTENDS Integers, Sequences, FiniteSets, SequencesExt, FiniteSetsExt, Functions

CONSTANTS
    NSlots,         \* bound on the length of the slot table
    MaxGeneration,  \* u32::MAX, the generation at which a slot is retired
    None            \* Option::None

Index == 0 .. NSlots - 1
TaskId == [index : Index, generation : 1 .. MaxGeneration]

ASSUME SlotsAssumption == NSlots \in Nat \ {0}
ASSUME GenerationAssumption == MaxGeneration \in Nat \ {0}
ASSUME NoneAssumption == None \notin TaskId

TaskKind == {"Kernel", "Userspace"}
TaskState == {"Created", "Ready", "Running", "Blocked", "Exited"}
TaskControlBlock ==
    [id : TaskId, kind : TaskKind, state : TaskState, execution : BOOLEAN]

ASSUME NoneIsNoTask == None \notin TaskControlBlock

\* The state changes TaskControlBlock::transition accepts.
Transitions ==
    { <<"Created", "Ready">>, <<"Ready", "Running">>, <<"Running", "Ready">>,
      <<"Running", "Blocked">>, <<"Blocked", "Ready">>,
      <<"Running", "Exited">>, <<"Blocked", "Exited">> }

(***************************************************************************)
(* Queues.                                                                 *)
(***************************************************************************)

\* RunQueue::push and WaitQueue::enqueue: a queued task is not queued twice.
Push(q, id) == IF id \in Range(q) THEN q ELSE Append(q, id)

\* The subsequence of the elements of q that are members of S: what a loop
\* over q keeps when it skips, with `continue`, the elements outside S.
Positions(q, S) == {i \in DOMAIN q : q[i] \in S}
Rank(q, S, i) == Cardinality({j \in Positions(q, S) : j <= i})
Keep(q, S) ==
    [k \in 1 .. Cardinality(Positions(q, S)) |->
        q[CHOOSE i \in Positions(q, S) : Rank(q, S, i) = k]]

SleepEntry == [deadline : Nat, task : TaskId]

\* The derived order on (deadline, TaskId) tuples, TaskId being ordered by
\* index and then by generation.
IdBefore(a, b) ==
    a.index < b.index \/ (a.index = b.index /\ a.generation <= b.generation)
EntryBefore(d, e) ==
    d.deadline < e.deadline \/ (d.deadline = e.deadline /\ IdBefore(d.task, e.task))

Sleepers(q) == {q[i].task : i \in DOMAIN q}

\* slice::partition_point on the boundary between two parts of the queue.
InsertionPoint(q, e) ==
    CHOOSE n \in 0 .. Len(q) :
        /\ \A i \in 1 .. n : EntryBefore(q[i], e)
        /\ n < Len(q) => ~ EntryBefore(q[n + 1], e)

ExpiryPoint_Strict(q, now) ==   \* mutant: < for <=
    CHOOSE n \in 0 .. Len(q) :
        /\ \A i \in 1 .. n : q[i].deadline < now
        /\ n < Len(q) => q[n + 1].deadline >= now
ExpiryPoint(q, now) ==
    CHOOSE n \in 0 .. Len(q) :
        /\ \A i \in 1 .. n : q[i].deadline <= now
        /\ n < Len(q) => q[n + 1].deadline > now

\* SleepQueue::insert of an entry whose task is not queued.
InsertSleeper(q, e) ==
    LET n == InsertionPoint(q, e)
    IN  SubSeq(q, 1, n) \o <<e>> \o SubSeq(q, n + 1, Len(q))

\* SleepQueue::expire_until: the expired tasks in queue order, and the rest.
ExpiredTasks(q, now) ==
    [i \in 1 .. ExpiryPoint(q, now) |-> q[i].task]
UnexpiredEntries(q, now) == SubSeq(q, ExpiryPoint(q, now) + 1, Len(q))

\* SleepQueue::remove.
RemoveSleeper(q, id) ==
    IF id \in Sleepers(q)
    THEN RemoveAt(q, CHOOSE i \in DOMAIN q : q[i].task = id)
    ELSE q

(***************************************************************************)
(* Looking a task up by its full generational id, and moving it through    *)
(* its life cycle.                                                         *)
(***************************************************************************)

NewScheduler ==
    [ tasks       |-> [i \in Index |-> None],
      generations |-> [i \in Index |-> 0],
      ready       |-> <<>>,
      current     |-> None ]

\* The ids create_task has handed out.
Issued(s) == {id \in TaskId : id.generation <= s.generations[id.index]}

Live(s, id) == s.tasks[id.index] # None /\ s.tasks[id.index].id = id
InState(s, id, state) == Live(s, id) /\ s.tasks[id.index].state = state
KindOf(s, id) == s.tasks[id.index].kind
CanMove(s, id, state) ==
    Live(s, id) /\ <<s.tasks[id.index].state, state>> \in Transitions

\* TaskControlBlock::transition: no effect unless the change is a legal one.
Move(s, id, state) ==
    IF CanMove(s, id, state)
    THEN [s EXCEPT !.tasks[id.index].state = state]
    ELSE s
FreeSlot(s, i) == [s EXCEPT !.tasks[i] = None]
SetReady(s, q) == [s EXCEPT !.ready = q]
SetCurrent(s, c) == [s EXCEPT !.current = c]

\* A task becomes ready and joins the run queue.
Enqueue(s, id) == SetReady(Move(s, id, "Ready"), Push(s.ready, id))

(***************************************************************************)
(* The methods of Scheduler.  M_Ok is the condition under which method M   *)
(* returns Ok/true; a method with an error path after its first            *)
(* assignment spells out the state it leaves behind there.                 *)
(***************************************************************************)

ReusableSlots_Retired(s) ==   \* mutant: reuses a retired slot
    {i \in Index : s.tasks[i] = None}
ReusableSlots(s) ==
    {i \in Index : s.tasks[i] = None /\ s.generations[i] # MaxGeneration}
CanCreate(s) == ReusableSlots(s) # {}
NextTaskId_SameGeneration(s) ==   \* mutant: the generation is not advanced
    LET i == Min(ReusableSlots(s))
    IN  [index |-> i, generation |-> IF s.generations[i] = 0 THEN 1 ELSE s.generations[i]]
NextTaskId(s) ==
    LET i == Min(ReusableSlots(s))
    IN  [index |-> i, generation |-> s.generations[i] + 1]
CreateTask(s, kind) ==
    LET id == NextTaskId(s)
        block == [id |-> id, kind |-> kind, state |-> "Created", execution |-> FALSE]
    IN  [s EXCEPT !.tasks[id.index] = block,
                  !.generations[id.index] = id.generation]

AttachExecutionOk(s, id) == Live(s, id) /\ ~ s.tasks[id.index].execution
AttachExecution(s, id) ==
    IF AttachExecutionOk(s, id)
    THEN [s EXCEPT !.tasks[id.index].execution = TRUE]
    ELSE s

DestroyCreatedOk(s, id) ==
    InState(s, id, "Created") /\ s.tasks[id.index].execution
DestroyCreated_Leaks(s, id) == s   \* mutant: the rollback is forgotten
DestroyCreated(s, id) == IF DestroyCreatedOk(s, id) THEN FreeSlot(s, id.index) ELSE s

MakeReadyOk(s, id) == id \notin Range(s.ready) /\ CanMove(s, id, "Ready")
MakeReady(s, id) ==
    IF MakeReadyOk(s, id)
    THEN Enqueue(s, id)
    ELSE s

NextReady(s) == IF s.ready = <<>> THEN None ELSE Head(s.ready)

\* schedule_next gives the CPU of a running task back before it picks.
Requeue_NotQueued(s) ==   \* mutant: made ready, but not pushed
    IF s.current # None THEN Move(s, s.current, "Ready") ELSE s
Requeue_AtFront(s) ==   \* mutant: pushed at the wrong end
    IF s.current # None /\ InState(s, s.current, "Running")
    THEN SetReady(Move(s, s.current, "Ready"), <<s.current>> \o s.ready)
    ELSE s
Requeue(s) ==
    IF s.current # None /\ InState(s, s.current, "Running")
    THEN Enqueue(s, s.current)
    ELSE s
OnlyCurrentReady(s) == s.current # None /\ s.ready = <<s.current>>
PickNext(s) ==
    IF s.ready = <<>>
    THEN SetCurrent(s, None)
    ELSE LET next == Head(s.ready)
             popped == SetReady(s, Tail(s.ready))
         IN  IF CanMove(popped, next, "Running")
             THEN SetCurrent(Move(popped, next, "Running"), next)
             ELSE SetCurrent(popped, None)
ScheduleNext(s) ==
    LET requeued == Requeue(s)
    IN  IF OnlyCurrentReady(requeued)
        THEN Move(SetReady(requeued, <<>>), s.current, "Running")
        ELSE PickNext(requeued)
\* DispatchDecision::next of schedule_next (its previous is s.current).
Decision(s) ==
    IF OnlyCurrentReady(Requeue(s)) THEN None ELSE ScheduleNext(s).current

TerminateOk(s, successor) ==
    /\ s.current # None
    /\ s.current # successor
    /\ NextReady(s) = successor
    /\ InState(s, successor, "Ready")
    /\ InState(s, s.current, "Running")
TerminateCurrentTo_RemovesFirst(s, successor) ==   \* mutant: removes, then checks
    IF s.current = None
    THEN s
    ELSE LET removed == FreeSlot(s, s.current.index)
         IN  IF TerminateOk(s, successor)
             THEN SetCurrent(Move(SetReady(removed, Tail(s.ready)), successor, "Running"), successor)
             ELSE removed
\* The error returns that follow the removal of the current task leave the
\* scheduler as it is at that point.
TerminateCurrentTo(s, successor) ==
    IF ~ TerminateOk(s, successor)
    THEN s
    ELSE LET removed == FreeSlot(s, s.current.index)
             popped == SetReady(removed, Tail(removed.ready))
         IN  IF Head(removed.ready) = successor /\ CanMove(popped, successor, "Running")
             THEN SetCurrent(Move(popped, successor, "Running"), successor)
             ELSE popped

BlockOk(s) == s.current # None /\ CanMove(s, s.current, "Blocked")
Block_KeepsCurrent(s) ==   \* mutant: current is not cleared
    IF BlockOk(s) THEN Move(s, s.current, "Blocked") ELSE s
Block(s) == IF BlockOk(s) THEN SetCurrent(Move(s, s.current, "Blocked"), None) ELSE s

\* wake_one: the first waiter that is still a blocked task.
Wakeable(s, id) == InState(s, id, "Blocked")
WakeIndices(s, q) == {i \in DOMAIN q : Wakeable(s, q[i])}
Wake(s, q) ==
    IF WakeIndices(s, q) = {}
    THEN s
    ELSE Enqueue(s, q[Min(WakeIndices(s, q))])
AfterWake_DropsQueue(s, q) == <<>>   \* mutant: drains the queue for one wakeup
AfterWake(s, q) ==
    IF WakeIndices(s, q) = {}
    THEN <<>>
    ELSE LET n == Min(WakeIndices(s, q))
             rest == SubSeq(q, n + 1, Len(q))
         IN  IF q[n] \in Range(s.ready) THEN Push(rest, q[n]) ELSE rest

SleepOk(s, q) == s.current # None /\ s.current \notin Sleepers(q) /\ BlockOk(s)

\* expire_sleepers: every expired task that is still blocked becomes ready.
Expire(s, q, now) ==
    LET expired == ExpiredTasks(q, now)
        woken == {id \in Range(expired) : Wakeable(s, id)}
    IN  [s EXCEPT
          !.tasks = [i \in Index |->
              IF s.tasks[i] # None /\ s.tasks[i].id \in woken
              THEN [s.tasks[i] EXCEPT !.state = "Ready"] ELSE s.tasks[i]],
          !.ready = s.ready \o Keep(expired, woken \ Range(s.ready))]

ExitOk(s) == s.current # None /\ CanMove(s, s.current, "Exited")
Exit(s) == IF ExitOk(s) THEN SetCurrent(FreeSlot(s, s.current.index), None) ELSE s

(***************************************************************************)
(* What every scheduler value built by these methods satisfies.            *)
(***************************************************************************)

SchedulerValue ==
    [ tasks       : [Index -> TaskControlBlock \cup {None}],
      generations : [Index -> 0 .. MaxGeneration],
      ready       : Seq(TaskId),
      current     : TaskId \cup {None} ]

\* A slot holds the task that was issued last for it, never an exited one.
SlotsMatchIds(s) ==
    \A i \in Index :
        s.tasks[i] # None =>
            /\ s.tasks[i].id = [index |-> i, generation |-> s.generations[i]]
            /\ s.tasks[i].state # "Exited"

\* The run queue holds each ready task exactly once, and nothing else.
ReadyExact(s) ==
    /\ IsInjective(s.ready)
    /\ \A id \in TaskId : id \in Range(s.ready) <=> InState(s, id, "Ready")

\* At most one task runs, it is the recorded owner of the CPU, and the
\* owner is a live task that runs or was made ready again.
OwnerExact(s) ==
    /\ \A id \in TaskId : InState(s, id, "Running") => s.current = id
    /\ s.current # None =>
          InState(s, s.current, "Running") \/ InState(s, s.current, "Ready")

\* A sleep queue is ordered by deadline, then by task, and has no task twice.
SleepOrdered(q) ==
    \A i, j \in DOMAIN q : i < j => EntryBefore(q[i], q[j]) /\ q[i].task # q[j].task

===============================================================================
