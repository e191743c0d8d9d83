------------------------------ MODULE Scheduler -------------------------------
(***************************************************************************)
(* The scheduler together with the wait queues, the sleep queue and the    *)
(* clock its callers pass to it, under an arbitrary caller: every public   *)
(* method, in every order, with every task id ever issued (stale ones      *)
(* included).  One action is one method call; the code runs them one at a  *)
(* time on one CPU.                                                        *)
(***************************************************************************)
EXTENDS SchedulerOps

CONSTANTS
    WaitQueues,     \* the wait queues the callers own
    MaxNow,         \* bound on the clock and on the deadlines asked for
    MaxTasks,       \* bound on the tasks created
    Kinds           \* the kinds of task the callers create

ASSUME MaxNowAssumption == MaxNow \in Nat
ASSUME KindsAssumption == Kinds \subseteq TaskKind

VARIABLES
    sched,      \* the Scheduler value
    waiters,    \* wait queue -> WaitQueue contents
    sleepers,   \* SleepQueue entries
    now,        \* the tick count passed to expire_sleepers
    parked      \* history: tasks blocked by block_current and blocked since

vars == <<sched, waiters, sleepers, now, parked>>

Init ==
    /\ sched = NewScheduler
    /\ waiters = [w \in WaitQueues |-> <<>>]
    /\ sleepers = <<>>
    /\ now = 0
    /\ parked = {}

StillBlocked(ids) == {id \in ids : InState(sched', id, "Blocked")}

\* A method that leaves the wait and sleep queues alone.
Call(s) ==
    /\ sched' = s
    /\ parked' = StillBlocked(parked)
    /\ UNCHANGED <<waiters, sleepers, now>>

create_task(kind) ==
    /\ CanCreate(sched) /\ Cardinality(Issued(sched)) < MaxTasks
    /\ Call(CreateTask(sched, kind))
attach_execution(id) == Call(AttachExecution(sched, id))
destroy_created(id) == Call(DestroyCreated(sched, id))
make_ready(id) == Call(MakeReady(sched, id))
schedule_next == Call(ScheduleNext(sched))
terminate_current_to(id) == Call(TerminateCurrentTo(sched, id))
exit_current == Call(Exit(sched))

block_current ==
    /\ sched' = Block(sched)
    /\ parked' = StillBlocked(parked \cup ({sched.current} \ {None}))
    /\ UNCHANGED <<waiters, sleepers, now>>

block_current_on(w) ==
    /\ sched.current \notin Range(waiters[w])
    /\ BlockOk(sched)
    /\ sched' = Block(sched)
    /\ waiters' = [waiters EXCEPT ![w] = Push(@, sched.current)]
    /\ parked' = StillBlocked(parked)
    /\ UNCHANGED <<sleepers, now>>

wake_one(w) ==
    /\ sched' = Wake(sched, waiters[w])
    /\ waiters' = [waiters EXCEPT ![w] = AfterWake(sched, @)]
    /\ parked' = StillBlocked(parked)
    /\ UNCHANGED <<sleepers, now>>

sleep_current_until(deadline) ==
    /\ SleepOk(sched, sleepers)
    /\ sched' = Block(sched)
    /\ sleepers' = InsertSleeper(sleepers, [deadline |-> deadline, task |-> sched.current])
    /\ parked' = StillBlocked(parked)
    /\ UNCHANGED <<waiters, now>>

expire_sleepers ==
    /\ sched' = Expire(sched, sleepers, now)
    /\ sleepers' = UnexpiredEntries(sleepers, now)
    /\ parked' = StillBlocked(parked)
    /\ UNCHANGED <<waiters, now>>

\* The periodic timer interrupt advances the tick count.
tick ==
    /\ now < MaxNow
    /\ now' = now + 1
    /\ UNCHANGED <<sched, waiters, sleepers, parked>>

Next ==
    \/ \E kind \in Kinds : create_task(kind)
    \/ \E id \in Issued(sched) :
        \/ attach_execution(id)
        \/ destroy_created(id)
        \/ make_ready(id)
        \/ terminate_current_to(id)
    \/ schedule_next
    \/ exit_current
    \/ block_current
    \/ \E w \in WaitQueues : block_current_on(w) \/ wake_one(w)
    \/ \E deadline \in 0 .. MaxNow : sleep_current_until(deadline)
    \/ expire_sleepers
    \/ tick

Spec == Init /\ [][Next]_vars

\* The periodic timer reschedules (KernelRuntime::handle_timer_preemption).
FairSpec == Spec /\ WF_vars(schedule_next)

(***************************************************************************)
(* Properties.                                                             *)
(***************************************************************************)

\* Every variable has its type (the fields of Scheduler, WaitQueue and
\* SleepQueue), and a slot holds the task issued last for it.
TypeOK ==
    /\ sched \in SchedulerValue
    /\ SlotsMatchIds(sched)
    /\ waiters \in [WaitQueues -> Seq(TaskId)]
    /\ sleepers \in Seq(SleepEntry)
    /\ now \in 0 .. MaxNow
    /\ parked \subseteq TaskId

\* Across make_ready, schedule_next, wake_one, expire_sleepers and
\* terminate_current_to the run queue holds each task in state Ready exactly
\* once and no other task: none is lost, duplicated or dispatched when dead.
ReadyQueueExact == ReadyExact(sched)

\* At most one task is Running, it is Scheduler::current, and current never
\* names a dead, blocked or merely created task.
CpuOwnerExact == OwnerExact(sched)

\* No wakeup is lost: a blocked task is still in the queue it blocked on (or
\* in another that will wake it), or was blocked by block_current, which
\* leaves the wakeup to a later make_ready.
BlockedTaskIsQueued ==
    \A id \in TaskId :
        InState(sched, id, "Blocked") =>
            \/ id \in parked
            \/ id \in Sleepers(sleepers)
            \/ \E w \in WaitQueues : id \in Range(waiters[w])

\* SleepQueue::insert keeps the entries ordered by (deadline, task) and holds
\* no task twice, although it finds its place by binary search.
SleepQueueOrdered == SleepOrdered(sleepers)

\* terminate_current_to commits all of its changes or none ("No partial
\* scheduler state is committed if either identity check fails").
TerminateIsAtomic ==
    \A id \in Issued(sched) :
        LET t == TerminateCurrentTo(sched, id)
        IN  \/ t = sched
            \/ /\ t.current = id /\ InState(t, id, "Running")
               /\ ~ Live(t, sched.current)
               /\ Range(t.ready) = Range(sched.ready) \ {id}

\* A task id that stopped being live never becomes live again, whatever slots
\* are reused and however close their generations are to u32::MAX.
DeadIdsStayDead ==
    [][\A id \in Issued(sched) : ~ Live(sched, id) => ~ Live(sched', id)]_vars

\* expire_sleepers leaves no entry behind whose deadline has passed, although
\* it only cuts a prefix off the queue.
ExpiryIsComplete ==
    [][expire_sleepers => \A i \in DOMAIN sleepers' : sleepers'[i].deadline > now]_vars

\* Round robin starves nobody: a ready task runs, as long as schedule_next
\* keeps being called, whatever else is called in between.
ReadyTaskRuns ==
    \A i \in Index :
        (sched.tasks[i] # None /\ sched.tasks[i].state = "Ready") ~>
        (sched.tasks[i] # None /\ sched.tasks[i].state = "Running")

===============================================================================
