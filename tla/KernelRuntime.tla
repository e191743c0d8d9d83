---------------------------- MODULE KernelRuntime -----------------------------
(***************************************************************************)
(* KernelRuntime and KernelTaskManager on one CPU: kernel threads that     *)
(* spawn, dispatch, yield, sleep and exit, and the timer interrupt that    *)
(* preempts them.                                                          *)
(*                                                                         *)
(* Besides the program's own state the model follows the machine.  A       *)
(* thread is a task, or None for kernel_main.  cont says where the place a *)
(* thread last stopped at is kept: on the CPU, in the voluntary Context or *)
(* in the interrupted snapshot of its execution binding, or in             *)
(* boot_context.  Resuming a thread from anywhere else runs an old         *)
(* continuation of it.                                                     *)
(*                                                                         *)
(* A method called by a thread is one step: dispatch relies on its caller  *)
(* to exclude interrupts (kernel_task.rs, SAFETY comment of                *)
(* prepare_dispatch).  A timer interrupt is one step too, because the gate *)
(* it enters through masks interrupts.                                     *)
(***************************************************************************)
EXTENDS SchedulerOps

CONSTANTS
    Kinds,      \* the kinds of task that are spawned
    Clients,    \* what thread bodies may do, besides running
    SavedR12,   \* what a voluntary switch may find in r12: is it the task's
                \* activation pointer?
    MaxNow      \* bound on the clock and on the deadlines asked for

ASSUME MaxNowAssumption == MaxNow \in Nat
ASSUME KindsAssumption == Kinds \subseteq TaskKind
ASSUME R12Assumption == SavedR12 \subseteq BOOLEAN /\ SavedR12 # {}

VARIABLES
    sched,          \* KernelTaskManager::scheduler
    sleepers,       \* KernelTaskManager::sleepers
    executions,     \* KernelTaskManager::executions
    reschedule,     \* KernelRuntime::reschedule is pending
    disabled,       \* a PreemptionDisableGuard is alive
    cpu,            \* CpuLocalState: current_task, and the task of interrupted
    timer,          \* the tick count and TIMER_PENDING of idt.rs
    machine,        \* the thread on the CPU, its interrupt flag, and whether
                    \* it was resumed where it had stopped
    cont            \* history: where each thread's last continuation is

vars == <<sched, sleepers, executions, reschedule, disabled, cpu, timer, machine, cont>>

Thread == TaskId \cup {None}
\* X86ExecutionBinding: does validate find the activation pointer in
\* context.r12, and is there an interrupted snapshot?
Binding == [r12 : BOOLEAN, interrupted : BOOLEAN]

ASSUME NoneIsNoBinding == None \notin Binding

Init ==
    /\ sched = NewScheduler
    /\ sleepers = <<>>
    /\ executions = [id \in TaskId |-> None]
    /\ reschedule = FALSE
    /\ disabled = FALSE
    /\ cpu = [current_task |-> None, interrupted |-> None]
    /\ timer = [ticks |-> 0, pending |-> FALSE]
    /\ machine \in [thread : {None}, interrupts : BOOLEAN, resumed : {TRUE}]
    /\ cont = [t \in Thread |-> "cpu"]

(***************************************************************************)
(* Parts of the methods.                                                   *)
(***************************************************************************)

\* set_current_task on a switch, with snap left in the interrupted slot.
SwitchedCpu_Forgotten(next, snap) == [cpu EXCEPT !.interrupted = snap]   \* mutant
SwitchedCpu(next, snap) == [current_task |-> next, interrupted |-> snap]

\* discard_interrupted_state, for the snapshot an interrupt captured.
Discarded == [cpu EXCEPT !.interrupted = None]

\* A new binding starts in the trampoline, with the activation record in r12.
NewBinding == [r12 |-> TRUE, interrupted |-> FALSE]

\* ExecutionRegistry::insert, remove, install_interrupted on the binding, and
\* take_kernel_preempt_state.
InsertExecution(ex, id) == [ex EXCEPT ![id] = NewBinding]
RemoveExecution_Leaks(ex, id) == ex   \* mutant: the binding stays
RemoveExecution(ex, id) == [ex EXCEPT ![id] = None]
InstallSnapshot(ex, id) == [ex EXCEPT ![id].interrupted = TRUE]
TakeSnapshot(ex, id) == [ex EXCEPT ![id].interrupted = FALSE]

\* commit_interrupted_state, with snap in cpu_local's interrupted slot.
CommitOk(snap) ==
    IF cpu.current_task = None
    THEN snap = None
    ELSE /\ executions[cpu.current_task] # None
         /\ ~ executions[cpu.current_task].interrupted
         /\ snap \in {None, cpu.current_task}
Commit(snap) ==
    IF CommitOk(snap) /\ snap # None
    THEN InstallSnapshot(executions, snap)
    ELSE executions

\* ExecutionRegistry::preemption_plan of a task that has a binding.
PreemptionPlan(ex, id) == IF ex[id].interrupted THEN "IretKernel" ELSE "ReturnToContext"

\* dispatch::validate_transition.
ValidTransition(ex, next) == ex[next] # None /\ ex[next].r12

\* KernelTaskManager::prepare_dispatch: the scheduler it leaves behind, and
\* whether it hands the CPU to another task.
WouldSwitch(s) == NextReady(s) \notin {None, s.current}
PrepareDispatch(s, ex) ==
    IF WouldSwitch(s) /\ ValidTransition(ex, NextReady(s)) THEN ScheduleNext(s) ELSE s
PrepareDispatchOk(s, ex) ==
    /\ WouldSwitch(s)
    /\ ValidTransition(ex, NextReady(s))
    /\ Decision(s) = NextReady(s)

IsUserspace(s, id) == KindOf(s, id) = "Userspace"

\* dispatch_once refuses before it touches anything.
RequiresIret_Never(s, ex) == FALSE   \* mutant: a stale Context is switched to
RequiresIret(s, ex) ==
    LET candidate == NextReady(s)
    IN  candidate # None /\ ~ IsUserspace(s, candidate)
            /\ ex[candidate] # None /\ PreemptionPlan(ex, candidate) = "IretKernel"
RequiresSystemRuntime(s) == NextReady(s) # None /\ IsUserspace(s, NextReady(s))
DispatchRefused(s, ex) == RequiresIret(s, ex) \/ RequiresSystemRuntime(s)

\* The thread on the CPU stops with its continuation in one place, and next
\* resumes from another.
Transfer(saved_in, next, loaded_from, interrupts) ==
    LET stopped == [cont EXCEPT ![machine.thread] = saved_in]
    IN  /\ cont' = [stopped EXCEPT ![next] = "cpu"]
        /\ machine' = [ thread     |-> next,
                        interrupts |-> interrupts,
                        resumed    |-> stopped[next] = loaded_from ]

\* yield_switch::activate_first and switch leave the interrupt flag alone.  The
\* second saves r12 with the other callee-saved registers.
ActivateFirst(ex, next) ==
    /\ executions' = ex
    /\ Transfer("boot_context", next, "context", machine.interrupts)
SwitchContexts(ex, next) ==
    /\ \E r12 \in SavedR12 : executions' = [ex EXCEPT ![sched.current].r12 = r12]
    /\ Transfer("context", next, "context", machine.interrupts)

\* preempt_return: iretq restores the interrupt flag, ret does not.
ReturnToKernel(ex, next) ==
    /\ executions' = TakeSnapshot(ex, next)
    /\ Transfer("interrupted", next, "interrupted", TRUE)
ReturnToContext(ex, next) ==
    /\ executions' = ex
    /\ Transfer("interrupted", next, "context", FALSE)

\* dispatch_once after commit_interrupted_state left the registry ex and the
\* cpu_local slot snap.
DispatchOnce(ex, snap) ==
    IF DispatchRefused(sched, ex) \/ ~ PrepareDispatchOk(sched, ex)
    THEN /\ sched' = IF DispatchRefused(sched, ex) THEN sched ELSE PrepareDispatch(sched, ex)
         /\ executions' = ex
         /\ cpu' = [cpu EXCEPT !.interrupted = snap]
         /\ UNCHANGED <<machine, cont>>
    ELSE LET next == NextReady(sched)
         IN  /\ sched' = PrepareDispatch(sched, ex)
             /\ cpu' = SwitchedCpu(next, snap)
             /\ IF sched.current = None
                THEN ActivateFirst(ex, next) ELSE SwitchContexts(ex, next)

(***************************************************************************)
(* What a thread does.                                                     *)
(***************************************************************************)

\* Only the holder of the guard runs while preemption is disabled, and the
\* guard borrows the runtime: no other method can be called meanwhile.
MayCall(op) == op \in Clients /\ ~ disabled /\ machine.thread # None

\* KernelTaskManager::spawn, and the part of SystemRuntime::spawn_user_ready
\* that shares this runtime.  The stack allocation in executions.insert may
\* fail, and the created task is destroyed again.
spawn(kind) ==
    /\ CanCreate(sched) /\ ~ disabled
    /\ LET id == NextTaskId(sched)
           attached == AttachExecution(CreateTask(sched, kind), id)
       IN  \/ /\ sched' = MakeReady(attached, id)
              /\ executions' = InsertExecution(executions, id)
              /\ cont' = [cont EXCEPT ![id] = "context"]
           \/ /\ sched' = DestroyCreated(attached, id)
              /\ UNCHANGED <<executions, cont>>
    /\ UNCHANGED <<sleepers, reschedule, disabled, cpu, timer, machine>>

\* kernel_main enters the first task with dispatch_once.
dispatch_once ==
    /\ machine.thread = None \/ MayCall("dispatch")
    /\ DispatchOnce(executions, cpu.interrupted)
    /\ UNCHANGED <<sleepers, reschedule, disabled, timer>>

yield_current ==
    /\ MayCall("yield")
    /\ reschedule' = TRUE
    /\ DispatchOnce(executions, cpu.interrupted)
    /\ UNCHANGED <<sleepers, disabled, timer>>

safe_reschedule_point ==
    /\ MayCall("reschedule")
    /\ reschedule
    /\ IF CommitOk(cpu.interrupted)
       THEN /\ DispatchOnce(Commit(cpu.interrupted), None)
            /\ reschedule' = RequiresIret(sched, Commit(cpu.interrupted))
       ELSE /\ reschedule' = FALSE
            /\ UNCHANGED <<sched, executions, cpu, machine, cont>>
    /\ UNCHANGED <<sleepers, disabled, timer>>

sleep_current_until(deadline) ==
    /\ MayCall("sleep")
    /\ SleepOk(sched, sleepers)
    /\ sched' = Block(sched)
    /\ sleepers' = InsertSleeper(sleepers, [deadline |-> deadline, task |-> sched.current])
    /\ UNCHANGED <<executions, reschedule, disabled, cpu, timer, machine, cont>>

\* KernelTaskManager::exit_current.  The thread still runs when it returns.
exit_current ==
    /\ MayCall("exit")
    /\ ExitOk(sched)
    /\ sched' = Exit(sched)
    /\ sleepers' = RemoveSleeper(sleepers, sched.current)
    /\ executions' = RemoveExecution(executions, sched.current)
    /\ UNCHANGED <<reschedule, disabled, cpu, timer, machine, cont>>

ServiceTimer ==
    /\ MayCall("service")
    /\ sched' = Expire(sched, sleepers, timer.ticks)
    /\ sleepers' = UnexpiredEntries(sleepers, timer.ticks)
    /\ reschedule' = TRUE
    /\ UNCHANGED <<executions, disabled, cpu, machine, cont>>
service_timer == ServiceTimer /\ UNCHANGED timer
service_pending_timer ==
    /\ timer.pending
    /\ ServiceTimer
    /\ timer' = [timer EXCEPT !.pending = FALSE]

preemption_disable ==
    /\ MayCall("disable")
    /\ disabled' = TRUE
    /\ UNCHANGED <<sched, sleepers, executions, reschedule, cpu, timer, machine, cont>>
drop_guard ==
    /\ disabled
    /\ disabled' = FALSE
    /\ UNCHANGED <<sched, sleepers, executions, reschedule, cpu, timer, machine, cont>>

\* A thread body executes sti.
enable_interrupts ==
    /\ "sti" \in Clients
    /\ machine.thread # None /\ ~ machine.interrupts
    /\ machine' = [machine EXCEPT !.interrupts = TRUE]
    /\ UNCHANGED <<sched, sleepers, executions, reschedule, disabled, cpu, timer, cont>>

(***************************************************************************)
(* The timer interrupt: timer_entry_rust, record_timer_interrupt and       *)
(* handle_timer_preemption.  The clock stops at MaxNow, when it has passed *)
(* every deadline.                                                         *)
(***************************************************************************)

Ticked == Min({timer.ticks + 1, MaxNow})
TimerPending(pending) == timer' = [ticks |-> Ticked, pending |-> pending]
Captured == machine.interrupts /\ cpu.current_task # None /\ cpu.interrupted = None
Resume == UNCHANGED <<machine, cont>>

timer_not_captured ==
    /\ machine.interrupts
    /\ ~ Captured
    /\ TimerPending(TRUE)
    /\ Resume
    /\ UNCHANGED <<sched, sleepers, executions, reschedule, disabled, cpu>>

timer_while_disabled ==
    /\ Captured
    /\ disabled
    /\ TimerPending(FALSE)
    /\ cpu' = Discarded
    /\ reschedule' = TRUE
    /\ Resume
    /\ UNCHANGED <<sched, sleepers, executions, disabled>>

\* The sleepers whose deadline has come are made ready before the decision.
Expired == Expire(sched, sleepers, Ticked)
Decides ==
    /\ Captured
    /\ ~ disabled
    /\ TimerPending(FALSE)
    /\ sleepers' = UnexpiredEntries(sleepers, Ticked)
    /\ UNCHANGED disabled

\* Nobody else is ready: the snapshot is discarded.
timer_resumes_current ==
    /\ Decides
    /\ ~ WouldSwitch(Expired) /\ ~ RequiresSystemRuntime(Expired)
    /\ sched' = Expired
    /\ reschedule' = (reschedule \/ NextReady(Expired) = None)
    /\ cpu' = Discarded
    /\ Resume
    /\ UNCHANGED executions

\* The error returns; the interrupted thread goes on.  A snapshot that was
\* committed stays in the binding, one that was not stays in cpu_local.
timer_refuses ==
    /\ Decides
    /\ WouldSwitch(Expired) \/ RequiresSystemRuntime(Expired)
    /\ LET candidate == NextReady(Expired)
           planned == ~ IsUserspace(Expired, candidate) /\ executions[candidate] # None
           snap == cpu.current_task
           committed == planned /\ CommitOk(snap)
           ex == IF committed THEN Commit(snap) ELSE executions
       IN  /\ ~ (committed /\ PrepareDispatchOk(Expired, ex))
           /\ sched' = IF committed THEN PrepareDispatch(Expired, ex) ELSE Expired
           /\ executions' = ex
           /\ cpu' = [cpu EXCEPT !.interrupted =
                        IF ~ committed /\ (planned \/ IsUserspace(Expired, candidate))
                        THEN snap ELSE None]
    /\ reschedule' = TRUE
    /\ Resume

\* The candidate is resumed from its snapshot or from its Context; which of the
\* two is decided before the current task's snapshot is committed.
timer_switches ==
    /\ Decides
    /\ WouldSwitch(Expired)
    /\ LET candidate == NextReady(Expired)
           snap == cpu.current_task
           ex == Commit(snap)
       IN  /\ ~ IsUserspace(Expired, candidate) /\ executions[candidate] # None
           /\ CommitOk(snap) /\ PrepareDispatchOk(Expired, ex)
           /\ sched' = PrepareDispatch(Expired, ex)
           /\ cpu' = SwitchedCpu(candidate, None)
           /\ IF PreemptionPlan(executions, candidate) = "IretKernel"
              THEN ReturnToKernel(ex, candidate) ELSE ReturnToContext(ex, candidate)
    /\ reschedule' = FALSE

timer_interrupt ==
    \/ timer_not_captured
    \/ timer_while_disabled
    \/ timer_resumes_current
    \/ timer_refuses
    \/ timer_switches

Next ==
    \/ \E kind \in Kinds : spawn(kind)
    \/ dispatch_once
    \/ yield_current
    \/ safe_reschedule_point
    \/ \E deadline \in 0 .. MaxNow : sleep_current_until(deadline)
    \/ exit_current
    \/ service_timer
    \/ service_pending_timer
    \/ preemption_disable
    \/ drop_guard
    \/ enable_interrupts
    \/ timer_interrupt

Spec == Init /\ [][Next]_vars

\* The LAPIC timer is periodic, and kernel_main dispatches.  A body that
\* enables interrupts does so eventually.
Fairness ==
    WF_vars(dispatch_once) /\ WF_vars(timer_interrupt) /\ WF_vars(enable_interrupts)
FairSpec == Spec /\ Fairness

(***************************************************************************)
(* Properties.                                                             *)
(***************************************************************************)

\* The three records of who runs agree: cpu_local's current_task is the thread
\* on the CPU, and the scheduler's current task is that thread or, after it
\* slept or exited, nobody.
OwnersAgree ==
    /\ cpu.current_task = machine.thread
    /\ sched.current \in {None, machine.thread}

\* The registry owns an execution binding for every live task and for no other,
\* so that no dispatch meets a task without a stack and no stack leaks.
RegistryExact ==
    /\ executions \in [TaskId -> Binding \cup {None}]
    /\ \A id \in TaskId : executions[id] # None <=> Live(sched, id)

\* "The selected task resumes at its expected continuation"
\* (docs/PREEMPTION_ABI.md): a thread is never resumed from a Context or a
\* snapshot older than the place it stopped at.
ResumesAtContinuation == machine.resumed

===============================================================================
