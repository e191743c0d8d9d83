---------------------------- MODULE SystemRuntime -----------------------------
(***************************************************************************)
(* SystemRuntime on one CPU: kernel_main spawns processes and starts one;  *)
(* from then on the CPU belongs to user code, which enters the kernel by   *)
(* a system call or is interrupted by the timer.  Scheduler, process       *)
(* registry, kernel execution registry, userspace execution registry and   *)
(* CPU-local state all record who runs; this module is about their         *)
(* agreement.                                                              *)
(*                                                                         *)
(* Both kernel entries are interrupt gates, so each is one step up to its  *)
(* iretq.  A yield is deferred: the call leaves an action in CPU-local     *)
(* state and returns to the caller, and the next timer interrupt commits   *)
(* it.  A thread is a task, or None for kernel_main, which never runs      *)
(* again once it has started a process.                                    *)
(***************************************************************************)
EXTENDS ProcessOps

CONSTANTS
    Kinds,      \* the kinds of task kernel_main spawns
    Calls       \* the system calls user code makes

VARIABLES
    sched,              \* runtime.manager.scheduler
    executions,         \* tasks with a kernel stack in runtime.manager.executions
    reschedule,         \* runtime.reschedule is pending
    processes,          \* the ProcessManager value
    userspace,          \* UserExecutionRegistry: task -> binding, or None
    current_process,    \* Option<ProcessId>
    pending_exit,       \* Option<(process, task, code)>
    cpu,                \* CpuLocalState: current_task and syscall_action
    tss,                \* the task whose kernel stack the TSS points to
    machine,            \* the thread on the CPU, and whether it was entered
                        \* where it had stopped
    stopped             \* history: threads that ran and were interrupted

vars == <<sched, executions, reschedule, processes, userspace, current_process,
          pending_exit, cpu, tss, machine, stopped>>

Thread == TaskId \cup {None}
UserBinding == [process : ProcessId, address_space : AddressSpaces, resume : BOOLEAN]

Init ==
    /\ sched = NewScheduler
    /\ executions = {}
    /\ reschedule = FALSE
    /\ processes = NewManager
    /\ userspace = [t \in TaskId |-> None]
    /\ current_process = None
    /\ pending_exit = None
    /\ cpu = [current_task |-> None, syscall_action |-> None]
    /\ tss = None
    /\ machine = [thread |-> None, resumed |-> TRUE]
    /\ stopped = {}

(***************************************************************************)
(* kernel_main.                                                            *)
(***************************************************************************)

InKernelMain == machine.thread = None

\* KernelRuntime::spawn, for a kernel task that shares the run queue; its
\* stack may not be allocated.
spawn ==
    /\ InKernelMain /\ "Kernel" \in Kinds
    /\ CanCreate(sched)
    /\ LET id == NextTaskId(sched)
           attached == AttachExecution(CreateTask(sched, "Kernel"), id)
       IN  \/ /\ sched' = MakeReady(attached, id)
              /\ executions' = executions \cup {id}
           \/ sched' = DestroyCreated(attached, id) /\ UNCHANGED executions
    /\ UNCHANGED <<reschedule, processes, userspace, current_process, pending_exit,
                   cpu, tss, machine, stopped>>

\* spawn_user_ready with a launch for the image's address space.  The kernel
\* stack may not be allocated, and the process table may be full: both undo
\* what was done before.
spawn_user_ready(image) ==
    /\ InKernelMain
    /\ CanCreate(sched)
    /\ LET id == NextTaskId(sched)
           p == NextProcessId(processes)
           attached == AttachExecution(CreateTask(sched, "Userspace"), id)
           spawned == SpawnReady(processes, image, id, id, image)
           binding == [process |-> p, address_space |-> image, resume |-> FALSE]
       IN  \/ /\ SpawnReadyOk(processes, image, id, id, image)
              /\ sched' = MakeReady(attached, id)
              /\ executions' = executions \cup {id}
              /\ processes' = spawned
              /\ userspace' = [userspace EXCEPT ![id] = binding]
           \/ /\ ~ SpawnReadyOk(processes, image, id, id, image)
              /\ sched' = DestroyCreated(attached, id)
              /\ processes' = spawned
              /\ UNCHANGED <<executions, userspace>>
           \/ /\ sched' = DestroyCreated(attached, id)
              /\ UNCHANGED <<executions, processes, userspace>>
    /\ UNCHANGED <<reschedule, current_process, pending_exit, cpu, tss, machine,
                   stopped>>

\* The CPU is given to a user thread: CR3, the TSS and cpu_local's task are
\* set, and iretq goes to its resume state, or to its launch frame if it has
\* none.  A thread that was interrupted must find its resume state.
Enter_StaleTask(task, action) ==   \* mutant: cpu_local keeps the old task
    /\ cpu' = [cpu EXCEPT !.syscall_action = action]
    /\ tss' = task
    /\ machine' = [ thread  |-> task,
                    resumed |-> task \in stopped <=> userspace[task].resume ]
Enter(task, action) ==
    /\ cpu' = [current_task |-> task, syscall_action |-> action]
    /\ tss' = task
    /\ machine' = [ thread  |-> task,
                    resumed |-> task \in stopped <=> userspace[task].resume ]

start_user(p) ==
    /\ InKernelMain
    /\ Registered(processes, p) /\ BindingOf(processes, p) # None
    /\ LET task == BindingOf(processes, p)
       IN  /\ userspace[task] # None
           /\ userspace[task].process = p
           /\ userspace[task].address_space = ImageOf(processes, p)
           /\ ProcessIn(processes, p, "Ready")
           /\ task \in executions
           /\ InState(sched, task, "Ready") /\ NextReady(sched) = task
           /\ StartOk(processes, p)
           /\ Decision(sched) = task
           /\ sched' = ScheduleNext(sched)
           /\ Enter(task, cpu.syscall_action)
    /\ pending_exit' = None
    /\ processes' = SetState(processes, p, "Running")
    /\ current_process' = p
    /\ UNCHANGED <<executions, reschedule, userspace, stopped>>

(***************************************************************************)
(* Handing the CPU from one process to another.                            *)
(***************************************************************************)

\* select_userspace_successor: the head of the run queue, if every record of
\* it agrees that it is a ready user process.
Successor == NextReady(sched)
SuccessorOk ==
    /\ Successor # None /\ Successor # sched.current
    /\ KindOf(sched, Successor) = "Userspace"
    /\ InState(sched, Successor, "Ready")
    /\ userspace[Successor] # None
    /\ LET p == userspace[Successor].process
       IN  /\ ProcessIn(processes, p, "Ready")
           /\ BindingOf(processes, p) = Successor
           /\ ImageOf(processes, p) = userspace[Successor].address_space

\* current_process and the scheduler's current task are one running process.
CurrentIsBound ==
    /\ current_process # None /\ sched.current # None
    /\ ProcessIn(processes, current_process, "Running")
    /\ BindingOf(processes, current_process) = sched.current

\* current_binding_checked.
CallerChecked ==
    /\ pending_exit = None
    /\ CurrentIsBound
    /\ userspace[sched.current] # None
    /\ userspace[sched.current].process = current_process
    /\ userspace[sched.current].address_space = ImageOf(processes, current_process)

\* What both commits check before they change anything.
HandoverOk == CurrentIsBound /\ SuccessorOk /\ Successor \in executions

\* UserExecutionRegistry: install_resume and clear_resume.
InstallResume_Lost(us, task) == us   \* mutant: the snapshot is dropped
InstallResume(us, task) == [us EXCEPT ![task].resume = TRUE]
ClearResume_Kept(us, task) == us   \* mutant: the resume state is not consumed
ClearResume(us, task) == [us EXCEPT ![task].resume = FALSE]

Publish(action) == cpu' = [cpu EXCEPT !.syscall_action = action]

(***************************************************************************)
(* System calls: syscall_entry_rust.                                       *)
(***************************************************************************)

Calling(call) == machine.thread # None /\ call \in Calls

\* Write, an unknown call, and every call that fails.
sys_write ==
    /\ Calling("write")
    /\ Publish("Return")
    /\ UNCHANGED <<sched, executions, reschedule, processes, userspace, current_process,
                   pending_exit, tss, machine, stopped>>

sys_yield ==
    /\ Calling("yield")
    /\ IF CallerChecked
       THEN reschedule' = TRUE /\ Publish("Reschedule")
       ELSE UNCHANGED reschedule /\ Publish("Return")
    /\ UNCHANGED <<sched, executions, processes, userspace, current_process,
                   pending_exit, tss, machine, stopped>>

sys_exit_refused ==
    /\ Calling("exit")
    /\ ~ CallerChecked
    /\ Publish("Return")
    /\ UNCHANGED <<sched, executions, reschedule, processes, userspace, current_process,
                   pending_exit, tss, machine, stopped>>

\* The exit is recorded, but commit_pending_exit finds no successor: the call
\* returns to the process.
sys_exit_pends(code) ==
    /\ Calling("exit")
    /\ CallerChecked
    /\ ~ HandoverOk
    /\ reschedule' = TRUE
    /\ pending_exit' = [process |-> current_process, task |-> sched.current, code |-> code]
    /\ UNCHANGED <<sched, executions, processes, userspace, current_process, cpu, tss,
                   machine, stopped>>

\* The successor is started, then the process exits, with the code exit gives.
ExitProcess(m, p, next) == RequestExit(SetState(m, next, "Running"), p, 0)

\* commit_pending_exit: the successor is started, the process exits and its
\* task is replaced by the successor's, and its two execution bindings go.
sys_exit(code) ==
    /\ Calling("exit")
    /\ CallerChecked
    /\ HandoverOk
    /\ reschedule' = TRUE
    /\ LET task == sched.current
           next == userspace[Successor].process
       IN  /\ processes' = ExitProcess(processes, current_process, next)
           /\ sched' = TerminateCurrentTo(sched, Successor)
           /\ userspace' = ClearResume([userspace EXCEPT ![task] = None], Successor)
           /\ executions' = executions \ {task}
           /\ current_process' = next
           /\ stopped' = stopped \ {Successor}
    /\ pending_exit' = None
    /\ Enter(Successor, cpu.syscall_action)

(***************************************************************************)
(* The timer interrupt: timer_entry_rust with a user task on the CPU.      *)
(***************************************************************************)

TimerCaptured == cpu.current_task # None
Interrupted == TimerCaptured /\ sched.current # None /\ userspace[sched.current] # None

\* kernel_main is interrupted: there is no task to capture, and it goes on.
timer_not_captured == ~ TimerCaptured /\ UNCHANGED vars

\* No yield was asked for, or it cannot be granted: the thread goes on.
timer_resumes ==
    /\ Interrupted
    /\ cpu.syscall_action # "Reschedule" \/ ~ HandoverOk \/ userspace[sched.current].resume
    /\ Publish(None)
    /\ UNCHANGED <<sched, executions, reschedule, processes, userspace, current_process,
                   pending_exit, tss, machine, stopped>>

\* commit_userspace_yield_with_snapshot.
timer_commits_yield ==
    /\ Interrupted
    /\ cpu.syscall_action = "Reschedule"
    /\ HandoverOk
    /\ ~ userspace[sched.current].resume
    /\ LET task == sched.current
           next == userspace[Successor].process
       IN  /\ userspace' = ClearResume(InstallResume(userspace, task), Successor)
           /\ processes' = YieldTo(processes, current_process, next)
           /\ sched' = ScheduleNext(sched)
           /\ current_process' = next
           /\ stopped' = (stopped \cup {task}) \ {Successor}
    /\ Enter(Successor, None)
    /\ UNCHANGED <<executions, reschedule, pending_exit>>

Next ==
    \/ spawn
    \/ \E image \in AddressSpaces : spawn_user_ready(image)
    \/ \E p \in ProcessId : start_user(p)
    \/ sys_write
    \/ sys_yield
    \/ sys_exit_refused
    \/ \E code \in ExitCode : sys_exit_pends(code) \/ sys_exit(code)
    \/ timer_not_captured
    \/ timer_resumes
    \/ timer_commits_yield

Spec == Init /\ [][Next]_vars

\* The timer is periodic, and this user code keeps yielding.
FairSpec ==
    /\ Spec
    /\ WF_vars(sys_yield)
    /\ WF_vars(timer_resumes \/ timer_commits_yield)

(***************************************************************************)
(* Properties.                                                             *)
(***************************************************************************)

\* Whoever runs, all six records of it agree: the scheduler's current task,
\* cpu_local's task, the TSS stack, current_process, the registry's binding
\* of that process and its being the only Running process.
OwnersAgree ==
    /\ sched.current = machine.thread
    /\ cpu.current_task = machine.thread
    /\ tss = machine.thread
    /\ machine.thread # None =>
        /\ CurrentIsBound
        /\ \A p \in ProcessId : ProcessIn(processes, p, "Running") => p = current_process

\* Tasks, kernel stacks, user bindings and live processes correspond one to
\* one, across spawns that were rolled back and processes that exited: no
\* registry keeps an entry for a dead task, or misses one for a live task.
RegistriesExact ==
    /\ userspace \in [TaskId -> UserBinding \cup {None}]
    /\ \A t \in TaskId :
        /\ t \in executions <=> Live(sched, t)
        /\ userspace[t] # None <=> Live(sched, t) /\ KindOf(sched, t) = "Userspace"
        /\ userspace[t] # None =>
            LET p == userspace[t].process
            IN  /\ BindingOf(processes, p) = t
                /\ ImageOf(processes, p) = userspace[t].address_space
                /\ ProcessIn(processes, p, "Ready") <=> InState(sched, t, "Ready")
                /\ ProcessIn(processes, p, "Running") <=> InState(sched, t, "Running")
        /\ \A p \in ProcessId :
            Registered(processes, p) /\ BindingOf(processes, p) = t /\ ~ Live(sched, t)
                => ProcessIn(processes, p, "Exited")

\* Once the checks of commit_userspace_yield_with_snapshot and of
\* commit_pending_exit have passed, none of the calls that follow them can
\* fail, so neither can leave a hand-over half done.
CommitCannotFail ==
    machine.thread # None /\ HandoverOk =>
        LET next == userspace[Successor].process
        IN  /\ ~ userspace[sched.current].resume
            /\ YieldOk(processes, current_process, next)
            /\ Decision(sched) = Successor
            /\ TerminateOk(sched, Successor)
            /\ StartOk(processes, next)
            /\ RequestExitOk(processes, current_process)

\* A process that was interrupted goes on where it stopped, and is never
\* restarted at its entry point; one that never ran starts there.
ResumesAtContinuation == machine.resumed

KernelTaskFirst ==
    sched.ready # <<>> /\ sched.tasks[Head(sched.ready).index].kind = "Kernel"

\* Among processes that keep yielding, each ready one gets the CPU, unless a
\* kernel task stands first in the queue, which user_successor does not pass
\* over, or processes keep writing: that overwrites the yield's action.
ReadyProcessRuns ==
    \/ <>[] KernelTaskFirst
    \/ []<><<CallerChecked /\ sys_write>>_vars
    \/ \A t \in TaskId :
           (machine.thread # None /\ InState(sched, t, "Ready")) ~> machine.thread = t
===============================================================================
