---------------------------- MODULE RuntimeProofs -----------------------------
(***************************************************************************)
(* Proofs about the kernel runtime, for every number of tasks, generations *)
(* and ticks and whatever the thread bodies do: the scheduler, cpu_local,  *)
(* the CPU and the execution registry never disagree.                      *)
(***************************************************************************)
EXTENDS KernelRuntime, SchedulerLemmas

\* A registry that owns the bindings of exactly the tasks of s.
Registry(ex, s) ==
    /\ ex \in [TaskId -> Binding \cup {None}]
    /\ \A id \in TaskId : ex[id] # None <=> Live(s, id)

\* The inductive invariant.  That a dispatch hands the CPU to the task the
\* runtime announced needs the run queue to be exact (WellFormed), and that an
\* expiry keeps it exact needs an ordered sleep queue.
RInv ==
    /\ WellFormed(sched)
    /\ sleepers \in Seq(SleepEntry) /\ SleepOrdered(sleepers)
    /\ timer \in [ticks : Nat, pending : BOOLEAN]
    /\ cpu \in [current_task : Thread, interrupted : Thread]
    /\ machine \in [thread : Thread, interrupts : BOOLEAN, resumed : BOOLEAN]
    /\ OwnersAgree
    /\ Registry(executions, sched)

(***************************************************************************)
(* Parts of the methods.                                                   *)
(***************************************************************************)

\* The owner of the CPU is a task of the scheduler.
LEMMA OwnerIsLive ==
    ASSUME NEW s, WellFormed(s)
    PROVE  /\ s.current \in TaskId \cup {None}
           /\ s.current # None => s.current \in TaskId /\ Live(s, s.current)
BY DEF WellFormed, Table, SchedulerValue, OwnerExact, InState

\* Updating a field of a binding that exists neither adds a binding to the
\* registry nor removes one.
LEMMA BindingUpdates ==
    ASSUME NEW s, NEW ex, Registry(ex, s), NEW id \in TaskId, ex[id] # None,
           NEW b \in BOOLEAN
    PROVE  /\ Registry(InstallSnapshot(ex, id), s)
           /\ Registry(TakeSnapshot(ex, id), s)
           /\ Registry([ex EXCEPT ![id].r12 = b], s)
<1>1. ex \in [TaskId -> Binding \cup {None}] /\ ex[id] \in Binding
  BY DEF Registry
<1>2. ASSUME NEW v \in Binding PROVE Registry([ex EXCEPT ![id] = v], s)
  BY <1>1, <1>2, NoneIsNoBinding DEF Registry
<1>3. /\ [ex[id] EXCEPT !.interrupted = TRUE] \in Binding
      /\ [ex[id] EXCEPT !.interrupted = FALSE] \in Binding
      /\ [ex[id] EXCEPT !.r12 = b] \in Binding
  BY <1>1 DEF Binding
<1>4. /\ InstallSnapshot(ex, id) = [ex EXCEPT ![id] = [ex[id] EXCEPT !.interrupted = TRUE]]
      /\ TakeSnapshot(ex, id) = [ex EXCEPT ![id] = [ex[id] EXCEPT !.interrupted = FALSE]]
      /\ [ex EXCEPT ![id].r12 = b] = [ex EXCEPT ![id] = [ex[id] EXCEPT !.r12 = b]]
  BY DEF InstallSnapshot, TakeSnapshot
<1> QED BY <1>2, <1>3, <1>4

\* A registry exact for s is exact for every scheduler with the same tasks.
LEMMA RegistryOfSameTasks ==
    ASSUME NEW s, NEW r, NEW ex, Registry(ex, s), SameTasks(s, r)
    PROVE  Registry(ex, r)
BY DEF Registry, SameTasks

\* commit_interrupted_state installs the snapshot in an existing binding.
LEMMA CommitKeeps ==
    ASSUME RInv, NEW snap
    PROVE  Registry(Commit(snap), sched)
<1>1. CASE CommitOk(snap) /\ snap # None
  <2>1. snap = cpu.current_task /\ executions[snap] # None /\ snap \in TaskId
    BY <1>1 DEF CommitOk, RInv, Thread
  <2> QED BY <1>1, <2>1, BindingUpdates DEF Commit, RInv
<1>2. CASE ~ (CommitOk(snap) /\ snap # None)
  BY <1>2 DEF Commit, RInv
<1> QED BY <1>1, <1>2

\* prepare_dispatch hands the CPU to the front of the run queue, which has a
\* binding, or changes nothing: its DispatchMismatch cannot be reached.
LEMMA PrepareDispatchFacts ==
    ASSUME NEW s, WellFormed(s), NEW ex
    PROVE  LET r == PrepareDispatch(s, ex)
           IN  /\ WellFormed(r) /\ SameTasks(s, r)
               /\ PrepareDispatchOk(s, ex) =>
                    /\ NextReady(s) \in TaskId /\ ex[NextReady(s)] # None
                    /\ r.current = NextReady(s)
               /\ ~ PrepareDispatchOk(s, ex) => r = s
<1>1. CASE WouldSwitch(s) /\ ValidTransition(ex, NextReady(s))
  <2>1. /\ NextReady(s) \in TaskId /\ Decision(s) = NextReady(s)
        /\ ScheduleNext(s).current = NextReady(s)
    BY <1>1, ScheduleNextDecides DEF WouldSwitch
  <2>2. WellFormed(ScheduleNext(s)) /\ SameTasks(s, ScheduleNext(s))
    BY ScheduleNextEvolves DEF Evolves
  <2>3. ex[NextReady(s)] # None
    BY <1>1 DEF ValidTransition
  <2>4. PrepareDispatch(s, ex) = ScheduleNext(s) /\ PrepareDispatchOk(s, ex)
    BY <1>1, <2>1 DEF PrepareDispatch, PrepareDispatchOk
  <2> QED BY <2>1, <2>2, <2>3, <2>4
<1>2. CASE ~ (WouldSwitch(s) /\ ValidTransition(ex, NextReady(s)))
  BY <1>2 DEF PrepareDispatch, PrepareDispatchOk, SameTasks
<1> QED BY <1>1, <1>2

\* A switch to a task, whatever the registers it leaves and finds.
LEMMA TransferFacts ==
    ASSUME NEW next \in TaskId, NEW from, NEW to, NEW flag \in BOOLEAN,
           Transfer(from, next, to, flag)
    PROVE  /\ machine' \in [thread : Thread, interrupts : BOOLEAN, resumed : BOOLEAN]
           /\ machine'.thread = next
<1>1. next \in Thread
  BY DEF Thread
<1> QED BY <1>1 DEF Transfer

\* dispatch_once with a registry and a snapshot slot left by the steps before
\* it keeps the records of who runs in agreement.
LEMMA DispatchOnceKeeps ==
    ASSUME RInv, NEW ex, Registry(ex, sched), NEW snap \in Thread,
           DispatchOnce(ex, snap), UNCHANGED <<sleepers, timer>>
    PROVE  RInv'
<1> DEFINE r == PrepareDispatch(sched, ex)
           next == NextReady(sched)
<1>1. /\ WellFormed(sched) /\ OwnersAgree
      /\ cpu \in [current_task : Thread, interrupted : Thread]
      /\ machine \in [thread : Thread, interrupts : BOOLEAN, resumed : BOOLEAN]
  BY DEF RInv
<1>2. /\ WellFormed(r) /\ SameTasks(sched, r)
      /\ PrepareDispatchOk(sched, ex) =>
           next \in TaskId /\ ex[next] # None /\ r.current = next
      /\ ~ PrepareDispatchOk(sched, ex) => r = sched
  BY <1>1, PrepareDispatchFacts
<1>3. /\ sleepers' \in Seq(SleepEntry) /\ SleepOrdered(sleepers')
      /\ timer' \in [ticks : Nat, pending : BOOLEAN]
  BY DEF RInv
<1> HIDE DEF r, next
<1>4. CASE DispatchRefused(sched, ex) \/ ~ PrepareDispatchOk(sched, ex)
  <2>1. /\ sched' = sched /\ executions' = ex /\ machine' = machine
        /\ cpu' = [cpu EXCEPT !.interrupted = snap]
    BY <1>2, <1>4 DEF DispatchOnce, r
  <2>2. cpu' \in [current_task : Thread, interrupted : Thread] /\ cpu'.current_task = cpu.current_task
    BY <1>1, <2>1
  <2>3. OwnersAgree'
    BY <1>1, <2>1, <2>2 DEF OwnersAgree
  <2> QED BY <1>1, <1>3, <2>1, <2>2, <2>3 DEF RInv
<1>5. CASE ~ (DispatchRefused(sched, ex) \/ ~ PrepareDispatchOk(sched, ex))
  <2>1. /\ sched' = r /\ cpu' = [current_task |-> next, interrupted |-> snap]
        /\ IF sched.current = None THEN ActivateFirst(ex, next) ELSE SwitchContexts(ex, next)
    BY <1>5 DEF DispatchOnce, SwitchedCpu, r, next
  <2>2. next \in TaskId /\ next \in Thread /\ r.current = next /\ ex[next] # None
    BY <1>2, <1>5 DEF Thread
  <2>3. machine.interrupts \in BOOLEAN
    BY <1>1
  <2>4. /\ machine' \in [thread : Thread, interrupts : BOOLEAN, resumed : BOOLEAN]
        /\ machine'.thread = next
    BY <2>1, <2>2, <2>3, TransferFacts DEF ActivateFirst, SwitchContexts
  <2>5. Registry(executions', sched)
    <3>1. CASE sched.current = None
      BY <2>1, <3>1 DEF ActivateFirst
    <3>2. CASE sched.current # None
      <4>1. sched.current \in TaskId /\ ex[sched.current] # None
        BY <1>1, <3>2, OwnerIsLive DEF Registry
      <4>2. PICK b \in SavedR12 : executions' = [ex EXCEPT ![sched.current].r12 = b]
        BY <2>1, <3>2 DEF SwitchContexts
      <4> QED BY <4>1, <4>2, BindingUpdates, R12Assumption
    <3> QED BY <3>1, <3>2
  <2>6. Registry(executions', sched')
    BY <1>2, <2>1, <2>5, RegistryOfSameTasks
  <2>7. cpu' \in [current_task : Thread, interrupted : Thread] /\ cpu'.current_task = next
    BY <2>1, <2>2
  <2>8. OwnersAgree'
    BY <2>1, <2>2, <2>4, <2>7 DEF OwnersAgree
  <2> QED BY <1>2, <1>3, <2>1, <2>4, <2>6, <2>7, <2>8 DEF RInv
<1> QED BY <1>4, <1>5

(***************************************************************************)
(* The timer interrupt.                                                    *)
(***************************************************************************)

\* The clock is a tick count.
LEMMA TickedIsNat ==
    ASSUME RInv
    PROVE  Ticked \in Nat
<1>1. timer.ticks \in Nat
  BY DEF RInv
<1>2. {timer.ticks + 1, MaxNow} \in SUBSET Int /\ {timer.ticks + 1, MaxNow} # {}
  BY <1>1, MaxNowAssumption
<1>3. IsFiniteSet({timer.ticks + 1, MaxNow})
  <2>1. IsFiniteSet({timer.ticks + 1})
    BY FS_Singleton
  <2>2. {timer.ticks + 1, MaxNow} = {timer.ticks + 1} \cup {MaxNow}
    OBVIOUS
  <2>3. IsFiniteSet({timer.ticks + 1} \cup {MaxNow})
    BY <2>1, FS_AddElement
  <2> QED BY <2>2, <2>3
<1>4. Ticked \in {timer.ticks + 1, MaxNow}
  BY <1>2, <1>3, MinFacts DEF Ticked
<1> QED BY <1>1, <1>4, MaxNowAssumption

\* expire_sleepers at any time keeps the tasks and the owner, and leaves an
\* ordered queue.
LEMMA ExpireKeeps ==
    ASSUME RInv, NEW t \in Nat
    PROVE  LET s == Expire(sched, sleepers, t)
               q == UnexpiredEntries(sleepers, t)
           IN  /\ WellFormed(s) /\ SameTasks(sched, s) /\ s.current = sched.current
               /\ q \in Seq(SleepEntry) /\ SleepOrdered(q)
BY ExpireFacts, ExpiryFacts DEF RInv, Evolves

\* What all decisions of the timer interrupt share.
LEMMA DecidesFacts ==
    ASSUME RInv, Decides
    PROVE  /\ WellFormed(Expired) /\ SameTasks(sched, Expired) /\ Expired.current = sched.current
           /\ sleepers' \in Seq(SleepEntry) /\ SleepOrdered(sleepers')
           /\ timer' \in [ticks : Nat, pending : BOOLEAN]
           /\ \A ex : Registry(ex, sched) => Registry(ex, Expired)
<1>1. Ticked \in Nat
  BY TickedIsNat
<1>2. timer' \in [ticks : Nat, pending : BOOLEAN]
  BY <1>1 DEF Decides, TimerPending
<1>3. /\ WellFormed(Expired) /\ SameTasks(sched, Expired) /\ Expired.current = sched.current
      /\ sleepers' \in Seq(SleepEntry) /\ SleepOrdered(sleepers')
  BY <1>1, ExpireKeeps DEF Expired, Decides
<1> QED BY <1>2, <1>3, RegistryOfSameTasks

\* The timer interrupt that goes back to the thread it interrupted.
LEMMA ResumingKeeps ==
    ASSUME RInv,
           timer_not_captured \/ timer_while_disabled \/ timer_resumes_current \/ timer_refuses
    PROVE  RInv'
<1>1. /\ WellFormed(sched) /\ OwnersAgree /\ Registry(executions, sched)
      /\ sleepers \in Seq(SleepEntry) /\ SleepOrdered(sleepers)
      /\ cpu \in [current_task : Thread, interrupted : Thread]
      /\ machine \in [thread : Thread, interrupts : BOOLEAN, resumed : BOOLEAN]
      /\ Ticked \in Nat
  BY TickedIsNat DEF RInv
<1>2. ASSUME NEW snap \in Thread, cpu' = [cpu EXCEPT !.interrupted = snap], machine' = machine,
             WellFormed(sched'), sched'.current = sched.current, Registry(executions', sched'),
             sleepers' \in Seq(SleepEntry), SleepOrdered(sleepers'),
             timer' \in [ticks : Nat, pending : BOOLEAN]
      PROVE  RInv'
  <2>1. cpu' \in [current_task : Thread, interrupted : Thread] /\ cpu'.current_task = cpu.current_task
    BY <1>1, <1>2
  <2>2. OwnersAgree'
    BY <1>1, <1>2, <2>1 DEF OwnersAgree
  <2> QED BY <1>1, <1>2, <2>1, <2>2 DEF RInv
<1>3. None \in Thread /\ cpu.current_task \in Thread /\ cpu.interrupted \in Thread
      /\ cpu = [cpu EXCEPT !.interrupted = cpu.interrupted]
  BY <1>1 DEF Thread
<1>4. CASE timer_not_captured
  <2>1. timer' \in [ticks : Nat, pending : BOOLEAN]
    BY <1>1, <1>4 DEF timer_not_captured, TimerPending
  <2>2. UNCHANGED <<sched, sleepers, executions, cpu, machine>>
    BY <1>4 DEF timer_not_captured, Resume
  <2> QED BY <1>1, <1>2, <1>3, <2>1, <2>2
<1>5. CASE timer_while_disabled
  <2>1. timer' \in [ticks : Nat, pending : BOOLEAN]
    BY <1>1, <1>5 DEF timer_while_disabled, TimerPending
  <2>2. UNCHANGED <<sched, sleepers, executions, machine>> /\ cpu' = [cpu EXCEPT !.interrupted = None]
    BY <1>5 DEF timer_while_disabled, Resume, Discarded
  <2> QED BY <1>1, <1>2, <1>3, <2>1, <2>2
<1>6. CASE timer_resumes_current
  <2>1. Decides /\ sched' = Expired /\ UNCHANGED <<executions, machine>>
        /\ cpu' = [cpu EXCEPT !.interrupted = None]
    BY <1>6 DEF timer_resumes_current, Resume, Discarded
  <2> QED BY <1>1, <1>2, <1>3, <2>1, DecidesFacts
<1>7. CASE timer_refuses
  <2> DEFINE candidate == NextReady(Expired)
             planned == ~ IsUserspace(Expired, candidate) /\ executions[candidate] # None
             snap == cpu.current_task
             committed == planned /\ CommitOk(snap)
             ex == IF committed THEN Commit(snap) ELSE executions
  <2>1. /\ Decides /\ machine' = machine /\ executions' = ex
        /\ ~ (committed /\ PrepareDispatchOk(Expired, ex))
        /\ sched' = IF committed THEN PrepareDispatch(Expired, ex) ELSE Expired
        /\ cpu' = [cpu EXCEPT !.interrupted =
                      IF ~ committed /\ (planned \/ IsUserspace(Expired, candidate))
                      THEN snap ELSE None]
    BY <1>7 DEF timer_refuses, Resume
  <2>2. Registry(ex, sched)
    BY <1>1, CommitKeeps
  <2> HIDE DEF ex, committed, planned
  <2>3. sched' = Expired
    BY <2>1, DecidesFacts, PrepareDispatchFacts
  <2>4. PICK slot \in Thread : cpu' = [cpu EXCEPT !.interrupted = slot]
    BY <1>3, <2>1
  <2> QED BY <1>2, <2>1, <2>2, <2>3, <2>4, DecidesFacts
<1> QED BY <1>4, <1>5, <1>6, <1>7

\* The timer interrupt that preempts.
LEMMA SwitchingKeeps ==
    ASSUME RInv, timer_switches
    PROVE  RInv'
<1> DEFINE candidate == NextReady(Expired)
           ex == Commit(cpu.current_task)
           r == PrepareDispatch(Expired, ex)
<1>1. /\ Decides /\ PrepareDispatchOk(Expired, ex) /\ sched' = r
      /\ cpu' = [current_task |-> candidate, interrupted |-> None]
      /\ ReturnToKernel(ex, candidate) \/ ReturnToContext(ex, candidate)
  BY DEF timer_switches, SwitchedCpu
<1>2. /\ WellFormed(Expired) /\ Registry(ex, Expired)
      /\ sleepers' \in Seq(SleepEntry) /\ SleepOrdered(sleepers')
      /\ timer' \in [ticks : Nat, pending : BOOLEAN]
  BY <1>1, DecidesFacts, CommitKeeps
<1> HIDE DEF ex
<1>3. /\ WellFormed(r) /\ SameTasks(Expired, r) /\ r.current = candidate
      /\ candidate \in TaskId /\ ex[candidate] # None
  BY <1>1, <1>2, PrepareDispatchFacts
<1> HIDE DEF r, candidate
<1>4. /\ machine' \in [thread : Thread, interrupts : BOOLEAN, resumed : BOOLEAN]
      /\ machine'.thread = candidate
  BY <1>1, <1>3, TransferFacts DEF ReturnToKernel, ReturnToContext
<1>5. executions' \in {ex, TakeSnapshot(ex, candidate)}
  BY <1>1 DEF ReturnToKernel, ReturnToContext
<1>6. Registry(executions', Expired)
  BY <1>2, <1>3, <1>5, BindingUpdates
<1>7. Registry(executions', sched')
  BY <1>1, <1>3, <1>6, RegistryOfSameTasks
<1>8. cpu' \in [current_task : Thread, interrupted : Thread] /\ cpu'.current_task = candidate
  BY <1>1, <1>3 DEF Thread
<1>9. OwnersAgree'
  BY <1>1, <1>3, <1>4, <1>8 DEF OwnersAgree
<1> QED BY <1>1, <1>2, <1>3, <1>4, <1>7, <1>8, <1>9 DEF RInv

(***************************************************************************)
(* The methods that threads call.                                          *)
(***************************************************************************)

\* A step that leaves the machine and cpu_local's owner alone keeps the
\* invariant when the scheduler, its queues and the registry still fit.
LEMMA CallKeeps ==
    ASSUME RInv, WellFormed(sched'), sched'.current \in {None, sched.current},
           Registry(executions', sched'), sleepers' \in Seq(SleepEntry), SleepOrdered(sleepers'),
           timer' \in [ticks : Nat, pending : BOOLEAN], UNCHANGED <<cpu, machine>>
    PROVE  RInv'
<1>1. OwnersAgree'
  BY DEF RInv, OwnersAgree
<1> QED BY <1>1 DEF RInv

\* spawn enters the new task in the scheduler and in the registry, or, when the
\* stack allocation fails, in neither.
LEMMA SpawnKeeps ==
    ASSUME RInv, NEW kind \in Kinds, spawn(kind)
    PROVE  RInv'
<1> DEFINE id == NextTaskId(sched)
           created == CreateTask(sched, kind)
           attached == AttachExecution(created, id)
<1>1. /\ WellFormed(sched) /\ Registry(executions, sched) /\ kind \in TaskKind /\ CanCreate(sched)
      /\ executions \in [TaskId -> Binding \cup {None}]
  BY KindsAssumption DEF RInv, Registry, spawn
<1>2. /\ WellFormed(created) /\ created.current = sched.current
      /\ id \in TaskId /\ ~ Live(sched, id)
      /\ \A j \in TaskId : Live(created, j) <=> Live(sched, j) \/ j = id
      /\ InState(created, id, "Created") /\ AttachExecutionOk(created, id)
  BY <1>1, CreateTaskEvolves DEF Evolves
<1> HIDE DEF id, created
<1>3. /\ WellFormed(attached) /\ attached.current = created.current
      /\ SameTasks(created, attached) /\ DestroyCreatedOk(attached, id)
  BY <1>2, AttachExecutionEvolves DEF Evolves
<1> HIDE DEF attached
<1>4. /\ UNCHANGED <<sleepers, timer, cpu, machine>>
      /\ \/ sched' = MakeReady(attached, id) /\ executions' = InsertExecution(executions, id)
         \/ sched' = DestroyCreated(attached, id) /\ executions' = executions
  BY DEF spawn, attached, created, id
<1>5. /\ sleepers' \in Seq(SleepEntry) /\ SleepOrdered(sleepers')
      /\ timer' \in [ticks : Nat, pending : BOOLEAN]
  BY <1>4 DEF RInv
<1>6. CASE sched' = MakeReady(attached, id) /\ executions' = InsertExecution(executions, id)
  <2>1. WellFormed(sched') /\ SameTasks(attached, sched') /\ sched'.current = attached.current
    BY <1>2, <1>3, <1>6, MakeReadyEvolves DEF Evolves
  <2>2. \A j \in TaskId : Live(sched', j) <=> Live(sched, j) \/ j = id
    BY <1>2, <1>3, <2>1 DEF SameTasks
  <2>3. NewBinding \in Binding /\ NewBinding # None
    <3>1. NewBinding \in Binding
      BY DEF NewBinding, Binding
    <3> QED BY <3>1, NoneIsNoBinding
  <2>4. executions' = [executions EXCEPT ![id] = NewBinding]
    BY <1>6 DEF InsertExecution
  <2>5. Registry(executions', sched')
    BY <1>1, <1>2, <2>2, <2>3, <2>4 DEF Registry
  <2> QED BY <1>2, <1>3, <1>4, <1>5, <2>1, <2>5, CallKeeps
<1>7. CASE sched' = DestroyCreated(attached, id) /\ executions' = executions
  <2>1. /\ WellFormed(sched') /\ sched'.current = attached.current
        /\ \A j \in TaskId : Live(sched', j) <=> Live(attached, j) /\ j # id
    BY <1>2, <1>3, <1>7, DestroyCreatedEvolves DEF Evolves
  <2>2. SameTasks(sched, sched')
    BY <1>2, <1>3, <2>1 DEF SameTasks
  <2>3. Registry(executions', sched')
    BY <1>1, <1>7, <2>2, RegistryOfSameTasks
  <2> QED BY <1>2, <1>3, <1>4, <1>5, <2>1, <2>3, CallKeeps
<1> QED BY <1>4, <1>6, <1>7

\* sleep_current_until blocks the owner and queues it once.
LEMMA SleepKeeps ==
    ASSUME RInv, NEW deadline \in 0 .. MaxNow, sleep_current_until(deadline)
    PROVE  RInv'
<1> DEFINE e == [deadline |-> deadline, task |-> sched.current]
<1>1. /\ SleepOk(sched, sleepers) /\ sched' = Block(sched)
      /\ sleepers' = InsertSleeper(sleepers, e) /\ UNCHANGED <<executions, cpu, timer, machine>>
  BY DEF sleep_current_until
<1>2. /\ WellFormed(sched) /\ Registry(executions, sched)
      /\ sleepers \in Seq(SleepEntry) /\ SleepOrdered(sleepers)
      /\ timer' \in [ticks : Nat, pending : BOOLEAN]
  BY <1>1 DEF RInv
<1>3. WellFormed(sched') /\ SameTasks(sched, sched') /\ sched'.current = None
  BY <1>1, <1>2, BlockFacts DEF SleepOk
<1>4. e \in SleepEntry /\ e.task \notin Sleepers(sleepers)
  BY <1>1, <1>2, OwnerIsLive, MaxNowAssumption DEF SleepOk, SleepEntry
<1> HIDE DEF e
<1>5. sleepers' \in Seq(SleepEntry) /\ SleepOrdered(sleepers')
  BY <1>1, <1>2, <1>4, InsertSleeperFacts
<1>6. Registry(executions', sched')
  BY <1>1, <1>2, <1>3, RegistryOfSameTasks
<1> QED BY <1>1, <1>2, <1>3, <1>5, <1>6, CallKeeps

\* exit_current takes the owner out of the scheduler and of the registry.
LEMMA ExitKeeps ==
    ASSUME RInv, exit_current
    PROVE  RInv'
<1>1. /\ ExitOk(sched) /\ sched' = Exit(sched) /\ sleepers' = RemoveSleeper(sleepers, sched.current)
      /\ executions' = [executions EXCEPT ![sched.current] = None]
      /\ UNCHANGED <<cpu, timer, machine>>
  BY DEF exit_current, RemoveExecution
<1>2. /\ WellFormed(sched) /\ executions \in [TaskId -> Binding \cup {None}]
      /\ \A id \in TaskId : executions[id] # None <=> Live(sched, id)
      /\ sleepers \in Seq(SleepEntry) /\ SleepOrdered(sleepers)
      /\ timer' \in [ticks : Nat, pending : BOOLEAN]
  BY <1>1 DEF RInv, Registry
<1>3. /\ WellFormed(sched') /\ sched'.current = None
      /\ \A j \in TaskId : Live(sched', j) <=> Live(sched, j) /\ j # sched.current
  BY <1>1, <1>2, ExitEvolves DEF Evolves
<1>4. sched.current \in TaskId
  BY <1>1, <1>2, OwnerIsLive DEF ExitOk
<1>5. Registry(executions', sched')
  BY <1>1, <1>2, <1>3, <1>4 DEF Registry
<1>6. sleepers' \in Seq(SleepEntry) /\ SleepOrdered(sleepers')
  BY <1>1, <1>2, RemoveSleeperFacts
<1> QED BY <1>1, <1>2, <1>3, <1>5, <1>6, CallKeeps

\* service_timer makes the sleepers ready whose deadline has come.
LEMMA ServiceKeeps ==
    ASSUME RInv, service_timer \/ service_pending_timer
    PROVE  RInv'
<1>1. /\ ServiceTimer
      /\ timer' = timer \/ timer' = [timer EXCEPT !.pending = FALSE]
  BY DEF service_timer, service_pending_timer
<1>2. timer \in [ticks : Nat, pending : BOOLEAN] /\ Registry(executions, sched)
  BY DEF RInv
<1>3. timer' \in [ticks : Nat, pending : BOOLEAN] /\ timer.ticks \in Nat
  BY <1>1, <1>2
<1>4. /\ sched' = Expire(sched, sleepers, timer.ticks)
      /\ sleepers' = UnexpiredEntries(sleepers, timer.ticks)
      /\ UNCHANGED <<executions, cpu, machine>>
  BY <1>1 DEF ServiceTimer
<1>5. /\ WellFormed(sched') /\ SameTasks(sched, sched') /\ sched'.current = sched.current
      /\ sleepers' \in Seq(SleepEntry) /\ SleepOrdered(sleepers')
  BY <1>3, <1>4, ExpireKeeps
<1>6. Registry(executions', sched')
  BY <1>2, <1>4, <1>5, RegistryOfSameTasks
<1> QED BY <1>3, <1>4, <1>5, <1>6, CallKeeps

(***************************************************************************)
(* The specification.                                                      *)
(***************************************************************************)

\* The inductive invariant holds when KernelRuntime is new.
LEMMA InitRInv == Init => RInv
<1> SUFFICES ASSUME Init PROVE RInv
  OBVIOUS
<1>1. WellFormed(sched)
  BY NewSchedulerWellFormed DEF Init
<1>2. sleepers \in Seq(SleepEntry) /\ SleepOrdered(sleepers)
  BY DEF Init, SleepOrdered
<1>3. /\ timer \in [ticks : Nat, pending : BOOLEAN]
      /\ cpu \in [current_task : Thread, interrupted : Thread]
      /\ machine \in [thread : Thread, interrupts : BOOLEAN, resumed : BOOLEAN]
      /\ cpu.current_task = None /\ machine.thread = None
  BY DEF Init, Thread
<1>4. OwnersAgree
  BY <1>3 DEF Init, OwnersAgree, NewScheduler
<1>5. \A id \in TaskId : ~ Live(sched, id)
  BY DEF Init, NewScheduler, Live, TaskId
<1>6. Registry(executions, sched)
  BY <1>5 DEF Init, Registry
<1> QED BY <1>1, <1>2, <1>3, <1>4, <1>6 DEF RInv

\* Every step keeps the inductive invariant.
LEMMA NextRInv == RInv /\ [Next]_vars => RInv'
<1> SUFFICES ASSUME RInv, [Next]_vars PROVE RInv'
  OBVIOUS
<1>1. /\ cpu \in [current_task : Thread, interrupted : Thread] /\ cpu.interrupted \in Thread
      /\ machine \in [thread : Thread, interrupts : BOOLEAN, resumed : BOOLEAN]
      /\ None \in Thread /\ Registry(executions, sched)
  BY DEF RInv, Thread
<1>2. CASE UNCHANGED vars
  BY <1>2 DEF vars, RInv, OwnersAgree, Registry
<1>3. ASSUME NEW kind \in Kinds, spawn(kind) PROVE RInv'
  BY <1>3, SpawnKeeps
<1>4. CASE dispatch_once \/ yield_current
  BY <1>1, <1>4, DispatchOnceKeeps DEF dispatch_once, yield_current
<1>5. CASE safe_reschedule_point
  <2>1. CASE CommitOk(cpu.interrupted)
    BY <1>1, <1>5, <2>1, CommitKeeps, DispatchOnceKeeps DEF safe_reschedule_point
  <2>2. CASE ~ CommitOk(cpu.interrupted)
    BY <1>5, <2>2 DEF safe_reschedule_point, RInv, OwnersAgree, Registry
  <2> QED BY <2>1, <2>2
<1>6. ASSUME NEW deadline \in 0 .. MaxNow, sleep_current_until(deadline) PROVE RInv'
  BY <1>6, SleepKeeps
<1>7. CASE exit_current
  BY <1>7, ExitKeeps
<1>8. CASE service_timer \/ service_pending_timer
  BY <1>8, ServiceKeeps
<1>9. CASE preemption_disable \/ drop_guard
  BY <1>9 DEF preemption_disable, drop_guard, RInv, OwnersAgree, Registry
<1>10. CASE enable_interrupts
  <2>1. /\ machine' = [machine EXCEPT !.interrupts = TRUE]
        /\ UNCHANGED <<sched, sleepers, executions, cpu, timer>>
    BY <1>10 DEF enable_interrupts
  <2>2. /\ machine' \in [thread : Thread, interrupts : BOOLEAN, resumed : BOOLEAN]
        /\ machine'.thread = machine.thread
    BY <1>1, <2>1
  <2> QED BY <2>1, <2>2 DEF RInv, OwnersAgree, Registry
<1>11. CASE timer_interrupt
  BY <1>11, ResumingKeeps, SwitchingKeeps DEF timer_interrupt
<1> QED BY <1>2, <1>3, <1>4, <1>5, <1>6, <1>7, <1>8, <1>9, <1>10, <1>11 DEF Next

\* cpu_local, the CPU and the scheduler agree on who runs after every method
\* call of KernelRuntime and every timer interrupt, in every interleaving.
THEOREM OwnersStayInAgreement == Spec => []OwnersAgree
<1>1. RInv => OwnersAgree
  BY DEF RInv
<1> QED BY <1>1, InitRInv, NextRInv, PTL DEF Spec

\* The execution registry owns a binding for every live task and for no other,
\* through every spawn, failed spawn, exit, commit and dispatch.
THEOREM RegistryStaysExact == Spec => []RegistryExact
<1>1. RInv => RegistryExact
  BY DEF RInv, Registry, RegistryExact
<1> QED BY <1>1, InitRInv, NextRInv, PTL DEF Spec
===============================================================================
