--------------------------- MODULE SchedulerProofs ----------------------------
(***************************************************************************)
(* Proofs about the scheduler, for every number of slots, generations,     *)
(* wait queues and ticks.                                                  *)
(***************************************************************************)
EXTENDS Scheduler, SchedulerLemmas

(***************************************************************************)
(* The scheduler under an arbitrary caller.                                *)
(***************************************************************************)

\* The inductive invariant.  ReadyQueueExact needs OwnerExact (a requeued task
\* must be the one that runs) and the slot discipline of the table; the woken
\* tasks of expire_sleepers join the run queue once each because the sleep
\* queue is ordered.
IInv ==
    /\ TypeOK
    /\ WellFormed(sched)
    /\ SleepQueueOrdered
    /\ BlockedTaskIsQueued

\* The inductive invariant holds when the scheduler and its queues are new.
LEMMA InitIInv == Init => IInv
<1> SUFFICES ASSUME Init PROVE IInv
  OBVIOUS
<1>1. WellFormed(sched)
  BY NewSchedulerWellFormed DEF Init
<1>2. TypeOK
  BY <1>1, MaxNowAssumption DEF Init, TypeOK, WellFormed, Table
<1>3. SleepQueueOrdered
  BY DEF Init, SleepQueueOrdered, SleepOrdered
<1>4. \A id \in TaskId : ~ InState(sched, id, "Blocked")
  BY DEF Init, NewScheduler, InState, Live, TaskId
<1> QED BY <1>1, <1>2, <1>3, <1>4 DEF IInv, BlockedTaskIsQueued

\* What a call leaves behind for the tasks that are blocked after it: those
\* blocked before it stay accounted for, and a task it blocks is accounted for.
LEMMA StepKeeps ==
    ASSUME IInv, WellFormed(sched'), parked' \subseteq TaskId,
           waiters' \in [WaitQueues -> Seq(TaskId)], sleepers' \in Seq(SleepEntry),
           now' \in 0 .. MaxNow, SleepOrdered(sleepers'),
           \A id \in TaskId : InState(sched', id, "Blocked") =>
               \/ id \in parked'
               \/ id \in Sleepers(sleepers')
               \/ \E w \in WaitQueues : id \in Range(waiters'[w])
    PROVE  IInv'
BY DEF IInv, TypeOK, WellFormed, Table, SleepQueueOrdered, BlockedTaskIsQueued

\* A method that leaves the queues alone and blocks nobody.
LEMMA CallKeeps ==
    ASSUME IInv, NEW r, Evolves(sched, r), Call(r)
    PROVE  IInv'
<1>1. /\ sched' = r /\ parked' = StillBlocked(parked)
      /\ UNCHANGED <<waiters, sleepers, now>>
  BY DEF Call
<1>2. /\ parked' \subseteq TaskId /\ waiters' \in [WaitQueues -> Seq(TaskId)]
      /\ sleepers' \in Seq(SleepEntry) /\ now' \in 0 .. MaxNow /\ SleepOrdered(sleepers')
  BY <1>1 DEF IInv, TypeOK, SleepQueueOrdered, StillBlocked
<1>3. ASSUME NEW id \in TaskId, InState(sched', id, "Blocked")
      PROVE  \/ id \in parked'
             \/ id \in Sleepers(sleepers')
             \/ \E w \in WaitQueues : id \in Range(waiters'[w])
  <2>1. InState(sched, id, "Blocked")
    BY <1>1, <1>3 DEF Evolves
  <2> QED BY <1>1, <1>3, <2>1 DEF IInv, BlockedTaskIsQueued, StillBlocked
<1> QED BY <1>1, <1>2, <1>3, StepKeeps DEF Evolves

\* Every method of Scheduler, and the clock, preserve the inductive invariant.
LEMMA NextIInv ==
    ASSUME IInv, [Next]_vars
    PROVE  IInv'
<1>1. /\ WellFormed(sched) /\ TypeOK /\ BlockedTaskIsQueued /\ SleepOrdered(sleepers)
      /\ parked \subseteq TaskId /\ waiters \in [WaitQueues -> Seq(TaskId)]
      /\ sleepers \in Seq(SleepEntry) /\ now \in 0 .. MaxNow
  BY DEF IInv, TypeOK, SleepQueueOrdered
<1>2. Issued(sched) \subseteq TaskId
  BY DEF Issued
<1>3. ASSUME NEW kind \in Kinds, create_task(kind) PROVE IInv'
  <2>1. kind \in TaskKind /\ Evolves(sched, CreateTask(sched, kind))
    BY <1>1, <1>3, CreateTaskEvolves, KindsAssumption DEF create_task
  <2> QED BY <1>3, <2>1, CallKeeps DEF create_task
<1>4. ASSUME NEW id \in Issued(sched), attach_execution(id) PROVE IInv'
  BY <1>1, <1>2, <1>4, AttachExecutionEvolves, CallKeeps DEF attach_execution
<1>5. ASSUME NEW id \in Issued(sched), destroy_created(id) PROVE IInv'
  BY <1>1, <1>2, <1>5, DestroyCreatedEvolves, CallKeeps DEF destroy_created
<1>6. ASSUME NEW id \in Issued(sched), make_ready(id) PROVE IInv'
  BY <1>1, <1>2, <1>6, MakeReadyEvolves, CallKeeps DEF make_ready
<1>7. ASSUME NEW id \in Issued(sched), terminate_current_to(id) PROVE IInv'
  BY <1>1, <1>2, <1>7, TerminateFacts, CallKeeps DEF terminate_current_to
<1>8. ASSUME schedule_next PROVE IInv'
  BY <1>1, <1>8, ScheduleNextEvolves, CallKeeps DEF schedule_next
<1>9. ASSUME exit_current PROVE IInv'
  BY <1>1, <1>9, ExitEvolves, CallKeeps DEF exit_current
<1>10. /\ WellFormed(Block(sched))
       /\ \A j \in TaskId : InState(Block(sched), j, "Blocked") =>
              InState(sched, j, "Blocked") \/ j = sched.current
       /\ sched.current \in TaskId \cup {None}
  BY <1>1, BlockFacts DEF TypeOK, SchedulerValue
<1>11. ASSUME block_current PROVE IInv'
  <2>1. /\ sched' = Block(sched) /\ parked' = StillBlocked(parked \cup ({sched.current} \ {None}))
        /\ UNCHANGED <<waiters, sleepers, now>>
    BY <1>11 DEF block_current
  <2>2. parked' \subseteq TaskId
    BY <1>1, <1>10, <2>1 DEF StillBlocked
  <2>3. ASSUME NEW id \in TaskId, InState(sched', id, "Blocked")
        PROVE  \/ id \in parked'
               \/ id \in Sleepers(sleepers')
               \/ \E w \in WaitQueues : id \in Range(waiters'[w])
    BY <1>1, <1>10, <2>1, <2>3, NoneAssumption DEF BlockedTaskIsQueued, StillBlocked
  <2> QED BY <1>1, <1>10, <2>1, <2>2, <2>3, StepKeeps
<1>12. ASSUME NEW w \in WaitQueues, block_current_on(w) PROVE IInv'
  <2>1. /\ sched' = Block(sched) /\ parked' = StillBlocked(parked) /\ sched.current # None
        /\ waiters' = [waiters EXCEPT ![w] = Push(waiters[w], sched.current)]
        /\ UNCHANGED <<sleepers, now>> /\ sched.current \notin Range(waiters[w])
    BY <1>12 DEF block_current_on, BlockOk
  <2>2. waiters[w] \in Seq(TaskId) /\ sched.current \in TaskId
    BY <1>1, <1>10, <2>1
  <2>3. /\ Push(waiters[w], sched.current) \in Seq(TaskId)
        /\ Range(Push(waiters[w], sched.current)) = Range(waiters[w]) \cup {sched.current}
    BY <2>1, <2>2, AppendFacts DEF Push
  <2>4. parked' \subseteq TaskId /\ waiters' \in [WaitQueues -> Seq(TaskId)]
    BY <1>1, <2>1, <2>3 DEF StillBlocked
  <2>5. /\ Range(waiters'[w]) = Range(waiters[w]) \cup {sched.current}
        /\ \A v \in WaitQueues : v # w => waiters'[v] = waiters[v]
    BY <1>1, <2>1, <2>3
  <2>6. ASSUME NEW id \in TaskId, InState(sched', id, "Blocked")
        PROVE  \/ id \in parked'
               \/ id \in Sleepers(sleepers')
               \/ \E v \in WaitQueues : id \in Range(waiters'[v])
    BY <1>1, <1>10, <2>1, <2>5, <2>6 DEF BlockedTaskIsQueued, StillBlocked
  <2> QED BY <1>1, <1>10, <2>1, <2>4, <2>6, StepKeeps
<1>13. ASSUME NEW w \in WaitQueues, wake_one(w) PROVE IInv'
  <2> DEFINE q == waiters[w]
  <2>1. /\ sched' = Wake(sched, q) /\ parked' = StillBlocked(parked)
        /\ waiters' = [waiters EXCEPT ![w] = AfterWake(sched, q)]
        /\ UNCHANGED <<sleepers, now>>
    BY <1>13 DEF wake_one
  <2>2. q \in Seq(TaskId)
    BY <1>1
  <2>3. /\ Evolves(sched, sched') /\ AfterWake(sched, q) \in Seq(TaskId)
        /\ \A j \in Range(q) : InState(sched', j, "Blocked") => j \in Range(AfterWake(sched, q))
    BY <1>1, <2>1, <2>2, WakeFacts
  <2>4. parked' \subseteq TaskId /\ waiters' \in [WaitQueues -> Seq(TaskId)]
    BY <1>1, <2>1, <2>3 DEF StillBlocked
  <2>5. waiters'[w] = AfterWake(sched, q) /\ \A v \in WaitQueues : v # w => waiters'[v] = waiters[v]
    BY <1>1, <2>1
  <2>6. ASSUME NEW id \in TaskId, InState(sched', id, "Blocked")
        PROVE  \/ id \in parked'
               \/ id \in Sleepers(sleepers')
               \/ \E v \in WaitQueues : id \in Range(waiters'[v])
    <3>1. InState(sched, id, "Blocked")
      BY <2>3, <2>6 DEF Evolves
    <3> QED BY <1>1, <2>1, <2>3, <2>5, <2>6, <3>1 DEF BlockedTaskIsQueued, StillBlocked
  <2> QED BY <1>1, <2>1, <2>3, <2>4, <2>6, StepKeeps DEF Evolves
<1>14. ASSUME NEW deadline \in 0 .. MaxNow, sleep_current_until(deadline) PROVE IInv'
  <2> DEFINE e == [deadline |-> deadline, task |-> sched.current]
  <2>1. /\ sched' = Block(sched) /\ parked' = StillBlocked(parked)
        /\ sleepers' = InsertSleeper(sleepers, e)
        /\ UNCHANGED <<waiters, now>>
        /\ sched.current # None /\ sched.current \notin Sleepers(sleepers)
    BY <1>14 DEF sleep_current_until, SleepOk
  <2>2. e \in SleepEntry /\ e.task = sched.current
    BY <1>10, <2>1, MaxNowAssumption DEF SleepEntry
  <2> HIDE DEF e
  <2>3. /\ sleepers' \in Seq(SleepEntry) /\ SleepOrdered(sleepers')
        /\ Sleepers(sleepers') = Sleepers(sleepers) \cup {sched.current}
    BY <1>1, <2>1, <2>2, InsertSleeperFacts
  <2>4. parked' \subseteq TaskId
    BY <1>1, <2>1 DEF StillBlocked
  <2>5. ASSUME NEW id \in TaskId, InState(sched', id, "Blocked")
        PROVE  \/ id \in parked'
               \/ id \in Sleepers(sleepers')
               \/ \E v \in WaitQueues : id \in Range(waiters'[v])
    BY <1>1, <1>10, <2>1, <2>3, <2>5 DEF BlockedTaskIsQueued, StillBlocked
  <2> QED BY <1>1, <1>10, <2>1, <2>3, <2>4, <2>5, StepKeeps
<1>15. ASSUME expire_sleepers PROVE IInv'
  <2>1. /\ sched' = Expire(sched, sleepers, now) /\ parked' = StillBlocked(parked)
        /\ sleepers' = UnexpiredEntries(sleepers, now)
        /\ UNCHANGED <<waiters, now>>
    BY <1>15 DEF expire_sleepers
  <2>2. now \in Nat
    BY <1>1, MaxNowAssumption
  <2>3. /\ Evolves(sched, sched')
        /\ \A j \in TaskId : InState(sched', j, "Blocked") =>
               InState(sched, j, "Blocked") /\ j \notin Range(ExpiredTasks(sleepers, now))
    BY <1>1, <2>1, <2>2, ExpireFacts
  <2>4. /\ sleepers' \in Seq(SleepEntry) /\ SleepOrdered(sleepers')
        /\ Sleepers(sleepers) \subseteq Range(ExpiredTasks(sleepers, now)) \cup Sleepers(sleepers')
    BY <1>1, <2>1, <2>2, ExpiryFacts
  <2>5. parked' \subseteq TaskId
    BY <1>1, <2>1 DEF StillBlocked
  <2>6. ASSUME NEW id \in TaskId, InState(sched', id, "Blocked")
        PROVE  \/ id \in parked'
               \/ id \in Sleepers(sleepers')
               \/ \E v \in WaitQueues : id \in Range(waiters'[v])
    BY <1>1, <2>1, <2>3, <2>4, <2>6 DEF BlockedTaskIsQueued, StillBlocked
  <2> QED BY <1>1, <2>1, <2>3, <2>4, <2>5, <2>6, StepKeeps DEF Evolves
<1>16. ASSUME tick PROVE IInv'
  <2>1. now' \in 0 .. MaxNow /\ UNCHANGED <<sched, waiters, sleepers, parked>>
    BY <1>1, <1>16, MaxNowAssumption DEF tick
  <2> QED BY <1>1, <2>1, StepKeeps DEF BlockedTaskIsQueued
<1>17. ASSUME UNCHANGED vars PROVE IInv'
  BY <1>17 DEF vars, IInv, TypeOK, SleepQueueOrdered, BlockedTaskIsQueued
<1> QED BY <1>3, <1>4, <1>5, <1>6, <1>7, <1>8, <1>9, <1>11, <1>12, <1>13, <1>14,
           <1>15, <1>16, <1>17 DEF Next

\* Whatever methods of Scheduler are called in whatever order, the task table,
\* the run queue, the CPU owner, the sleep queue and the blocked tasks fit
\* together.
THEOREM Invariance == Spec => []IInv
BY InitIInv, NextIInv, PTL DEF Spec

\* The fields of Scheduler, WaitQueue and SleepQueue keep their types, and a
\* slot only ever holds the task issued last for it.
THEOREM TypeCorrect == Spec => []TypeOK
<1>1. IInv => TypeOK
  BY DEF IInv
<1> QED BY <1>1, Invariance, PTL

\* Whatever the callers of Scheduler do, the run queue holds exactly the
\* ready tasks, each once.
THEOREM RunQueueCorrect == Spec => []ReadyQueueExact
<1>1. IInv => ReadyQueueExact
  BY DEF IInv, WellFormed, ReadyQueueExact
<1> QED BY <1>1, Invariance, PTL

\* At most one task runs, and Scheduler::current is it.
THEOREM CpuOwnerCorrect == Spec => []CpuOwnerExact
<1>1. IInv => CpuOwnerExact
  BY DEF IInv, WellFormed, CpuOwnerExact
<1> QED BY <1>1, Invariance, PTL

\* SleepQueue stays ordered, with no task in it twice.
THEOREM SleepQueueCorrect == Spec => []SleepQueueOrdered
<1>1. IInv => SleepQueueOrdered
  BY DEF IInv
<1> QED BY <1>1, Invariance, PTL

\* No call loses the wakeup of a blocked task.
THEOREM NoLostWakeup == Spec => []BlockedTaskIsQueued
<1>1. IInv => BlockedTaskIsQueued
  BY DEF IInv
<1> QED BY <1>1, Invariance, PTL

\* terminate_current_to, called in any reachable state with any task id ever
\* issued, commits all of its changes or none.
THEOREM TerminateCorrect == Spec => []TerminateIsAtomic
<1>1. IInv => TerminateIsAtomic
  <2> SUFFICES ASSUME IInv, NEW id \in Issued(sched)
               PROVE  LET t == TerminateCurrentTo(sched, id)
                      IN  \/ t = sched
                          \/ /\ t.current = id /\ InState(t, id, "Running")
                             /\ ~ Live(t, sched.current)
                             /\ Range(t.ready) = Range(sched.ready) \ {id}
    BY DEF TerminateIsAtomic
  <2>1. id \in TaskId /\ WellFormed(sched)
    BY DEF Issued, IInv
  <2> QED BY <2>1, TerminateFacts
<1> QED BY <1>1, Invariance, PTL

\* A step never revives a task id that was dead before it: generations tell a
\* slot's tasks apart up to the last one.
LEMMA NextKeepsDead ==
    ASSUME IInv, [Next]_vars, NEW id \in Issued(sched), ~ Live(sched, id)
    PROVE  ~ Live(sched', id)
<1>1. /\ WellFormed(sched) /\ TypeOK /\ SleepOrdered(sleepers) /\ now \in Nat
      /\ waiters \in [WaitQueues -> Seq(TaskId)] /\ sleepers \in Seq(SleepEntry)
  BY MaxNowAssumption DEF IInv, TypeOK, SleepQueueOrdered
<1>2. Issued(sched) \subseteq TaskId
  BY DEF Issued
<1>3. \A r : Evolves(sched, r) => ~ Live(r, id)
  BY DEF Evolves
<1>4. ~ Live(Block(sched), id)
  BY <1>1, <1>2, BlockFacts DEF SameTasks
<1>5. ASSUME NEW kind \in Kinds, create_task(kind) PROVE ~ Live(sched', id)
  BY <1>1, <1>3, <1>5, CreateTaskEvolves, KindsAssumption DEF create_task, Call
<1>6. ASSUME NEW j \in Issued(sched), attach_execution(j) PROVE ~ Live(sched', id)
  BY <1>1, <1>2, <1>3, <1>6, AttachExecutionEvolves DEF attach_execution, Call
<1>7. ASSUME NEW j \in Issued(sched), destroy_created(j) PROVE ~ Live(sched', id)
  BY <1>1, <1>2, <1>3, <1>7, DestroyCreatedEvolves DEF destroy_created, Call
<1>8. ASSUME NEW j \in Issued(sched), make_ready(j) PROVE ~ Live(sched', id)
  BY <1>1, <1>2, <1>3, <1>8, MakeReadyEvolves DEF make_ready, Call
<1>9. ASSUME NEW j \in Issued(sched), terminate_current_to(j) PROVE ~ Live(sched', id)
  BY <1>1, <1>2, <1>3, <1>9, TerminateFacts DEF terminate_current_to, Call
<1>10. ASSUME schedule_next PROVE ~ Live(sched', id)
  BY <1>1, <1>3, <1>10, ScheduleNextEvolves DEF schedule_next, Call
<1>11. ASSUME exit_current PROVE ~ Live(sched', id)
  BY <1>1, <1>3, <1>11, ExitEvolves DEF exit_current, Call
<1>12. ASSUME block_current PROVE ~ Live(sched', id)
  BY <1>4, <1>12 DEF block_current
<1>13. ASSUME NEW w \in WaitQueues, block_current_on(w) PROVE ~ Live(sched', id)
  BY <1>4, <1>13 DEF block_current_on
<1>14. ASSUME NEW w \in WaitQueues, wake_one(w) PROVE ~ Live(sched', id)
  BY <1>1, <1>3, <1>14, WakeFacts DEF wake_one
<1>15. ASSUME NEW deadline \in 0 .. MaxNow, sleep_current_until(deadline)
       PROVE  ~ Live(sched', id)
  BY <1>4, <1>15 DEF sleep_current_until
<1>16. ASSUME expire_sleepers PROVE ~ Live(sched', id)
  BY <1>1, <1>3, <1>16, ExpireFacts DEF expire_sleepers
<1>17. ASSUME tick \/ UNCHANGED vars PROVE ~ Live(sched', id)
  BY <1>17 DEF tick, vars
<1> QED BY <1>5, <1>6, <1>7, <1>8, <1>9, <1>10, <1>11, <1>12, <1>13, <1>14, <1>15,
           <1>16, <1>17 DEF Next

\* A TaskId that stopped being live is dead for ever.
THEOREM DeadIdsCorrect == Spec => DeadIdsStayDead
<1>1. IInv /\ [Next]_vars => [\A id \in Issued(sched) : ~ Live(sched, id) => ~ Live(sched', id)]_vars
  BY NextKeepsDead
<1> QED BY <1>1, Invariance, PTL DEF Spec, DeadIdsStayDead

\* expire_sleepers never leaves an expired entry in the queue.
THEOREM ExpiryCorrect == Spec => ExpiryIsComplete
<1>1. IInv => [expire_sleepers => \A i \in DOMAIN sleepers' : sleepers'[i].deadline > now]_vars
  <2> SUFFICES ASSUME IInv, expire_sleepers
               PROVE  \A i \in DOMAIN sleepers' : sleepers'[i].deadline > now
    OBVIOUS
  <2>1. sleepers' = UnexpiredEntries(sleepers, now)
    BY DEF expire_sleepers
  <2>2. now \in Nat /\ sleepers \in Seq(SleepEntry) /\ SleepOrdered(sleepers)
    BY MaxNowAssumption DEF IInv, TypeOK, SleepQueueOrdered
  <2> QED BY <2>1, <2>2, ExpiryFacts
<1> QED BY <1>1, Invariance, PTL DEF ExpiryIsComplete

===============================================================================
