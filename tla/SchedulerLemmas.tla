--------------------------- MODULE SchedulerLemmas ----------------------------
(***************************************************************************)
(* What the methods of the scheduler do to a scheduler value: each keeps   *)
(* it well formed, and each ends, starts or leaves alone known tasks.      *)
(***************************************************************************)
EXTENDS QueueProofs

(***************************************************************************)
(* The elementary updates of a scheduler value, described by what they do  *)
(* to the state of each task id.                                           *)
(***************************************************************************)

\* The table types and the slot discipline together.
Table(s) == s \in SchedulerValue /\ SlotsMatchIds(s)

\* Two live ids of one slot are the same id.
LEMMA SlotOfId ==
    ASSUME NEW s, Table(s), NEW a \in TaskId, NEW b \in TaskId,
           Live(s, a), Live(s, b), a.index = b.index
    PROVE  a = b
BY DEF Live

\* A legal transition changes the state of the one task it is applied to.
LEMMA MoveFacts ==
    ASSUME NEW s, Table(s), NEW id \in TaskId, NEW state \in TaskState \ {"Exited"},
           CanMove(s, id, state)
    PROVE  LET r == Move(s, id, state)
           IN  /\ Table(r)
               /\ r.ready = s.ready /\ r.current = s.current
               /\ r.generations = s.generations
               /\ \A j \in TaskId : Live(r, j) <=> Live(s, j)
               /\ \A j \in TaskId : \A x : j # id => (InState(r, j, x) <=> InState(s, j, x))
               /\ \A x : InState(r, id, x) <=> x = state
<1> DEFINE r == Move(s, id, state)
           i == id.index
           tcb == [s.tasks[i] EXCEPT !.state = state]
<1>1. i \in Index /\ s.tasks[i] # None /\ s.tasks[i].id = id /\ s.tasks[i] \in TaskControlBlock
  <2>1. i \in Index
    BY DEF TaskId
  <2>2. s.tasks[i] \in TaskControlBlock \cup {None}
    BY <2>1 DEF Table, SchedulerValue
  <2> QED BY <2>1, <2>2 DEF CanMove, Live
<1>2. r = [s EXCEPT !.tasks = [s.tasks EXCEPT ![i] = tcb]]
  BY DEF Move
<1>3. tcb \in TaskControlBlock /\ tcb.state = state /\ tcb.id = id
  BY <1>1 DEF TaskControlBlock
<1>4. tcb # None
  BY <1>3, NoneIsNoTask
<1>5. s \in SchedulerValue /\ SlotsMatchIds(s)
  BY DEF Table
<1>6. /\ r.tasks = [s.tasks EXCEPT ![i] = tcb] /\ r.ready = s.ready
      /\ r.current = s.current /\ r.generations = s.generations
  BY <1>2, <1>5 DEF SchedulerValue
<1>7. r.tasks \in [Index -> TaskControlBlock \cup {None}]
  BY <1>6, <1>5, <1>3, <1>1 DEF SchedulerValue
<1>8. r \in SchedulerValue
  BY <1>2, <1>5, <1>6, <1>7 DEF SchedulerValue
<1>9. r.tasks[i] = tcb /\ \A k \in Index : k # i => r.tasks[k] = s.tasks[k]
  BY <1>6, <1>5, <1>1 DEF SchedulerValue
<1>10. SlotsMatchIds(r)
  BY <1>9, <1>5, <1>6, <1>3, <1>1, <1>4 DEF SlotsMatchIds
<1>11. ASSUME NEW j \in TaskId PROVE Live(r, j) <=> Live(s, j)
  <2>1. j.index \in Index
    BY DEF TaskId
  <2> QED BY <2>1, <1>9, <1>3, <1>1, <1>4 DEF Live
<1>12. ASSUME NEW j \in TaskId, NEW x, j # id PROVE InState(r, j, x) <=> InState(s, j, x)
  <2>1. j.index \in Index
    BY DEF TaskId
  <2>2. CASE j.index = i
    BY <2>2, <1>11, <1>1, <1>12 DEF InState, Live
  <2>3. CASE j.index # i
    BY <2>3, <2>1, <1>9 DEF InState, Live
  <2> QED BY <2>2, <2>3
<1>13. ASSUME NEW x PROVE InState(r, id, x) <=> x = state
  BY <1>9, <1>3, <1>4 DEF InState, Live
<1> QED BY <1>6, <1>8, <1>10, <1>11, <1>12, <1>13 DEF Table

\* Emptying the slot of a live task ends that task and no other.
LEMMA FreeSlotFacts ==
    ASSUME NEW s, Table(s), NEW id \in TaskId, Live(s, id)
    PROVE  LET r == FreeSlot(s, id.index)
           IN  /\ Table(r)
               /\ r.ready = s.ready /\ r.current = s.current
               /\ r.generations = s.generations
               /\ \A j \in TaskId : Live(r, j) <=> Live(s, j) /\ j # id
               /\ \A j \in TaskId : \A x : InState(r, j, x) <=> InState(s, j, x) /\ j # id
<1> DEFINE i == id.index
           r == FreeSlot(s, i)
<1>1. i \in Index /\ s.tasks[i] # None /\ s.tasks[i].id = id
  BY DEF Live, TaskId
<1>2. s \in SchedulerValue /\ SlotsMatchIds(s)
  BY DEF Table
<1>3. /\ r.tasks = [s.tasks EXCEPT ![i] = None] /\ r.ready = s.ready
      /\ r.current = s.current /\ r.generations = s.generations
  BY <1>2 DEF SchedulerValue, FreeSlot
<1>4. r.tasks \in [Index -> TaskControlBlock \cup {None}]
  BY <1>3, <1>2, <1>1 DEF SchedulerValue
<1>5. r \in SchedulerValue
  BY <1>2, <1>3, <1>4 DEF SchedulerValue, FreeSlot
<1>6. r.tasks[i] = None /\ \A k \in Index : k # i => r.tasks[k] = s.tasks[k]
  BY <1>3, <1>2, <1>1 DEF SchedulerValue
<1>7. SlotsMatchIds(r)
  BY <1>6, <1>2, <1>3 DEF SlotsMatchIds
<1>8. ASSUME NEW j \in TaskId PROVE Live(r, j) <=> Live(s, j) /\ j # id
  <2>1. j.index \in Index
    BY DEF TaskId
  <2> QED BY <2>1, <1>6, <1>1 DEF Live
<1>9. ASSUME NEW j \in TaskId, NEW x PROVE InState(r, j, x) <=> InState(s, j, x) /\ j # id
  <2>1. j.index \in Index
    BY DEF TaskId
  <2> QED BY <2>1, <1>6, <1>1 DEF InState, Live
<1> QED BY <1>3, <1>5, <1>7, <1>8, <1>9 DEF Table

\* Replacing the run queue or the owner touches no task.
LEMMA ReadyFieldFacts ==
    ASSUME NEW s, Table(s), NEW q \in Seq(TaskId)
    PROVE  /\ Table(SetReady(s, q)) /\ SetReady(s, q).ready = q
           /\ SetReady(s, q).current = s.current /\ SetReady(s, q).tasks = s.tasks
           /\ SetReady(s, q).generations = s.generations
BY DEF Table, SchedulerValue, SlotsMatchIds, SetReady

\* Replacing the owner of the CPU touches no task and no queue.
LEMMA CurrentFieldFacts ==
    ASSUME NEW s, Table(s), NEW c \in TaskId \cup {None}
    PROVE  /\ Table(SetCurrent(s, c)) /\ SetCurrent(s, c).current = c
           /\ SetCurrent(s, c).ready = s.ready /\ SetCurrent(s, c).tasks = s.tasks
           /\ SetCurrent(s, c).generations = s.generations
BY DEF Table, SchedulerValue, SlotsMatchIds, SetCurrent

\* What the lookups say depends on the task table alone.
LEMMA SameTable ==
    ASSUME NEW s, NEW r, r.tasks = s.tasks
    PROVE  /\ \A j : Live(r, j) <=> Live(s, j)
           /\ \A j, x : InState(r, j, x) <=> InState(s, j, x)
           /\ \A j, x : CanMove(r, j, x) <=> CanMove(s, j, x)
BY DEF Live, InState, CanMove

(***************************************************************************)
(* Every method keeps a well-formed scheduler well formed.                 *)
(***************************************************************************)

\* The inductive invariant of a scheduler value.
WellFormed(s) == Table(s) /\ ReadyExact(s) /\ OwnerExact(s)

\* A task is in one state at a time.
LEMMA OneState ==
    ASSUME NEW s, NEW id, NEW x, NEW y, InState(s, id, x), InState(s, id, y)
    PROVE  x = y
BY DEF InState

\* The legal transitions by their end point.
LEMMA TransitionFacts ==
    ASSUME NEW x, NEW y, <<x, y>> \in Transitions
    PROVE  /\ y = "Ready" => x \in {"Created", "Running", "Blocked"}
           /\ y = "Running" => x = "Ready"
           /\ y = "Blocked" => x = "Running"
           /\ y = "Exited" => x \in {"Running", "Blocked"}
BY DEF Transitions

\* Taking a task that is not queued to Ready and queueing it.
LEMMA EnqueueKeeps ==
    ASSUME NEW s, Table(s), ReadyExact(s), NEW id \in TaskId, CanMove(s, id, "Ready")
    PROVE  LET r == Enqueue(s, id)
           IN  /\ Table(r) /\ ReadyExact(r)
               /\ r.current = s.current /\ r.generations = s.generations
               /\ r.ready = Append(s.ready, id) /\ id \notin Range(s.ready)
               /\ \A j \in TaskId : Live(r, j) <=> Live(s, j)
               /\ \A j \in TaskId : \A x : j # id => (InState(r, j, x) <=> InState(s, j, x))
               /\ \A x : InState(r, id, x) <=> x = "Ready"
<1> DEFINE m == Move(s, id, "Ready")
           r == Enqueue(s, id)
<1>1. /\ Table(m) /\ m.ready = s.ready /\ m.current = s.current
      /\ m.generations = s.generations
      /\ \A j \in TaskId : Live(m, j) <=> Live(s, j)
      /\ \A j \in TaskId : \A x : j # id => (InState(m, j, x) <=> InState(s, j, x))
      /\ \A x : InState(m, id, x) <=> x = "Ready"
  BY MoveFacts DEF TaskState
<1>2. ~ InState(s, id, "Ready")
  BY TransitionFacts DEF CanMove, InState
<1>3. id \notin Range(s.ready)
  BY <1>2 DEF ReadyExact
<1>4. s.ready \in Seq(TaskId)
  BY DEF Table, SchedulerValue
<1>5. Push(s.ready, id) = Append(s.ready, id)
  BY <1>3 DEF Push
<1>6. Push(s.ready, id) \in Seq(TaskId)
  BY <1>4, <1>5, AppendFacts
<1>7. /\ Table(r) /\ r.ready = Push(s.ready, id) /\ r.current = m.current
      /\ r.tasks = m.tasks /\ r.generations = m.generations
  BY <1>1, <1>6, ReadyFieldFacts DEF Enqueue
<1>8. IsInjective(r.ready) /\ Range(r.ready) = Range(s.ready) \cup {id}
  <2>1. IsInjective(s.ready)
    BY DEF ReadyExact
  <2> HIDE DEF r
  <2> QED BY <2>1, <1>3, <1>4, <1>5, <1>7, AppendFacts
<1>9. /\ \A j : Live(r, j) <=> Live(m, j)
      /\ \A j, x : InState(r, j, x) <=> InState(m, j, x)
  BY <1>7, SameTable
<1>10. ReadyExact(r)
  BY <1>1, <1>8, <1>9 DEF ReadyExact
<1> QED BY <1>1, <1>3, <1>5, <1>7, <1>9, <1>10

\* Popping the front of the run queue and running it, when no task runs.
LEMMA DispatchKeeps ==
    ASSUME NEW s, Table(s), ReadyExact(s), s.ready # <<>>,
           \A j \in TaskId : ~ InState(s, j, "Running")
    PROVE  LET next == Head(s.ready)
               popped == SetReady(s, Tail(s.ready))
               r == SetCurrent(Move(popped, next, "Running"), next)
           IN  /\ next \in TaskId /\ InState(s, next, "Ready")
               /\ CanMove(popped, next, "Running")
               /\ WellFormed(r)
               /\ r.generations = s.generations /\ InState(r, next, "Running")
               /\ Range(r.ready) = Range(s.ready) \ {next}
               /\ \A j \in TaskId : Live(r, j) <=> Live(s, j)
               /\ \A j \in TaskId : InState(r, j, "Blocked") <=> InState(s, j, "Blocked")
<1> DEFINE next == Head(s.ready)
           popped == SetReady(s, Tail(s.ready))
           m == Move(popped, next, "Running")
           r == SetCurrent(m, next)
<1>1. s.ready \in Seq(TaskId)
  BY DEF Table, SchedulerValue
<1>2. /\ Tail(s.ready) \in Seq(TaskId) /\ next \in TaskId /\ next \in Range(s.ready)
      /\ IsInjective(Tail(s.ready)) /\ Range(Tail(s.ready)) = Range(s.ready) \ {next}
  BY <1>1, TailFacts DEF ReadyExact
<1>3. InState(s, next, "Ready")
  BY <1>2 DEF ReadyExact
<1>4. /\ Table(popped) /\ popped.ready = Tail(s.ready) /\ popped.tasks = s.tasks
      /\ popped.generations = s.generations
  BY <1>2, ReadyFieldFacts
<1>5. /\ \A j : Live(popped, j) <=> Live(s, j)
      /\ \A j, x : InState(popped, j, x) <=> InState(s, j, x)
      /\ \A j, x : CanMove(popped, j, x) <=> CanMove(s, j, x)
  BY <1>4, SameTable
<1>6. CanMove(popped, next, "Running")
  BY <1>3, <1>5 DEF CanMove, InState, Transitions
<1>7. /\ Table(m) /\ m.ready = Tail(s.ready) /\ m.generations = s.generations
      /\ \A j \in TaskId : Live(m, j) <=> Live(s, j)
      /\ \A j \in TaskId : \A x : j # next => (InState(m, j, x) <=> InState(s, j, x))
      /\ \A x : InState(m, next, x) <=> x = "Running"
  BY <1>2, <1>4, <1>5, <1>6, MoveFacts DEF TaskState
<1>8. /\ Table(r) /\ r.ready = m.ready /\ r.tasks = m.tasks /\ r.current = next
      /\ r.generations = m.generations
  BY <1>2, <1>7, CurrentFieldFacts
<1>9. /\ \A j : Live(r, j) <=> Live(m, j)
      /\ \A j, x : InState(r, j, x) <=> InState(m, j, x)
  BY <1>8, SameTable
<1>10. ReadyExact(r)
  <2>1. IsInjective(r.ready) /\ Range(r.ready) = Range(s.ready) \ {next}
    BY <1>2, <1>7, <1>8
  <2>2. ASSUME NEW j \in TaskId PROVE j \in Range(r.ready) <=> InState(r, j, "Ready")
    <3>1. CASE j = next
      BY <3>1, <2>1, <1>7, <1>9
    <3>2. CASE j # next
      BY <3>2, <2>1, <1>7, <1>9 DEF ReadyExact
    <3> QED BY <3>1, <3>2
  <2> QED BY <2>1, <2>2 DEF ReadyExact
<1>11. OwnerExact(r)
  BY <1>2, <1>7, <1>8, <1>9 DEF OwnerExact
<1>12. ASSUME NEW j \in TaskId PROVE InState(r, j, "Blocked") <=> InState(s, j, "Blocked")
  <2>1. CASE j = next
    BY <2>1, <1>3, <1>7, <1>9, OneState
  <2>2. CASE j # next
    BY <2>2, <1>7, <1>9
  <2> QED BY <2>1, <2>2
<1> QED BY <1>2, <1>3, <1>6, <1>7, <1>8, <1>9, <1>10, <1>11, <1>12 DEF WellFormed

(***************************************************************************)
(* The methods.  A method evolves s into r: r is well formed, no id of s   *)
(* that was dead is alive in r, and (block_current apart) the call blocks  *)
(* nobody.                                                                 *)
(***************************************************************************)
Evolves(s, r) ==
    /\ WellFormed(r)
    /\ \A j \in Issued(s) : Live(r, j) => Live(s, j)
    /\ \A j \in TaskId : InState(r, j, "Blocked") => InState(s, j, "Blocked")

\* The same tasks are alive in r as in s.
SameTasks(s, r) == \A j \in TaskId : Live(r, j) <=> Live(s, j)

\* Scheduler::new has no tasks, an empty run queue and an idle CPU.
LEMMA NewSchedulerWellFormed == WellFormed(NewScheduler)
<1> DEFINE s == NewScheduler
<1>1. /\ s.tasks = [i \in Index |-> None] /\ s.generations = [i \in Index |-> 0]
      /\ s.ready = <<>> /\ s.current = None
  BY DEF NewScheduler
<1>2. s \in SchedulerValue
  BY GenerationAssumption DEF SchedulerValue, NewScheduler
<1>3. \A j \in TaskId : ~ Live(s, j)
  BY <1>1 DEF Live, TaskId
<1>4. Range(s.ready) = {} /\ IsInjective(s.ready)
  BY <1>1 DEF Range, IsInjective
<1>5. Table(s)
  BY <1>1, <1>2 DEF Table, SlotsMatchIds
<1> QED BY <1>1, <1>3, <1>4, <1>5 DEF WellFormed, ReadyExact, OwnerExact, InState

\* create_task issues an id that was never issued before, and disturbs nothing.
LEMMA CreateTaskEvolves ==
    ASSUME NEW s, WellFormed(s), NEW kind \in TaskKind, CanCreate(s)
    PROVE  LET r == CreateTask(s, kind)
               id == NextTaskId(s)
           IN  /\ Evolves(s, r) /\ r.current = s.current
               /\ id \in TaskId /\ ~ Live(s, id)
               /\ \A j \in TaskId : Live(r, j) <=> Live(s, j) \/ j = id
               /\ InState(r, id, "Created") /\ AttachExecutionOk(r, id)
<1> DEFINE S == ReusableSlots(s)
           i == Min(S)
           id == NextTaskId(s)
           block == [id |-> id, kind |-> kind, state |-> "Created", execution |-> FALSE]
           r == CreateTask(s, kind)
<1>1. s \in SchedulerValue /\ SlotsMatchIds(s)
  BY DEF WellFormed, Table
<1>2. i \in S
  <2>1. S \in SUBSET Index /\ IsFiniteSet(Index) /\ Index \subseteq Int
    BY SlotsAssumption, FS_Interval DEF ReusableSlots, Index
  <2>2. S \in SUBSET Int /\ IsFiniteSet(S) /\ S # {}
    BY <2>1, FS_Subset DEF CanCreate
  <2> QED BY <2>2, MinFacts
<1>3. id = [index |-> i, generation |-> s.generations[i] + 1]
  BY DEF NextTaskId
<1> HIDE DEF i, id
<1>4. /\ i \in Index /\ s.tasks[i] = None /\ s.generations[i] # MaxGeneration
      /\ s.generations[i] \in 0 .. MaxGeneration
  BY <1>1, <1>2 DEF ReusableSlots, SchedulerValue
<1>5. id \in TaskId /\ id.index = i /\ id.generation = s.generations[i] + 1
  BY <1>3, <1>4, GenerationAssumption DEF TaskId
<1>6. block \in TaskControlBlock /\ block # None /\ block.id = id /\ block.state = "Created" /\ ~ block.execution
  <2>1. block \in TaskControlBlock
    BY <1>5 DEF TaskControlBlock, TaskState
  <2> QED BY <2>1, NoneIsNoTask
<1> HIDE DEF block
<1>7. /\ r.tasks = [s.tasks EXCEPT ![i] = block]
      /\ r.generations = [s.generations EXCEPT ![i] = id.generation]
      /\ r.ready = s.ready /\ r.current = s.current
      /\ r = [tasks |-> r.tasks, generations |-> r.generations, ready |-> s.ready, current |-> s.current]
  <2>1. r = [s EXCEPT !.tasks[id.index] = block, !.generations[id.index] = id.generation]
    BY DEF CreateTask, block, id
  <2> HIDE DEF r
  <2>2. r = [s EXCEPT !.tasks = [s.tasks EXCEPT ![i] = block],
                      !.generations = [s.generations EXCEPT ![i] = id.generation]]
    BY <2>1, <1>5
  <2> QED BY <2>2, <1>1 DEF SchedulerValue
<1> HIDE DEF r
<1>8. r \in SchedulerValue
  <2>1. r.tasks \in [Index -> TaskControlBlock \cup {None}]
    BY <1>1, <1>6, <1>7 DEF SchedulerValue
  <2>2. r.generations \in [Index -> 0 .. MaxGeneration]
    BY <1>1, <1>4, <1>5, <1>7, GenerationAssumption DEF SchedulerValue
  <2> QED BY <1>1, <1>7, <2>1, <2>2 DEF SchedulerValue
<1>9. /\ r.tasks[i] = block /\ \A k \in Index : k # i => r.tasks[k] = s.tasks[k]
      /\ r.generations[i] = id.generation
      /\ \A k \in Index : k # i => r.generations[k] = s.generations[k]
  BY <1>1, <1>4, <1>7 DEF SchedulerValue
<1>10. SlotsMatchIds(r)
  BY <1>1, <1>3, <1>5, <1>6, <1>9 DEF SlotsMatchIds
<1>11. ASSUME NEW j \in TaskId
       PROVE  /\ Live(r, j) <=> Live(s, j) \/ j = id
              /\ \A x : x # "Created" => (InState(r, j, x) <=> InState(s, j, x))
  <2>1. j.index \in Index
    BY DEF TaskId
  <2>2. CASE j.index = i
    BY <2>2, <1>4, <1>5, <1>6, <1>9 DEF Live, InState
  <2>3. CASE j.index # i
    BY <2>1, <2>3, <1>5, <1>9 DEF Live, InState
  <2> QED BY <2>2, <2>3
<1>12. ReadyExact(r) /\ OwnerExact(r)
  <2>1. ReadyExact(s) /\ OwnerExact(s)
    BY DEF WellFormed
  <2>2. s.current \in TaskId \cup {None}
    BY <1>1 DEF SchedulerValue
  <2> QED BY <2>1, <2>2, <1>7, <1>11 DEF ReadyExact, OwnerExact
<1>13. id \notin Issued(s)
  BY <1>4, <1>5, GenerationAssumption DEF Issued
<1>14. \A j \in Issued(s) : j \in TaskId /\ (Live(r, j) => Live(s, j))
  BY <1>11, <1>13 DEF Issued
<1>15. Evolves(s, r)
  BY <1>8, <1>10, <1>11, <1>12, <1>14 DEF Evolves, WellFormed, Table
<1>16. ~ Live(s, id) /\ InState(r, id, "Created") /\ AttachExecutionOk(r, id)
  BY <1>4, <1>5, <1>6, <1>9 DEF Live, InState, AttachExecutionOk
<1> QED BY <1>5, <1>7, <1>11, <1>15, <1>16 DEF r, id

\* attach_execution changes no state of any task.
LEMMA AttachExecutionEvolves ==
    ASSUME NEW s, WellFormed(s), NEW id \in TaskId
    PROVE  LET r == AttachExecution(s, id)
           IN  /\ Evolves(s, r) /\ SameTasks(s, r) /\ r.current = s.current
               /\ InState(s, id, "Created") /\ AttachExecutionOk(s, id) => DestroyCreatedOk(r, id)
<1> DEFINE i == id.index
           tcb == [s.tasks[i] EXCEPT !.execution = TRUE]
           r == AttachExecution(s, id)
<1>1. s \in SchedulerValue /\ SlotsMatchIds(s) /\ ReadyExact(s) /\ OwnerExact(s)
  BY DEF WellFormed, Table
<1>2. CASE ~ AttachExecutionOk(s, id)
  BY <1>2 DEF AttachExecution, Evolves, SameTasks
<1>3. CASE AttachExecutionOk(s, id)
  <2>1. i \in Index /\ s.tasks[i] # None /\ s.tasks[i].id = id
    BY <1>3 DEF AttachExecutionOk, Live, TaskId
  <2>2. s.tasks[i] \in TaskControlBlock
    BY <2>1, <1>1 DEF SchedulerValue
  <2>3. tcb \in TaskControlBlock /\ tcb # None /\ tcb.id = id /\ tcb.state = s.tasks[i].state /\ tcb.execution
    BY <2>1, <2>2, NoneIsNoTask DEF TaskControlBlock
  <2> HIDE DEF tcb
  <2>4. /\ r.tasks = [s.tasks EXCEPT ![i] = tcb] /\ r.generations = s.generations
        /\ r.ready = s.ready /\ r.current = s.current
        /\ r = [tasks |-> r.tasks, generations |-> s.generations, ready |-> s.ready, current |-> s.current]
    BY <1>1, <1>3 DEF AttachExecution, SchedulerValue, tcb
  <2> HIDE DEF r
  <2>5. r.tasks \in [Index -> TaskControlBlock \cup {None}]
    BY <1>1, <2>3, <2>4 DEF SchedulerValue
  <2>6. r \in SchedulerValue
    BY <1>1, <2>4, <2>5 DEF SchedulerValue
  <2>7. r.tasks[i] = tcb /\ \A k \in Index : k # i => r.tasks[k] = s.tasks[k]
    BY <1>1, <2>1, <2>4 DEF SchedulerValue
  <2>8. SlotsMatchIds(r)
    BY <1>1, <2>1, <2>3, <2>4, <2>7 DEF SlotsMatchIds
  <2>9. ASSUME NEW j \in TaskId
        PROVE  /\ Live(r, j) <=> Live(s, j)
               /\ \A x : InState(r, j, x) <=> InState(s, j, x)
    <3>1. j.index \in Index
      BY DEF TaskId
    <3> QED BY <3>1, <2>1, <2>3, <2>7 DEF Live, InState
  <2>10. s.current \in TaskId \cup {None}
    BY <1>1 DEF SchedulerValue
  <2>11. ReadyExact(r) /\ OwnerExact(r)
    BY <1>1, <2>4, <2>9, <2>10 DEF ReadyExact, OwnerExact
  <2>12. Evolves(s, r) /\ SameTasks(s, r)
    BY <2>6, <2>8, <2>9, <2>11 DEF Evolves, WellFormed, Table, Issued, SameTasks
  <2>13. InState(s, id, "Created") => DestroyCreatedOk(r, id)
    BY <2>3, <2>7, <2>9 DEF DestroyCreatedOk
  <2> QED BY <2>4, <2>12, <2>13 DEF r
<1> QED BY <1>2, <1>3

\* A method that refuses its call changes nothing.
LEMMA RefusalEvolves ==
    ASSUME NEW s, WellFormed(s)
    PROVE  Evolves(s, s)
BY DEF Evolves

\* destroy_created ends a task that is in no queue.
LEMMA DestroyCreatedEvolves ==
    ASSUME NEW s, WellFormed(s), NEW id \in TaskId
    PROVE  LET r == DestroyCreated(s, id)
           IN  /\ Evolves(s, r) /\ r.current = s.current
               /\ DestroyCreatedOk(s, id) =>
                    \A j \in TaskId : Live(r, j) <=> Live(s, j) /\ j # id
<1>1. CASE ~ DestroyCreatedOk(s, id)
  BY <1>1, RefusalEvolves DEF DestroyCreated
<1>2. CASE DestroyCreatedOk(s, id)
  <2> DEFINE r == FreeSlot(s, id.index)
  <2>1. Table(s) /\ ReadyExact(s) /\ OwnerExact(s) /\ InState(s, id, "Created") /\ Live(s, id)
    BY <1>2 DEF WellFormed, DestroyCreatedOk, InState
  <2>2. /\ Table(r) /\ r.ready = s.ready /\ r.current = s.current
        /\ \A j \in TaskId : Live(r, j) <=> Live(s, j) /\ j # id
        /\ \A j \in TaskId : \A x : InState(r, j, x) <=> InState(s, j, x) /\ j # id
    BY <2>1, FreeSlotFacts
  <2> HIDE DEF r
  <2>3. ~ InState(s, id, "Ready") /\ ~ InState(s, id, "Running")
    BY <2>1, OneState
  <2>4. s.current \in TaskId \cup {None}
    BY <2>1 DEF Table, SchedulerValue
  <2>5. ReadyExact(r) /\ OwnerExact(r)
    BY <2>1, <2>2, <2>3, <2>4 DEF ReadyExact, OwnerExact
  <2>6. Evolves(s, r)
    BY <2>2, <2>5 DEF Evolves, WellFormed, Issued
  <2> QED BY <2>2, <2>6, <1>2 DEF DestroyCreated, r
<1> QED BY <1>1, <1>2

\* make_ready queues a task that was created or blocked, or does nothing.
LEMMA MakeReadyEvolves ==
    ASSUME NEW s, WellFormed(s), NEW id \in TaskId
    PROVE  LET r == MakeReady(s, id)
           IN  Evolves(s, r) /\ SameTasks(s, r) /\ r.current = s.current
<1>1. CASE ~ MakeReadyOk(s, id)
  BY <1>1, RefusalEvolves DEF MakeReady, SameTasks
<1>2. CASE MakeReadyOk(s, id)
  <2> DEFINE r == Enqueue(s, id)
  <2>1. Table(s) /\ ReadyExact(s) /\ OwnerExact(s) /\ CanMove(s, id, "Ready")
    BY <1>2 DEF WellFormed, MakeReadyOk
  <2>2. /\ Table(r) /\ ReadyExact(r) /\ r.current = s.current
        /\ \A j \in TaskId : Live(r, j) <=> Live(s, j)
        /\ \A j \in TaskId : \A x : j # id => (InState(r, j, x) <=> InState(s, j, x))
        /\ \A x : InState(r, id, x) <=> x = "Ready"
    BY <2>1, EnqueueKeeps
  <2> HIDE DEF r
  <2>3. s.current \in TaskId \cup {None}
    BY <2>1 DEF Table, SchedulerValue
  <2>4. OwnerExact(r)
    BY <2>1, <2>2, <2>3 DEF OwnerExact
  <2>5. Evolves(s, r)
    BY <2>2, <2>4 DEF Evolves, WellFormed, Issued
  <2> QED BY <2>2, <2>5, <1>2 DEF MakeReady, SameTasks, r
<1> QED BY <1>1, <1>2

\* Requeueing the running task leaves no task running.
LEMMA RequeueFacts ==
    ASSUME NEW s, WellFormed(s)
    PROVE  LET r == Requeue(s)
           IN  /\ Table(r) /\ ReadyExact(r) /\ r.current = s.current
               /\ \A j \in TaskId : ~ InState(r, j, "Running")
               /\ \A j \in TaskId : Live(r, j) <=> Live(s, j)
               /\ \A j \in TaskId : InState(r, j, "Blocked") <=> InState(s, j, "Blocked")
               /\ s.current # None => InState(r, s.current, "Ready")
<1> DEFINE r == Requeue(s)
           c == s.current
<1>1. Table(s) /\ ReadyExact(s) /\ OwnerExact(s) /\ c \in TaskId \cup {None}
  BY DEF WellFormed, Table, SchedulerValue
<1>2. CASE c # None /\ InState(s, c, "Running")
  <2>1. r = Enqueue(s, c) /\ c \in TaskId
    BY <1>1, <1>2 DEF Requeue
  <2>2. CanMove(s, c, "Ready")
    BY <1>2 DEF CanMove, InState, Transitions
  <2>3. /\ Table(r) /\ ReadyExact(r) /\ r.current = c
        /\ \A j \in TaskId : Live(r, j) <=> Live(s, j)
        /\ \A j \in TaskId : \A x : j # c => (InState(r, j, x) <=> InState(s, j, x))
        /\ \A x : InState(r, c, x) <=> x = "Ready"
    BY <1>1, <2>1, <2>2, EnqueueKeeps
  <2> HIDE DEF r, c
  <2>4. \A j \in TaskId : InState(s, j, "Running") => j = c
    BY <1>1 DEF OwnerExact, c
  <2>5. ~ InState(s, c, "Blocked")
    BY <1>2, OneState
  <2> QED BY <2>3, <2>4, <2>5 DEF r, c
<1>3. CASE ~ (c # None /\ InState(s, c, "Running"))
  <2>1. r = s
    BY <1>3 DEF Requeue
  <2>2. \A j \in TaskId : ~ InState(s, j, "Running")
    BY <1>1, <1>3, NoneAssumption DEF OwnerExact
  <2>3. c # None => InState(s, c, "Ready")
    BY <1>1, <1>3 DEF OwnerExact
  <2> QED BY <1>1, <2>1, <2>2, <2>3
<1> QED BY <1>2, <1>3

\* schedule_next moves the CPU along the run queue, also when the running task
\* is the only ready one and is taken out of the queue again.
LEMMA ScheduleNextEvolves ==
    ASSUME NEW s, WellFormed(s)
    PROVE  Evolves(s, ScheduleNext(s)) /\ SameTasks(s, ScheduleNext(s))
<1> DEFINE q == Requeue(s)
<1>1. /\ Table(q) /\ ReadyExact(q) /\ q.current = s.current
      /\ \A j \in TaskId : ~ InState(q, j, "Running")
      /\ \A j \in TaskId : Live(q, j) <=> Live(s, j)
      /\ \A j \in TaskId : InState(q, j, "Blocked") <=> InState(s, j, "Blocked")
      /\ s.current # None => InState(q, s.current, "Ready")
  BY RequeueFacts
<1>2. s.current \in TaskId \cup {None}
  BY DEF WellFormed, Table, SchedulerValue
<1>3. ScheduleNext(s) = IF OnlyCurrentReady(q)
                        THEN Move(SetReady(q, <<>>), s.current, "Running")
                        ELSE PickNext(q)
  BY DEF ScheduleNext
<1> HIDE DEF q
<1>4. CASE OnlyCurrentReady(q)
  <2> DEFINE c == s.current
             p == SetReady(q, <<>>)
             r == Move(p, c, "Running")
  <2>1. c \in TaskId /\ q.ready = <<c>> /\ InState(q, c, "Ready")
    BY <1>1, <1>2, <1>4 DEF OnlyCurrentReady
  <2> HIDE DEF c
  <2>2. /\ Table(p) /\ p.ready = <<>> /\ p.current = q.current /\ p.tasks = q.tasks
    <3>1. <<>> \in Seq(TaskId)
      OBVIOUS
    <3> QED BY <1>1, <3>1, ReadyFieldFacts
  <2>3. /\ \A j : Live(p, j) <=> Live(q, j)
        /\ \A j, x : InState(p, j, x) <=> InState(q, j, x)
    BY <2>2, SameTable
  <2>4. CanMove(p, c, "Running")
    BY <2>1, <2>3 DEF CanMove, InState, Transitions
  <2> HIDE DEF p
  <2>5. /\ Table(r) /\ r.ready = <<>> /\ r.current = c
        /\ \A j \in TaskId : Live(r, j) <=> Live(q, j)
        /\ \A j \in TaskId : \A x : j # c => (InState(r, j, x) <=> InState(q, j, x))
        /\ \A x : InState(r, c, x) <=> x = "Running"
    BY <1>1, <2>1, <2>2, <2>3, <2>4, MoveFacts DEF TaskState, c
  <2> HIDE DEF r
  <2>6. Range(q.ready) = {c}
    BY <2>1 DEF Range
  <2>7. Range(r.ready) = {} /\ IsInjective(r.ready)
    BY <2>5 DEF Range, IsInjective
  <2>8. \A j \in TaskId : ~ InState(r, j, "Ready")
    BY <1>1, <2>5, <2>6 DEF ReadyExact
  <2>9. ReadyExact(r)
    BY <2>7, <2>8 DEF ReadyExact
  <2>10. OwnerExact(r)
    BY <1>1, <2>5 DEF OwnerExact
  <2>11. Evolves(s, r)
    BY <1>1, <2>5, <2>9, <2>10 DEF Evolves, WellFormed, Issued
  <2>12. SameTasks(s, r)
    BY <1>1, <2>5 DEF SameTasks
  <2> QED BY <2>11, <2>12, <1>3, <1>4 DEF r, p, c
<1>5. CASE ~ OnlyCurrentReady(q) /\ q.ready = <<>>
  <2> DEFINE r == SetCurrent(q, None)
  <2>1. Table(r) /\ r.ready = q.ready /\ r.current = None /\ r.tasks = q.tasks
    BY <1>1, CurrentFieldFacts
  <2>2. /\ \A j : Live(r, j) <=> Live(q, j)
        /\ \A j, x : InState(r, j, x) <=> InState(q, j, x)
    BY <2>1, SameTable
  <2> HIDE DEF r
  <2>3. ReadyExact(r) /\ OwnerExact(r)
    BY <1>1, <2>1, <2>2 DEF ReadyExact, OwnerExact
  <2>4. Evolves(s, r)
    BY <1>1, <2>1, <2>2, <2>3 DEF Evolves, WellFormed, Issued
  <2>5. SameTasks(s, r)
    BY <1>1, <2>2 DEF SameTasks
  <2> QED BY <2>4, <2>5, <1>3, <1>5 DEF PickNext, r
<1>6. CASE ~ OnlyCurrentReady(q) /\ q.ready # <<>>
  <2> DEFINE next == Head(q.ready)
             popped == SetReady(q, Tail(q.ready))
             r == SetCurrent(Move(popped, next, "Running"), next)
  <2>1. /\ CanMove(popped, next, "Running") /\ WellFormed(r)
        /\ \A j \in TaskId : Live(r, j) <=> Live(q, j)
        /\ \A j \in TaskId : InState(r, j, "Blocked") <=> InState(q, j, "Blocked")
    BY <1>1, <1>6, DispatchKeeps
  <2>2. PickNext(q) = r
    BY <2>1, <1>6 DEF PickNext
  <2> HIDE DEF r
  <2>3. Evolves(s, r)
    BY <1>1, <2>1 DEF Evolves, Issued
  <2>4. SameTasks(s, r)
    BY <1>1, <2>1 DEF SameTasks
  <2> QED BY <2>2, <2>3, <2>4, <1>3, <1>6
<1> QED BY <1>4, <1>5, <1>6

\* When the front of the run queue is not the owner of the CPU, schedule_next
\* gives the CPU to that task, and says so.
LEMMA ScheduleNextDecides ==
    ASSUME NEW s, WellFormed(s), NextReady(s) \notin {None, s.current}
    PROVE  /\ NextReady(s) \in TaskId
           /\ Decision(s) = NextReady(s) /\ ScheduleNext(s).current = NextReady(s)
<1> DEFINE q == Requeue(s)
           next == NextReady(s)
<1>1. s.ready \in Seq(TaskId) /\ s.ready # <<>> /\ next = Head(s.ready)
  BY DEF WellFormed, Table, SchedulerValue, NextReady
<1>2. /\ Table(q) /\ ReadyExact(q) /\ q.current = s.current
      /\ \A j \in TaskId : ~ InState(q, j, "Running")
  BY RequeueFacts
<1>3. q.ready \in {s.ready, Append(s.ready, s.current)}
  <2>1. CASE s.current # None /\ InState(s, s.current, "Running")
    <3>1. CanMove(s, s.current, "Ready") /\ s.current \in TaskId
      BY <2>1 DEF CanMove, InState, Transitions, WellFormed, Table, SchedulerValue
    <3>2. Enqueue(s, s.current).ready = Append(s.ready, s.current)
      BY <3>1, EnqueueKeeps DEF WellFormed
    <3> QED BY <2>1, <3>2 DEF Requeue
  <2>2. CASE ~ (s.current # None /\ InState(s, s.current, "Running"))
    BY <2>2 DEF Requeue
  <2> QED BY <2>1, <2>2
<1> HIDE DEF q
<1>4. q.ready # <<>> /\ Head(q.ready) = next
  <2>1. CASE q.ready = s.ready
    BY <1>1, <2>1
  <2>2. CASE q.ready = Append(s.ready, s.current)
    <3>1. Len(s.ready) \in Nat /\ Len(s.ready) # 0 /\ s.ready[1] = next
      BY <1>1
    <3>2. s.current \in TaskId \cup {None} /\ s.ready \in Seq(TaskId \cup {None})
      BY <1>1 DEF WellFormed, Table, SchedulerValue
    <3>3. /\ q.ready \in Seq(TaskId \cup {None}) /\ Len(q.ready) = Len(s.ready) + 1
          /\ q.ready[1] = s.ready[1]
      BY <2>2, <3>1, <3>2
    <3>4. q.ready # <<>>
      BY <3>1, <3>3
    <3> QED BY <3>1, <3>3, <3>4
  <2> QED BY <1>3, <2>1, <2>2
<1>5. ~ OnlyCurrentReady(q)
  BY <1>2, <1>4 DEF OnlyCurrentReady
<1>6. /\ next \in TaskId /\ CanMove(SetReady(q, Tail(q.ready)), next, "Running")
      /\ WellFormed(SetCurrent(Move(SetReady(q, Tail(q.ready)), next, "Running"), next))
      /\ InState(SetCurrent(Move(SetReady(q, Tail(q.ready)), next, "Running"), next), next, "Running")
  BY <1>2, <1>4, DispatchKeeps
<1>7. ScheduleNext(s) = SetCurrent(Move(SetReady(q, Tail(q.ready)), next, "Running"), next)
  BY <1>4, <1>5, <1>6 DEF ScheduleNext, PickNext, q
<1>8. ScheduleNext(s).current = next
  BY <1>6, <1>7 DEF WellFormed, OwnerExact
<1> QED BY <1>5, <1>6, <1>8 DEF Decision, q

\* terminate_current_to either refuses or completes: the error returns after
\* the removal of the current task cannot be reached.
LEMMA TerminateFacts ==
    ASSUME NEW s, WellFormed(s), NEW id \in TaskId
    PROVE  LET t == TerminateCurrentTo(s, id)
           IN  /\ Evolves(s, t)
               /\ \/ t = s
                  \/ /\ t.current = id /\ InState(t, id, "Running")
                     /\ ~ Live(t, s.current)
                     /\ Range(t.ready) = Range(s.ready) \ {id}
<1>1. CASE ~ TerminateOk(s, id)
  BY <1>1, RefusalEvolves DEF TerminateCurrentTo
<1>2. CASE TerminateOk(s, id)
  <2> DEFINE c == s.current
             removed == FreeSlot(s, c.index)
             popped == SetReady(removed, Tail(removed.ready))
             r == SetCurrent(Move(popped, id, "Running"), id)
  <2>1. Table(s) /\ ReadyExact(s) /\ OwnerExact(s)
    BY DEF WellFormed
  <2>2. c \in TaskId /\ InState(s, c, "Running") /\ Live(s, c) /\ ~ InState(s, c, "Ready")
    BY <1>2, <2>1, OneState DEF TerminateOk, Table, SchedulerValue, InState
  <2>3. s.ready # <<>> /\ Head(s.ready) = id
    BY <1>2, NoneAssumption DEF TerminateOk, NextReady
  <2>4. /\ Table(removed) /\ removed.ready = s.ready
        /\ \A j \in TaskId : Live(removed, j) <=> Live(s, j) /\ j # c
        /\ \A j \in TaskId : \A x : InState(removed, j, x) <=> InState(s, j, x) /\ j # c
    BY <2>1, <2>2, FreeSlotFacts
  <2> HIDE DEF removed
  <2>5. ReadyExact(removed)
    BY <2>1, <2>2, <2>4 DEF ReadyExact
  <2>6. \A j \in TaskId : ~ InState(removed, j, "Running")
    BY <2>1, <2>4 DEF OwnerExact
  <2>7. /\ CanMove(popped, id, "Running") /\ WellFormed(r) /\ InState(r, id, "Running")
        /\ Range(r.ready) = Range(removed.ready) \ {id}
        /\ \A j \in TaskId : Live(r, j) <=> Live(removed, j)
        /\ \A j \in TaskId : InState(r, j, "Blocked") <=> InState(removed, j, "Blocked")
    BY <2>3, <2>4, <2>5, <2>6, DispatchKeeps
  <2>8. TerminateCurrentTo(s, id) = r
    BY <1>2, <2>3, <2>4, <2>7 DEF TerminateCurrentTo, removed
  <2>9. r.current = id
    BY <2>7 DEF WellFormed, OwnerExact
  <2> HIDE DEF r
  <2>10. Evolves(s, r)
    BY <2>4, <2>7 DEF Evolves, Issued
  <2> QED BY <2>2, <2>4, <2>7, <2>8, <2>9, <2>10
<1> QED BY <1>1, <1>2

\* block_current blocks the owner of the CPU and nobody else.
LEMMA BlockFacts ==
    ASSUME NEW s, WellFormed(s)
    PROVE  /\ WellFormed(Block(s))
           /\ SameTasks(s, Block(s))
           /\ BlockOk(s) => Block(s).current = None
           /\ \A j \in TaskId : InState(Block(s), j, "Blocked") =>
                  InState(s, j, "Blocked") \/ j = s.current
<1>1. CASE ~ BlockOk(s)
  BY <1>1 DEF Block, SameTasks
<1>2. CASE BlockOk(s)
  <2> DEFINE c == s.current
             m == Move(s, c, "Blocked")
             r == SetCurrent(m, None)
  <2>1. Table(s) /\ ReadyExact(s) /\ OwnerExact(s)
    BY DEF WellFormed
  <2>2. c \in TaskId /\ CanMove(s, c, "Blocked")
    BY <1>2, <2>1 DEF BlockOk, Table, SchedulerValue
  <2>3. InState(s, c, "Running")
    BY <2>2, TransitionFacts DEF CanMove, InState
  <2>4. ~ InState(s, c, "Ready")
    BY <2>3, OneState
  <2>5. /\ Table(m) /\ m.ready = s.ready
        /\ \A j \in TaskId : Live(m, j) <=> Live(s, j)
        /\ \A j \in TaskId : \A x : j # c => (InState(m, j, x) <=> InState(s, j, x))
        /\ \A x : InState(m, c, x) <=> x = "Blocked"
    BY <2>1, <2>2, MoveFacts DEF TaskState
  <2> HIDE DEF m
  <2>6. Table(r) /\ r.ready = m.ready /\ r.current = None /\ r.tasks = m.tasks
    BY <2>5, CurrentFieldFacts
  <2>7. /\ \A j : Live(r, j) <=> Live(m, j)
        /\ \A j, x : InState(r, j, x) <=> InState(m, j, x)
    BY <2>6, SameTable
  <2> HIDE DEF r
  <2>8. ReadyExact(r)
    BY <2>1, <2>2, <2>4, <2>5, <2>6, <2>7 DEF ReadyExact
  <2>9. OwnerExact(r)
    BY <2>1, <2>5, <2>6, <2>7 DEF OwnerExact
  <2>10. WellFormed(r)
    BY <2>6, <2>8, <2>9 DEF WellFormed
  <2> QED BY <1>2, <2>5, <2>6, <2>7, <2>10 DEF Block, SameTasks, r, m
<1> QED BY <1>1, <1>2

\* exit_current ends the running task and leaves the CPU idle.
LEMMA ExitEvolves ==
    ASSUME NEW s, WellFormed(s)
    PROVE  /\ Evolves(s, Exit(s))
           /\ ExitOk(s) =>
                /\ Exit(s).current = None
                /\ \A j \in TaskId : Live(Exit(s), j) <=> Live(s, j) /\ j # s.current
<1>1. CASE ~ ExitOk(s)
  BY <1>1, RefusalEvolves DEF Exit
<1>2. CASE ExitOk(s)
  <2> DEFINE c == s.current
             f == FreeSlot(s, c.index)
             r == SetCurrent(f, None)
  <2>1. Table(s) /\ ReadyExact(s) /\ OwnerExact(s)
    BY DEF WellFormed
  <2>2. c \in TaskId /\ Live(s, c) /\ CanMove(s, c, "Exited")
    BY <1>2, <2>1 DEF ExitOk, Table, SchedulerValue, CanMove
  <2>3. ~ InState(s, c, "Ready")
    BY <2>2, TransitionFacts DEF CanMove, InState
  <2>4. /\ Table(f) /\ f.ready = s.ready
        /\ \A j \in TaskId : Live(f, j) <=> Live(s, j) /\ j # c
        /\ \A j \in TaskId : \A x : InState(f, j, x) <=> InState(s, j, x) /\ j # c
    BY <2>1, <2>2, FreeSlotFacts
  <2> HIDE DEF f
  <2>5. Table(r) /\ r.ready = f.ready /\ r.current = None /\ r.tasks = f.tasks
    BY <2>4, CurrentFieldFacts
  <2>6. /\ \A j : Live(r, j) <=> Live(f, j)
        /\ \A j, x : InState(r, j, x) <=> InState(f, j, x)
    BY <2>5, SameTable
  <2> HIDE DEF r
  <2>7. ReadyExact(r)
    BY <2>1, <2>2, <2>3, <2>4, <2>5, <2>6 DEF ReadyExact
  <2>8. OwnerExact(r)
    BY <2>1, <2>4, <2>5, <2>6 DEF OwnerExact
  <2>9. Evolves(s, r)
    BY <2>4, <2>5, <2>6, <2>7, <2>8 DEF Evolves, WellFormed, Issued
  <2> QED BY <1>2, <2>4, <2>5, <2>6, <2>9 DEF Exit, r, f
<1> QED BY <1>1, <1>2

\* wake_one makes one blocked waiter ready, and drops from the queue no other
\* task that is still blocked.
LEMMA WakeFacts ==
    ASSUME NEW s, WellFormed(s), NEW q \in Seq(TaskId)
    PROVE  /\ Evolves(s, Wake(s, q))
           /\ AfterWake(s, q) \in Seq(TaskId)
           /\ \A j \in Range(q) : InState(Wake(s, q), j, "Blocked") => j \in Range(AfterWake(s, q))
<1> DEFINE W == WakeIndices(s, q)
           n == Min(W)
           id == q[n]
           r == Enqueue(s, id)
           rest == SubSeq(q, n + 1, Len(q))
<1>1. Table(s) /\ ReadyExact(s) /\ OwnerExact(s)
  BY DEF WellFormed
<1>2. Len(q) \in Nat /\ DOMAIN q = 1 .. Len(q) /\ \A i \in 1 .. Len(q) : q[i] \in TaskId
  OBVIOUS
<1>3. CASE W = {}
  <2>1. Wake(s, q) = s /\ AfterWake(s, q) = <<>>
    BY <1>3 DEF Wake, AfterWake
  <2>2. \A j \in Range(q) : ~ InState(s, j, "Blocked")
    BY <1>3 DEF Range, WakeIndices, Wakeable
  <2> QED BY <2>1, <2>2, RefusalEvolves
<1>4. CASE W # {}
  <2>1. n \in W /\ \A k \in W : n <= k
    <3>1. W \in SUBSET (1 .. Len(q)) /\ IsFiniteSet(1 .. Len(q))
      BY <1>2, FS_Interval DEF WakeIndices
    <3>2. W \in SUBSET Int /\ IsFiniteSet(W)
      BY <3>1, FS_Subset
    <3> QED BY <1>4, <3>2, MinFacts
  <2> HIDE DEF n
  <2>2. n \in 1 .. Len(q) /\ id \in TaskId /\ InState(s, id, "Blocked")
    BY <1>2, <2>1 DEF WakeIndices, Wakeable
  <2>3. CanMove(s, id, "Ready") /\ ~ InState(s, id, "Running") /\ ~ InState(s, id, "Ready")
    BY <2>2, OneState DEF CanMove, InState, Transitions
  <2>4. /\ Table(r) /\ ReadyExact(r) /\ r.current = s.current /\ id \notin Range(s.ready)
        /\ \A j \in TaskId : Live(r, j) <=> Live(s, j)
        /\ \A j \in TaskId : \A x : j # id => (InState(r, j, x) <=> InState(s, j, x))
        /\ \A x : InState(r, id, x) <=> x = "Ready"
    BY <1>1, <2>2, <2>3, EnqueueKeeps
  <2>5. Wake(s, q) = r /\ AfterWake(s, q) = rest
    BY <1>4, <2>4 DEF Wake, AfterWake, n
  <2> HIDE DEF r
  <2>6. s.current \in TaskId \cup {None} /\ s.current # id
    BY <1>1, <2>2, <2>3, NoneAssumption DEF Table, SchedulerValue, OwnerExact
  <2>7. OwnerExact(r)
    BY <1>1, <2>4, <2>6 DEF OwnerExact
  <2>8. Evolves(s, r)
    BY <2>2, <2>4, <2>7 DEF Evolves, WellFormed, Issued
  <2>9. /\ rest \in Seq(TaskId) /\ Len(rest) = IF n + 1 <= Len(q) THEN Len(q) - (n + 1) + 1 ELSE 0
        /\ \A i \in 1 .. Len(q) - (n + 1) + 1 : rest[i] = q[(n + 1) + i - 1]
    <3>1. n + 1 \in Int /\ Len(q) \in Int /\ \A i \in n + 1 .. Len(q) : q[i] \in TaskId
      BY <1>2, <2>2
    <3> QED BY <3>1, SubSeqProperties
  <2> HIDE DEF rest
  <2>10. ASSUME NEW j \in Range(q), InState(r, j, "Blocked") PROVE j \in Range(rest)
    <3>1. PICK k \in 1 .. Len(q) : q[k] = j
      BY <1>2 DEF Range
    <3>2. j # id /\ j \in TaskId
      BY <1>2, <2>4, <2>10, <3>1
    <3>3. InState(s, j, "Blocked")
      BY <2>4, <2>10, <3>2
    <3>4. k \in W /\ k # n
      BY <1>2, <3>1, <3>2, <3>3 DEF WakeIndices, Wakeable
    <3>5. n < k /\ k <= Len(q) /\ n \in Int /\ k \in Int
      BY <2>1, <2>2, <3>4
    <3>6. k - n \in 1 .. Len(q) - (n + 1) + 1 /\ (n + 1) + (k - n) - 1 = k /\ n + 1 <= Len(q)
      BY <1>2, <3>5
    <3>7. rest[k - n] = q[k]
      BY <2>9, <3>6
    <3>8. Len(rest) = Len(q) - (n + 1) + 1
      BY <2>9, <3>6
    <3>9. k - n \in DOMAIN rest
      BY <2>9, <3>6, <3>8
    <3> QED BY <3>1, <3>7, <3>9 DEF Range
  <2> QED BY <2>5, <2>8, <2>9, <2>10
<1> QED BY <1>3, <1>4

\* expire_sleepers makes every blocked task of the expired prefix ready, each
\* once, and no other.
LEMMA ExpireFacts ==
    ASSUME NEW s, WellFormed(s), NEW q \in Seq(SleepEntry), SleepOrdered(q), NEW t \in Nat
    PROVE  /\ Evolves(s, Expire(s, q, t)) /\ SameTasks(s, Expire(s, q, t))
           /\ Expire(s, q, t).current = s.current
           /\ \A j \in TaskId : InState(Expire(s, q, t), j, "Blocked") =>
                  InState(s, j, "Blocked") /\ j \notin Range(ExpiredTasks(q, t))
<1> DEFINE x == ExpiredTasks(q, t)
           W == {id \in Range(x) : Wakeable(s, id)}
           K == Keep(x, W \ Range(s.ready))
           Slot(i) == IF s.tasks[i] # None /\ s.tasks[i].id \in W
                      THEN [s.tasks[i] EXCEPT !.state = "Ready"] ELSE s.tasks[i]
           r == Expire(s, q, t)
<1>1. s \in SchedulerValue /\ SlotsMatchIds(s) /\ ReadyExact(s) /\ OwnerExact(s)
  BY DEF WellFormed, Table
<1>2. /\ s.tasks \in [Index -> TaskControlBlock \cup {None}] /\ s.ready \in Seq(TaskId)
      /\ s.current \in TaskId \cup {None} /\ s.generations \in [Index -> 0 .. MaxGeneration]
  BY <1>1 DEF SchedulerValue
<1>3. x \in Seq(TaskId) /\ IsInjective(x)
  BY ExpiryFacts
<1>4. r = [s EXCEPT !.tasks = [i \in Index |-> Slot(i)], !.ready = s.ready \o K]
  BY DEF Expire
<1> HIDE DEF x
<1>5. Range(x) \subseteq TaskId
  BY <1>3 DEF Range
<1>6. \A j \in W : j \in TaskId /\ InState(s, j, "Blocked") /\ j \notin Range(s.ready)
  BY <1>1, <1>5, OneState DEF Wakeable, ReadyExact
<1>7. K \in Seq(TaskId) /\ IsInjective(K) /\ Range(K) = W
  <2>1. /\ K \in Seq(TaskId) /\ Range(K) = Range(x) \cap (W \ Range(s.ready))
        /\ IsInjective(K)
    BY <1>3, KeepFacts
  <2>2. Range(x) \cap (W \ Range(s.ready)) = W
    BY <1>6
  <2> QED BY <2>1, <2>2
<1> HIDE DEF W, K
<1>8. ASSUME NEW i \in Index
      PROVE  /\ Slot(i) \in TaskControlBlock \cup {None}
             /\ Slot(i) = None <=> s.tasks[i] = None
             /\ s.tasks[i] # None =>
                  /\ Slot(i).id = s.tasks[i].id
                  /\ s.tasks[i].id \in W => Slot(i).state = "Ready"
                  /\ s.tasks[i].id \notin W => Slot(i).state = s.tasks[i].state
  <2>1. CASE s.tasks[i] # None /\ s.tasks[i].id \in W
    <3>1. s.tasks[i] \in TaskControlBlock
      BY <1>2, <2>1
    <3>2. Slot(i) = [s.tasks[i] EXCEPT !.state = "Ready"]
      BY <2>1
    <3>3. /\ Slot(i) \in TaskControlBlock /\ Slot(i).id = s.tasks[i].id
          /\ Slot(i).state = "Ready"
      BY <3>1, <3>2 DEF TaskControlBlock, TaskState
    <3> QED BY <2>1, <3>3, NoneIsNoTask
  <2>2. CASE ~ (s.tasks[i] # None /\ s.tasks[i].id \in W)
    BY <1>2, <2>2
  <2> QED BY <2>1, <2>2
<1>9. /\ r.tasks = [i \in Index |-> Slot(i)] /\ r.ready = s.ready \o K
      /\ r.current = s.current /\ r.generations = s.generations
      /\ r = [tasks |-> r.tasks, generations |-> s.generations, ready |-> r.ready, current |-> s.current]
  <2> HIDE DEF r, Slot
  <2> QED BY <1>1, <1>4 DEF SchedulerValue
<1>10. /\ s.ready \o K \in Seq(TaskId) /\ Range(s.ready \o K) = Range(s.ready) \cup W
       /\ IsInjective(s.ready \o K)
  <2>1. Range(s.ready) \cap Range(K) = {} /\ IsInjective(s.ready)
    BY <1>1, <1>6, <1>7 DEF ReadyExact
  <2> QED BY <1>2, <1>7, <2>1, ConcatFacts
<1> HIDE DEF r
<1>11. \A i \in Index : r.tasks[i] = Slot(i)
  BY <1>9
<1> HIDE DEF Slot
<1>12. r.tasks \in [Index -> TaskControlBlock \cup {None}]
  BY <1>8, <1>9
<1>13. r \in SchedulerValue
  <2>1. r.ready \in Seq(TaskId)
    BY <1>9, <1>10
  <2> QED BY <1>2, <1>9, <1>12, <2>1 DEF SchedulerValue
<1>14. SlotsMatchIds(r)
  <2> SUFFICES ASSUME NEW i \in Index, r.tasks[i] # None
               PROVE  /\ r.tasks[i].id = [index |-> i, generation |-> s.generations[i]]
                      /\ r.tasks[i].state # "Exited"
    BY <1>9 DEF SlotsMatchIds
  <2>1. s.tasks[i] # None
    BY <1>8, <1>11
  <2>2. s.tasks[i].id = [index |-> i, generation |-> s.generations[i]] /\ s.tasks[i].state # "Exited"
    BY <1>1, <2>1 DEF SlotsMatchIds
  <2> QED BY <1>8, <1>11, <2>1, <2>2
<1>15. ASSUME NEW j \in TaskId
       PROVE  /\ Live(r, j) <=> Live(s, j)
              /\ j \in W => \A y : InState(r, j, y) <=> y = "Ready"
              /\ j \notin W => \A y : InState(r, j, y) <=> InState(s, j, y)
  <2>1. j.index \in Index
    BY DEF TaskId
  <2>2. j \in W => Live(s, j)
    BY <1>6 DEF InState
  <2>3. Live(r, j) <=> Live(s, j)
    BY <1>8, <1>11, <2>1 DEF Live
  <2>4. ASSUME j \in W PROVE Live(r, j) /\ r.tasks[j.index].state = "Ready"
    BY <1>8, <1>11, <2>1, <2>2, <2>3, <2>4 DEF Live
  <2>5. ASSUME j \notin W, Live(s, j) PROVE r.tasks[j.index].state = s.tasks[j.index].state
    BY <1>8, <1>11, <2>1, <2>5 DEF Live
  <2>6. j \in W => \A y : InState(r, j, y) <=> y = "Ready"
    BY <2>4 DEF InState
  <2>7. j \notin W => \A y : InState(r, j, y) <=> InState(s, j, y)
    BY <2>3, <2>5 DEF InState
  <2> QED BY <2>3, <2>6, <2>7
<1>16. ReadyExact(r)
  BY <1>1, <1>9, <1>10, <1>15 DEF ReadyExact
<1>17. OwnerExact(r)
  <2>1. s.current \notin W
    BY <1>1, <1>2, <1>6, OneState, NoneAssumption DEF OwnerExact
  <2>2. ASSUME NEW j \in TaskId, InState(r, j, "Running") PROVE r.current = j
    <3>1. j \notin W
      BY <1>15, <2>2
    <3>2. InState(s, j, "Running")
      BY <1>15, <2>2, <3>1
    <3> QED BY <1>1, <1>9, <3>2 DEF OwnerExact
  <2>3. ASSUME s.current # None
        PROVE  InState(r, s.current, "Running") \/ InState(r, s.current, "Ready")
    <3>1. s.current \in TaskId
      BY <1>2, <2>3
    <3>2. InState(s, s.current, "Running") \/ InState(s, s.current, "Ready")
      BY <1>1, <2>3 DEF OwnerExact
    <3> QED BY <1>15, <2>1, <3>1, <3>2
  <2> QED BY <1>9, <2>2, <2>3 DEF OwnerExact
<1>18. Evolves(s, r)
  BY <1>13, <1>14, <1>15, <1>16, <1>17 DEF Evolves, WellFormed, Table, Issued
<1>19. ASSUME NEW j \in TaskId, InState(r, j, "Blocked")
       PROVE  InState(s, j, "Blocked") /\ j \notin Range(x)
  <2>1. j \notin W /\ InState(s, j, "Blocked")
    BY <1>15, <1>19
  <2> QED BY <2>1 DEF W, Wakeable
<1> QED BY <1>9, <1>15, <1>18, <1>19 DEF SameTasks, r, x
===============================================================================
