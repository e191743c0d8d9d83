----------------------------- MODULE ProcessProofs ----------------------------
(***************************************************************************)
(* The process registry implements the life cycle, for every number of     *)
(* slots and of generations and under every caller.                        *)
(***************************************************************************)
EXTENDS ProcessManager, MinProofs

USE DEF ProcessIn

\* A state, a stage of a life, an address space and a code are told apart from
\* None.
LEMMA NoneFacts ==
    /\ None \notin TaskId /\ None \notin AddressSpaces /\ None \notin ExitCode
    /\ None # "Ready" /\ None # "Running" /\ None # "Exited"
BY NoneAssumption, NoneIsNoState DEF ProcessState

LEMMA IdFacts ==
    ASSUME NEW p \in ProcessId
    PROVE  p.index \in ProcessIndex /\ p.generation \in 1 .. MaxProcessGeneration /\ p.generation \in Nat
BY ProcessGenerationAssumption DEF ProcessId

\* register_ready looks at every slot, starting anywhere.
LEMMA FirstFreeFacts ==
    ASSUME SlotsConsistent, RegisterReadyOk(manager)
    PROVE  /\ NextProcessId(manager) \in ProcessId
           /\ manager.slots[NextProcessId(manager).index].state = None
           /\ NextProcessId(manager).generation = manager.slots[NextProcessId(manager).index].generation + 1
<1> DEFINE i == FirstFree(manager)
<1>1. NProcesses \in Nat /\ NProcesses > 0 /\ MaxProcessGeneration \in Nat
  BY ProcessesAssumption, ProcessGenerationAssumption
<1>2. /\ manager.next_hint \in Nat /\ manager.slots \in [ProcessIndex -> Slot]
      /\ FreeOffsets(manager) # {} /\ manager.slots[i].generation # MaxProcessGeneration
  BY <1>1 DEF SlotsConsistent, TypeOK, ProcessIndex, RegisterReadyOk
<1>3. FreeOffsets(manager) \in SUBSET Int /\ IsFiniteSet(FreeOffsets(manager))
  <2>1. FreeOffsets(manager) \subseteq ProcessIndex
    BY DEF FreeOffsets
  <2>2. IsFiniteSet(ProcessIndex) /\ ProcessIndex \subseteq Int
    BY <1>1, FS_Interval DEF ProcessIndex
  <2> QED BY <2>1, <2>2, FS_Subset
<1>4. Min(FreeOffsets(manager)) \in FreeOffsets(manager)
  BY <1>2, <1>3, MinFacts
<1>5. manager.slots[i].state = None /\ Min(FreeOffsets(manager)) \in Nat
  <2> DEFINE m == Min(FreeOffsets(manager))
  <2>1. m \in ProcessIndex /\ manager.slots[(manager.next_hint + m) % NProcesses].state = None
    BY <1>4 DEF FreeOffsets
  <2>2. i = (manager.next_hint + m) % NProcesses
    BY DEF FirstFree
  <2>3. m \in Nat
    BY <1>1, <2>1 DEF ProcessIndex
  <2> QED BY <2>1, <2>2, <2>3
<1>6. i \in ProcessIndex
  BY <1>1, <1>2, <1>5 DEF FirstFree, ProcessIndex
<1>7. manager.slots[i].generation \in 0 .. MaxProcessGeneration
  BY <1>2, <1>6 DEF Slot
<1>8. NextProcessId(manager) = [index |-> i, generation |-> manager.slots[i].generation + 1]
  BY DEF NextProcessId
<1> HIDE DEF i
<1>9. manager.slots[i].generation + 1 \in 1 .. MaxProcessGeneration
  BY <1>1, <1>2, <1>7
<1> QED BY <1>5, <1>6, <1>8, <1>9 DEF ProcessId

(***************************************************************************)
(* One slot at a time.                                                     *)
(***************************************************************************)

\* What a method may leave in the slot of p: p's own record, at p's generation,
\* which is the slot's or, if the slot was free, its next one.
SlotOk(slot) ==
    /\ slot \in Slot
    /\ slot.state = None => slot = EmptySlot(slot.generation)
    /\ slot.state # None => slot.image # None /\ slot.generation > 0
    /\ slot.exit_code # None <=> slot.state = "Exited"
    /\ slot.state = "Running" => slot.binding # None

Writes(p, slot) ==
    LET old == manager.slots[p.index]
    IN  /\ p \in ProcessId
        /\ \E hint \in ProcessIndex :
            manager' = [slots |-> [manager.slots EXCEPT ![p.index] = slot], next_hint |-> hint]
        /\ slot.generation = p.generation
        /\ \/ old.generation = p.generation
           \/ old.state = None /\ p.generation = old.generation + 1

Stage(slot) == IF slot.state = None THEN "Gone" ELSE slot.state

\* The registry stays consistent, and of all ids only p's life changes.
LEMMA WriteFacts ==
    ASSUME SlotsConsistent, NEW p, NEW slot, Writes(p, slot), SlotOk(slot)
    PROVE  /\ SlotsConsistent'
           /\ Life(p)' = Stage(slot)
           /\ CodeOf(p)' = slot.exit_code
           /\ \A q \in ProcessId : q # p => Life(q)' = Life(q) /\ CodeOf(q)' = CodeOf(q)
<1>1. /\ p \in ProcessId /\ p.index \in ProcessIndex /\ p.generation \in Nat
      /\ manager.slots \in [ProcessIndex -> Slot]
      /\ \A i \in ProcessIndex : SlotOk(manager.slots[i])
  BY IdFacts DEF Writes, SlotsConsistent, TypeOK, SlotOk
<1>2. /\ \A i \in ProcessIndex : manager'.slots[i] = IF i = p.index THEN slot ELSE manager.slots[i]
      /\ manager'.slots \in [ProcessIndex -> Slot]
  BY <1>1 DEF Writes, SlotOk
<1>3. \A i \in ProcessIndex : SlotOk(manager'.slots[i])
  BY <1>1, <1>2
<1>4. SlotsConsistent'
  <2>1. manager' \in [slots : [ProcessIndex -> Slot], next_hint : ProcessIndex]
    BY <1>2 DEF Writes
  <2> QED BY <1>3, <2>1 DEF SlotsConsistent, TypeOK, SlotOk
<1>5. slot.generation = p.generation /\ manager'.slots[p.index] = slot
  BY <1>1, <1>2 DEF Writes
<1>6. Life(p)' = Stage(slot)
  BY <1>1, <1>5 DEF Life, Stage
<1>7. CodeOf(p)' = slot.exit_code
  BY <1>5 DEF CodeOf, Registered, SlotOk, EmptySlot
<1>8. ASSUME NEW q \in ProcessId, q # p
      PROVE  Life(q)' = Life(q) /\ CodeOf(q)' = CodeOf(q)
  <2>1. q.index \in ProcessIndex /\ q.generation \in Nat
    BY IdFacts
  <2>2. CASE q.index # p.index
    BY <1>2, <2>1, <2>2 DEF Life, CodeOf, Registered
  <2>3. CASE q.index = p.index
    <3> DEFINE old == manager.slots[p.index]
    <3>1. q.generation # p.generation
      BY <1>1, <1>8, <2>3 DEF ProcessId
    <3>2. old.generation \in Nat
      BY <1>1, ProcessGenerationAssumption DEF Slot
    <3>3. manager'.slots[q.index] = slot /\ manager.slots[q.index] = old
      BY <1>5, <2>3
    <3>4. CASE old.generation = p.generation
      BY <1>1, <1>5, <2>1, <3>1, <3>2, <3>3, <3>4 DEF Life, CodeOf, Registered
    <3>5. CASE old.state = None /\ p.generation = old.generation + 1
      BY <1>1, <1>5, <2>1, <3>1, <3>2, <3>3, <3>5 DEF Life, CodeOf, Registered
    <3> QED BY <3>4, <3>5 DEF Writes
  <2> QED BY <2>2, <2>3
<1> QED BY <1>4, <1>6, <1>7, <1>8

(***************************************************************************)
(* One step of the life cycle.                                             *)
(***************************************************************************)

\* What the life cycle allows to happen to one id.
Lives(from, to, code, old_code) ==
    \/ from = "Unborn" /\ to \in {"Ready", "Gone"} /\ code = old_code
    \/ from = "Ready" /\ to \in {"Running", "Gone"} /\ code = old_code
    \/ from \in {"Ready", "Running"} /\ to = "Exited" /\ code \in ExitCode
    \/ from = "Exited" /\ to = "Gone" /\ code = None
    \/ from = to /\ code = old_code

LEMMA LifeStep ==
    ASSUME NEW p \in ProcessId,
           \A q \in ProcessId : q # p => Life(q)' = Life(q) /\ CodeOf(q)' = CodeOf(q),
           Lives(Life(p), Life(p)', CodeOf(p)', CodeOf(p))
    PROVE  [Lifecycle!Next]_(Lifecycle!vars)
<1> DEFINE life == [q \in ProcessId |-> Life(q)]
           code == [q \in ProcessId |-> CodeOf(q)]
<1>1. life' = [life EXCEPT ![p] = Life(p)']
  OBVIOUS
<1>2. code' = [code EXCEPT ![p] = CodeOf(p)']
  OBVIOUS
<1>3. life[p] = Life(p) /\ code[p] = CodeOf(p)
  OBVIOUS
<1>4. CodeOf(p)' = CodeOf(p) => code' = code
  BY <1>2, <1>3
<1>5. CASE Life(p) = "Unborn" /\ Life(p)' \in {"Ready", "Gone"} /\ CodeOf(p)' = CodeOf(p)
  BY <1>1, <1>3, <1>4, <1>5 DEF Lifecycle!Next, Lifecycle!Register, Lifecycle!Discard, Lifecycle!Become
<1>6. CASE Life(p) = "Ready" /\ Life(p)' \in {"Running", "Gone"} /\ CodeOf(p)' = CodeOf(p)
  BY <1>1, <1>3, <1>4, <1>6 DEF Lifecycle!Next, Lifecycle!Start, Lifecycle!Discard, Lifecycle!Become
<1>7. CASE Life(p) \in {"Ready", "Running"} /\ Life(p)' = "Exited" /\ CodeOf(p)' \in ExitCode
  BY <1>1, <1>2, <1>3, <1>7 DEF Lifecycle!Next, Lifecycle!Exit
<1>8. CASE Life(p) = "Exited" /\ Life(p)' = "Gone" /\ CodeOf(p)' = None
  BY <1>1, <1>2, <1>3, <1>8 DEF Lifecycle!Next, Lifecycle!Reap
<1>9. CASE Life(p) = Life(p)' /\ CodeOf(p)' = CodeOf(p)
  <2>1. life' = life
    BY <1>1, <1>3, <1>9
  <2> QED BY <1>4, <1>9, <2>1 DEF Lifecycle!vars
<1> QED BY <1>5, <1>6, <1>7, <1>8, <1>9 DEF Lives

(***************************************************************************)
(* Every method.                                                           *)
(***************************************************************************)

LEMMA InitConsistent ==
    ASSUME Init PROVE SlotsConsistent /\ Lifecycle!Init
<1>1. 0 \in ProcessIndex /\ EmptySlot(0) \in Slot
  BY ProcessesAssumption, ProcessGenerationAssumption DEF ProcessIndex, EmptySlot, Slot
<1>2. \A i \in ProcessIndex : manager.slots[i] = EmptySlot(0)
  BY DEF Init, NewManager
<1>3. SlotsConsistent
  BY <1>1, <1>2, NoneFacts DEF Init, NewManager, SlotsConsistent, TypeOK, EmptySlot
<1>4. \A p \in ProcessId : Life(p) = "Unborn" /\ CodeOf(p) = None
  BY <1>2, IdFacts DEF Life, CodeOf, Registered, EmptySlot
<1> QED BY <1>3, <1>4 DEF Lifecycle!Init

\* A method that writes the slot of p takes p one step along its life, if the
\* stage it leaves and the stage it writes are neighbours.
LEMMA WriteStep ==
    ASSUME SlotsConsistent, NEW p, NEW slot, Writes(p, slot), SlotOk(slot),
           Lives(Life(p), Stage(slot), slot.exit_code, CodeOf(p))
    PROVE  SlotsConsistent' /\ [Lifecycle!Next]_(Lifecycle!vars)
<1>1. p \in ProcessId
  BY DEF Writes
<1> QED BY <1>1, WriteFacts, LifeStep

\* The record of a registered process, as its life shows it.
LEMMA RegisteredFacts ==
    ASSUME SlotsConsistent, NEW p \in ProcessId, Registered(manager, p)
    PROVE  /\ p.index \in ProcessIndex
           /\ SlotOk(manager.slots[p.index])
           /\ manager.slots[p.index].generation = p.generation
           /\ Life(p) = manager.slots[p.index].state
           /\ CodeOf(p) = manager.slots[p.index].exit_code
<1>1. p.index \in ProcessIndex /\ p.generation \in Nat
  BY IdFacts
<1>2. SlotOk(manager.slots[p.index])
  BY <1>1 DEF SlotsConsistent, TypeOK, SlotOk
<1> QED BY <1>1, <1>2 DEF Registered, Life, CodeOf

\* A method that rewrites the record of a registered process.
LEMMA RewriteStep ==
    ASSUME SlotsConsistent, NEW p \in ProcessId, Registered(manager, p),
           NEW slot, SlotOk(slot), slot.generation = p.generation,
           NEW hint \in ProcessIndex,
           manager' = [slots |-> [manager.slots EXCEPT ![p.index] = slot], next_hint |-> hint],
           Lives(manager.slots[p.index].state, Stage(slot), slot.exit_code,
                 manager.slots[p.index].exit_code)
    PROVE  SlotsConsistent' /\ [Lifecycle!Next]_(Lifecycle!vars)
<1>1. Writes(p, slot)
  BY RegisteredFacts DEF Writes
<1>2. Lives(Life(p), Stage(slot), slot.exit_code, CodeOf(p))
  BY RegisteredFacts
<1> QED BY <1>1, <1>2, WriteStep

Goal == SlotsConsistent' /\ [Lifecycle!Next]_(Lifecycle!vars)

LEMMA AttachStep ==
    ASSUME SlotsConsistent, NEW p \in ProcessId, NEW task \in TaskId, NEW execution, NEW space,
           attach_execution(p, task, execution, space)
    PROVE  Goal
<1> DEFINE old == manager.slots[p.index]
           slot == [old EXCEPT !.binding = task]
<1>1. Registered(manager, p) /\ manager.next_hint \in ProcessIndex
  BY DEF attach_execution, AttachProcessOk, SlotsConsistent, TypeOK
<1>2. p.index \in ProcessIndex /\ SlotOk(old) /\ old.generation = p.generation /\ old.state # None
  BY <1>1, RegisteredFacts DEF Registered
<1>3. manager' = [slots |-> [manager.slots EXCEPT ![p.index] = slot], next_hint |-> manager.next_hint]
  BY <1>2 DEF attach_execution, AttachProcess, SlotsConsistent, TypeOK
<1>4. SlotOk(slot) /\ slot.generation = p.generation
  BY <1>2, NoneFacts DEF SlotOk, Slot
<1>5. Lives(old.state, Stage(slot), slot.exit_code, old.exit_code)
  BY <1>2 DEF Lives, Stage, SlotOk, Slot
<1> HIDE DEF slot
<1> QED BY <1>1, <1>3, <1>4, <1>5, RewriteStep DEF Goal

LEMMA StartStep ==
    ASSUME SlotsConsistent, NEW p \in ProcessId, start(p)
    PROVE  Goal
<1> DEFINE old == manager.slots[p.index]
           slot == [old EXCEPT !.state = "Running"]
<1>1. Registered(manager, p) /\ manager.next_hint \in ProcessIndex
  BY DEF start, StartOk, SlotsConsistent, TypeOK
<1>2. /\ p.index \in ProcessIndex /\ SlotOk(old) /\ old.generation = p.generation
      /\ old.state = "Ready" /\ old.binding # None
  BY <1>1, RegisteredFacts DEF start, StartOk, BindingOf
<1>3. manager' = [slots |-> [manager.slots EXCEPT ![p.index] = slot], next_hint |-> manager.next_hint]
  BY <1>2 DEF start, SetState, SlotsConsistent, TypeOK
<1>4. SlotOk(slot) /\ slot.generation = p.generation
  BY <1>2, NoneFacts DEF SlotOk, Slot, ProcessState
<1>5. Lives(old.state, Stage(slot), slot.exit_code, old.exit_code)
  BY <1>2, NoneFacts DEF Lives, Stage, SlotOk, Slot
<1> HIDE DEF slot
<1> QED BY <1>1, <1>3, <1>4, <1>5, RewriteStep DEF Goal

LEMMA ExitStep ==
    ASSUME SlotsConsistent, NEW p \in ProcessId, NEW c \in ExitCode, request_exit(p, c)
    PROVE  Goal
<1> DEFINE old == manager.slots[p.index]
           slot == [old EXCEPT !.state = "Exited", !.exit_code = c]
<1>1. Registered(manager, p) /\ manager.next_hint \in ProcessIndex
  BY DEF request_exit, RequestExitOk, SlotsConsistent, TypeOK
<1>2. /\ p.index \in ProcessIndex /\ SlotOk(old) /\ old.generation = p.generation
      /\ old.state \in {"Ready", "Running"} /\ old.state # None
  BY <1>1, RegisteredFacts DEF request_exit, RequestExitOk, Registered
<1>3. manager' = [slots |-> [manager.slots EXCEPT ![p.index] = slot], next_hint |-> manager.next_hint]
  BY <1>2 DEF request_exit, RequestExit, SlotsConsistent, TypeOK
<1>4. SlotOk(slot) /\ slot.generation = p.generation
  BY <1>2, NoneFacts, NoneIsNoState DEF SlotOk, Slot, ProcessState
<1>5. Lives(old.state, Stage(slot), slot.exit_code, old.exit_code)
  BY <1>2, NoneFacts DEF Lives, Stage, SlotOk, Slot
<1> HIDE DEF slot
<1> QED BY <1>1, <1>3, <1>4, <1>5, RewriteStep DEF Goal

LEMMA ReapStep ==
    ASSUME SlotsConsistent, NEW p \in ProcessId, reap(p) \/ abort_ready(p)
    PROVE  Goal
<1> DEFINE old == manager.slots[p.index]
           slot == EmptySlot(p.generation)
           hint == manager'.next_hint
<1>1. Registered(manager, p)
  BY DEF reap, ReapOk, abort_ready, AbortReadyOk
<1>2. p.index \in ProcessIndex /\ SlotOk(old) /\ old.generation = p.generation
  BY <1>1, RegisteredFacts
<1>3. /\ hint \in ProcessIndex
      /\ manager' = [slots |-> [manager.slots EXCEPT ![p.index] = slot], next_hint |-> hint]
  BY <1>2 DEF reap, Reap, abort_ready, RemoveRegistered, SlotsConsistent, TypeOK
<1>4. SlotOk(slot) /\ slot.generation = p.generation
  BY <1>2, NoneFacts DEF SlotOk, Slot, EmptySlot
<1>5. Lives(old.state, Stage(slot), slot.exit_code, old.exit_code)
  <2>1. Stage(slot) = "Gone" /\ slot.exit_code = None
    BY DEF Stage, EmptySlot
  <2>2. old.state = "Exited" \/ (old.state = "Ready" /\ old.exit_code = None)
    BY <1>2 DEF reap, ReapOk, abort_ready, AbortReadyOk, SlotOk
  <2> QED BY <2>1, <2>2 DEF Lives
<1> HIDE DEF slot
<1> QED BY <1>1, <1>3, <1>4, <1>5, RewriteStep DEF Goal

\* register_ready and spawn_ready write the first free slot, at its next
\* generation; the id that names it is issued by this very step.
LEMMA NewSlotStep ==
    ASSUME SlotsConsistent, RegisterReadyOk(manager), NEW slot, SlotOk(slot),
           slot.generation = NextProcessId(manager).generation,
           slot.state \in {"Ready", None}, slot.exit_code = None,
           NEW hint \in ProcessIndex,
           manager' = [slots |-> [manager.slots EXCEPT ![NextProcessId(manager).index] = slot],
                       next_hint |-> hint]
    PROVE  Goal
<1> DEFINE p == NextProcessId(manager)
           old == manager.slots[p.index]
<1>1. /\ p \in ProcessId /\ p.index \in ProcessIndex /\ p.generation \in Nat
      /\ old.state = None /\ p.generation = old.generation + 1 /\ old.generation \in Nat
  <2>1. p \in ProcessId /\ old.state = None /\ p.generation = old.generation + 1
    BY FirstFreeFacts
  <2> HIDE DEF p
  <2>2. p.index \in ProcessIndex /\ p.generation \in Nat
    BY <2>1, IdFacts
  <2>3. old.generation \in Nat
    BY <2>2, ProcessGenerationAssumption DEF SlotsConsistent, TypeOK, Slot
  <2> QED BY <2>1, <2>2, <2>3
<1>2. Writes(p, slot)
  BY <1>1 DEF Writes
<1>3. Life(p) = "Unborn" /\ CodeOf(p) = None
  BY <1>1 DEF Life, CodeOf, Registered
<1>4. Lives(Life(p), Stage(slot), slot.exit_code, CodeOf(p))
  BY <1>3, NoneFacts DEF Lives, Stage
<1> HIDE DEF p
<1> QED BY <1>2, <1>4, WriteStep DEF Goal

LEMMA RegisterStep ==
    ASSUME SlotsConsistent, NEW image \in AddressSpaces, RegisterReadyOk(manager),
           NEW task \in TaskId \cup {None}
    PROVE  LET p == NextProcessId(manager)
               slot == [ generation |-> p.generation, state |-> "Ready", image |-> image,
                         binding |-> task, exit_code |-> None ]
           IN  /\ SlotOk(slot) /\ SlotOk(EmptySlot(p.generation))
               /\ p.index \in ProcessIndex
               /\ (p.index + 1) % NProcesses \in ProcessIndex
<1> DEFINE p == NextProcessId(manager)
<1>1. p \in ProcessId /\ p.index \in ProcessIndex /\ p.generation \in 1 .. MaxProcessGeneration
  <2>1. p \in ProcessId
    BY FirstFreeFacts
  <2> HIDE DEF p
  <2> QED BY <2>1 DEF ProcessId
<1> HIDE DEF p
<1>2. (p.index + 1) % NProcesses \in ProcessIndex
  BY <1>1, ProcessesAssumption DEF ProcessIndex
<1>3. p.generation \in 0 .. MaxProcessGeneration /\ p.generation > 0
  BY <1>1, ProcessGenerationAssumption
<1>4. SlotOk(EmptySlot(p.generation))
  BY <1>3, NoneFacts DEF SlotOk, Slot, EmptySlot
<1>5. SlotOk([ generation |-> p.generation, state |-> "Ready", image |-> image,
               binding |-> task, exit_code |-> None ])
  BY <1>3, NoneFacts, NoneIsNoState DEF SlotOk, Slot, ProcessState
<1> QED BY <1>1, <1>2, <1>4, <1>5 DEF p

LEMMA RegisterReadyStep ==
    ASSUME SlotsConsistent, NEW image \in AddressSpaces, register_ready(image)
    PROVE  Goal
<1> DEFINE p == NextProcessId(manager)
           slot == [ generation |-> p.generation, state |-> "Ready", image |-> image,
                     binding |-> None, exit_code |-> None ]
           hint == (p.index + 1) % NProcesses
<1>1. RegisterReadyOk(manager)
  BY DEF register_ready
<1>2. SlotOk(slot) /\ hint \in ProcessIndex
  BY <1>1, RegisterStep
<1>3. manager' = [slots |-> [manager.slots EXCEPT ![p.index] = slot], next_hint |-> hint]
  BY DEF register_ready, RegisterReady
<1>4. slot.generation = p.generation /\ slot.state = "Ready" /\ slot.exit_code = None
  OBVIOUS
<1> HIDE DEF slot, hint
<1> QED BY <1>1, <1>2, <1>3, <1>4, NewSlotStep

LEMMA SpawnReadyStep ==
    ASSUME SlotsConsistent, NEW image \in AddressSpaces,
           NEW task \in TaskId, NEW execution, NEW space,
           spawn_ready(image, task, execution, space)
    PROVE  Goal
<1> DEFINE p == NextProcessId(manager)
           registered == RegisterReady(manager, image)
           fresh == [ generation |-> p.generation, state |-> "Ready", image |-> image,
                      binding |-> None, exit_code |-> None ]
           hint == (p.index + 1) % NProcesses
<1>1. CASE ~ RegisterReadyOk(manager)
  <2>1. manager' = manager
    BY <1>1 DEF spawn_ready, SpawnReady
  <2>2. SlotsConsistent'
    BY <2>1 DEF SlotsConsistent, TypeOK
  <2>3. \A q \in ProcessId : Life(q)' = Life(q) /\ CodeOf(q)' = CodeOf(q)
    BY <2>1 DEF Life, CodeOf, Registered
  <2> QED BY <2>2, <2>3 DEF Goal, Lifecycle!vars
<1>2. CASE RegisterReadyOk(manager)
  <2>1. /\ p.index \in ProcessIndex /\ hint \in ProcessIndex
        /\ manager.slots \in [ProcessIndex -> Slot]
    BY <1>2, RegisterStep DEF SlotsConsistent, TypeOK
  <2>2. registered = [slots |-> [manager.slots EXCEPT ![p.index] = fresh], next_hint |-> hint]
    BY DEF RegisterReady
  <2>3. CASE AttachProcessOk(registered, p, task, execution, space)
    <3> DEFINE slot == [ generation |-> p.generation, state |-> "Ready", image |-> image,
                         binding |-> task, exit_code |-> None ]
    <3>1. manager' = AttachProcess(registered, p, task)
      BY <1>2, <2>3 DEF spawn_ready, SpawnReady
    <3>2. SlotOk(slot)
      BY <1>2, RegisterStep
    <3> HIDE DEF p, registered, hint
    <3>3. manager' = [slots |-> [manager.slots EXCEPT ![p.index] = slot], next_hint |-> hint]
      BY <2>1, <2>2, <3>1 DEF AttachProcess
    <3>4. slot.generation = p.generation /\ slot.state = "Ready" /\ slot.exit_code = None
      OBVIOUS
    <3> HIDE DEF slot
    <3> QED BY <1>2, <2>1, <3>2, <3>3, <3>4, NewSlotStep DEF p
  <2>4. CASE ~ AttachProcessOk(registered, p, task, execution, space)
    <3> DEFINE slot == EmptySlot(p.generation)
    <3>1. manager' = RemoveRegistered(registered, p)
      BY <1>2, <2>4 DEF spawn_ready, SpawnReady
    <3>2. SlotOk(slot)
      BY <1>2, RegisterStep
    <3> HIDE DEF p, registered, hint
    <3>3. manager' = [slots |-> [manager.slots EXCEPT ![p.index] = slot], next_hint |-> hint]
      BY <2>1, <2>2, <3>1 DEF RemoveRegistered
    <3>4. slot.generation = p.generation /\ slot.state = None /\ slot.exit_code = None
      BY DEF EmptySlot
    <3> HIDE DEF slot
    <3> QED BY <1>2, <2>1, <3>2, <3>3, <3>4, NewSlotStep DEF p
  <2> QED BY <2>3, <2>4
<1> QED BY <1>1, <1>2

\* yield_to is the one method that writes two slots: both processes are
\* registered and differ, so their slots do.
LEMMA YieldStep ==
    ASSUME SlotsConsistent, NEW p \in ProcessId, NEW q \in ProcessId, yield_to(p, q)
    PROVE  Goal
<1> DEFINE first == manager.slots[p.index]
           second == manager.slots[q.index]
           life == [r \in ProcessId |-> Life(r)]
<1>1. /\ Registered(manager, p) /\ first.state = "Running" /\ first.binding # None
      /\ Registered(manager, q) /\ second.state = "Ready" /\ second.binding # None
      /\ p # q
  BY DEF yield_to, YieldOk, BindingOf
<1>2. /\ p.index \in ProcessIndex /\ SlotOk(first) /\ first.generation = p.generation
      /\ q.index \in ProcessIndex /\ SlotOk(second) /\ second.generation = q.generation
      /\ Life(p) = "Running" /\ Life(q) = "Ready"
  BY <1>1, RegisteredFacts
<1>3. p.index # q.index
  BY <1>1, <1>2 DEF ProcessId
<1>4. /\ manager' \in [slots : [ProcessIndex -> Slot], next_hint : ProcessIndex]
      /\ manager'.slots[p.index] = [first EXCEPT !.state = "Ready"]
      /\ manager'.slots[q.index] = [second EXCEPT !.state = "Running"]
      /\ \A i \in ProcessIndex \ {p.index, q.index} : manager'.slots[i] = manager.slots[i]
  <2> DEFINE m == SetState(manager, p, "Ready")
  <2>1. manager \in [slots : [ProcessIndex -> Slot], next_hint : ProcessIndex]
    BY DEF SlotsConsistent, TypeOK
  <2>2. /\ m \in [slots : [ProcessIndex -> Slot], next_hint : ProcessIndex]
        /\ m.slots[p.index] = [first EXCEPT !.state = "Ready"]
        /\ \A i \in ProcessIndex \ {p.index} : m.slots[i] = manager.slots[i]
    BY <1>2, <2>1 DEF SetState, Slot, ProcessState
  <2>3. manager' = SetState(m, q, "Running")
    BY DEF yield_to, YieldTo
  <2> HIDE DEF m
  <2>4. m.slots[q.index] = second
    BY <1>2, <1>3, <2>2
  <2>5. /\ manager' \in [slots : [ProcessIndex -> Slot], next_hint : ProcessIndex]
        /\ manager'.slots[q.index] = [m.slots[q.index] EXCEPT !.state = "Running"]
        /\ \A i \in ProcessIndex \ {q.index} : manager'.slots[i] = m.slots[i]
    <3>1. m \in [slots : [ProcessIndex -> Slot], next_hint : ProcessIndex]
      BY <2>2
    <3> QED BY <1>2, <2>3, <3>1 DEF SetState, Slot, ProcessState
  <2> QED BY <1>2, <1>3, <2>2, <2>4, <2>5
<1>5. SlotOk([first EXCEPT !.state = "Ready"]) /\ SlotOk([second EXCEPT !.state = "Running"])
  BY <1>1, <1>2, NoneFacts DEF SlotOk, Slot, ProcessState
<1>6. \A i \in ProcessIndex : SlotOk(manager.slots[i])
  BY DEF SlotsConsistent, TypeOK, SlotOk
<1>7. \A i \in ProcessIndex : SlotOk(manager'.slots[i])
  BY <1>4, <1>5, <1>6
<1>8. SlotsConsistent'
  BY <1>4, <1>7 DEF SlotsConsistent, TypeOK, SlotOk
<1>9. Life(p)' = "Ready" /\ Life(q)' = "Running" /\ CodeOf(p)' = CodeOf(p) /\ CodeOf(q)' = CodeOf(q)
  BY <1>1, <1>2, <1>4, NoneFacts, IdFacts DEF Life, CodeOf, Registered, SlotOk, Slot
<1>10. ASSUME NEW r \in ProcessId, r # p, r # q
       PROVE  Life(r)' = Life(r) /\ CodeOf(r)' = CodeOf(r)
  <2>1. r.index \in ProcessIndex /\ r.generation \in Nat
    BY IdFacts
  <2>2. CASE r.index \notin {p.index, q.index}
    BY <1>4, <2>1, <2>2 DEF Life, CodeOf, Registered
  <2>3. CASE r.index = p.index
    <3>1. r.generation # p.generation
      BY <1>10, <2>3 DEF ProcessId
    <3>2. manager'.slots[r.index].generation = first.generation /\ first.generation \in Nat
      BY <1>2, <1>4, <2>3, IdFacts DEF SlotOk, Slot
    <3> QED BY <1>2, <2>1, <2>3, <3>1, <3>2 DEF Life, CodeOf, Registered
  <2>4. CASE r.index = q.index
    <3>1. r.generation # q.generation
      BY <1>10, <2>4 DEF ProcessId
    <3>2. manager'.slots[r.index].generation = second.generation /\ second.generation \in Nat
      BY <1>2, <1>4, <2>4, IdFacts DEF SlotOk, Slot
    <3> QED BY <1>2, <2>1, <2>4, <3>1, <3>2 DEF Life, CodeOf, Registered
  <2> QED BY <2>2, <2>3, <2>4
<1>11. life' = [life EXCEPT ![p] = "Ready", ![q] = "Running"]
  BY <1>9, <1>10
<1>12. \A r \in ProcessId : CodeOf(r)' = CodeOf(r)
  BY <1>9, <1>10
<1>13. Lifecycle!Handover(p, q)
  BY <1>2, <1>11, <1>12 DEF Lifecycle!Handover
<1> QED BY <1>8, <1>13 DEF Goal, Lifecycle!Next

(***************************************************************************)
(* The two results.                                                        *)
(***************************************************************************)

LEMMA NextConsistent ==
    ASSUME SlotsConsistent, [Next]_manager PROVE Goal
<1>1. CASE UNCHANGED manager
  <2>1. SlotsConsistent'
    BY <1>1 DEF SlotsConsistent, TypeOK
  <2>2. \A q \in ProcessId : Life(q)' = Life(q) /\ CodeOf(q)' = CodeOf(q)
    BY <1>1 DEF Life, CodeOf, Registered
  <2> QED BY <2>1, <2>2 DEF Goal, Lifecycle!vars
<1>2. ASSUME NEW image \in AddressSpaces, register_ready(image) PROVE Goal
  BY <1>2, RegisterReadyStep
<1>3. ASSUME NEW image \in AddressSpaces, NEW task \in TaskId, NEW execution \in TaskId,
             NEW space \in AddressSpaces, spawn_ready(image, task, execution, space)
      PROVE  Goal
  BY <1>3, SpawnReadyStep
<1>4. ASSUME NEW p \in ProcessId, NEW task \in TaskId, NEW execution \in TaskId,
             NEW space \in AddressSpaces, attach_execution(p, task, execution, space)
      PROVE  Goal
  BY <1>4, AttachStep
<1>5. ASSUME NEW p \in ProcessId, start(p) PROVE Goal
  BY <1>5, StartStep
<1>6. ASSUME NEW p \in ProcessId, NEW q \in ProcessId, yield_to(p, q) PROVE Goal
  BY <1>6, YieldStep
<1>7. ASSUME NEW p \in ProcessId, NEW c \in ExitCode, request_exit(p, c) PROVE Goal
  BY <1>7, ExitStep
<1>8. ASSUME NEW p \in ProcessId, exit(p) PROVE Goal
  <2>1. 0 \in ExitCode /\ request_exit(p, 0)
    BY <1>8 DEF exit, request_exit, ExitCode
  <2> QED BY <2>1, <1>7
<1>9. ASSUME NEW p \in ProcessId, reap(p) \/ abort_ready(p) PROVE Goal
  BY <1>9, ReapStep
<1>10. IssuedProcess(manager) \subseteq ProcessId
  BY DEF IssuedProcess
<1> QED BY <1>1, <1>2, <1>3, <1>4, <1>5, <1>6, <1>7, <1>8, <1>9, <1>10 DEF Next

\* Whatever methods are called in whatever order, a slot is never half a
\* process: free slots are empty, exited ones have a code, running ones a
\* binding (kernel/src/process/manager.rs).
THEOREM SlotsStayConsistent == Spec => []SlotsConsistent
<1>1. Init => SlotsConsistent
  BY InitConsistent
<1>2. SlotsConsistent /\ [Next]_manager => SlotsConsistent'
  BY NextConsistent DEF Goal
<1> QED BY <1>1, <1>2, PTL DEF Spec

\* The process registry implements the life cycle of ProcessLifecycle, for any
\* number of slots and generations: an id is used once, an exit code survives
\* until the one reap, and no method revives a process.
THEOREM RegistryImplementsLifecycle == Spec => ImplementsLifecycle
<1>1. Init => Lifecycle!Init
  BY InitConsistent
<1>2. SlotsConsistent /\ [Next]_manager => [Lifecycle!Next]_(Lifecycle!vars)
  BY NextConsistent DEF Goal
<1> QED BY <1>1, <1>2, SlotsStayConsistent, PTL DEF Spec, ImplementsLifecycle, Lifecycle!Spec
===============================================================================
