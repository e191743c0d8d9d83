----------------------------- MODULE ThreadSwitch -----------------------------
(***************************************************************************)
(* The assembly under the two runtimes, register by register: the entry    *)
(* stubs of the timer and of int 0x80, the snapshot they leave, and the    *)
(* three ways back (iretq from the stub, return_to_kernel and resume_user  *)
(* from a snapshot, switch and return_to_context from a Context).          *)
(*                                                                         *)
(* Addresses are in bytes and offsets are those of the assembly.  Kernel   *)
(* stacks are memory words; a snapshot or a Context is the sequence of its *)
(* words.  Which thread comes next is the scheduler's business: here any   *)
(* other one may.  Kernel entries mask interrupts, so each is one step.    *)
(* kernel_main runs either kernel tasks or user processes, never both.     *)
(***************************************************************************)
EXTENDS Integers, Sequences, SequencesExt

CONSTANTS
    None,           \* no snapshot, not stopped
    NTasks,         \* tasks 1 .. NTasks; thread 0 is kernel_main
    StackBytes,     \* the size of a kernel stack
    Depths          \* how many words deep a thread body may be in its stack

ASSUME StackAssumption ==
    /\ NTasks \in Nat /\ StackBytes \in Nat
    /\ StackBytes % 16 = 0 /\ \A d \in Depths : 8 * d < StackBytes

VARIABLES
    mode,       \* does kernel_main run kernel tasks or user processes?
    thread,     \* the thread on the CPU
    cpu,        \* its registers
    mem,        \* the kernel stacks
    rsp0,       \* the stack the TSS gives to an interrupt of user code
    context,    \* the voluntary Context of each thread
    snapshot,   \* the InterruptedState each task owns, or None
    stopped,    \* history: what a stopped thread must find again
    resumed     \* history: how the thread got the CPU, which registers and
                \* which words of its stack it did not find again, and was Rust
                \* code entered with an aligned stack?

vars == <<mode, thread, cpu, mem, rsp0, context, snapshot, stopped, resumed>>

Thread == 0 .. NTasks
Task == 1 .. NTasks

\* SavedRegisters, in the order of its fields, and Context.
SavedRegisters == <<"rax", "rcx", "rdx", "rbx", "rbp", "rsi", "rdi", "r8", "r9", "r10",
                    "r11", "r12", "r13", "r14", "r15">>
Context == <<"rsp", "rbp", "rbx", "r12", "r13", "r14", "r15", "rip">>
CallerSaved == {"rax", "rcx", "rdx", "rsi", "rdi", "r8", "r9", "r10", "r11"}
Gpr == ToSet(SavedRegisters)
Register == Gpr \cup {"rip", "cs", "rflags", "rsp", "ss"}

Word == {a \in 0 .. (NTasks + 2) * StackBytes : a % 8 = 0}
StackTop(t) == (t + 1) * StackBytes
StackOf(t) == {a \in Word : t * StackBytes < a /\ a < StackTop(t)}

\* Selectors of gdt.rs; interrupts are enabled in rflags 0x202 and not in 2.
KernelCode == 8
UserData == 19
UserCode == 27
Enabled == 514
Masked == 2
IsUser(r) == r.cs % 4 = 3

\* Values that can be told apart: what a body keeps in a register or in its
\* stack, the address it is at, and its activation record.
Junk == -1
Held(t, d, i) == 10000 * (t + 1) + 100 * d + i
Activation(t) == 9000 + t
Trampoline == 8000

(***************************************************************************)
(* The machine: m.r are the registers, m.mem the memory.                   *)
(***************************************************************************)

Push(m, v) ==
    [ r   |-> [m.r EXCEPT !.rsp = @ - 8],
      mem |-> [m.mem EXCEPT ![m.r.rsp - 8] = v] ]
PushAll(m, vs) == FoldLeft(Push, m, vs)

\* The registers names are loaded from consecutive words.
Loaded(r, names, words) ==
    [x \in Register |-> IF x \in ToSet(names)
                        THEN words[CHOOSE i \in DOMAIN names : names[i] = x] ELSE r[x]]
WordsAt(m, a, n) == [i \in 1 .. n |-> m.mem[a + 8 * (i - 1)]]
PopAll(m, names) ==
    [m EXCEPT !.r = [Loaded(m.r, names, WordsAt(m, m.r.rsp, Len(names)))
                        EXCEPT !.rsp = m.r.rsp + 8 * Len(names)]]

Aligned(a) == 16 * (a \div 16)

\* In 64-bit mode the CPU aligns the stack and pushes five words, and iretq
\* pops five, whether or not the privilege level changes.
FrameWords == <<"rip", "cs", "rflags", "rsp", "ss">>
Deliver(m) ==
    LET sp == IF IsUser(m.r) THEN rsp0 ELSE m.r.rsp
        base == [m EXCEPT !.r.rsp = Aligned(sp)]
        frame == PushAll(base, Reverse([i \in 1 .. 5 |-> m.r[FrameWords[i]]]))
    IN  [frame EXCEPT !.r.cs = KernelCode, !.r.ss = 0, !.r.rflags = Masked, !.r.rip = 0]
Iretq(m) == [m EXCEPT !.r = Loaded(m.r, FrameWords, WordsAt(m, m.r.rsp, 5))]

(***************************************************************************)
(* interrupt_entry.rs: timer_entry and syscall_entry.                      *)
(***************************************************************************)

\* The stub pushes the registers; the hook gets a pointer to them and one to
\* the CPU's frame.
Entered(m) ==
    LET d == Deliver(m) IN PushAll(d, Reverse([i \in 1 .. 15 |-> d.r[SavedRegisters[i]]]))
Saved(m) == m.r.rsp
ReturnFrame(m) == m.r.rsp + 120

\* and rsp, -16; sub rsp, 16; mov [rsp], rax; call: the stack Rust starts on.
HookRsp(m) == Aligned(m.r.rsp) - 24
Hook(m) ==
    [ r   |-> [x \in Register |-> IF x \in CallerSaved THEN Junk ELSE m.r[x]],
      mem |-> [m.mem EXCEPT ![HookRsp(m) + 8] = m.r.rsp, ![HookRsp(m)] = Junk] ]

StubReturn(m) == Iretq(PopAll(Hook(m), SavedRegisters))

\* InterruptReturnFrame::resume_rsp.
SameCplFrameBytes == 24
CrossCplFrameBytes == 40
ResumeRsp(m, frame) ==
    frame + IF m.mem[frame + 8] % 4 = 0 THEN SameCplFrameBytes ELSE CrossCplFrameBytes

\* InterruptedState::capture, as the words of the struct.  Option<u64> is two
\* words, the discriminant and the value; a kernel frame has neither rsp nor ss.
OptionWords(some, v) == IF some THEN <<1, v>> ELSE <<0, Junk>>
Capture(m) ==
    LET frame == ReturnFrame(m)
        user == m.mem[frame + 8] % 4 # 0
    IN  WordsAt(m, Saved(m), 15) \o WordsAt(m, frame, 3) \o <<ResumeRsp(m, frame)>>
            \o OptionWords(user, m.mem[frame + 24]) \o OptionWords(user, m.mem[frame + 32])

\* The word of a snapshot or a Context at a byte offset.
At(words, offset) == words[offset \div 8 + 1]

\* is_valid with kernel_iret_words, and is_user_valid.
KernelValid(s) ==
    /\ At(s, 120) # 0 /\ At(s, 136) % 4 >= 2 /\ At(s, 144) # 0
    /\ At(s, 128) % 4 = 0
UserValid(s) ==
    /\ At(s, 120) # 0 /\ At(s, 136) % 4 >= 2 /\ At(s, 144) # 0
    /\ At(s, 128) % 4 = 3 /\ At(s, 152) = 1 /\ At(s, 168) = 1 /\ At(s, 176) % 4 = 3

(***************************************************************************)
(* The ways back.                                                          *)
(***************************************************************************)

RestoreGprs(m, s) == [m EXCEPT !.r = Loaded(m.r, SavedRegisters, SubSeq(s, 1, 15))]

\* preempt_return.rs: the frame is rebuilt below resume_rsp.
return_to_kernel_NoRoom(m, s) ==   \* mutant: sub r10, 24 is left out
    LET sp == At(s, 144)
        built == [m.mem EXCEPT ![sp] = At(s, 120), ![sp + 8] = At(s, 128),
                               ![sp + 16] = At(s, 136)]
    IN  Iretq(RestoreGprs([r |-> [m.r EXCEPT !.rsp = sp], mem |-> built], s))
return_to_kernel(m, s) ==
    LET sp == At(s, 144) - 24
        built == [m.mem EXCEPT ![sp] = At(s, 120), ![sp + 8] = At(s, 128),
                               ![sp + 16] = At(s, 136)]
    IN  Iretq(RestoreGprs([r |-> [m.r EXCEPT !.rsp = sp], mem |-> built], s))

\* user_entry.rs: the frame is pushed on the current kernel stack.
resume_user(m, s) ==
    Iretq(RestoreGprs(PushAll(m, <<At(s, 168), At(s, 152), At(s, 136), At(s, 128),
                                   At(s, 120)>>), s))

\* The launch frame lies on the current kernel stack.
enter_user(m, t) ==
    Iretq(PushAll(m, <<UserData, -8 * t, Enabled, UserCode, Held(t, 0, 20)>>))

\* context_switch.rs: the registers are stored, with the return address that
\* call has pushed; the others are loaded, and ret goes to the continuation.
SaveContext(m) ==
    [i \in 1 .. 7 |-> m.r[Context[i]]] \o <<m.mem[m.r.rsp]>>
LoadContext(m, c) ==
    LET loaded == [m EXCEPT !.r = Loaded(m.r, Context, c)]
    IN  PopAll(Push(loaded, At(c, 56)), <<"rip">>)

bootstrap_context(t) ==
    <<Aligned(StackTop(t) - 8) + 8, 0, 0, Activation(t), 0, 0, 0, Trampoline>>

\* X86ExecutionBinding::validate.
Validated(t) ==
    /\ At(context[t], 0) # 0 /\ At(context[t], 56) # 0
    /\ At(context[t], 24) = Activation(t)

(***************************************************************************)
(* Threads.                                                                *)
(***************************************************************************)

\* A thread body d words deep in its stack, with interrupts enabled.  One body
\* still has its activation record in r12, a deeper one uses r12 itself.  A
\* user stack is not kernel memory.
Body(t, d) ==
    LET user == mode = "user"
    IN  [x \in Register |->
            CASE x = "rip" -> Held(t, d, 20)
              [] x = "rsp" -> IF user THEN -8 * d ELSE StackTop(t) - 8 * d
              [] x = "cs" -> IF user THEN UserCode ELSE KernelCode
              [] x = "ss" -> IF user THEN UserData ELSE 0
              [] x = "rflags" -> Enabled
              [] x = "r12" -> IF d = Min(Depths) THEN Activation(t) ELSE Held(t, d, 12)
              [] OTHER -> Held(t, d, CHOOSE i \in 1 .. 15 : SavedRegisters[i] = x)]

\* What is below the stack pointer of the running thread belongs to nobody.
Frames(r, t, old) ==
    [a \in Word |-> IF a \in StackOf(t)
                    THEN IF mode = "kernel" /\ a >= r.rsp
                         THEN Held(t, 0, 30) ELSE Junk
                    ELSE old[a]]
Dropped(m, t) ==
    [a \in Word |-> IF a \in StackOf(t) /\ (mode = "user" \/ a < m.r.rsp) THEN Junk
                    ELSE m.mem[a]]

NoNews == [how |-> "running", lost |-> {}, broken |-> {}, aligned |-> TRUE]

Init ==
    /\ mode \in {"kernel", "user"}
    /\ thread = 0
    /\ cpu = [x \in Register |->
                CASE x = "rsp" -> StackTop(0) - 16 [] x = "cs" -> KernelCode
                  [] x = "rflags" -> Masked [] x = "rip" -> Held(0, 0, 20)
                  [] OTHER -> 0]
    /\ mem = [a \in Word |-> Junk]
    /\ rsp0 = StackTop(0)
    /\ context = [t \in Thread |-> IF t = 0 THEN <<0, 0, 0, 0, 0, 0, 0, 0>>
                                   ELSE bootstrap_context(t)]
    /\ snapshot = [t \in Task |-> None]
    /\ stopped = [t \in Thread |-> None]
    /\ resumed = NoNews

Machine == [r |-> cpu, mem |-> mem]

\* The thread on the CPU computes, calls and returns.
work ==
    /\ thread # 0
    /\ \E d \in Depths : cpu' = Body(thread, d)
    /\ mem' = Frames(cpu', thread, mem)
    /\ resumed' = NoNews
    /\ UNCHANGED <<mode, thread, rsp0, context, snapshot, stopped>>

\* A thread that stops must find its registers again, and its stack from its
\* stack pointer up.
Stop(how) ==
    [ how |-> how, r |-> cpu,
      stack |-> [a \in {w \in StackOf(thread) : mode = "kernel" /\ w >= cpu.rsp} |-> mem[a]] ]

\* Thread t gets the CPU with machine m.  Of what the way it stopped promises
\* to keep, what does it not find again?
Promised(how) ==
    CASE how = "call" -> ToSet(Context)
      [] how = "first" -> {}
      [] OTHER -> Register
Resume(m, t, before, aligned) ==
    /\ thread' = t
    /\ cpu' = m.r
    /\ mem' = Dropped(m, t)
    /\ resumed' = [ how     |-> before.how,
                    lost    |-> {x \in Promised(before.how) : m.r[x] # before.r[x]},
                    broken  |-> {a \in DOMAIN before.stack : m.mem[a] # before.stack[a]},
                    aligned |-> aligned ]
Handover(m, next, how, aligned) ==
    /\ IF stopped[next] = None
       THEN Resume(m, next, [how |-> "first", r |-> m.r, stack |-> <<>>],
                   aligned /\ (mode = "user" \/ m.r.rsp % 16 = 8))
       ELSE Resume(m, next, stopped[next], aligned)
    /\ stopped' = [stopped EXCEPT ![thread] = Stop(how), ![next] = None]
    /\ rsp0' = StackTop(next)

Interruptible == thread # 0 /\ cpu.rflags = Enabled
HookAligned == HookRsp(Entered(Machine)) % 16 = 8

\* The interrupted thread goes on when timer_entry_rust returns.
timer_entry ==
    /\ Interruptible
    /\ Resume(StubReturn(Entered(Machine)), thread, Stop("stub"), HookAligned)
    /\ UNCHANGED <<mode, rsp0, context, snapshot, stopped>>

\* The result is stored over the saved rax.
syscall_entry(result) ==
    /\ mode = "user" /\ thread # 0
    /\ LET e == Entered(Machine)
       IN  Resume(StubReturn([e EXCEPT !.mem[Saved(e)] = result]), thread,
                  [Stop("syscall") EXCEPT !.r.rax = result], HookAligned)
    /\ UNCHANGED <<mode, rsp0, context, snapshot, stopped>>

(***************************************************************************)
(* Kernel tasks.                                                           *)
(***************************************************************************)

\* dispatch_once: the call pushes a return address, and switch goes to a task
\* that was not interrupted.  The thread's own Context must be initialized,
\* except kernel_main's.  A task does some work between two calls.
dispatch_once(next) ==
    /\ mode = "kernel" /\ next # thread
    /\ resumed = NoNews
    /\ snapshot[next] = None /\ Validated(next)
    /\ thread # 0 => At(context[thread], 0) # 0 /\ At(context[thread], 56) # 0
    /\ LET m == Push(Machine, cpu.rip)
       IN  /\ context' = [context EXCEPT ![thread] = SaveContext(m)]
           /\ Handover(LoadContext(m, context[next]), next, "call", TRUE)
    /\ UNCHANGED <<mode, snapshot>>

\* handle_timer_preemption: the interrupted task's snapshot is committed, and
\* the next one returns from its snapshot or from its Context.
timer_preempts(next) ==
    /\ mode = "kernel" /\ Interruptible /\ next # thread
    /\ snapshot[thread] = None /\ Validated(next)
    /\ LET e == Entered(Machine)
           captured == [snapshot EXCEPT ![thread] = Capture(e)]
           back == IF snapshot[next] = None
                   THEN LoadContext(Hook(e), context[next])
                   ELSE return_to_kernel(Hook(e), snapshot[next])
       IN  /\ KernelValid(Capture(e))
           /\ snapshot[next] # None => KernelValid(snapshot[next])
           /\ snapshot' = [captured EXCEPT ![next] = None]
           /\ Handover(back, next, "interrupt", HookAligned)
    /\ UNCHANGED <<mode, context>>

(***************************************************************************)
(* User processes.                                                         *)
(***************************************************************************)

start_user(next) ==
    /\ mode = "user" /\ thread = 0
    /\ Handover(enter_user(Machine, next), next, "call", TRUE)
    /\ UNCHANGED <<mode, context, snapshot>>

\* UserReturnTransfer::validate; a launch frame has the selectors and flags it
\* asks for.
TransferValid(next) == snapshot[next] # None => UserValid(snapshot[next])

\* commit_userspace_yield_with_snapshot and execute_user_transfer: the process
\* owns its snapshot, and the next one resumes or is entered.
timer_transfers(next) ==
    /\ mode = "user" /\ Interruptible /\ next # thread
    /\ snapshot[thread] = None
    /\ LET e == Entered(Machine)
           back == IF snapshot[next] = None
                   THEN enter_user(Hook(e), next)
                   ELSE resume_user(Hook(e), snapshot[next])
       IN  /\ UserValid(Capture(e))
           /\ TransferValid(next)
           /\ snapshot' = [snapshot EXCEPT ![thread] = Capture(e), ![next] = None]
           /\ Handover(back, next, "transfer", HookAligned)
    /\ UNCHANGED <<mode, context>>

Next ==
    \/ work
    \/ timer_entry
    \/ \E result \in {0, -2} : syscall_entry(result)
    \/ \E next \in Task :
        dispatch_once(next) \/ timer_preempts(next) \/ start_user(next) \/ timer_transfers(next)

Spec == Init /\ [][Next]_vars

(***************************************************************************)
(* Properties.                                                             *)
(***************************************************************************)


\* "without stack corruption" (docs/PREEMPTION_ABI.md): no entry stub, switch
\* or rebuilt iretq frame writes into the live part of a stopped thread's
\* kernel stack, and the thread finds it again when it goes on.  Rust code is
\* entered as after a call, with rsp 8 modulo 16: the hooks of the stubs, wherever
\* the interrupted thread's stack pointer was, and a new task ("enters its first
\* function with RSP % 16 == 8", docs/CONTEXT_SWITCH_ABI.md).
StacksAreIntact ==
    /\ resumed.broken = {}
    /\ resumed.aligned
    /\ \A t \in Thread : stopped[t] # None =>
        \A a \in DOMAIN stopped[t].stack : mem[a] = stopped[t].stack[a]

\* "The switch preserves the SysV64 callee-saved state plus the stack and
\* continuation address" (context_switch.rs): when switch returns to the task
\* that called it, they are what they are after any other call.
SwitchReturnsToCaller == resumed.how = "call" => resumed.lost = {}
===============================================================================
