------------------------------ MODULE TimerDevice -----------------------------
(***************************************************************************)
(* Time: the TSC clocksource, and the local APIC timer that kernel_main    *)
(* calibrates against it and sets to a period, with the hardware they      *)
(* drive.  One step of pass is one tick of the timer's counter, and TscStep *)
(* ticks of the TSC.  The local APIC is set up where ACPI reports an       *)
(* I/O APIC; nothing measures time while its tables are read.              *)
(*                                                                         *)
(* set_deadline, disable and a later set_periodic are the rest of the      *)
(* TimerDevice interface; they may be called once the timer is set up.     *)
(***************************************************************************)
EXTENDS InterruptRouting

CONSTANTS
    Nanos,              \* nanoseconds in a second
    CalibrationNanos,   \* CALIBRATION_TSC_NANOS
    TimeEnd,            \* one more than u64::MAX
    MaxInitialCount,    \* MAX_INITIAL_COUNT, u32::MAX
    TscStep,            \* ticks of the TSC in one tick of the counter
    LapicHz,            \* ticks of the counter in a second
    Cpus,               \* what CPUID may report
    Intervals,          \* the intervals asked for; kernel_main asks for BootInterval
    BootInterval,
    Deadlines,          \* the deadlines asked for
    MaxDelay            \* bound on the ticks that pass before a step of the boot

ASSUME TimeAssumption ==
    /\ {Nanos, CalibrationNanos, TimeEnd, MaxInitialCount, TscStep, LapicHz} \subseteq Nat \ {0}
    /\ BootInterval \in Intervals /\ 0 \notin Intervals

VARIABLES
    cpu,            \* the machine
    tsc,            \* the time-stamp counter
    lapic,          \* the registers of the local APIC
    eoi_mode,       \* MODE of local_apic.rs: is the EOI register known?
    clock,          \* the TscClocksource, or None
    timer,          \* the LapicTimer, or None
    stage,          \* how far kernel_main has come
    delay,          \* the ticks since then
    programmed      \* what the timer was last told to do

vars == <<firmware, madt, cpu, tsc, lapic, eoi_mode, clock, timer, stage, delay, programmed>>

Fits(value) == value < TimeEnd

(***************************************************************************)
(* The clocksource.                                                        *)
(***************************************************************************)

\* detect_frequency prefers the ratio of CPUID.15H to the MHz of CPUID.16H.
\* A ratio is None where the leaf, or one of its three numbers, is missing.
DetectFrequency(c) ==
    LET product == c.ratio.crystal * c.ratio.numerator
    IN  IF c.ratio # None /\ ~ Fits(product) THEN None
        ELSE IF c.ratio # None /\ product \div c.ratio.denominator # 0
        THEN product \div c.ratio.denominator
        ELSE c.nominal

TicksToNanos_DivideFirst(ticks, hz) == ticks * (Nanos \div hz)   \* mutant: hz may not divide Nanos
TicksToNanos(ticks, hz) ==
    LET whole == (ticks \div hz) * Nanos
        fraction == ((ticks % hz) * Nanos) \div hz
    IN  IF Fits(whole) /\ Fits(whole + fraction) THEN whole + fraction ELSE None

\* TscClocksource::now
Now == IF tsc < clock.start THEN None ELSE TicksToNanos(tsc - clock.start, clock.hz)

(***************************************************************************)
(* The local APIC.  Its counter runs while it is not zero, and starts anew *)
(* in periodic mode; a masked timer raises no interrupt.  The deadline     *)
(* register only works in TSC-deadline mode.                               *)
(***************************************************************************)

WriteInitial(l, value) == [l EXCEPT !.initial = value, !.count = value]
WriteLvt(l, mode) ==
    [l EXCEPT !.mode = mode, !.deadline = IF mode = "tsc_deadline" THEN @ ELSE 0]
WriteDeadline(l, value) ==
    [l EXCEPT !.deadline = IF l.mode = "tsc_deadline" THEN value ELSE 0]

ReadCurrent(l) == l.count

Expires(l, now) ==
    \/ l.count = 1 /\ l.mode \in {"one_shot", "periodic"}
    \/ l.deadline # 0 /\ now >= l.deadline
Ticked(l, now) ==
    [l EXCEPT !.count = IF l.count = 1 /\ l.mode = "periodic" THEN l.initial
                        ELSE Max({l.count - 1, 0}),
              !.deadline = IF Expires(l, now) THEN 0 ELSE @,
              !.requested = @ \/ Expires(l, now)]

(***************************************************************************)
(* kernel_main.                                                            *)
(***************************************************************************)

Init ==
    /\ AcpiInit
    /\ cpu \in Cpus
    /\ tsc \in {0, TimeEnd - 3 * TscStep}
    /\ lapic = [ mode |-> "masked", initial |-> 0, count |-> 0, deadline |-> 0,
                 requested |-> FALSE, in_service |-> FALSE ]
    /\ eoi_mode = FALSE
    /\ clock = None
    /\ timer = None
    /\ stage = "clock"
    /\ delay = 0
    /\ programmed = [kind |-> "nothing"]

\* Time passes; between two steps of the boot only so much of it.
Waits == stage \in {"calibrating", "running"}
pass ==
    /\ stage # "acpi"
    /\ Waits \/ delay < MaxDelay
    /\ tsc' = (tsc + TscStep) % TimeEnd
    /\ lapic' = Ticked(lapic, tsc')
    /\ delay' = IF Waits THEN 0 ELSE delay + 1
    /\ UNCHANGED <<firmware, madt, cpu, eoi_mode, clock, timer, stage, programmed>>

\* TscClocksource::try_new
try_new_clock ==
    /\ stage = "clock"
    /\ clock' = IF cpu.invariant /\ DetectFrequency(cpu) # None
                THEN [start |-> tsc, hz |-> DetectFrequency(cpu)] ELSE None
    /\ stage' = "acpi"
    /\ delay' = 0
    /\ UNCHANGED <<firmware, madt, cpu, tsc, lapic, eoi_mode, timer, programmed>>

\* discover is called with a mapping of physical memory and an RSDP.
discover_acpi ==
    /\ stage = "acpi"
    /\ discover \/ parse_entry
    /\ UNCHANGED <<cpu, tsc, lapic, eoi_mode, clock, timer, stage, delay, programmed>>

\* enable_preferred_mode, which chooses between xAPIC and x2APIC, and then
\* local_apic::initialize; all of it only with an I/O APIC.  The topology is
\* dropped, and firmware memory is not looked at again.
ModeEnabled(c) == c.apic
IoApicFound == madt.outcome = "Ok" /\ Len(madt.topology.io_apics) > 0
EoiInitialized(c) == IoApicFound /\ ModeEnabled(c)
ApicReady_Always(c) == TRUE   \* mutant: the timer is used without apic_ready
ApicReady(c) == EoiInitialized(c)
initialize_apic ==
    /\ stage = "acpi" /\ madt # None /\ ~ Walking
    /\ eoi_mode' = EoiInitialized(cpu)
    /\ stage' = IF ApicReady(cpu) /\ clock # None THEN "calibrate" ELSE "running"
    /\ firmware' = None /\ madt' = None
    /\ delay' = 0
    /\ UNCHANGED <<cpu, tsc, lapic, clock, timer, programmed>>

\* LapicTimer::new, and calibrate up to its loop.  The counter starts before
\* the TSC is read.
TargetTicks == (clock.hz * CalibrationNanos) \div Nanos
CalibrationLvt == "masked"
start_counter ==
    /\ stage = "calibrate"
    /\ lapic' = WriteInitial(WriteLvt(lapic, CalibrationLvt), MaxInitialCount)
    /\ timer' = [hz |-> None, start |-> None, tsc_hz |-> None]
    /\ stage' = IF ~ Fits(clock.hz * CalibrationNanos) \/ TargetTicks = 0
                THEN "running" ELSE "read_start"
    /\ delay' = 0
    /\ UNCHANGED <<firmware, madt, cpu, tsc, eoi_mode, clock, programmed>>
read_start ==
    /\ stage = "read_start"
    /\ timer' = [timer EXCEPT !.start = tsc]
    /\ stage' = "calibrating"
    /\ delay' = 0
    /\ UNCHANGED <<firmware, madt, cpu, tsc, lapic, eoi_mode, clock, programmed>>

\* The loop ends; its time is measured with wrapping_sub.
TargetReached_NoWrap == tsc >= timer.start + TargetTicks   \* mutant: compares instead of subtracting
TargetReached == (tsc - timer.start) % TimeEnd >= TargetTicks
calibrated ==
    /\ stage = "calibrating"
    /\ TargetReached
    /\ stage' = "measure"
    /\ delay' = 0
    /\ UNCHANGED <<firmware, madt, cpu, tsc, lapic, eoi_mode, clock, timer, programmed>>

ElapsedCount(l) == MaxInitialCount - ReadCurrent(l)
measure ==
    /\ stage = "measure"
    /\ LET product == ElapsedCount(lapic) * Nanos
           hz == product \div CalibrationNanos
       IN  IF ElapsedCount(lapic) = 0 \/ ~ Fits(product) \/ hz = 0
           THEN /\ timer' = [timer EXCEPT !.start = None]
                /\ stage' = "running"
                /\ UNCHANGED lapic
           ELSE /\ timer' = [hz |-> hz, start |-> timer.start, tsc_hz |-> clock.hz]
                /\ lapic' = WriteLvt(WriteInitial(lapic, 0), CalibrationLvt)
                /\ stage' = "set_periodic"
    /\ delay' = 0
    /\ UNCHANGED <<firmware, madt, cpu, tsc, eoi_mode, clock, programmed>>

(***************************************************************************)
(* The TimerDevice interface.                                              *)
(***************************************************************************)

Calibrated == timer # None /\ timer.hz # None

PeriodOk(interval) ==
    /\ Fits(timer.hz * interval)
    /\ (timer.hz * interval) \div Nanos \in 1 .. MaxInitialCount

PeriodicLvt == "periodic"
set_periodic(interval) ==
    /\ \/ stage = "set_periodic" /\ interval = BootInterval
       \/ stage = "running" /\ Calibrated
    /\ IF PeriodOk(interval)
       THEN LET count == (timer.hz * interval) \div Nanos
            IN  /\ lapic' = WriteInitial(WriteLvt(lapic, PeriodicLvt), count)
                /\ programmed' = [kind |-> "periodic", interval |-> interval]
       ELSE UNCHANGED <<lapic, programmed>>
    /\ stage' = "running"
    /\ delay' = 0
    /\ UNCHANGED <<firmware, madt, cpu, tsc, eoi_mode, clock, timer>>

\* deadline_to_tsc
DeadlineToTsc(time) == timer.start + ((time * timer.tsc_hz) \div Nanos)
set_deadline(time) ==
    /\ stage = "running" /\ timer # None
    /\ IF cpu.tsc_deadline /\ Calibrated /\ Fits(DeadlineToTsc(time))
       THEN /\ lapic' = WriteDeadline(WriteLvt(WriteInitial(lapic, 0), "one_shot"), DeadlineToTsc(time))
            /\ programmed' = [kind |-> "deadline"]
       ELSE UNCHANGED <<lapic, programmed>>
    /\ UNCHANGED <<firmware, madt, cpu, tsc, eoi_mode, clock, timer, stage, delay>>

disable ==
    /\ stage = "running" /\ timer # None
    /\ lapic' = WriteLvt(WriteInitial(WriteDeadline(lapic, 0), 0), "masked")
    /\ programmed' = [kind |-> "nothing"]
    /\ UNCHANGED <<firmware, madt, cpu, tsc, eoi_mode, clock, timer, stage, delay>>

\* The CPU takes the interrupt, and record_timer_interrupt ends with the EOI,
\* which is written only if local_apic::initialize has run.
timer_interrupt ==
    /\ stage = "running"
    /\ lapic.requested /\ ~ lapic.in_service
    /\ lapic' = [lapic EXCEPT !.requested = FALSE, !.in_service = ~ eoi_mode]
    /\ UNCHANGED <<firmware, madt, cpu, tsc, eoi_mode, clock, timer, stage, delay, programmed>>

Next ==
    \/ pass
    \/ try_new_clock
    \/ discover_acpi
    \/ initialize_apic
    \/ start_counter
    \/ read_start
    \/ calibrated
    \/ measure
    \/ \E interval \in Intervals : set_periodic(interval)
    \/ \E time \in Deadlines : set_deadline(time)
    \/ disable
    \/ timer_interrupt

Spec == Init /\ [][Next]_vars

\* Time does not stop, and the CPU takes interrupts.  The calibration loop does
\* nothing but look at the TSC: it cannot miss the condition whenever it holds,
\* which is all of the counter's period but the target.
FairSpec ==
    Spec /\ WF_vars(discover_acpi) /\ WF_vars(pass) /\ SF_vars(calibrated) /\ WF_vars(timer_interrupt)

(***************************************************************************)
(* Properties.                                                             *)
(***************************************************************************)

\* now() is the exact time since the clocksource began, rounded down, although
\* it is computed from whole seconds and a remainder; it fails only when that
\* time, or the counter, has overflowed.
NowIsExact ==
    clock # None /\ tsc >= clock.start =>
        LET exact == ((tsc - clock.start) * Nanos) \div clock.hz
        IN  Now = IF Fits(exact) THEN exact ELSE None


\* A timer that stays periodic interrupts for ever: each interrupt is
\* acknowledged, as the timer is only set after the EOI has been set up.
\* (Each set_periodic starts the counter anew, so that calling it again and
\* again holds the interrupt off.)
KeepsTicking ==
    \/ []<>(programmed.kind # "periodic")
    \/ []<><<\E interval \in Intervals : set_periodic(interval)>>_vars
    \/ []<><<timer_interrupt>>_vars

\* Calibration ends, also when the TSC wraps in the middle of it.
CalibrationEnds == stage = "calibrating" ~> stage = "measure"
===============================================================================
