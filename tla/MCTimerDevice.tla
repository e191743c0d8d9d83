----------------------------- MODULE MCTimerDevice ----------------------------
(* Machines and firmware for TimerDevice; the other constants are in the .cfg. *)
EXTENDS TimerDevice, SequencesExt

Cpu(invariant, ratio, nominal, apic, tsc_deadline) ==
    [ invariant |-> invariant, ratio |-> ratio, nominal |-> nominal,
      apic |-> apic, tsc_deadline |-> tsc_deadline ]
Ratio(crystal, numerator, denominator) ==
    [crystal |-> crystal, numerator |-> numerator, denominator |-> denominator]

\* The TSC runs at 30 ticks in a second of 20 nanoseconds.
Usual == Cpu(TRUE, Ratio(10, 3, 1), None, TRUE, TRUE)
AllCpus == {
    Usual,
    [Usual EXCEPT !.ratio = None, !.nominal = 30],
    [Usual EXCEPT !.ratio = None],
    [Usual EXCEPT !.ratio = Ratio(30, 20, 1)],
    [Usual EXCEPT !.ratio = Ratio(1, 1, 2), !.nominal = 30],
    [Usual EXCEPT !.ratio = Ratio(1, 4, 1)],
    [Usual EXCEPT !.invariant = FALSE],
    [Usual EXCEPT !.apic = FALSE],
    [Usual EXCEPT !.tsc_deadline = FALSE] }

\* The bytes of MADT entries.
LocalApic(id) == <<0, 8, id, id, 1, 0, 0, 0>>
X2Apic(id) == <<9, 16, 0, 0, id, 0, 0, 0, 1, 0, 0, 0, id, 0, 0, 0>>
IoApic(base) == <<1, 12, 7, 0, 0, 0, 192, 0, base, 0, 0, 0>>
Override(bus, irq, gsi, flags) == <<2, 10, bus, irq, gsi, 0, 0, 0, flags, 0>>
Unknown == <<4, 6, 255, 0, 0, 1>>
ShortIoApic == <<1, 8, 1, 0, 0, 0, 0, 0>>

Table(entries) ==
    LET bytes == FlattenSeq(entries)
    IN  [ address |-> 1, mapped |-> TRUE, signature |-> "APIC", checksum |-> TRUE,
          entries |-> entries, length |-> 44 + Len(bytes),
          bytes   |-> [a \in 44 .. 43 + Len(bytes) |-> bytes[a - 43]] ]
Tables == {
    Table(<<LocalApic(1), IoApic(0), Override(0, 0, 2, 0), Override(0, 9, 9, 13)>>),
    Table(<<Override(1, 1, 30, 0), Override(0, 1, 5, 15), IoApic(24), IoApic(0), X2Apic(3)>>),
    Table(<<IoApic(0), Unknown, Override(0, 1, 26, 5), Override(0, 1, 3, 0), IoApic(24), LocalApic(0)>>),
    Table(<<ShortIoApic, IoApic(2), Override(0, 9, 1, 2)>>),
    Table(<<IoApic(2), IoApic(2), Override(0, 1, 4, 8)>>),
    Table(<<LocalApic(0), LocalApic(1), LocalApic(2), LocalApic(3), IoApic(0)>>),
    Table(<<LocalApic(0), Override(0, 0, 2, 0)>>),
    Table(<<>>),
    Table(<<IoApic(0), <<4, 10, 0, 0>> >>),
    Table(<<IoApic(0), <<0, 0, 0, 0, 0, 0, 0, 0>> >>),
    Table(<<IoApic(0), <<1>> >>) }

Rsdp ==
    [ address |-> 1, mapped |-> TRUE, signature |-> TRUE, checksum |-> TRUE,
      revision |-> 2, extended_checksum |-> TRUE ]
Xsdt(tables) ==
    [ mapped |-> TRUE, signature |-> TRUE, checksum |-> TRUE,
      length |-> 36 + (8 * Len(tables)), tables |-> tables ]
Other == [Table(<<>>) EXCEPT !.signature = "FACP"]
Sound(table) == [rsdp |-> Rsdp, xsdt |-> Xsdt(<<Other, [Other EXCEPT !.address = 0], table>>)]
Usable == Sound(Table(<<IoApic(0)>>))
Broken == {
    [Usable EXCEPT !.rsdp.address = 0],
    [Usable EXCEPT !.rsdp.mapped = FALSE],
    [Usable EXCEPT !.rsdp.signature = FALSE],
    [Usable EXCEPT !.rsdp.checksum = FALSE],
    [Usable EXCEPT !.rsdp.revision = 0],
    [Usable EXCEPT !.rsdp.extended_checksum = FALSE],
    [Usable EXCEPT !.xsdt.mapped = FALSE],
    [Usable EXCEPT !.xsdt.signature = FALSE],
    [Usable EXCEPT !.xsdt.length = 35],
    [Usable EXCEPT !.xsdt.checksum = FALSE],
    [Usable EXCEPT !.xsdt.length = 52],
    [Usable EXCEPT !.xsdt.tables[1].mapped = FALSE],
    [Usable EXCEPT !.xsdt.tables[3].length = 43],
    [Usable EXCEPT !.xsdt.tables[3].checksum = FALSE] }
AllFirmwares == {Sound(table) : table \in Tables} \cup Broken

Capacities ==
    [local_apics |-> 3, local_x2apics |-> 2, io_apics |-> 3, source_overrides |-> 3]

Entry(vector, destination, masked) ==
    [ vector |-> vector, delivery_mode |-> 0, logical |-> FALSE, pending |-> FALSE,
      active_low |-> TRUE, level |-> TRUE, masked |-> masked, destination |-> destination ]
SomeEntries == {Entry(33, 3, TRUE), Entry(254, 255, FALSE)}
===============================================================================
