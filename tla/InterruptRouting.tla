--------------------------- MODULE InterruptRouting ---------------------------
(***************************************************************************)
(* irq_routing.rs and ioapic.rs: from an ISA interrupt, through the        *)
(* overrides of the MADT, to the pin of an I/O APIC and the two registers  *)
(* that describe it.  Nothing calls them yet; they are operators on the    *)
(* topology discover returns and on the registers of an I/O APIC.          *)
(***************************************************************************)
EXTENDS Acpi

CONSTANTS
    Irqs,           \* the ISA interrupts that are resolved
    MaxIndexes,     \* the last pins that I/O APICs report
    Indexes,        \* the pins whose entries are written
    Entries         \* the redirection entries that are written

(***************************************************************************)
(* irq_routing.rs.                                                         *)
(***************************************************************************)

\* decode_flags: None where a field has its reserved value.
Polarity(flags) == <<"ConformsToBus", "ActiveHigh", None, "ActiveLow">>[1 + (flags % 4)]
Trigger(flags) == <<"ConformsToBus", "Edge", None, "Level">>[1 + ((flags \div 4) % 4)]

\* io_apic_index_for_gsi: the greatest base, and the last of several.
Below(t, gsi) == {i \in DOMAIN t.io_apics : t.io_apics[i].base <= gsi}
IoApicIndexForGsi(t, gsi) ==
    IF Below(t, gsi) = {} THEN None
    ELSE CHOOSE i \in Below(t, gsi) :
            \A j \in Below(t, gsi) \ {i} :
                \/ t.io_apics[j].base < t.io_apics[i].base
                \/ t.io_apics[j].base = t.io_apics[i].base /\ j < i

\* resolve_isa_irq: the first override of the ISA bus that names the interrupt.
Identity(irq) ==
    [irq |-> irq, gsi |-> irq, polarity |-> "ConformsToBus", trigger |-> "ConformsToBus"]
Matching_AnyBus(t, irq) ==   \* mutant: the bus is not looked at
    {i \in DOMAIN t.source_overrides : t.source_overrides[i].source = irq}
Matching(t, irq) ==
    {i \in DOMAIN t.source_overrides :
        t.source_overrides[i].bus = 0 /\ t.source_overrides[i].source = irq}
Overridden(t, irq) ==
    LET o == t.source_overrides[Min(Matching(t, irq))]
    IN  IF Matching(t, irq) = {} THEN Identity(irq)
        ELSE [ irq      |-> irq, gsi |-> o.gsi,
               polarity |-> Polarity(o.flags), trigger |-> Trigger(o.flags) ]
ResolveIsaIrq(t, irq) ==
    LET route == Overridden(t, irq)
    IN  [ route |-> route,
          error |-> IF route.polarity = None \/ route.trigger = None THEN "InvalidOverrideFlags"
                    ELSE IF IoApicIndexForGsi(t, route.gsi) = None THEN "NoIoApicForGsi"
                    ELSE None ]

(***************************************************************************)
(* ioapic.rs.  The registers of an I/O APIC are behind an 8-bit index.     *)
(***************************************************************************)

IoRegister == 0 .. 255
IOAPIC_VERSION == 1
REDIRECTION_TABLE_BASE == 16

Bit(b, n) == IF b THEN 2 ^ n ELSE 0
EncodeLow(e) ==
    e.vector + 256 * (e.delivery_mode % 8) + Bit(e.logical, 11) + Bit(e.pending, 12)
        + Bit(e.active_low, 13) + Bit(e.level, 15) + Bit(e.masked, 16)
\* The destination is in bits 24 to 31; the value here is in units of 2^24.
EncodeHigh(e) == e.destination

MaxRedirectionIndex(regs) == (regs[IOAPIC_VERSION] \div 65536) % 256
WriteRegister(regs, register, value) == [regs EXCEPT ![register] = value]

\* checked_mul(2) and checked_add of u8.
RedirectionRegister(index) == REDIRECTION_TABLE_BASE + (2 * index)
WriteRedirectionOk_Unchecked(regs, index) == index <= MaxRedirectionIndex(regs)   \* mutant
WriteRedirectionOk(regs, index) ==
    /\ index <= MaxRedirectionIndex(regs)
    /\ 2 * index < 256 /\ RedirectionRegister(index) < 256
WriteRedirection(regs, index, e) ==
    IF ~ WriteRedirectionOk(regs, index) THEN regs
    ELSE LET register == RedirectionRegister(index) % 256
         IN  WriteRegister(WriteRegister(regs, register, EncodeLow(e)),
                           register + 1, EncodeHigh(e))

(***************************************************************************)
(* Properties.                                                             *)
(***************************************************************************)

\* A route is what the MADT says, whatever else the table holds: the first
\* override of the ISA bus for that interrupt, else the same number, on the
\* I/O APIC with the closest base.  table.entries are the entries firmware
\* wrote, one by one.  (Of more overrides or I/O APICs than the topology has
\* room for, the rest is dropped without a word.)
Written(array) ==
    {e \in DOMAIN madt.table.entries :
        LET bytes == madt.table.entries[e]
        IN  ArrayOf([bytes |-> [a \in 0 .. Len(bytes) - 1 |-> bytes[a + 1]]], 0) = array}
RoutesFollowMadt ==
    madt # None /\ madt.outcome = "Ok"
        /\ (\A array \in Arrays : Len(madt.topology[array]) < Capacity[array]) =>
        \A irq \in Irqs :
            LET entry == madt.table.entries
                mine == {e \in Written("source_overrides") : entry[e][3] = 0 /\ entry[e][4] = irq}
                gsi == IF mine = {} THEN irq ELSE entry[Min(mine)][5]
                bases == {entry[e][9] : e \in Written("io_apics")}
                resolved == ResolveIsaIrq(madt.topology, irq)
                index == IoApicIndexForGsi(madt.topology, gsi)
                flags == entry[Min(mine)][9]
            IN  CASE resolved.error = "InvalidOverrideFlags" ->
                        mine # {} /\ (flags % 4 = 2 \/ (flags \div 4) % 4 = 2)
                  [] resolved.error = "NoIoApicForGsi" -> \A base \in bases : base > gsi
                  [] OTHER ->
                        /\ resolved.route.gsi = gsi
                        /\ madt.topology.io_apics[index].base \in bases
                        /\ \A base \in bases : base <= madt.topology.io_apics[index].base \/ base > gsi

\* A redirection entry lands in its own two registers or nowhere, up to the
\* last index the device reports and the last the 8-bit register index can
\* reach, and what is written there is the entry.
RedirectionLandsInPlace ==
    madt # None /\ madt.outcome = "Ok" =>
        \A max \in MaxIndexes :
            LET regs == [r \in IoRegister |-> IF r = IOAPIC_VERSION THEN 65536 * max ELSE 0]
            IN  \A index \in Indexes, e \in Entries :
                    LET after == WriteRedirection(regs, index, e)
                        low == 16 + (2 * index)
                    IN  IF index > max \/ low > 254 THEN after = regs
                        ELSE /\ after = [regs EXCEPT ![low] = after[low], ![low + 1] = after[low + 1]]
                             /\ after[low] % 256 = e.vector /\ after[low + 1] = e.destination
                             /\ (after[low] \div 65536) % 2 = 1 <=> e.masked
===============================================================================
