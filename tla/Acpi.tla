--------------------------------- MODULE Acpi ---------------------------------
(***************************************************************************)
(* acpi.rs: from the RSDP the bootloader reports to the interrupt topology *)
(* of the MADT.                                                            *)
(*                                                                         *)
(* What firmware left in memory is a record per table: a signature and a   *)
(* checksum are right or wrong, and an address can be translated or not.   *)
(* The MADT alone is bytes, since parse_madt finds its way through them by *)
(* the lengths they hold.  One iteration of its loop is one step.          *)
(***************************************************************************)
EXTENDS Integers, Sequences, FiniteSetsExt

CONSTANTS
    Firmwares,      \* what firmware may have left in memory
    Capacity,       \* the length of the topology's four arrays
    None

Arrays == {"local_apics", "local_x2apics", "io_apics", "source_overrides"}

Outcomes ==
    { "Ok", "MissingRsdp", "InvalidRsdpSignature", "InvalidRsdpChecksum",
      "InvalidExtendedChecksum", "XsdtNotFound", "InvalidTableAddress", "InvalidTableHeader",
      "InvalidTableChecksum", "MadtNotFound", "TruncatedMadtEntry" }

ASSUME OutcomeAssumption == None \notin Outcomes
ASSUME CapacityAssumption == Capacity \in [Arrays -> Nat]

\* A table has as many bytes as its header says, and the XSDT an address for
\* each table.
ASSUME FirmwareAssumption ==
    \A f \in Firmwares :
        /\ f.xsdt.length \in Nat
        /\ \A i \in 1 .. (f.xsdt.length - 36) \div 8 :
            LET table == f.xsdt.tables[i]
            IN  /\ table # None /\ table.length \in Nat
                /\ \A a \in 44 .. table.length - 1 : table.bytes[a] \in 0 .. 255

VARIABLES
    firmware,       \* what discover reads
    madt            \* the table parse_madt walks, its offset and topology, and
                    \* what came of it

acpi_vars == <<firmware, madt>>

(***************************************************************************)
(* discover.                                                               *)
(***************************************************************************)

RsdpError(f) ==
    CASE f.rsdp.address = 0 -> "MissingRsdp"
      [] ~ f.rsdp.mapped -> "InvalidTableAddress"
      [] ~ f.rsdp.signature -> "InvalidRsdpSignature"
      [] ~ f.rsdp.checksum -> "InvalidRsdpChecksum"
      [] f.rsdp.revision = 0 -> "XsdtNotFound"
      [] ~ f.rsdp.extended_checksum -> "InvalidExtendedChecksum"
      [] OTHER -> None

XsdtError(f) ==
    CASE ~ f.xsdt.mapped -> "InvalidTableAddress"
      [] ~ f.xsdt.signature \/ f.xsdt.length < 36 -> "InvalidTableHeader"
      [] ~ f.xsdt.checksum -> "InvalidTableChecksum"
      [] OTHER -> None

\* The loop over the XSDT ends at the first table that cannot be read or is a
\* MADT; an entry of zero is skipped.
EntryCount(f) == (f.xsdt.length - 36) \div 8
LoopEnds(f) ==
    {i \in 1 .. EntryCount(f) :
        LET table == f.xsdt.tables[i]
        IN  table.address # 0 /\ (~ table.mapped \/ table.signature = "APIC")}

MadtError(f) ==
    LET table == f.xsdt.tables[Min(LoopEnds(f))]
    IN  CASE LoopEnds(f) = {} -> "MadtNotFound"
          [] ~ table.mapped -> "InvalidTableAddress"
          [] table.length < 44 -> "InvalidTableHeader"
          [] ~ table.checksum -> "InvalidTableChecksum"
          [] OTHER -> None

DiscoverError(f) ==
    CASE RsdpError(f) # None -> RsdpError(f)
      [] XsdtError(f) # None -> XsdtError(f)
      [] OTHER -> MadtError(f)

NoTopology == [array \in Arrays |-> <<>>]
Walk(table, offset, topology, outcome) ==
    [table |-> table, offset |-> offset, topology |-> topology, outcome |-> outcome]

discover ==
    /\ madt = None
    /\ madt' = IF DiscoverError(firmware) # None
               THEN Walk(None, 0, NoTopology, DiscoverError(firmware))
               ELSE Walk(firmware.xsdt.tables[Min(LoopEnds(firmware))], 44, NoTopology, None)
    /\ UNCHANGED firmware

(***************************************************************************)
(* parse_madt.                                                             *)
(***************************************************************************)

EntryType(table, offset) == table.bytes[offset]
EntryLength(table, offset) == table.bytes[offset + 1]

\* The two early returns.
Truncated_NoMinimum(table, offset) ==   \* mutant: an entry may be shorter than its header
    \/ table.length - offset < 2
    \/ offset + EntryLength(table, offset) > table.length
Truncated_HeaderOnly(table, offset) ==   \* mutant: an entry may reach beyond the table
    table.length - offset < 2 \/ EntryLength(table, offset) < 2
Truncated(table, offset) ==
    \/ table.length - offset < 2
    \/ EntryLength(table, offset) < 2
    \/ offset + EntryLength(table, offset) > table.length

\* The array an entry belongs to, if its length allows.
ArrayOf(table, offset) ==
    LET type == EntryType(table, offset)
        length == EntryLength(table, offset)
    IN  CASE type = 0 /\ length >= 8 -> "local_apics"
          [] type = 1 /\ length >= 12 -> "io_apics"
          [] type = 2 /\ length >= 10 -> "source_overrides"
          [] type = 9 /\ length >= 16 -> "local_x2apics"
          [] OTHER -> None

\* from_le_bytes of two and of four bytes.
Le16(table, a) == table.bytes[a] + 256 * table.bytes[a + 1]
Le32(table, a) == Le16(table, a) + 65536 * Le16(table, a + 2)

Parsed(table, o) ==
    CASE ArrayOf(table, o) = "local_apics" ->
            [ processor_id |-> table.bytes[o + 2], apic_id |-> table.bytes[o + 3],
              flags        |-> Le32(table, o + 4) ]
      [] ArrayOf(table, o) = "io_apics" ->
            [ id   |-> table.bytes[o + 2], address |-> Le32(table, o + 4),
              base |-> Le32(table, o + 8) ]
      [] ArrayOf(table, o) = "source_overrides" ->
            [ bus |-> table.bytes[o + 2], source |-> table.bytes[o + 3],
              gsi |-> Le32(table, o + 4), flags |-> Le16(table, o + 8) ]
      [] OTHER ->
            [ x2apic_id |-> Le32(table, o + 4), flags |-> Le32(table, o + 8),
              uid       |-> Le32(table, o + 12) ]

\* A full array drops the entry.
Stored(topology, table, offset) ==
    LET array == ArrayOf(table, offset)
    IN  IF array # None /\ Len(topology[array]) < Capacity[array]
        THEN [topology EXCEPT ![array] = Append(@, Parsed(table, offset))]
        ELSE topology

Walking == madt # None /\ madt.outcome = None

parse_entry ==
    /\ Walking
    /\ IF madt.offset >= madt.table.length
       THEN madt' = [madt EXCEPT !.outcome = "Ok"]
       ELSE IF Truncated(madt.table, madt.offset)
       THEN madt' = [madt EXCEPT !.outcome = "TruncatedMadtEntry"]
       ELSE madt' = [madt EXCEPT !.topology = Stored(@, madt.table, madt.offset),
                                 !.offset = @ + EntryLength(madt.table, madt.offset)]
    /\ UNCHANGED firmware

AcpiInit == firmware \in Firmwares /\ madt = None
AcpiNext == discover \/ parse_entry
AcpiSpec == AcpiInit /\ [][AcpiNext]_acpi_vars

(***************************************************************************)
(* Properties.                                                             *)
(***************************************************************************)

\* Whatever its bytes, the loop of parse_madt stands inside the table or at its
\* end: no index and no slice it takes can panic.
MadtWalkInTable ==
    madt # None /\ madt.table # None => madt.offset \in 44 .. madt.table.length

\* No length byte can hold the loop up: discovery ends with a topology or an
\* error.
MadtWalkEnds == Walking ~> ~ Walking
===============================================================================
