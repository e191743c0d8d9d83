------------------------------ MODULE AcpiProofs ------------------------------
(***************************************************************************)
(* parse_madt, for tables of every length and content.                     *)
(***************************************************************************)
EXTENDS Acpi, MinProofs

\* The table that is walked has the form firmware gives its tables.
TableOk(table) ==
    /\ table # None /\ table.length \in Nat
    /\ \A a \in 44 .. table.length - 1 : table.bytes[a] \in 0 .. 255

\* Only a table with a whole header is walked, and its offset never leaves it.
\* What madt.table is has to be kept along, as its bytes move the offset.
AcpiInv ==
    /\ firmware \in Firmwares
    /\ madt # None =>
        /\ DOMAIN madt = {"table", "offset", "topology", "outcome"}
        /\ madt.outcome = None => madt.table # None
        /\ madt.table # None => TableOk(madt.table) /\ madt.offset \in 44 .. madt.table.length

\* discover hands parse_madt a table of the XSDT with a whole header.
LEMMA MadtIsListed ==
    ASSUME NEW f \in Firmwares, DiscoverError(f) = None
    PROVE  LET table == f.xsdt.tables[Min(LoopEnds(f))]
           IN  TableOk(table) /\ table.length >= 44
<1> DEFINE table == f.xsdt.tables[Min(LoopEnds(f))]
<1>1. MadtError(f) = None
  BY OutcomeAssumption DEF DiscoverError
<1>2. LoopEnds(f) # {} /\ ~ (table.length < 44)
  BY <1>1, OutcomeAssumption DEF MadtError, Outcomes
<1>3. EntryCount(f) \in Int
  <2>1. f.xsdt.length \in Nat
    BY FirmwareAssumption
  <2> QED BY <2>1 DEF EntryCount
<1>4. LoopEnds(f) \in SUBSET Int /\ LoopEnds(f) \subseteq 1 .. EntryCount(f)
  BY <1>3 DEF LoopEnds
<1>5. IsFiniteSet(LoopEnds(f))
  <2>1. IsFiniteSet(1 .. EntryCount(f))
    BY <1>3, FS_Interval
  <2> QED BY <1>4, <2>1, FS_Subset
<1>6. Min(LoopEnds(f)) \in 1 .. EntryCount(f)
  BY <1>2, <1>4, <1>5, MinFacts
<1>7. TableOk(table)
  <2>1. \A i \in 1 .. EntryCount(f) : TableOk(f.xsdt.tables[i])
    BY FirmwareAssumption DEF EntryCount, TableOk
  <2> QED BY <1>6, <2>1
<1>8. table.length >= 44
  <2> HIDE DEF table
  <2> QED BY <1>2, <1>7 DEF TableOk
<1> QED BY <1>7, <1>8

\* A round of the loop that does not return ends further on in the table.
LEMMA EntryFits ==
    ASSUME NEW table, TableOk(table), NEW offset \in 44 .. table.length,
           offset < table.length, ~ Truncated(table, offset)
    PROVE  /\ EntryLength(table, offset) \in 2 .. 255
           /\ offset + EntryLength(table, offset) \in 44 .. table.length
<1>1. table.length \in Nat /\ offset \in Nat /\ offset + 1 \in 44 .. table.length - 1
  BY DEF TableOk, Truncated
<1>2. EntryLength(table, offset) \in 0 .. 255
  BY <1>1 DEF TableOk, EntryLength
<1> QED BY <1>1, <1>2 DEF Truncated

LEMMA AcpiInvHolds == AcpiSpec => []AcpiInv
<1>1. AcpiInit => AcpiInv
  BY DEF AcpiInit, AcpiInv
<1>2. ASSUME AcpiInv, [AcpiNext]_acpi_vars PROVE AcpiInv'
  <2>1. CASE discover
    <3>1. firmware' = firmware /\ firmware \in Firmwares
      BY <1>2, <2>1 DEF discover, AcpiInv
    <3>2. CASE DiscoverError(firmware) # None
      <4>1. madt' = Walk(None, 0, NoTopology, DiscoverError(firmware))
        BY <2>1, <3>2 DEF discover
      <4>2. /\ DOMAIN madt' = {"table", "offset", "topology", "outcome"}
            /\ madt'.table = None /\ madt'.outcome # None
        BY <4>1, <3>2 DEF Walk
      <4> QED BY <3>1, <4>2 DEF AcpiInv
    <3>3. CASE DiscoverError(firmware) = None
      <4> DEFINE table == firmware.xsdt.tables[Min(LoopEnds(firmware))]
      <4>1. madt' = Walk(table, 44, NoTopology, None)
        BY <2>1, <3>3 DEF discover
      <4>2. TableOk(table) /\ table.length >= 44
        BY <3>1, <3>3, MadtIsListed
      <4>3. /\ DOMAIN madt' = {"table", "offset", "topology", "outcome"}
            /\ madt'.table = table /\ madt'.offset = 44
        BY <4>1 DEF Walk
      <4> HIDE DEF table
      <4>4. table # None /\ 44 \in 44 .. table.length
        BY <4>2 DEF TableOk
      <4> QED BY <3>1, <4>2, <4>3, <4>4 DEF AcpiInv
    <3> QED BY <3>2, <3>3
  <2>2. CASE parse_entry
    <3>1. firmware' = firmware /\ firmware \in Firmwares
      BY <1>2, <2>2 DEF parse_entry, AcpiInv
    <3>2. /\ madt # None /\ madt.table # None /\ TableOk(madt.table)
          /\ madt.offset \in 44 .. madt.table.length
          /\ DOMAIN madt = {"table", "offset", "topology", "outcome"}
      BY <1>2, <2>2 DEF parse_entry, Walking, AcpiInv
    <3>3. /\ DOMAIN madt' = {"table", "offset", "topology", "outcome"}
          /\ madt'.table = madt.table /\ madt'.offset \in 44 .. madt.table.length
      <4>1. CASE madt.offset >= madt.table.length \/ Truncated(madt.table, madt.offset)
        <5>1. \E outcome : madt' = [madt EXCEPT !.outcome = outcome]
          BY <2>2, <4>1 DEF parse_entry
        <5> QED BY <3>2, <5>1
      <4>2. CASE ~ (madt.offset >= madt.table.length) /\ ~ Truncated(madt.table, madt.offset)
        <5>1. madt' = [madt EXCEPT !.topology = Stored(@, madt.table, madt.offset),
                                   !.offset = @ + EntryLength(madt.table, madt.offset)]
          BY <2>2, <4>2 DEF parse_entry
        <5>2. madt.offset < madt.table.length
          BY <3>2, <4>2 DEF TableOk
        <5>3. madt.offset + EntryLength(madt.table, madt.offset) \in 44 .. madt.table.length
          BY <3>2, <4>2, <5>2, EntryFits
        <5> QED BY <3>2, <5>1, <5>3
      <4> QED BY <4>1, <4>2
    <3> QED BY <3>1, <3>2, <3>3 DEF AcpiInv
  <2>3. CASE UNCHANGED acpi_vars
    BY <1>2, <2>3 DEF acpi_vars, AcpiInv
  <2> QED BY <1>2, <2>1, <2>2, <2>3 DEF AcpiNext
<1> QED BY <1>1, <1>2, PTL DEF AcpiSpec

\* The walk of parse_madt never leaves the table it was given, whatever lengths
\* the entries claim to have.
THEOREM WalkStaysInTable == AcpiSpec => []MadtWalkInTable
<1>1. AcpiInv => MadtWalkInTable
  BY DEF AcpiInv, MadtWalkInTable
<1> QED BY <1>1, AcpiInvHolds, PTL

\* Each round of the loop either returns or brings the offset at least two bytes
\* forward, so that a table of n bytes takes no more than n / 2 rounds.
THEOREM WalkAdvances ==
    AcpiSpec => [][parse_entry /\ madt'.outcome = None => madt'.offset >= madt.offset + 2]_acpi_vars
<1>1. ASSUME AcpiInv, parse_entry, madt'.outcome = None
      PROVE  madt'.offset >= madt.offset + 2
  <2>1. /\ madt # None /\ madt.table # None /\ TableOk(madt.table)
        /\ madt.offset \in 44 .. madt.table.length
        /\ DOMAIN madt = {"table", "offset", "topology", "outcome"}
    BY <1>1 DEF parse_entry, Walking, AcpiInv
  <2>2. "Ok" # None /\ "TruncatedMadtEntry" # None
    BY OutcomeAssumption DEF Outcomes
  <2>3. /\ ~ (madt.offset >= madt.table.length) /\ ~ Truncated(madt.table, madt.offset)
        /\ madt' = [madt EXCEPT !.topology = Stored(@, madt.table, madt.offset),
                                !.offset = @ + EntryLength(madt.table, madt.offset)]
    BY <1>1, <2>1, <2>2 DEF parse_entry
  <2>4. madt.offset < madt.table.length
    BY <2>1, <2>3 DEF TableOk
  <2>5. EntryLength(madt.table, madt.offset) \in 2 .. 255
    BY <2>1, <2>3, <2>4, EntryFits
  <2> QED BY <2>1, <2>3, <2>5
<1> QED BY <1>1, AcpiInvHolds, PTL
===============================================================================
