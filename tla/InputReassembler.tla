--------------------------- MODULE InputReassembler ---------------------------
(***************************************************************************)
(* Assembly of the INPUT reports longer than one packet                    *)
(* (lib/USBHostUPS/src/InputReassembler.h).  A packet is a record with     *)
(* size |-> its length, expected |-> the length of the report it would     *)
(* start, from its first byte, and whatever else tells packets apart.      *)
(***************************************************************************)
EXTENDS Ticks, Sequences

CONSTANTS
    Mps,          \* wMaxPacketSize of the IN endpoint
    MaxReport,    \* MAX_REPORT
    MaxGap,       \* _maxGapMs
    GapCap        \* where the age of the assembly stops growing

ASSUME ReassemblerAssumption ==
    /\ Mps \in Nat \ {0} /\ MaxReport \in Nat \ {0}
    /\ {MaxGap, GapCap} \subseteq Nat /\ GapCap > MaxGap

VARIABLES
    assembly,     \* the packets in _buf, full ones all of them
    assemblyAge   \* ticks since _ts, the last of them

reassemblerVars == <<assembly, assemblyAge>>

ReassemblerReset == assembly' = <<>> /\ assemblyAge' = 0

\* Mutant: the packet after a gap still belongs to the report before.
ExpiredNever(age) == FALSE

\* The rest of the pending report never came.
Expired(age) == assembly # <<>> /\ assemblyAge - age > MaxGap

Joins(age) == assembly # <<>> /\ ~Expired(age)

\* Packet p, received age ticks ago, ends a report: the expected length is reached or
\* it is short; a packet that joins nothing is a report unless it starts a longer one.
ReportEnds(p, age) ==
    IF Joins(age)
    THEN \/ Mps * Len(assembly) + p.size >= Head(assembly).expected
         \/ p.size < Mps
    ELSE ~(p.size = Mps /\ p.expected > p.size /\ p.expected <= MaxReport)

\* The packets of the report that ends with p.
ReportOf(p, age) == IF Joins(age) THEN Append(assembly, p) ELSE <<p>>

\* feed()
Feed(p, age) ==
    IF ReportEnds(p, age)
    THEN assembly' = <<>> /\ assemblyAge' = 0
    ELSE assembly' = ReportOf(p, age) /\ assemblyAge' = age

ReassemblerElapse ==
    /\ assemblyAge' = IF assembly = <<>> THEN 0 ELSE Older(assemblyAge, GapCap)
    /\ UNCHANGED assembly

==============================================================================
