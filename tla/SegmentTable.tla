---------------------------- MODULE SegmentTable ----------------------------
(***************************************************************************)
(* A table of fixed-size segments that are allocated when a position in    *)
(* them is first asked for, and never freed before the table is dropped.   *)
(* The StealQueue keeps its slots in one, SegmentedSlab its values. Threads *)
(* that miss the same segment each allocate one; a compare_exchange lets   *)
(* one of them install its own, and the others free theirs. A segment that *)
(* is not installed is known to its thread alone and blank, so it has no   *)
(* place in the state; one that is installed keeps its address.            *)
(***************************************************************************)
EXTENDS Integers

CONSTANTS
  SegmentSize,       \* 64 in the code
  MaxSegments,       \* 4096 in the code
  Blank,             \* what a slot of a new segment holds
  Null               \* no segment

VARIABLE table       \* table[i]: the slots of segment i, or Null

Indices == 0 .. MaxSegments - 1
NewSegment == [o \in 0 .. SegmentSize - 1 |-> Blank]

Init == table = [i \in Indices |-> Null]

SegmentOf(position) == position \div SegmentSize
OffsetOf(position) == position % SegmentSize
InTable(position) == SegmentOf(position) < MaxSegments

\* the load of the segment's pointer
Found(position) == table[SegmentOf(position)] # Null

\* mutant: a store instead of the compare_exchange
InstallBlindly(position) == table' = [table EXCEPT ![SegmentOf(position)] = NewSegment]
\* the compare_exchange; the loser goes on with the winner's segment
Install(position) ==
  table' = IF Found(position) THEN table
           ELSE [table EXCEPT ![SegmentOf(position)] = NewSegment]

Read(position) == table[SegmentOf(position)][OffsetOf(position)]
Write(position, value) ==
  table' = [table EXCEPT ![SegmentOf(position)][OffsetOf(position)] = value]

\* what the table holds at a position, for those that do not ask for the segment
At(position) == IF InTable(position) /\ Found(position) THEN Read(position) ELSE Blank
=============================================================================
