------------------------- MODULE SegmentTableProofs -------------------------
(***************************************************************************)
(* What a segment table does, seen as one long array: a segment that is    *)
(* installed shows nothing new, a write shows at one position.             *)
(***************************************************************************)
EXTENDS SegmentTable, TLAPS

Tables(V) == [Indices -> [0 .. SegmentSize - 1 -> V] \cup {Null}]
Array == [x \in Nat |-> At(x)]
Room == {x \in Nat : InTable(x) /\ Found(x)}

\* A segment, and a slot of it, are enough to know a position.
LEMMA Coordinates ==
  ASSUME SegmentSize \in Nat \ {0}
  PROVE  /\ \A x \in Nat : SegmentOf(x) \in Nat /\ OffsetOf(x) \in 0 .. SegmentSize - 1
         /\ \A x, y \in Nat :
              SegmentOf(x) = SegmentOf(y) /\ OffsetOf(x) = OffsetOf(y) => x = y
<1>1. \A x \in Nat : x \div SegmentSize \in Nat /\ x % SegmentSize \in 0 .. SegmentSize - 1
  OBVIOUS
<1>2. \A x \in Nat : x = SegmentSize * (x \div SegmentSize) + (x % SegmentSize)
  OBVIOUS
<1> QED
  BY <1>1, <1>2 DEF SegmentOf, OffsetOf

\* Where there is room there is a segment, with a slot for each offset.
LEMMA RoomSegments ==
  ASSUME SegmentSize \in Nat \ {0}, MaxSegments \in Nat,
         NEW V, table \in Tables(V), NEW x \in Room
  PROVE  /\ SegmentOf(x) \in Indices /\ OffsetOf(x) \in 0 .. SegmentSize - 1
         /\ table[SegmentOf(x)] \in [0 .. SegmentSize - 1 -> V]
<1>1. x \in Nat /\ InTable(x) /\ Found(x)
  BY DEF Room
<1>2. SegmentOf(x) \in Nat /\ OffsetOf(x) \in 0 .. SegmentSize - 1
  BY <1>1, Coordinates
<1>3. SegmentOf(x) \in Indices
  BY <1>1, <1>2 DEF InTable, Indices
<1> QED
  BY <1>1, <1>2, <1>3 DEF Found, Tables

\* The array holds values, and blanks where there is no segment.
LEMMA ArrayType ==
  ASSUME SegmentSize \in Nat \ {0}, MaxSegments \in Nat,
         NEW V, Blank \in V, table \in Tables(V)
  PROVE  /\ Array \in [Nat -> V]
         /\ \A x \in Nat \ Room : Array[x] = Blank
         /\ \A x \in Room : Read(x) = Array[x]
<1>1. \A x \in Room : Read(x) \in V
  BY RoomSegments DEF Read
<1> QED
  BY <1>1 DEF Array, Room, At

\* Installing a segment makes room, and changes nothing that can be seen.
LEMMA InstallArray ==
  ASSUME SegmentSize \in Nat \ {0}, MaxSegments \in Nat,
         NEW V, Blank \in V, table \in Tables(V), Null \notin [0 .. SegmentSize - 1 -> V],
         NEW pos \in Nat, InTable(pos), Install(pos)
  PROVE  /\ table' \in Tables(V)
         /\ Array' = Array
         /\ Room \cup {pos} \subseteq Room'
<1>1. NewSegment \in [0 .. SegmentSize - 1 -> V] /\ SegmentOf(pos) \in Indices
  BY Coordinates DEF NewSegment, InTable, Indices
<1>2. table' \in Tables(V) /\ table'[SegmentOf(pos)] # Null
  BY <1>1 DEF Install, Tables, Found
<1>3. \A i \in Indices : table[i] # Null => table'[i] = table[i]
  BY <1>1 DEF Install, Tables, Found
<1>4. \A i \in Indices : table[i] = Null => table'[i] \in {Null, NewSegment}
  BY <1>1 DEF Install, Tables, Found
<1>5. \A x \in Nat : InTable(x) => SegmentOf(x) \in Indices
  BY Coordinates DEF InTable, Indices
<1>6. Room \cup {pos} \subseteq Room'
  BY <1>2, <1>3, <1>5 DEF Room, Found, InTable
<1>7. \A x \in Nat : At(x)' = At(x)
  <2> SUFFICES ASSUME NEW x \in Nat, InTable(x) PROVE At(x)' = At(x)
    BY DEF At, InTable
  <2>1. CASE table[SegmentOf(x)] # Null
    BY <2>1, <1>3, <1>5 DEF At, Found, Read, InTable
  <2>2. CASE table[SegmentOf(x)] = Null
    <3>1. At(x) = Blank
      BY <2>2 DEF At, Found
    <3>2. NewSegment[OffsetOf(x)] = Blank
      BY Coordinates DEF NewSegment
    <3> QED
      BY <2>2, <3>1, <3>2, <1>4, <1>5 DEF At, Found, Read
  <2> QED
    BY <2>1, <2>2
<1>8. Array' = Array
  BY <1>7 DEF Array
<1> QED
  BY <1>2, <1>6, <1>8

\* A write to a slot that is there changes the array at its position.
LEMMA WriteArray ==
  ASSUME SegmentSize \in Nat \ {0}, MaxSegments \in Nat,
         NEW V, Blank \in V, table \in Tables(V), Null \notin [0 .. SegmentSize - 1 -> V],
         NEW pos \in Room, NEW v \in V, Write(pos, v)
  PROVE  /\ table' \in Tables(V)
         /\ Array' = [Array EXCEPT ![pos] = v]
         /\ Room' = Room
<1>1. SegmentOf(pos) \in Indices /\ table[SegmentOf(pos)] \in [0 .. SegmentSize - 1 -> V]
  BY RoomSegments
<1>2. /\ table'[SegmentOf(pos)] = [table[SegmentOf(pos)] EXCEPT ![OffsetOf(pos)] = v]
      /\ \A i \in Indices \ {SegmentOf(pos)} : table'[i] = table[i]
      /\ table' \in Tables(V)
  BY <1>1, Coordinates DEF Write, Tables
<1>3. table'[SegmentOf(pos)] \in [0 .. SegmentSize - 1 -> V]
  BY <1>1, <1>2
<1>4. \A x \in Nat : InTable(x) => SegmentOf(x) \in Indices
  BY Coordinates DEF InTable, Indices
<1>5. \A x \in Nat : InTable(x) => (Found(x)' <=> Found(x))
  BY <1>1, <1>2, <1>3, <1>4 DEF Found
<1>6. Room' = Room
  BY <1>5 DEF Room, InTable
<1>7. At(pos)' = v
  <2>1. InTable(pos) /\ Found(pos)'
    BY <1>5 DEF Room
  <2>2. table'[SegmentOf(pos)][OffsetOf(pos)] = v
    BY <1>1, <1>2, Coordinates DEF Room
  <2> QED
    BY <2>1, <2>2 DEF At, Read, InTable
<1>8. \A x \in Nat \ {pos} : At(x)' = At(x)
  <2> SUFFICES ASSUME NEW x \in Nat, x # pos, InTable(x), Found(x)
               PROVE  Read(x)' = Read(x)
    BY <1>5 DEF At, InTable
  <2>1. CASE SegmentOf(x) # SegmentOf(pos)
    BY <2>1, <1>2, <1>4 DEF Read
  <2>2. CASE SegmentOf(x) = SegmentOf(pos)
    <3>1. OffsetOf(x) # OffsetOf(pos) /\ OffsetOf(x) \in 0 .. SegmentSize - 1
      BY <2>2, Coordinates DEF Room
    <3> QED
      BY <2>2, <3>1, <1>1, <1>2 DEF Read
  <2> QED
    BY <2>1, <2>2
<1>9. Array' = [Array EXCEPT ![pos] = v]
  BY <1>7, <1>8 DEF Array, Room
<1> QED
  BY <1>2, <1>6, <1>9
=============================================================================
