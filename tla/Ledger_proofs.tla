---------------------------- MODULE Ledger_proofs ----------------------------
(***************************************************************************)
(* Proofs about Ledger, for every number of appenders and readers, every    *)
(* length of a line and every combination of faults.                        *)
(***************************************************************************)
EXTENDS Ledger, FiniteSetTheorems, TLAPS

-----------------------------------------------------------------------------
(* The k-th element of a finite set of numbers.                              *)

Upto(T, i)  == {j \in T : j <= i}
Place(T, i) == Cardinality(Upto(T, i))

LEMMA PlaceType ==
    ASSUME NEW T, T \subseteq Nat, IsFiniteSet(T), NEW i \in Nat
    PROVE  /\ IsFiniteSet(Upto(T, i))
           /\ Cardinality(T) \in Nat
           /\ Place(T, i) \in 0..Cardinality(T)
           /\ i \in T => Place(T, i) \in 1..Cardinality(T)
<1>1. Upto(T, i) \subseteq T
  BY DEF Upto
<1>2. IsFiniteSet(Upto(T, i)) /\ Cardinality(Upto(T, i)) <= Cardinality(T)
  BY <1>1, FS_Subset
<1>3. Cardinality(T) \in Nat /\ Cardinality(Upto(T, i)) \in Nat
  BY <1>2, FS_CardinalityType
<1>4. ASSUME i \in T PROVE Cardinality(Upto(T, i)) # 0
  <2>1. i \in Upto(T, i)
    BY <1>4 DEF Upto
  <2> QED
    BY <1>2, <2>1, FS_EmptySet
<1> QED
  BY <1>2, <1>3, <1>4 DEF Place

LEMMA PlaceIncreases ==
    ASSUME NEW T, T \subseteq Nat, IsFiniteSet(T), NEW i \in T, NEW j \in T, i < j
    PROVE  Place(T, i) < Place(T, j)
<1>0. i \in Nat /\ j \in Nat /\ \A l \in T : l \in Nat
  OBVIOUS
<1>1. Upto(T, i) \subseteq Upto(T, j) /\ j \in Upto(T, j) /\ j \notin Upto(T, i)
  <2>1. \A l, n : l \in Upto(T, n) <=> l \in T /\ l <= n
    BY Zenon DEF Upto
  <2>2. \A l \in T : l <= i => l <= j
    BY <1>0
  <2>3. j <= j /\ ~(j <= i)
    BY <1>0
  <2> QED
    BY <2>1, <2>2, <2>3, Zenon
<1>2. IsFiniteSet(Upto(T, j)) /\ IsFiniteSet(Upto(T, i))
  BY <1>0, PlaceType
<1>3. /\ Cardinality(Upto(T, i)) <= Cardinality(Upto(T, j))
      /\ Cardinality(Upto(T, i)) # Cardinality(Upto(T, j))
  BY <1>1, <1>2, FS_Subset
<1> QED
  BY <1>2, <1>3, FS_CardinalityType DEF Place

LEMMA PlaceIsUnique ==
    ASSUME NEW T, T \subseteq Nat, IsFiniteSet(T), NEW i \in T, NEW j \in T,
           Place(T, i) = Place(T, j)
    PROVE  i = j
<1>0. i \in Nat /\ j \in Nat
  OBVIOUS
<1>1. Place(T, i) \in Nat /\ Place(T, j) \in Nat
  BY <1>0, PlaceType, FS_CardinalityType DEF Place
<1>2. ~(i < j)
  <2> SUFFICES ASSUME i < j PROVE FALSE
    OBVIOUS
  <2>1. Place(T, i) < Place(T, j)
    BY PlaceIncreases
  <2> QED
    BY <1>1, <2>1
<1>3. ~(j < i)
  <2> SUFFICES ASSUME j < i PROVE FALSE
    OBVIOUS
  <2>1. Place(T, j) < Place(T, i)
    BY PlaceIncreases
  <2> QED
    BY <1>1, <2>1
<1> QED
  BY <1>0, <1>2, <1>3

(* Every place is taken: if one were not, the elements would be too many for *)
(* the others.                                                               *)
LEMMA PlaceIsTaken ==
    ASSUME NEW T, T \subseteq Nat, IsFiniteSet(T), NEW k \in 1..Cardinality(T)
    PROVE  \E i \in T : Place(T, i) = k
<1> SUFFICES ASSUME \A i \in T : Place(T, i) # k PROVE FALSE
  OBVIOUS
<1> DEFINE Others == (1..Cardinality(T)) \ {k}
           f == [i \in T |-> Place(T, i)]
<1>1. Cardinality(T) \in Nat
  BY FS_CardinalityType
<1>2. IsFiniteSet(1..Cardinality(T)) /\ Cardinality(1..Cardinality(T)) = Cardinality(T)
  BY <1>1, FS_Interval
<1>3. IsFiniteSet(Others) /\ Cardinality(Others) = Cardinality(T) - 1
  BY <1>2, FS_RemoveElement
<1>4. f \in [T -> Others]
  BY PlaceType
<1> HIDE DEF Others, f
<1>5. Cardinality(Others) < Cardinality(T)
  BY <1>1, <1>3
<1>6. \E i, j \in T : i # j /\ f[i] = f[j]
  BY <1>3, <1>4, <1>5, FS_PigeonHole
<1> QED
  BY <1>6, PlaceIsUnique DEF f

(* EndOf(T, k) is the k-th element, and nothing lies between it and the one  *)
(* before it.                                                                *)
LEMMA EndOfIs ==
    ASSUME NEW T, T \subseteq Nat \ {0}, IsFiniteSet(T), NEW k \in 1..Cardinality(T)
    PROVE  /\ EndOf(T, k) \in T
           /\ Place(T, EndOf(T, k)) = k
           /\ \A i \in T : Place(T, i) = k => i = EndOf(T, k)
<1>1. \E i \in T : Place(T, i) = k
  BY PlaceIsTaken
<1>2. EndOf(T, k) = CHOOSE i \in T : Place(T, i) = k
  <2>1. k # 0
    BY FS_CardinalityType
  <2> QED
    BY <2>1, Zenon DEF EndOf, Place, Upto
<1> QED
  BY <1>1, <1>2, PlaceIsUnique

LEMMA EndsAreConsecutive ==
    ASSUME NEW T, T \subseteq Nat \ {0}, IsFiniteSet(T), NEW k \in 1..Cardinality(T)
    PROVE  /\ EndOf(T, k - 1) \in T \union {0}
           /\ EndOf(T, k - 1) < EndOf(T, k)
           /\ \A j \in T : ~(EndOf(T, k - 1) < j /\ j < EndOf(T, k))
<1>1. /\ Cardinality(T) \in Nat
      /\ EndOf(T, k) \in T /\ EndOf(T, k) \in Nat /\ Place(T, EndOf(T, k)) = k
  BY EndOfIs, FS_CardinalityType
<1>2. \A j \in T : j \in Nat \ {0} /\ Place(T, j) \in 1..Cardinality(T)
  BY PlaceType
<1>3. \A j \in T : j < EndOf(T, k) => Place(T, j) < k
  BY <1>1, PlaceIncreases
<1>4. CASE k = 1
  <2>1. EndOf(T, k - 1) = 0
    BY <1>4 DEF EndOf
  <2> QED
    BY <1>1, <1>2, <1>3, <1>4, <2>1
<1>5. CASE k # 1
  <2>1. k - 1 \in 1..Cardinality(T)
    BY <1>1, <1>5
  <2>2. /\ EndOf(T, k - 1) \in T /\ EndOf(T, k - 1) \in Nat
        /\ Place(T, EndOf(T, k - 1)) = k - 1
    BY <2>1, EndOfIs
  <2>3. \A j \in T : EndOf(T, k - 1) < j => k - 1 < Place(T, j)
    BY <2>2, PlaceIncreases
  <2>4. EndOf(T, k - 1) < EndOf(T, k)
    <3>1. EndOf(T, k) < EndOf(T, k - 1) => k < k - 1
      BY <1>1, <2>2, PlaceIncreases
    <3> QED
      BY <1>1, <2>2, <3>1
  <2> QED
    BY <1>1, <1>2, <1>3, <2>2, <2>3, <2>4
<1> QED
  BY <1>4, <1>5

-----------------------------------------------------------------------------
(* What a file made of whole lines and at most one fragment says.            *)

(* Every byte stands in a line of its record, at its place, and the line     *)
(* begins where another ends.                                                *)
Formed(bytes) ==
    \A i \in 1..Len(bytes) :
        /\ bytes[i].pos <= i
        /\ bytes[i].pos < i => bytes[i - bytes[i].pos].pos = LineBytes
        /\ \A k \in 0..(bytes[i].pos - 1) :
            bytes[i - k].record = bytes[i].record /\ bytes[i - k].pos = bytes[i].pos - k

LEMMA NewlinesType ==
    ASSUME NEW bytes \in Seq(Byte)
    PROVE  /\ Newlines(bytes) \subseteq Nat \ {0}
           /\ Newlines(bytes) \subseteq 1..Len(bytes)
           /\ IsFiniteSet(Newlines(bytes))
           /\ Cardinality(Newlines(bytes)) \in Nat
           /\ \A i : i \in Newlines(bytes) <=> i \in 1..Len(bytes) /\ bytes[i].pos = LineBytes
<1>1. DOMAIN bytes = 1..Len(bytes) /\ Len(bytes) \in Nat
  OBVIOUS
<1>2. \A i : i \in Newlines(bytes) <=> i \in 1..Len(bytes) /\ bytes[i].pos = LineBytes
  BY <1>1 DEF Newlines
<1>3. Newlines(bytes) \subseteq 1..Len(bytes) /\ Newlines(bytes) \subseteq Nat \ {0}
  BY <1>1, <1>2
<1>4. IsFiniteSet(1..Len(bytes))
  BY <1>1, FS_Interval
<1>5. IsFiniteSet(Newlines(bytes))
  BY <1>3, <1>4, FS_Subset
<1> QED
  BY <1>2, <1>3, <1>5, FS_CardinalityType

(* A byte of the file.                                                       *)
LEMMA ByteType ==
    ASSUME NEW bytes \in Seq(Byte), NEW i \in 1..Len(bytes)
    PROVE  /\ bytes[i] \in Byte
           /\ bytes[i].pos \in 1..LineBytes /\ bytes[i].pos \in Nat
           /\ bytes[i].record \in 1..MaxRecords
<1>1. bytes[i] \in Byte
  OBVIOUS
<1> QED
  BY <1>1, LineBytesAssumption DEF Byte

(* The k-th line is a whole line of one record.                              *)
LEMMA LinesAreWhole ==
    ASSUME NEW bytes \in Seq(Byte), Formed(bytes),
           NEW k \in 1..Cardinality(Newlines(bytes))
    PROVE  LET e == EndOf(Newlines(bytes), k)
           IN  /\ e \in Newlines(bytes)
               /\ EndOf(Newlines(bytes), k - 1) = e - LineBytes
               /\ e - LineBytes \in Nat
               /\ \A n \in 1..LineBytes :
                    /\ e - LineBytes + n \in 1..Len(bytes)
                    /\ bytes[e - LineBytes + n].pos = n
                    /\ bytes[e - LineBytes + n].record = bytes[e].record
<1> DEFINE N == Newlines(bytes)
           e == EndOf(N, k)
           b == EndOf(N, k - 1)
<1>1. /\ e \in N /\ b \in N \union {0} /\ b < e
      /\ \A j \in N : ~(b < j /\ j < e)
  BY NewlinesType, EndOfIs, EndsAreConsecutive
<1> HIDE DEF N, e, b
<1>2. /\ e \in 1..Len(bytes) /\ bytes[e].pos = LineBytes
      /\ b \in 0..Len(bytes) /\ (b # 0 => bytes[b].pos = LineBytes)
  BY <1>1, NewlinesType DEF N
<1>3. LineBytes \in Nat /\ LineBytes > 1 /\ e \in Nat /\ b \in Nat /\ Len(bytes) \in Nat
  BY <1>2, LineBytesAssumption
<1>4. /\ LineBytes <= e
      /\ LineBytes < e => bytes[e - LineBytes].pos = LineBytes
      /\ \A n \in 0..(LineBytes - 1) :
            bytes[e - n].record = bytes[e].record /\ bytes[e - n].pos = LineBytes - n
  BY <1>2 DEF Formed
<1>5. b <= e - LineBytes
  <2> SUFFICES ASSUME e - LineBytes < b PROVE FALSE
    BY <1>3
  <2>1. b # 0 /\ bytes[b].pos = LineBytes
    BY <1>2, <1>3, <1>4
  <2>2. e - b \in 0..(LineBytes - 1) /\ e - b # 0 /\ e - (e - b) = b
    BY <1>1, <1>3
  <2>3. bytes[b].pos = LineBytes - (e - b)
    BY <1>4, <2>2
  <2> QED
    BY <1>3, <2>1, <2>2, <2>3
<1>6. e - LineBytes <= b
  <2> SUFFICES ASSUME b < e - LineBytes PROVE FALSE
    BY <1>3
  <2>1. e - LineBytes \in 1..Len(bytes) /\ bytes[e - LineBytes].pos = LineBytes
    BY <1>2, <1>3, <1>4
  <2>2. e - LineBytes \in N
    BY <2>1, NewlinesType DEF N
  <2> QED
    BY <1>1, <1>3, <2>2
<1>7. ASSUME NEW n \in 1..LineBytes
      PROVE  /\ e - LineBytes + n \in 1..Len(bytes)
             /\ bytes[e - LineBytes + n].pos = n
             /\ bytes[e - LineBytes + n].record = bytes[e].record
  <2>1. LineBytes - n \in 0..(LineBytes - 1) /\ e - (LineBytes - n) = e - LineBytes + n
    BY <1>3
  <2>2. bytes[e - LineBytes + n].pos = LineBytes - (LineBytes - n)
    BY <1>4, <2>1
  <2>3. bytes[e - LineBytes + n].record = bytes[e].record
    BY <1>4, <2>1
  <2>4. e - LineBytes + n \in 1..Len(bytes)
    BY <1>2, <1>3, <1>4
  <2> QED
    BY <1>3, <2>2, <2>3, <2>4
<1> QED
  BY <1>1, <1>3, <1>4, <1>5, <1>6, <1>7 DEF N, e, b

(* What entries() makes of it: the records, in the order of their lines.     *)
Recorded(bytes, k) == bytes[EndOf(Newlines(bytes), k)].record

LEMMA EntriesAre ==
    ASSUME NEW bytes \in Seq(Byte), Formed(bytes)
    PROVE  /\ Readable(bytes)
           /\ Entries(bytes) = [k \in 1..Cardinality(Newlines(bytes)) |-> {Recorded(bytes, k)}]
           /\ \A k \in 1..Cardinality(Newlines(bytes)) : Recorded(bytes, k) \in 1..MaxRecords
<1> DEFINE N == Newlines(bytes)
           line(k) == SubSeq(bytes, EndOf(N, k - 1) + 1, EndOf(N, k))
<1>1. Lines(bytes) = [k \in 1..Cardinality(N) |-> line(k)]
  BY Zenon DEF Lines, Pieces
<1>2. ASSUME NEW k \in 1..Cardinality(N)
      PROVE  /\ Parses(line(k)) /\ Content(line(k)) = {Recorded(bytes, k)}
             /\ Recorded(bytes, k) \in 1..MaxRecords
  <2> DEFINE e == EndOf(N, k)
             l == line(k)
  <2>1. /\ e \in N /\ EndOf(N, k - 1) = e - LineBytes /\ e - LineBytes \in Nat
        /\ \A n \in 1..LineBytes :
            /\ e - LineBytes + n \in 1..Len(bytes)
            /\ bytes[e - LineBytes + n].pos = n
            /\ bytes[e - LineBytes + n].record = bytes[e].record
    BY LinesAreWhole, Zenon
  <2>2. e \in 1..Len(bytes)
    BY <2>1, NewlinesType
  <2>3. LineBytes \in Nat /\ LineBytes > 1 /\ Len(bytes) \in Nat
    BY LineBytesAssumption
  <2> HIDE DEF N, e
  <2>4. l = SubSeq(bytes, e - LineBytes + 1, e)
    BY <2>1 DEF e
  <2> HIDE DEF l
  <2>5. /\ Len(l) = LineBytes /\ DOMAIN l = 1..LineBytes
        /\ \A n \in 1..LineBytes : l[n] = bytes[e - LineBytes + n]
    BY <2>1, <2>2, <2>3, <2>4
  <2>6. Parses(l)
    BY <2>1, <2>5 DEF Parses
  <2>7. Content(l) = {bytes[e].record}
    <3>1. \A n \in DOMAIN l : l[n].record = bytes[e].record
      BY <2>1, <2>5
    <3>2. 1 \in DOMAIN l
      BY <2>3, <2>5
    <3> QED
      BY <3>1, <3>2 DEF Content
  <2>8. bytes[e].record \in 1..MaxRecords
    BY <2>2, ByteType
  <2> QED
    BY <2>6, <2>7, <2>8 DEF l, e, N, Recorded
<1> HIDE DEF line
<1>3. DOMAIN Lines(bytes) = 1..Cardinality(N)
      /\ \A k \in 1..Cardinality(N) : Lines(bytes)[k] = line(k)
  BY <1>1
<1>4. Readable(bytes)
  BY <1>2, <1>3 DEF Readable
<1>5. Entries(bytes) = [k \in 1..Cardinality(N) |-> {Recorded(bytes, k)}]
  BY <1>2, <1>3 DEF Entries
<1> QED
  BY <1>2, <1>4, <1>5

LEMMA EntriesType ==
    ASSUME NEW bytes \in Seq(Byte), Formed(bytes)
    PROVE  /\ Entries(bytes) \in Seq(SUBSET (1..MaxRecords))
           /\ Len(Entries(bytes)) = Cardinality(Newlines(bytes))
<1> DEFINE c == Cardinality(Newlines(bytes))
<1>1. c \in Nat
  BY NewlinesType
<1>2. \A k \in 1..c : {Recorded(bytes, k)} \in SUBSET (1..MaxRecords)
  BY EntriesAre
<1>3. Entries(bytes) = [k \in 1..c |-> {Recorded(bytes, k)}]
  BY EntriesAre
<1> HIDE DEF c
<1>4. Entries(bytes) \in [1..c -> SUBSET (1..MaxRecords)]
  BY <1>2, <1>3
<1> QED
  BY <1>1, <1>4 DEF c

-----------------------------------------------------------------------------
(* How cutting and growing the file changes what it says.                    *)

Whole(bytes) == Len(bytes) = 0 \/ bytes[Len(bytes)].pos = LineBytes

LEMMA Prefix ==
    ASSUME NEW bytes \in Seq(Byte), NEW n \in 0..Len(bytes)
    PROVE  /\ SubSeq(bytes, 1, n) \in Seq(Byte)
           /\ Len(SubSeq(bytes, 1, n)) = n
           /\ \A i \in 1..n : i \in 1..Len(bytes) /\ SubSeq(bytes, 1, n)[i] = bytes[i]
OBVIOUS

LEMMA PrefixOfPrefix ==
    ASSUME NEW bytes \in Seq(Byte), NEW n \in 0..Len(bytes), NEW k \in 0..n
    PROVE  SubSeq(SubSeq(bytes, 1, n), 1, k) = SubSeq(bytes, 1, k)
<1> DEFINE a == SubSeq(SubSeq(bytes, 1, n), 1, k)
           b == SubSeq(bytes, 1, k)
<1>1. k \in 0..Len(bytes) /\ k \in 0..Len(SubSeq(bytes, 1, n))
  BY Prefix
<1>2. a \in Seq(Byte) /\ b \in Seq(Byte) /\ Len(a) = k /\ Len(b) = k
  BY <1>1, Prefix
<1>3. \A i \in 1..k : a[i] = b[i]
  <2>1. \A i \in 1..k : i \in 1..n
    OBVIOUS
  <2> QED
    BY <1>1, <2>1, Prefix
<1> HIDE DEF a, b
<1>4. a = [i \in 1..k |-> a[i]] /\ b = [i \in 1..k |-> b[i]]
  BY <1>2
<1>5. a = b
  BY <1>3, <1>4
<1> QED
  BY <1>5 DEF a, b

LEMMA WholePrefix ==
    ASSUME NEW bytes \in Seq(Byte)
    PROVE  SubSeq(bytes, 1, Len(bytes)) = bytes
OBVIOUS

(* A prefix is formed as the whole is, and says the beginning of it.         *)
LEMMA PrefixSays ==
    ASSUME NEW bytes \in Seq(Byte), Formed(bytes), NEW n \in 0..Len(bytes)
    PROVE  LET first == SubSeq(bytes, 1, n)
           IN  /\ Formed(first)
               /\ Newlines(first) = Upto(Newlines(bytes), n)
               /\ Cardinality(Newlines(first)) \in 0..Cardinality(Newlines(bytes))
               /\ Len(Entries(first)) = Cardinality(Newlines(first))
               /\ Entries(first) = SubSeq(Entries(bytes), 1, Cardinality(Newlines(first)))
               /\ IsPrefix(Entries(first), Entries(bytes))
<1> DEFINE first == SubSeq(bytes, 1, n)
           N == Newlines(bytes)
           M == Newlines(first)
           c == Cardinality(M)
<1>1. /\ first \in Seq(Byte) /\ Len(first) = n /\ n \in Nat
      /\ \A i \in 1..n : i \in 1..Len(bytes) /\ first[i] = bytes[i]
  BY Prefix
<1> HIDE DEF first
<1>2. Formed(first)
  <2> SUFFICES ASSUME NEW i \in 1..n
               PROVE  /\ first[i].pos <= i
                      /\ first[i].pos < i => first[i - first[i].pos].pos = LineBytes
                      /\ \A k \in 0..(first[i].pos - 1) :
                           /\ first[i - k].record = first[i].record
                           /\ first[i - k].pos = first[i].pos - k
    BY <1>1 DEF Formed
  <2>1. first[i] = bytes[i] /\ i \in 1..Len(bytes)
    BY <1>1
  <2>2. bytes[i].pos \in Nat /\ bytes[i].pos # 0
    BY <2>1, ByteType, LineBytesAssumption
  <2>3. bytes[i].pos <= i
    BY <2>1 DEF Formed
  <2>4. ASSUME bytes[i].pos < i PROVE first[i - bytes[i].pos].pos = LineBytes
    <3>1. i - bytes[i].pos \in 1..n
      BY <1>1, <2>2, <2>4
    <3>2. bytes[i - bytes[i].pos].pos = LineBytes
      BY <2>1, <2>4 DEF Formed
    <3> QED
      BY <1>1, <3>1, <3>2
  <2>5. ASSUME NEW k \in 0..(bytes[i].pos - 1)
        PROVE  first[i - k].record = bytes[i].record /\ first[i - k].pos = bytes[i].pos - k
    <3>1. i - k \in 1..n
      BY <1>1, <2>2, <2>3
    <3>2. bytes[i - k].record = bytes[i].record /\ bytes[i - k].pos = bytes[i].pos - k
      BY <2>1 DEF Formed
    <3> QED
      BY <1>1, <3>1, <3>2
  <2> QED
    BY <2>1, <2>3, <2>4, <2>5
<1>3. /\ N \subseteq Nat \ {0} /\ IsFiniteSet(N) /\ Cardinality(N) \in Nat
      /\ M \subseteq Nat \ {0} /\ IsFiniteSet(M) /\ c \in Nat
  BY <1>1, NewlinesType
<1>4. M = Upto(N, n)
  <2>1. \A i : i \in M <=> i \in 1..n /\ first[i].pos = LineBytes
    BY <1>1, NewlinesType
  <2>2. \A i : i \in N <=> i \in 1..Len(bytes) /\ bytes[i].pos = LineBytes
    BY NewlinesType
  <2>3. \A i : i \in M <=> i \in N /\ i <= n
    BY <1>1, <2>1, <2>2
  <2> QED
    BY <2>3 DEF Upto
<1>5. c \in 0..Cardinality(N)
  BY <1>1, <1>3, <1>4, PlaceType DEF Place
<1> HIDE DEF N, M
<1>6. ASSUME NEW k \in 1..c
      PROVE  EndOf(M, k) = EndOf(N, k) /\ first[EndOf(M, k)] = bytes[EndOf(N, k)]
  <2> DEFINE e == EndOf(M, k)
  <2>1. e \in M /\ Place(M, e) = k
    BY <1>3, EndOfIs
  <2> HIDE DEF e
  <2>2. e \in N /\ e \in Nat /\ e <= n
    BY <1>3, <1>4, <2>1 DEF Upto
  <2>3. Upto(M, e) = Upto(N, e)
    <3>1. \A j \in N : j <= e => j <= n
      BY <1>1, <1>3, <2>2
    <3> QED
      BY <1>4, <3>1 DEF Upto
  <2>4. Place(N, e) = k
    BY <2>1, <2>3 DEF Place
  <2>5. k \in 1..Cardinality(N)
    BY <1>3, <1>5
  <2>6. e = EndOf(N, k)
    BY <1>3, <2>2, <2>4, <2>5, EndOfIs
  <2>7. e \in 1..n
    <3>1. e # 0
      BY <1>3, <2>1
    <3> QED
      BY <1>1, <2>2, <3>1
  <2> QED
    BY <1>1, <2>6, <2>7 DEF e
<1>7. /\ Entries(first) = [k \in 1..c |-> {Recorded(first, k)}]
      /\ Entries(bytes) = [k \in 1..Cardinality(N) |-> {Recorded(bytes, k)}]
  BY <1>1, <1>2, EntriesAre DEF M, N
<1>8. \A k \in 1..c : Recorded(first, k) = Recorded(bytes, k)
  BY <1>6 DEF Recorded, M, N
<1> DEFINE E == Entries(bytes)
           F == Entries(first)
<1>9. /\ E \in Seq(SUBSET (1..MaxRecords))
      /\ Len(E) = Cardinality(N) /\ Len(F) = c
      /\ \A k \in 1..c : F[k] = E[k]
  <2>3. E \in Seq(SUBSET (1..MaxRecords)) /\ Len(E) = Cardinality(N) /\ Len(F) = c
    BY <1>1, <1>2, EntriesType DEF M, N
  <2>4. \A k \in 1..c : k \in 1..Cardinality(N)
    BY <1>3, <1>5
  <2> QED
    BY <1>7, <1>8, <2>3, <2>4
<1>10. F = [k \in 1..c |-> E[k]]
  BY <1>7, <1>9
<1>11. F = SubSeq(E, 1, c)
  BY <1>3, <1>5, <1>9, <1>10
<1>12. SubSeq(F, 1, c) = F
  BY <1>3, <1>9, <1>10
<1>13. IsPrefix(F, E)
  BY <1>3, <1>5, <1>9, <1>11, <1>12 DEF IsPrefix
<1> QED
  BY <1>2, <1>4, <1>5, <1>9, <1>11, <1>13 DEF M, N, first

LEMMA CommittedIs ==
    ASSUME NEW bytes \in Seq(Byte)
    PROVE  /\ CommittedSize(bytes) \in 0..Len(bytes)
           /\ CommittedSize(bytes) # 0 => CommittedSize(bytes) \in Newlines(bytes)
           /\ \A i \in Newlines(bytes) : i <= CommittedSize(bytes)
<1> DEFINE N == Newlines(bytes)
           S == N \union {0}
<1>1. /\ N \subseteq Nat \ {0} /\ N \subseteq 1..Len(bytes) /\ IsFiniteSet(N)
      /\ Cardinality(N) \in Nat /\ Len(bytes) \in Nat
  BY NewlinesType
<1> HIDE DEF N
<1>2. \E m \in S : \A i \in S : m >= i
  <2>1. CASE N = {}
    BY <2>1
  <2>2. CASE N # {}
    <3> DEFINE c == Cardinality(N)
               e == EndOf(N, c)
    <3>1. c \in 1..c
      BY <1>1, <2>2, FS_EmptySet
    <3>2. e \in N /\ Cardinality(Upto(N, e)) = Cardinality(N)
      BY <1>1, <3>1, EndOfIs DEF Place
    <3>3. Upto(N, e) \subseteq N
      BY DEF Upto
    <3>4. Upto(N, e) = N
      BY <1>1, <3>2, <3>3, FS_Subset
    <3>5. \A i \in N : i <= e
      BY <3>4 DEF Upto
    <3> HIDE DEF e
    <3> QED
      BY <1>1, <3>2, <3>5
  <2> QED
    BY <2>1, <2>2
<1>3. Max(S) \in S /\ \A i \in S : Max(S) >= i
  BY <1>2, Zenon DEF Max
<1>4. CommittedSize(bytes) = Max(S)
  BY DEF CommittedSize, N
<1> HIDE DEF S
<1>5. /\ CommittedSize(bytes) \in S
      /\ \A i \in S : CommittedSize(bytes) >= i
  BY <1>3, <1>4
<1> QED
  BY <1>1, <1>5 DEF S, N

LEMMA MinOfTwo ==
    ASSUME NEW a \in Nat, NEW b \in Nat
    PROVE  Min({a, b}) = IF a <= b THEN a ELSE b
BY DEF Min

(* A line, or the beginning of one, at the end of whole lines.               *)
Piece(rec, n) == [k \in 1..n |-> [record |-> rec, pos |-> k]]

GrownTo(more, bytes, rec, n) ==
    /\ more \in Seq(Byte)
    /\ Len(more) = Len(bytes) + n
    /\ \A i \in 1..Len(bytes) : more[i] = bytes[i]
    /\ \A i \in (Len(bytes) + 1)..(Len(bytes) + n) :
         more[i].record = rec /\ more[i].pos = i - Len(bytes)
    /\ SubSeq(more, 1, Len(bytes)) = bytes

LEMMA Grown ==
    ASSUME NEW bytes \in Seq(Byte), NEW rec \in 1..MaxRecords, NEW n \in 0..LineBytes
    PROVE  GrownTo(bytes \o Piece(rec, n), bytes, rec, n)
<1> DEFINE new == Piece(rec, n)
           more == bytes \o new
<1>1. n \in Nat /\ LineBytes \in Nat /\ Len(bytes) \in Nat
  BY LineBytesAssumption
<1>2. \A k \in 1..n : [record |-> rec, pos |-> k] \in Byte
  BY <1>1 DEF Byte
<1>3. new \in [1..n -> Byte]
  BY <1>2 DEF Piece
<1>4. /\ new \in Seq(Byte) /\ Len(new) = n
      /\ \A k \in 1..n : new[k].record = rec /\ new[k].pos = k
  BY <1>1, <1>3 DEF Piece
<1> HIDE DEF new
<1>5. /\ more \in Seq(Byte) /\ Len(more) = Len(bytes) + n
      /\ \A i \in 1..Len(bytes) : more[i] = bytes[i]
      /\ \A i \in (Len(bytes) + 1)..(Len(bytes) + n) : more[i] = new[i - Len(bytes)]
  BY <1>1, <1>4
<1>6. \A i \in (Len(bytes) + 1)..(Len(bytes) + n) : i - Len(bytes) \in 1..n
  BY <1>1
<1>7. SubSeq(more, 1, Len(bytes)) = bytes
  BY <1>1, <1>4
<1>8. \A i \in (Len(bytes) + 1)..(Len(bytes) + n) :
        more[i].record = rec /\ more[i].pos = i - Len(bytes)
  BY <1>4, <1>5, <1>6
<1> HIDE DEF more
<1> QED
  BY <1>5, <1>7, <1>8 DEF more, new, GrownTo

LEMMA GrownFormed ==
    ASSUME NEW bytes \in Seq(Byte), Formed(bytes), Whole(bytes),
           NEW rec \in 1..MaxRecords, NEW n \in 0..LineBytes
    PROVE  Formed(bytes \o Piece(rec, n))
<1> DEFINE more == bytes \o Piece(rec, n)
           len == Len(bytes)
<1>1. /\ more \in Seq(Byte) /\ Len(more) = len + n
      /\ \A i \in 1..len : more[i] = bytes[i]
      /\ \A i \in (len + 1)..(len + n) : more[i].record = rec /\ more[i].pos = i - len
  <2>1. GrownTo(more, bytes, rec, n)
    BY Grown, Zenon
  <2> HIDE DEF more
  <2> QED
    BY <2>1 DEF GrownTo
<1>2. len \in Nat /\ n \in Nat
  BY LineBytesAssumption
<1>3. len # 0 => bytes[len].pos = LineBytes
  BY DEF Whole
<1> HIDE DEF more, len
<1> SUFFICES ASSUME NEW i \in 1..(len + n)
             PROVE  /\ more[i].pos <= i
                    /\ more[i].pos < i => more[i - more[i].pos].pos = LineBytes
                    /\ \A k \in 0..(more[i].pos - 1) :
                        /\ more[i - k].record = more[i].record
                        /\ more[i - k].pos = more[i].pos - k
  BY <1>1 DEF Formed, more
<1>4. CASE i \in 1..len
  <2>1. bytes[i].pos \in Nat /\ bytes[i].pos # 0
    BY <1>4, ByteType, LineBytesAssumption DEF len
  <2>2. bytes[i].pos <= i /\ (bytes[i].pos < i => bytes[i - bytes[i].pos].pos = LineBytes)
    BY <1>4 DEF Formed, len
  <2>3. bytes[i].pos < i => i - bytes[i].pos \in 1..len
    BY <1>2, <1>4, <2>1
  <2>4. ASSUME NEW k \in 0..(bytes[i].pos - 1)
        PROVE  more[i - k].record = bytes[i].record /\ more[i - k].pos = bytes[i].pos - k
    <3>1. i - k \in 1..len
      BY <1>2, <1>4, <2>1, <2>2
    <3>2. bytes[i - k].record = bytes[i].record /\ bytes[i - k].pos = bytes[i].pos - k
      BY <1>4 DEF Formed, len
    <3> QED
      BY <1>1, <3>1, <3>2
  <2> QED
    BY <1>1, <1>4, <2>2, <2>3, <2>4
<1>5. CASE i \in (len + 1)..(len + n)
  <2>1. more[i].record = rec /\ more[i].pos = i - len
    BY <1>1, <1>5
  <2>2. i - (i - len) = len /\ i - len <= i /\ (i - len < i => len # 0)
    BY <1>2, <1>5
  <2>3. len # 0 => more[len].pos = LineBytes
    <3>1. len # 0 => len \in 1..len
      BY <1>2
    <3> QED
      BY <1>1, <1>3, <3>1
  <2>4. ASSUME NEW k \in 0..(i - len - 1)
        PROVE  more[i - k].record = rec /\ more[i - k].pos = i - len - k
    <3>1. i - k \in (len + 1)..(len + n) /\ i - k - len = i - len - k
      BY <1>2, <1>5
    <3> QED
      BY <1>1, <3>1
  <2> QED
    BY <2>1, <2>2, <2>3, <2>4
<1> QED
  BY <1>2, <1>4, <1>5

(* Only the newline commits.                                                 *)
LEMMA GrownSays ==
    ASSUME NEW bytes \in Seq(Byte), Formed(bytes), Whole(bytes),
           NEW rec \in 1..MaxRecords, NEW n \in 0..LineBytes
    PROVE  LET more == bytes \o Piece(rec, n)
           IN  /\ n # LineBytes => Entries(more) = Entries(bytes)
               /\ n = LineBytes => Entries(more) = Append(Entries(bytes), {rec})
<1> DEFINE more == bytes \o Piece(rec, n)
           len == Len(bytes)
           N == Newlines(bytes)
           M == Newlines(more)
<1>1. /\ more \in Seq(Byte) /\ Len(more) = len + n
      /\ \A i \in 1..len : more[i] = bytes[i]
      /\ \A i \in (len + 1)..(len + n) : more[i].record = rec /\ more[i].pos = i - len
      /\ SubSeq(more, 1, len) = bytes
  <2>1. GrownTo(more, bytes, rec, n)
    BY Grown, Zenon
  <2> HIDE DEF more
  <2> QED
    BY <2>1 DEF GrownTo
<1>2. Formed(more)
  BY GrownFormed
<1>3. /\ len \in Nat /\ n \in Nat /\ LineBytes \in Nat \ {0, 1} /\ len \in 0..Len(more)
  BY <1>1, LineBytesAssumption
<1> HIDE DEF more, len
<1>4. /\ Entries(bytes) = SubSeq(Entries(more), 1, Cardinality(N))
      /\ N = Upto(M, len) /\ Cardinality(N) \in 0..Cardinality(M)
  BY <1>1, <1>2, <1>3, PrefixSays, Zenon DEF N, M
<1>5. /\ IsFiniteSet(N) /\ Cardinality(N) \in Nat /\ N \subseteq 1..len
      /\ IsFiniteSet(M) /\ Cardinality(M) \in Nat /\ M \subseteq Nat \ {0}
      /\ \A i : i \in M <=> i \in 1..(len + n) /\ more[i].pos = LineBytes
  BY <1>1, NewlinesType DEF N, M, len
<1>6. \A i \in M : i \in N \/ (n = LineBytes /\ i = len + LineBytes)
  <2> SUFFICES ASSUME NEW i \in M, i \notin N PROVE n = LineBytes /\ i = len + LineBytes
    OBVIOUS
  <2>1. i \in (len + 1)..(len + n)
    BY <1>3, <1>4, <1>5 DEF Upto
  <2>2. i - len = LineBytes
    BY <1>1, <1>5, <2>1
  <2> QED
    BY <1>3, <2>1, <2>2
<1>7. N \subseteq M
  BY <1>4 DEF Upto
<1>8. /\ Entries(more) = [k \in 1..Cardinality(M) |-> {Recorded(more, k)}]
      /\ \A k \in 1..Cardinality(M) : Recorded(more, k) \in 1..MaxRecords
  BY <1>1, <1>2, EntriesAre DEF M
<1>9. Entries(more) \in Seq(SUBSET (1..MaxRecords)) /\ Len(Entries(more)) = Cardinality(M)
  BY <1>1, <1>2, EntriesType DEF M
<1>10. CASE n # LineBytes
  <2>1. M = N
    BY <1>6, <1>7, <1>10
  <2>2. Entries(bytes) = Entries(more)
    BY <1>4, <1>9, <2>1
  <2> QED
    BY <1>10, <2>2 DEF more
<1>11. CASE n = LineBytes
  <2> DEFINE e == len + LineBytes
  <2>1. e \in (len + 1)..(len + n) /\ e - len = LineBytes /\ e \in 1..(len + n)
    BY <1>3, <1>11
  <2>2. e \in M /\ more[e].record = rec
    BY <1>1, <1>5, <2>1
  <2>3. e \notin N
    BY <1>3, <1>5
  <2>4. M = N \union {e}
    BY <1>6, <1>7, <2>2
  <2>5. Cardinality(M) = Cardinality(N) + 1
    BY <1>5, <2>3, <2>4, FS_AddElement
  <2>6. Upto(M, e) = M
    BY <1>3, <1>5, <2>4 DEF Upto
  <2>7. Cardinality(M) \in 1..Cardinality(M)
    BY <1>5, <2>5
  <2>8. e = EndOf(M, Cardinality(M))
    BY <1>5, <2>2, <2>6, <2>7, EndOfIs DEF Place
  <2>9. Entries(more)[Cardinality(M)] = {rec}
    BY <1>8, <2>2, <2>7, <2>8 DEF Recorded, M
  <2> HIDE DEF M, N, e
  <2>10. Entries(more) = Append(SubSeq(Entries(more), 1, Cardinality(N)),
                                Entries(more)[Cardinality(M)])
    <3> DEFINE E == Entries(more)
               c == Cardinality(N)
    <3>1. E \in Seq(SUBSET (1..MaxRecords)) /\ Len(E) = c + 1 /\ c \in Nat
      BY <1>5, <1>9, <2>5
    <3> HIDE DEF E, c
    <3>2. E = Append(SubSeq(E, 1, c), E[c + 1])
      BY <3>1
    <3> QED
      BY <2>5, <3>2 DEF E, c
  <2> QED
    BY <1>4, <1>11, <2>9, <2>10 DEF more, N
<1> QED
  BY <1>10, <1>11

-----------------------------------------------------------------------------
(* The invariant.                                                            *)

Held    == {"locked", "scanned", "repaired", "written", "synced"}
Pending == {"waiting", "locked", "scanned", "repaired"}

(* The lock is held exactly from flock to close.                             *)
Exclusion == \A p \in Appenders : pc[p] \in Held <=> lock = p

(* What the holder of the lock knows of the file.                            *)
HolderKnows(p) ==
    /\ pc[p] = "scanned" => cut[p] = CommittedSize(file)
    /\ pc[p] = "repaired" => Whole(file)
    /\ pc[p] \in {"written", "synced"} /\ written[p] = LineBytes =>
        /\ Len(file) # 0
        /\ file[Len(file)].pos = LineBytes
        /\ file[Len(file)].record = record[p]
    /\ pc[p] = "synced" => durable = Len(file)

(* A record that is about to be written is nobody else's, and nowhere in the *)
(* file.                                                                     *)
Fresh(p) ==
    pc[p] \in Pending =>
        /\ record[p] \in 1..begun
        /\ \A i \in 1..Len(file) : file[i].record # record[p]
        /\ \A q \in Appenders \ {p} : pc[q] \in Pending => record[q] # record[p]

(* All bytes of a record are in one line.                                    *)
RecordedOnce ==
    /\ \A i \in 1..Len(file) : file[i].record <= begun
    /\ \A i, j \in 1..Len(file) :
        file[i].record = file[j].record => i - file[i].pos = j - file[j].pos

Acknowledged ==
    \A a \in acknowledged :
        \E i \in 1..durable : file[i].record = a /\ file[i].pos = LineBytes

(* What an undisturbed reader has is a prefix of the file, and goes on from  *)
(* the one it found.                                                         *)
ReaderHas(r) ==
    readPc[r] # "idle" /\ ~disturbed[r] =>
        /\ Len(buffer[r]) \in 0..Len(file)
        /\ buffer[r] = SubSeq(file, 1, Len(buffer[r]))
        /\ \E n \in 0..Len(buffer[r]) : before[r] = Entries(SubSeq(file, 1, n))

LogInv ==
    /\ TypeOK
    /\ Exclusion
    /\ Formed(file)
    /\ RecordedOnce
    /\ \A p \in Appenders : HolderKnows(p) /\ Fresh(p)
    /\ Acknowledged
    /\ \A r \in Readers : ReaderHas(r)

LEMMA InitLogInv == Init => LogInv
<1> SUFFICES ASSUME Init PROVE LogInv
  OBVIOUS
<1>1. file = <<>> /\ file \in Seq(Byte) /\ Len(file) = 0
  BY DEF Init
<1>2. TypeOK
  BY <1>1, MaxRecordsAssumption, LineBytesAssumption DEF Init, TypeOK, AppendPcs, ReadPcs
<1>3. Exclusion
  BY NoOneAssumption DEF Init, Exclusion, Held
<1>4. Formed(file) /\ RecordedOnce
  BY <1>1 DEF Formed, RecordedOnce
<1>5. \A p \in Appenders : HolderKnows(p) /\ Fresh(p)
  BY DEF Init, HolderKnows, Fresh, Pending
<1>6. Acknowledged
  BY DEF Init, Acknowledged
<1>7. \A r \in Readers : ReaderHas(r)
  BY DEF Init, ReaderHas
<1> QED
  BY <1>2, <1>3, <1>4, <1>5, <1>6, <1>7 DEF LogInv

(* What an appender needs to know of itself.                                 *)
LEMMA AppenderType ==
    ASSUME TypeOK, NEW p \in Appenders
    PROVE  /\ file \in Seq(Byte) /\ Len(file) \in Nat
           /\ durable \in 0..Len(file) /\ durable \in Nat
           /\ record[p] \in 0..MaxRecords /\ cut[p] \in Nat /\ written[p] \in 0..LineBytes
           /\ begun \in 0..MaxRecords /\ begun \in Nat /\ MaxRecords \in Nat
           /\ LineBytes \in Nat /\ LineBytes > 1
BY LineBytesAssumption, MaxRecordsAssumption DEF TypeOK

(* Repair and power loss cut the file; a write makes it grow.                *)
Cut(n) == n \in 0..Len(file) /\ file' = SubSeq(file, 1, n)

LEMMA RepairCuts ==
    ASSUME TypeOK, NEW p \in Appenders, HolderKnows(p), Repair(p)
    PROVE  /\ Cut(cut[p])
           /\ durable' = IF durable <= cut[p] THEN durable ELSE cut[p]
           /\ cut[p] # 0 => cut[p] \in Newlines(file)
           /\ \A i \in Newlines(file) : i <= cut[p]
<1>1. cut[p] = CommittedSize(file)
  BY DEF Repair, At, HolderKnows
<1>2. durable \in Nat /\ cut[p] \in Nat /\ file \in Seq(Byte)
  BY AppenderType
<1>3. durable' = IF durable <= cut[p] THEN durable ELSE cut[p]
  BY <1>2, MinOfTwo DEF Repair
<1> QED
  BY <1>1, <1>2, <1>3, CommittedIs DEF Cut, Repair

LEMMA PowerLossCuts ==
    ASSUME TypeOK, PowerLoss
    PROVE  \E n \in durable..Len(file) : Cut(n) /\ durable' = n
BY DEF TypeOK, PowerLoss, Cut

LEMMA WriteGrows ==
    ASSUME TypeOK, NEW p \in Appenders, HolderKnows(p), Fresh(p), Write(p)
    PROVE  \E n \in 0..LineBytes :
             /\ file' = file \o Piece(record[p], n)
             /\ GrownTo(file', file, record[p], n)
             /\ written' = [written EXCEPT ![p] = n]
             /\ Whole(file) /\ record[p] \in 1..MaxRecords /\ record[p] \in 1..begun
             /\ \A i \in 1..Len(file) : file[i].record # record[p]
<1>1. pc[p] = "repaired"
  BY DEF Write, At
<1>2. Whole(file) /\ record[p] \in 1..begun /\ \A i \in 1..Len(file) : file[i].record # record[p]
  BY <1>1 DEF HolderKnows, Fresh, Pending
<1>3. record[p] \in 1..MaxRecords
  BY <1>2, AppenderType
<1>4. PICK n \in IF "short" \in Faults THEN 0..LineBytes ELSE {LineBytes} :
        /\ file' = file \o Piece(record[p], n)
        /\ written' = [written EXCEPT ![p] = n]
  BY DEF Write, Piece
<1>5. n \in 0..LineBytes
  BY AppenderType
<1>6. GrownTo(file \o Piece(record[p], n), file, record[p], n)
  BY <1>3, <1>5, Grown, AppenderType
<1> QED
  BY <1>2, <1>3, <1>4, <1>5, <1>6

(* All steps that leave the file alone.                                      *)
LEMMA FileSteps ==
    ASSUME [Next]_vars
    PROVE  \/ \E p \in Appenders : Repair(p) \/ Write(p)
           \/ PowerLoss
           \/ UNCHANGED file
BY DEF Next, AppendStep, Begin, Flock, Scan, Fsync, Return, Crash, ReadStep, StartReading,
       ReadMore, StopReading, vars

LEMMA CutTypes ==
    ASSUME file \in Seq(Byte), NEW n, Cut(n)
    PROVE  /\ file' \in Seq(Byte) /\ Len(file') = n /\ n \in Nat
           /\ \A i \in 1..n : i \in 1..Len(file) /\ file'[i] = file[i]
BY Prefix DEF Cut

LEMMA TypeStep ==
    ASSUME LogInv, [Next]_vars
    PROVE  TypeOK'
<1> USE DEF LogInv
<1>1. ASSUME NEW p \in Appenders, Begin(p) PROVE TypeOK'
  <2>1. begun + 1 \in 0..MaxRecords
    BY <1>1, AppenderType DEF Begin
  <2> QED
    BY <1>1, <2>1 DEF Begin, At, TypeOK, AppendPcs, readVars
<1>2. ASSUME NEW p \in Appenders, Flock(p) PROVE TypeOK'
  BY <1>2 DEF Flock, At, TypeOK, AppendPcs, readVars
<1>3. ASSUME NEW p \in Appenders, Scan(p) PROVE TypeOK'
  <2>1. CommittedSize(file) \in Nat
    BY CommittedIs DEF TypeOK
  <2> QED
    BY <1>3, <2>1 DEF Scan, At, TypeOK, AppendPcs, readVars
<1>4. ASSUME NEW p \in Appenders, Repair(p) PROVE TypeOK'
  <2>1. /\ Cut(cut[p])
        /\ durable' = IF durable <= cut[p] THEN durable ELSE cut[p]
    BY <1>4, RepairCuts
  <2>2. file' \in Seq(Byte) /\ Len(file') = cut[p] /\ cut[p] \in Nat
    BY <2>1, AppenderType, CutTypes
  <2>3. durable' \in 0..Len(file')
    BY <2>1, <2>2, AppenderType
  <2>4. disturbed' \in [Readers -> BOOLEAN]
    BY <1>4, Zenon DEF Repair, TypeOK
  <2> QED
    BY <1>4, <2>2, <2>3, <2>4 DEF Repair, At, TypeOK, AppendPcs, readVars
<1>5. ASSUME NEW p \in Appenders, Write(p) PROVE TypeOK'
  <2>1. PICK n \in 0..LineBytes :
          /\ GrownTo(file', file, record[p], n) /\ record[p] \in 1..MaxRecords
          /\ written' = [written EXCEPT ![p] = n]
    BY <1>5, WriteGrows
  <2>2. file' \in Seq(Byte) /\ Len(file') = Len(file) + n
    BY <2>1 DEF GrownTo
  <2>3. durable' \in 0..Len(file')
    BY <1>5, <2>2, AppenderType DEF Write
  <2> QED
    BY <1>5, <2>1, <2>2, <2>3 DEF Write, At, TypeOK, AppendPcs, readVars
<1>6. ASSUME NEW p \in Appenders, Fsync(p) PROVE TypeOK'
  BY <1>6 DEF Fsync, At, TypeOK, AppendPcs, readVars
<1>7. ASSUME NEW p \in Appenders, Return(p) PROVE TypeOK'
  <2>1. acknowledged' \subseteq 1..MaxRecords
    <3>1. CASE written[p] = LineBytes
      <4>1. Len(file) # 0 /\ file[Len(file)].record = record[p]
        BY <1>7, <3>1 DEF Return, At, HolderKnows
      <4>2. Len(file) \in 1..Len(file) /\ file \in Seq(Byte)
        BY <4>1, AppenderType
      <4>3. record[p] \in 1..MaxRecords
        BY <4>1, <4>2, ByteType
      <4> QED
        BY <1>7, <3>1, <4>3 DEF Return, TypeOK
    <3>2. CASE written[p] # LineBytes
      BY <1>7, <3>2 DEF Return, TypeOK
    <3> QED
      BY <3>1, <3>2
  <2> QED
    BY <1>7, <2>1 DEF Return, At, TypeOK, AppendPcs, readVars
<1>8. ASSUME NEW p \in Appenders, Crash(p) PROVE TypeOK'
  BY <1>8 DEF Crash, TypeOK, AppendPcs, readVars
<1>9. ASSUME NEW r \in Readers, ReadStep(r) PROVE TypeOK'
  <2>1. /\ file \in Seq(Byte) /\ buffer[r] \in Seq(Byte)
        /\ buffer \in [Readers -> Seq(Byte)]
        /\ before \in [Readers -> Seq(SUBSET (1..MaxRecords))]
    BY DEF TypeOK
  <2>2. CASE StartReading(r)
    <3>1. buffer' \in [Readers -> Seq(Byte)]
      BY <2>1, <2>2 DEF StartReading
    <3>2. Entries(file) \in Seq(SUBSET (1..MaxRecords))
      BY <2>1, EntriesType
    <3>3. before' \in [Readers -> Seq(SUBSET (1..MaxRecords))]
      BY <2>1, <2>2, <3>2 DEF StartReading
    <3>4. disturbed' \in [Readers -> BOOLEAN]
      BY <2>2, Zenon DEF StartReading, TypeOK
    <3> QED
      BY <2>2, <3>1, <3>3, <3>4 DEF StartReading, TypeOK, ReadPcs, appendVars
  <2>3. CASE ReadMore(r)
    <3>1. Unread(r) \in Seq(Byte)
      BY <2>1 DEF Unread
    <3>2. buffer[r] \o Unread(r) \in Seq(Byte)
      BY <2>1, <3>1
    <3>3. buffer' \in [Readers -> Seq(Byte)]
      BY <2>1, <2>3, <3>2 DEF ReadMore
    <3> QED
      BY <2>3, <3>3 DEF ReadMore, TypeOK, ReadPcs, appendVars
  <2>4. CASE StopReading(r)
    BY <2>4 DEF StopReading, TypeOK, ReadPcs, appendVars
  <2> QED
    BY <1>9, <2>2, <2>3, <2>4 DEF ReadStep
<1>10. CASE PowerLoss
  <2>1. PICK n \in durable..Len(file) : Cut(n) /\ durable' = n
    BY <1>10, PowerLossCuts
  <2>2. file' \in Seq(Byte) /\ Len(file') = n /\ n \in Nat
    BY <2>1, CutTypes DEF TypeOK
  <2>3. durable' \in 0..Len(file')
    BY <2>1, <2>2
  <2>4. buffer' \in [Readers -> Seq(Byte)]
    BY <1>10 DEF PowerLoss
  <2> QED
    BY <1>10, <2>2, <2>3, <2>4 DEF PowerLoss, TypeOK, AppendPcs, ReadPcs
<1>11. CASE UNCHANGED vars
  BY <1>11 DEF vars, appendVars, readVars, TypeOK
<1> QED
  BY <1>1, <1>2, <1>3, <1>4, <1>5, <1>6, <1>7, <1>8, <1>9, <1>10, <1>11 DEF Next, AppendStep

LEMMA ExclusionStep ==
    ASSUME TypeOK, Exclusion, [Next]_vars
    PROVE  Exclusion'
<1> USE DEF Exclusion, Held
<1>0. /\ pc \in [Appenders -> AppendPcs] /\ lock \in Appenders \union {NoOne}
      /\ \A q \in Appenders : q # NoOne
  BY NoOneAssumption DEF TypeOK
<1>1. ASSUME NEW p \in Appenders, Begin(p) PROVE Exclusion'
  BY <1>0, <1>1 DEF Begin, At
<1>2. ASSUME NEW p \in Appenders, Flock(p) PROVE Exclusion'
  BY <1>0, <1>2 DEF Flock, At
<1>3. ASSUME NEW p \in Appenders, Scan(p) \/ Repair(p) \/ Write(p) \/ Fsync(p)
      PROVE  Exclusion'
  <2>1. /\ lock' = lock
        /\ \E to \in Held : pc' = [pc EXCEPT ![p] = to] /\ pc[p] \in Held
    BY <1>3 DEF Scan, Repair, Write, Fsync, At
  <2> QED
    BY <1>0, <2>1
<1>4. ASSUME NEW p \in Appenders, Return(p) PROVE Exclusion'
  BY <1>0, <1>4 DEF Return, At
<1>5. ASSUME NEW p \in Appenders, Crash(p) PROVE Exclusion'
  BY <1>0, <1>5 DEF Crash
<1>6. ASSUME NEW r \in Readers, ReadStep(r) PROVE Exclusion'
  BY <1>6 DEF ReadStep, StartReading, ReadMore, StopReading, appendVars
<1>7. CASE PowerLoss
  BY <1>0, <1>7 DEF PowerLoss
<1>8. CASE UNCHANGED vars
  BY <1>8 DEF vars, appendVars
<1> QED
  BY <1>1, <1>2, <1>3, <1>4, <1>5, <1>6, <1>7, <1>8 DEF Next, AppendStep

(* The number of appends begun never falls.                                  *)
LEMMA BegunGrows ==
    ASSUME TypeOK, [Next]_vars
    PROVE  begun' \in Nat /\ begun \in Nat /\ begun <= begun'
<1>1. begun \in Nat
  BY DEF TypeOK
<1>2. begun' = begun \/ begun' = begun + 1
  BY DEF Next, AppendStep, Begin, Flock, Scan, Repair, Write, Fsync, Return, Crash, PowerLoss,
         ReadStep, StartReading, ReadMore, StopReading, vars, appendVars
<1> QED
  BY <1>1, <1>2

LEMMA FileStep ==
    ASSUME LogInv, [Next]_vars
    PROVE  Formed(file)' /\ RecordedOnce'
<1> USE DEF LogInv
<1>1. file \in Seq(Byte) /\ Len(file) \in Nat /\ begun \in Nat /\ begun' \in Nat /\ begun <= begun'
  BY BegunGrows DEF TypeOK
<1>2. \A i \in 1..Len(file) : file[i].pos \in Nat /\ file[i].record \in Nat
                              /\ 1 <= file[i].record /\ 1 <= file[i].pos
  BY <1>1, ByteType
<1>3. ASSUME NEW n, Cut(n) PROVE Formed(file)' /\ RecordedOnce'
  <2>1. Formed(file')
    BY <1>1, <1>3, PrefixSays DEF Cut
  <2>2. Len(file') = n /\ \A i \in 1..n : i \in 1..Len(file) /\ file'[i] = file[i]
    BY <1>1, <1>3, CutTypes
  <2>3. \A i \in 1..Len(file') : file'[i].record <= begun'
    BY <1>1, <1>2, <2>2 DEF RecordedOnce
  <2>4. \A i, j \in 1..Len(file') :
          file'[i].record = file'[j].record => i - file'[i].pos = j - file'[j].pos
    BY <2>2 DEF RecordedOnce
  <2> QED
    BY <2>1, <2>3, <2>4 DEF Formed, RecordedOnce
<1>4. ASSUME NEW p \in Appenders, Write(p) PROVE Formed(file)' /\ RecordedOnce'
  <2>1. PICK n \in 0..LineBytes :
          /\ file' = file \o Piece(record[p], n) /\ GrownTo(file', file, record[p], n)
          /\ Whole(file) /\ record[p] \in 1..MaxRecords /\ record[p] \in 1..begun
          /\ \A i \in 1..Len(file) : file[i].record # record[p]
    BY <1>4, WriteGrows
  <2>2. Formed(file')
    BY <1>1, <2>1, GrownFormed
  <2>3. /\ Len(file') = Len(file) + n
        /\ \A i \in 1..Len(file) : file'[i] = file[i]
        /\ \A i \in (Len(file) + 1)..(Len(file) + n) :
            file'[i].record = record[p] /\ file'[i].pos = i - Len(file)
    BY <2>1 DEF GrownTo
  <2>4. n \in Nat
    BY LineBytesAssumption
  <2>5. \A i \in 1..Len(file') : i \in 1..Len(file) \/ i \in (Len(file) + 1)..(Len(file) + n)
    BY <1>1, <2>3, <2>4
  <2>6. ASSUME NEW i \in 1..Len(file') PROVE file'[i].record <= begun'
    <3>1. CASE i \in 1..Len(file)
      BY <1>1, <1>2, <2>3, <3>1 DEF RecordedOnce
    <3>2. CASE i \in (Len(file) + 1)..(Len(file) + n)
      BY <1>1, <2>1, <2>3, <3>2
    <3> QED
      BY <2>5, <3>1, <3>2
  <2>7. ASSUME NEW i \in 1..Len(file'), NEW j \in 1..Len(file'),
               file'[i].record = file'[j].record
        PROVE  i - file'[i].pos = j - file'[j].pos
    <3>1. CASE i \in 1..Len(file) /\ j \in 1..Len(file)
      BY <2>3, <2>7, <3>1 DEF RecordedOnce
    <3>2. CASE /\ i \in (Len(file) + 1)..(Len(file) + n)
               /\ j \in (Len(file) + 1)..(Len(file) + n)
      <4>1. file'[i].pos = i - Len(file) /\ file'[j].pos = j - Len(file)
        BY <2>3, <3>2
      <4>2. i - (i - Len(file)) = Len(file) /\ j - (j - Len(file)) = Len(file)
        BY <1>1, <2>4, <3>2
      <4> QED
        BY <4>1, <4>2
    <3> QED
      BY <2>1, <2>3, <2>5, <2>7, <3>1, <3>2
  <2> QED
    BY <2>2, <2>6, <2>7 DEF Formed, RecordedOnce
<1>5. CASE UNCHANGED file
  <2>1. Formed(file)'
    BY <1>5 DEF Formed
  <2>2. \A i \in 1..Len(file) : file[i].record <= begun'
    BY <1>1, <1>2 DEF RecordedOnce
  <2> QED
    BY <1>5, <2>1, <2>2 DEF RecordedOnce
<1>6. ASSUME NEW p \in Appenders, Repair(p) PROVE Formed(file)' /\ RecordedOnce'
  BY <1>3, <1>6, RepairCuts
<1>7. CASE PowerLoss
  BY <1>3, <1>7, PowerLossCuts
<1> QED
  BY <1>4, <1>5, <1>6, <1>7, FileSteps

(* What a step of one appender leaves of the others.                         *)
LEMMA OthersSame ==
    ASSUME TypeOK, NEW p \in Appenders, NEW q \in Appenders, q # p,
           Begin(p) \/ AppendStep(p) \/ Crash(p)
    PROVE  /\ pc'[q] = pc[q] /\ record'[q] = record[q]
           /\ cut'[q] = cut[q] /\ written'[q] = written[q]
<1> USE DEF At
<1>0. /\ pc \in [Appenders -> AppendPcs] /\ record \in [Appenders -> 0..MaxRecords]
      /\ cut \in [Appenders -> Nat] /\ written \in [Appenders -> 0..LineBytes]
  BY DEF TypeOK
<1>1. CASE Begin(p)
  BY <1>0, <1>1 DEF Begin
<1>2. CASE Flock(p) \/ Fsync(p) \/ Return(p)
  BY <1>0, <1>2 DEF Flock, Fsync, Return
<1>3. CASE Scan(p)
  BY <1>0, <1>3 DEF Scan
<1>4. CASE Repair(p)
  BY <1>0, <1>4 DEF Repair
<1>5. CASE Write(p)
  BY <1>0, <1>5 DEF Write
<1>6. CASE Crash(p)
  BY <1>0, <1>6 DEF Crash
<1> QED
  BY <1>1, <1>2, <1>3, <1>4, <1>5, <1>6 DEF AppendStep

(* Nobody changes the file under the holder of the lock.                     *)
LEMMA OnlyTheHolderChanges ==
    ASSUME TypeOK, Exclusion, NEW p \in Appenders, NEW q \in Appenders, q # p,
           pc[q] \in Held, Begin(p) \/ AppendStep(p) \/ Crash(p)
    PROVE  UNCHANGED <<file, durable>>
<1>1. lock = q /\ pc[p] \notin Held
  BY DEF Exclusion
<1>2. ~Repair(p) /\ ~Write(p) /\ ~Fsync(p)
  BY <1>1 DEF Repair, Write, Fsync, At, Held
<1> QED
  BY <1>2 DEF AppendStep, Begin, Flock, Scan, Return, Crash

LEMMA HolderStep ==
    ASSUME LogInv, [Next]_vars, NEW q \in Appenders
    PROVE  HolderKnows(q)'
<1> USE DEF LogInv
<1>0. /\ pc \in [Appenders -> AppendPcs] /\ record \in [Appenders -> 0..MaxRecords]
      /\ cut \in [Appenders -> Nat] /\ written \in [Appenders -> 0..LineBytes]
  BY DEF TypeOK
<1>1. ASSUME UNCHANGED <<file, durable>>, pc'[q] = pc[q], record'[q] = record[q],
             cut'[q] = cut[q], written'[q] = written[q]
      PROVE  HolderKnows(q)'
  BY <1>1 DEF HolderKnows, Whole
<1>2. ASSUME pc'[q] \in {"idle", "waiting", "locked"} PROVE HolderKnows(q)'
  BY <1>2 DEF HolderKnows
<1>3. ASSUME NEW p \in Appenders, p # q, Begin(p) \/ AppendStep(p) \/ Crash(p)
      PROVE  HolderKnows(q)'
  <2>1. /\ pc'[q] = pc[q] /\ record'[q] = record[q]
        /\ cut'[q] = cut[q] /\ written'[q] = written[q]
    BY <1>3, OthersSame
  <2>2. CASE pc[q] \in Held
    BY <1>1, <1>3, <2>1, <2>2, OnlyTheHolderChanges
  <2>3. CASE pc[q] \notin Held
    BY <2>1, <2>3 DEF HolderKnows, Held
  <2> QED
    BY <2>2, <2>3
<1>4. CASE Begin(q) \/ Flock(q) \/ Return(q) \/ Crash(q)
  <2>1. pc'[q] \in {"idle", "waiting", "locked"}
    BY <1>0, <1>4 DEF Begin, Flock, Return, Crash, At
  <2> QED
    BY <1>2, <2>1
<1>5. CASE Scan(q)
  <2>1. pc'[q] = "scanned" /\ cut'[q] = CommittedSize(file) /\ file' = file
    BY <1>0, <1>5 DEF Scan, At
  <2> QED
    BY <2>1 DEF HolderKnows
<1>6. CASE Repair(q)
  <2>1. pc'[q] = "repaired"
    BY <1>0, <1>6 DEF Repair, At
  <2>2. Cut(cut[q]) /\ (cut[q] # 0 => cut[q] \in Newlines(file))
    BY <1>6, RepairCuts
  <2>3. file \in Seq(Byte)
    BY DEF TypeOK
  <2>4. /\ Len(file') = cut[q] /\ cut[q] \in Nat
        /\ \A i \in 1..cut[q] : file'[i] = file[i]
    BY <2>2, <2>3, CutTypes
  <2>5. cut[q] # 0 => file[cut[q]].pos = LineBytes
    BY <2>2, <2>3, NewlinesType
  <2>6. cut[q] # 0 => cut[q] \in 1..cut[q]
    BY <2>4
  <2>7. Whole(file')
    BY <2>4, <2>5, <2>6 DEF Whole
  <2> QED
    BY <2>1, <2>7 DEF HolderKnows, Whole
<1>7. CASE Write(q)
  <2>1. pc'[q] = "written" /\ record' = record
    BY <1>0, <1>7 DEF Write, At
  <2>2. PICK n \in 0..LineBytes :
          /\ GrownTo(file', file, record[q], n) /\ record[q] \in 1..MaxRecords
          /\ written' = [written EXCEPT ![q] = n]
    BY <1>7, WriteGrows
  <2>3. /\ Len(file') = Len(file) + n
        /\ \A i \in 1..Len(file) : file'[i] = file[i]
        /\ \A i \in (Len(file) + 1)..(Len(file) + n) :
            file'[i].record = record[q] /\ file'[i].pos = i - Len(file)
    BY <2>2 DEF GrownTo
  <2>4. written'[q] = n
    BY <1>0, <2>2
  <2>5. Len(file) \in Nat /\ LineBytes \in Nat /\ LineBytes > 1
    BY AppenderType
  <2>6. ASSUME n = LineBytes
        PROVE  /\ Len(file') # 0 /\ file'[Len(file')].pos = LineBytes
               /\ file'[Len(file')].record = record[q]
    <3>1. /\ Len(file) + LineBytes \in (Len(file) + 1)..(Len(file) + LineBytes)
          /\ Len(file) + LineBytes - Len(file) = LineBytes
          /\ Len(file) + LineBytes # 0
      BY <2>5
    <3> QED
      BY <2>3, <2>6, <3>1
  <2> QED
    BY <2>1, <2>4, <2>6 DEF HolderKnows
<1>8. CASE Fsync(q)
  <2>1. /\ pc[q] = "written" /\ pc'[q] = "synced" /\ durable' = Len(file)
        /\ UNCHANGED <<file, record, written>>
    BY <1>0, <1>8 DEF Fsync, At
  <2> QED
    BY <2>1 DEF HolderKnows
<1>9. ASSUME NEW r \in Readers, ReadStep(r) PROVE HolderKnows(q)'
  <2>1. UNCHANGED <<file, durable, pc, record, cut, written>>
    BY <1>9 DEF ReadStep, StartReading, ReadMore, StopReading, appendVars
  <2> QED
    BY <1>1, <2>1
<1>10. CASE PowerLoss
  BY <1>2, <1>10 DEF PowerLoss
<1>11. CASE UNCHANGED vars
  BY <1>1, <1>11 DEF vars, appendVars
<1> QED
  BY <1>3, <1>4, <1>5, <1>6, <1>7, <1>8, <1>9, <1>10, <1>11 DEF Next, AppendStep

(* No pending record is somebody else's or in the file already.              *)
LEMMA FreshStep ==
    ASSUME LogInv, [Next]_vars, NEW q \in Appenders
    PROVE  Fresh(q)'
<1> USE DEF LogInv
<1>0. /\ pc \in [Appenders -> AppendPcs] /\ record \in [Appenders -> 0..MaxRecords]
      /\ file \in Seq(Byte) /\ Len(file) \in Nat
      /\ begun \in Nat /\ begun' \in Nat /\ begun <= begun'
  <2>1. begun \in Nat /\ begun' \in Nat /\ begun <= begun'
    BY BegunGrows
  <2> QED
    BY <2>1 DEF TypeOK
<1>1. \A i \in 1..Len(file) : file[i].record \in Nat /\ file[i].record <= begun
  BY <1>0, ByteType DEF RecordedOnce
(* A step that begins no append and adds no byte keeps what is fresh.        *)
<1>2. ASSUME \A p \in Appenders : pc'[p] \in Pending => pc[p] \in Pending /\ record'[p] = record[p],
             Len(file') \in Nat,
             \A i \in 1..Len(file') : i \in 1..Len(file) /\ file'[i] = file[i]
      PROVE  Fresh(q)'
  <2> SUFFICES ASSUME pc'[q] \in Pending
               PROVE  /\ record'[q] \in 1..begun'
                      /\ \A i \in 1..Len(file') : file'[i].record # record'[q]
                      /\ \A p \in Appenders \ {q} : pc'[p] \in Pending => record'[p] # record'[q]
    BY Zenon DEF Fresh
  <2>1. pc[q] \in Pending /\ record'[q] = record[q]
    BY <1>2
  <2>2. record'[q] \in 1..begun'
    BY <1>0, <2>1 DEF Fresh
  <2>3. \A i \in 1..Len(file') : file'[i].record # record'[q]
    BY <1>2, <2>1 DEF Fresh
  <2>4. \A p \in Appenders \ {q} : pc'[p] \in Pending => record'[p] # record'[q]
    BY <1>2, <2>1 DEF Fresh
  <2> QED
    BY <2>2, <2>3, <2>4
<1>3. ASSUME UNCHANGED file
      PROVE  Len(file') \in Nat /\ \A i \in 1..Len(file') : i \in 1..Len(file) /\ file'[i] = file[i]
  BY <1>0, <1>3
<1>4. ASSUME NEW n, Cut(n)
      PROVE  Len(file') \in Nat /\ \A i \in 1..Len(file') : i \in 1..Len(file) /\ file'[i] = file[i]
  BY <1>0, <1>4, CutTypes
<1>5. ASSUME NEW p \in Appenders, Begin(p) PROVE Fresh(q)'
  <2>1. /\ pc' = [pc EXCEPT ![p] = "waiting"] /\ pc[p] = "idle"
        /\ begun' = begun + 1 /\ record' = [record EXCEPT ![p] = begun + 1] /\ file' = file
    BY <1>5 DEF Begin, At
  <2>2. record'[p] = begun + 1 /\ \A o \in Appenders \ {p} : record'[o] = record[o] /\ pc'[o] = pc[o]
    BY <1>0, <2>1
  <2>3. \A o \in Appenders \ {p} : pc[o] \in Pending => record[o] \in 1..begun
    BY DEF Fresh
  <2>4. CASE q = p
    <3>1. \A i \in 1..Len(file) : file[i].record # begun + 1
      BY <1>0, <1>1
    <3>2. \A o \in Appenders \ {p} : pc'[o] \in Pending => record'[o] # begun + 1
      BY <1>0, <2>2, <2>3
    <3> QED
      BY <1>0, <2>1, <2>2, <2>4, <3>1, <3>2 DEF Fresh
  <2>5. CASE q # p
    <3> SUFFICES ASSUME pc'[q] \in Pending
                 PROVE  /\ record'[q] \in 1..begun'
                        /\ \A i \in 1..Len(file') : file'[i].record # record'[q]
                        /\ \A o \in Appenders \ {q} : pc'[o] \in Pending => record'[o] # record'[q]
      BY Zenon DEF Fresh
    <3>1. pc[q] \in Pending /\ record'[q] = record[q]
      BY <2>2, <2>5
    <3>2. record[q] \in 1..begun
      BY <3>1 DEF Fresh
    <3>3. \A i \in 1..Len(file') : file'[i].record # record'[q]
      BY <2>1, <3>1 DEF Fresh
    <3>4. \A o \in Appenders \ {q, p} : pc'[o] \in Pending => record'[o] # record'[q]
      BY <2>2, <3>1 DEF Fresh
    <3>5. record'[p] # record'[q]
      BY <1>0, <2>2, <3>1, <3>2
    <3> QED
      BY <1>0, <2>1, <3>1, <3>2, <3>3, <3>4, <3>5
  <2> QED
    BY <2>4, <2>5
<1>6. ASSUME NEW p \in Appenders, Write(p) PROVE Fresh(q)'
  <2>1. PICK n \in 0..LineBytes :
          GrownTo(file', file, record[p], n) /\ record[p] \in 1..MaxRecords
    BY <1>6, WriteGrows
  <2>2. /\ Len(file') = Len(file) + n
        /\ \A i \in 1..Len(file) : file'[i] = file[i]
        /\ \A i \in (Len(file) + 1)..(Len(file) + n) : file'[i].record = record[p]
    BY <2>1 DEF GrownTo
  <2>3. /\ pc[p] = "repaired" /\ pc'[p] = "written" /\ record' = record /\ begun' = begun
        /\ \A o \in Appenders \ {p} : pc'[o] = pc[o]
    BY <1>0, <1>6 DEF Write, At
  <2>4. CASE q = p
    BY <2>3, <2>4 DEF Fresh, Pending
  <2>5. CASE q # p
    <3> SUFFICES ASSUME pc'[q] \in Pending
                 PROVE  /\ record[q] \in 1..begun
                        /\ \A i \in 1..Len(file') : file'[i].record # record[q]
                        /\ \A o \in Appenders \ {q} : pc'[o] \in Pending => record[o] # record[q]
      BY <2>3, Zenon DEF Fresh
    <3>1. pc[q] \in Pending
      BY <2>3, <2>5
    <3>2. record[p] # record[q]
      BY <2>3, <2>5, <3>1 DEF Fresh, Pending
    <3>3. n \in Nat
      BY LineBytesAssumption
    <3>4. \A i \in 1..Len(file') : i \in 1..Len(file) \/ i \in (Len(file) + 1)..(Len(file) + n)
      BY <1>0, <2>2, <3>3
    <3>5. \A i \in 1..Len(file') : file'[i].record # record[q]
      BY <2>2, <3>1, <3>2, <3>4 DEF Fresh
    <3>6. \A o \in Appenders \ {q} : pc'[o] \in Pending => record[o] # record[q]
      BY <2>3, <3>1 DEF Fresh, Pending
    <3> QED
      BY <3>1, <3>5, <3>6 DEF Fresh
  <2> QED
    BY <2>4, <2>5
<1>7. ASSUME NEW p \in Appenders, AppendStep(p) \/ Crash(p), ~Write(p)
      PROVE  /\ record' = record
             /\ \A o \in Appenders : pc'[o] \in Pending => pc[o] \in Pending
  <2>1. CASE Crash(p) \/ Return(p) \/ Fsync(p)
    BY <1>0, <2>1 DEF Crash, Return, Fsync, At, Pending
  <2>2. CASE Flock(p) \/ Scan(p)
    BY <1>0, <2>2 DEF Flock, Scan, At, Pending
  <2>3. CASE Repair(p)
    BY <1>0, <2>3 DEF Repair, At, Pending
  <2> QED
    BY <1>7, <2>1, <2>2, <2>3 DEF AppendStep
<1>8. ASSUME NEW p \in Appenders, AppendStep(p) \/ Crash(p), ~Write(p) PROVE Fresh(q)'
  <2>1. CASE Repair(p)
    BY <1>2, <1>4, <1>7, <1>8, <2>1, RepairCuts
  <2>2. CASE ~Repair(p)
    <3>1. UNCHANGED file
      BY <1>8, <2>2 DEF AppendStep, Flock, Scan, Fsync, Return, Crash
    <3> QED
      BY <1>2, <1>3, <1>7, <1>8, <3>1
  <2> QED
    BY <2>1, <2>2
<1>9. ASSUME NEW r \in Readers, ReadStep(r) PROVE Fresh(q)'
  <2>1. UNCHANGED <<file, pc, record>>
    BY <1>9 DEF ReadStep, StartReading, ReadMore, StopReading, appendVars
  <2> QED
    BY <1>2, <1>3, <2>1
<1>10. CASE PowerLoss
  BY <1>10 DEF PowerLoss, Fresh, Pending
<1>11. CASE UNCHANGED vars
  BY <1>2, <1>3, <1>11 DEF vars, appendVars
<1> QED
  BY <1>5, <1>6, <1>8, <1>9, <1>10, <1>11 DEF Next

LEMMA AcknowledgedStep ==
    ASSUME LogInv, [Next]_vars
    PROVE  Acknowledged'
<1> USE DEF LogInv
<1>0. /\ file \in Seq(Byte) /\ Len(file) \in Nat /\ durable \in 0..Len(file) /\ durable \in Nat
  BY DEF TypeOK
<1>1. ASSUME acknowledged' = acknowledged, durable' \in Nat,
             \A i \in 1..durable :
                file[i].pos = LineBytes => i \in 1..durable' /\ file'[i] = file[i]
      PROVE  Acknowledged'
  <2> SUFFICES ASSUME NEW a \in acknowledged
               PROVE  \E i \in 1..durable' : file'[i].record = a /\ file'[i].pos = LineBytes
    BY <1>1 DEF Acknowledged
  <2>1. PICK i \in 1..durable : file[i].record = a /\ file[i].pos = LineBytes
    BY DEF Acknowledged
  <2> QED
    BY <1>1, <2>1
<1>2. ASSUME UNCHANGED <<file, durable, acknowledged>> PROVE Acknowledged'
  BY <1>0, <1>1, <1>2
<1>3. ASSUME NEW p \in Appenders, Begin(p) \/ Flock(p) \/ Scan(p) \/ Crash(p) PROVE Acknowledged'
  BY <1>2, <1>3 DEF Begin, Flock, Scan, Crash
<1>4. ASSUME NEW p \in Appenders, Repair(p) PROVE Acknowledged'
  <2>1. /\ Cut(cut[p])
        /\ durable' = IF durable <= cut[p] THEN durable ELSE cut[p]
        /\ \A i \in Newlines(file) : i <= cut[p]
    BY <1>4, RepairCuts
  <2>2. cut[p] \in Nat /\ \A i \in 1..cut[p] : file'[i] = file[i]
    BY <1>0, <2>1, CutTypes
  <2>3. \A i \in 1..durable : file[i].pos = LineBytes => i \in 1..cut[p]
    <3>1. \A i \in 1..durable : i \in 1..Len(file)
      BY <1>0
    <3>2. \A i \in 1..durable : file[i].pos = LineBytes => i \in Newlines(file)
      BY <1>0, <3>1, NewlinesType
    <3> QED
      BY <1>0, <2>1, <2>2, <3>2
  <2>4. durable' \in Nat /\ \A i \in 1..durable : i \in 1..cut[p] => i \in 1..durable'
    BY <1>0, <2>1, <2>2
  <2> QED
    BY <1>1, <1>4, <2>2, <2>3, <2>4 DEF Repair
<1>5. ASSUME NEW p \in Appenders, Write(p) PROVE Acknowledged'
  <2>1. PICK n \in 0..LineBytes :
          GrownTo(file', file, record[p], n) /\ record[p] \in 1..MaxRecords
    BY <1>5, WriteGrows
  <2>2. \A i \in 1..Len(file) : file'[i] = file[i]
    BY <2>1 DEF GrownTo
  <2>3. \A i \in 1..durable : i \in 1..Len(file)
    BY <1>0
  <2> QED
    BY <1>0, <1>1, <1>5, <2>2, <2>3 DEF Write
<1>6. ASSUME NEW p \in Appenders, Fsync(p) PROVE Acknowledged'
  <2>1. durable' = Len(file) /\ file' = file /\ acknowledged' = acknowledged
    BY <1>6 DEF Fsync
  <2>2. \A i \in 1..durable : i \in 1..Len(file)
    BY <1>0
  <2> QED
    BY <1>0, <1>1, <2>1, <2>2
<1>7. ASSUME NEW p \in Appenders, Return(p) PROVE Acknowledged'
  <2>1. CASE written[p] = LineBytes
    <3>1. pc[p] = "synced" /\ UNCHANGED <<file, durable>>
          /\ acknowledged' = acknowledged \union {record[p]}
      BY <1>7, <2>1 DEF Return, At
    <3>2. /\ durable = Len(file) /\ Len(file) # 0
          /\ file[Len(file)].pos = LineBytes /\ file[Len(file)].record = record[p]
      BY <2>1, <3>1 DEF HolderKnows
    <3>3. Len(file) \in 1..durable
      BY <1>0, <3>2
    <3> QED
      BY <3>1, <3>2, <3>3 DEF Acknowledged
  <2>2. CASE written[p] # LineBytes
    BY <1>2, <1>7, <2>2 DEF Return
  <2> QED
    BY <2>1, <2>2
<1>8. ASSUME NEW r \in Readers, ReadStep(r) PROVE Acknowledged'
  BY <1>2, <1>8 DEF ReadStep, StartReading, ReadMore, StopReading, appendVars
<1>9. CASE PowerLoss
  <2>1. PICK n \in durable..Len(file) : Cut(n) /\ durable' = n
    BY <1>9, PowerLossCuts
  <2>2. n \in Nat /\ \A i \in 1..n : file'[i] = file[i]
    BY <1>0, <2>1, CutTypes
  <2>3. \A i \in 1..durable : i \in 1..n
    BY <1>0, <2>1, <2>2
  <2> QED
    BY <1>1, <1>9, <2>1, <2>2, <2>3 DEF PowerLoss
<1>10. CASE UNCHANGED vars
  BY <1>2, <1>10 DEF vars, appendVars
<1> QED
  BY <1>3, <1>4, <1>5, <1>6, <1>7, <1>8, <1>9, <1>10 DEF Next, AppendStep

LEMMA PrefixAndRest ==
    ASSUME NEW bytes \in Seq(Byte), NEW n \in 0..Len(bytes)
    PROVE  SubSeq(bytes, 1, n) \o SubSeq(bytes, n + 1, Len(bytes)) = bytes
<1> DEFINE a == SubSeq(bytes, 1, n)
           b == SubSeq(bytes, n + 1, Len(bytes))
<1>1. Len(bytes) \in Nat /\ n \in Nat /\ n <= Len(bytes)
  OBVIOUS
<1>2. a \in Seq(Byte) /\ Len(a) = n /\ \A i \in 1..n : a[i] = bytes[i]
  BY Prefix
<1>3. b \in Seq(Byte)
  OBVIOUS
<1>4. Len(b) = Len(bytes) - n /\ \A i \in 1..(Len(bytes) - n) : b[i] = bytes[n + i]
  BY <1>1
<1> HIDE DEF a, b
<1>5. a \o b \in Seq(Byte) /\ Len(a \o b) = Len(bytes)
  BY <1>1, <1>2, <1>3, <1>4
<1>6. \A i \in 1..Len(bytes) : (a \o b)[i] = IF i <= n THEN a[i] ELSE b[i - n]
  BY <1>1, <1>2, <1>3, <1>4
<1>7. \A i \in 1..Len(bytes) : (a \o b)[i] = bytes[i]
  <2> SUFFICES ASSUME NEW i \in 1..Len(bytes) PROVE (a \o b)[i] = bytes[i]
    OBVIOUS
  <2>1. CASE i <= n
    BY <1>2, <1>6, <2>1
  <2>2. CASE i > n
    <3>1. i - n \in 1..(Len(bytes) - n) /\ n + (i - n) = i /\ ~(i <= n)
      BY <1>1, <2>2
    <3> QED
      BY <1>4, <1>6, <3>1
  <2>3. i <= n \/ i > n
    BY <1>1
  <2> QED
    BY <2>1, <2>2, <2>3, Zenon
<1> DEFINE whole == a \o b
<1>8. whole \in Seq(Byte) /\ Len(whole) = Len(bytes) /\ \A i \in 1..Len(bytes) : whole[i] = bytes[i]
  BY <1>5, <1>7
<1> HIDE DEF whole
<1>9. /\ whole = [i \in 1..Len(bytes) |-> whole[i]]
      /\ bytes = [i \in 1..Len(bytes) |-> bytes[i]]
  BY <1>8
<1>10. whole = bytes
  BY <1>8, <1>9
<1> QED
  BY <1>10 DEF whole, a, b

LEMMA ReaderStep ==
    ASSUME LogInv, [Next]_vars, NEW r \in Readers
    PROVE  ReaderHas(r)'
<1> USE DEF LogInv
<1>0. /\ file \in Seq(Byte) /\ Len(file) \in Nat /\ buffer[r] \in Seq(Byte)
      /\ readPc \in [Readers -> ReadPcs] /\ disturbed \in [Readers -> BOOLEAN]
      /\ buffer \in [Readers -> Seq(Byte)]
      /\ before \in [Readers -> Seq(SUBSET (1..MaxRecords))]
  BY DEF TypeOK
(* Growing on, the file keeps what the reader has.                           *)
<1>1. ASSUME /\ readPc'[r] # "idle" /\ ~disturbed'[r] => readPc[r] # "idle" /\ ~disturbed[r],
             buffer'[r] = buffer[r], before'[r] = before[r],
             file' \in Seq(Byte), Len(file) \in 0..Len(file'), SubSeq(file', 1, Len(file)) = file
      PROVE  ReaderHas(r)'
  <2> SUFFICES ASSUME readPc'[r] # "idle", ~disturbed'[r]
               PROVE  /\ Len(buffer'[r]) \in 0..Len(file')
                      /\ buffer'[r] = SubSeq(file', 1, Len(buffer'[r]))
                      /\ \E n \in 0..Len(buffer'[r]) : before'[r] = Entries(SubSeq(file', 1, n))
    BY Zenon DEF ReaderHas
  <2> DEFINE has == Len(buffer[r])
  <2>1. /\ has \in 0..Len(file) /\ buffer[r] = SubSeq(file, 1, has)
        /\ \E n \in 0..has : before[r] = Entries(SubSeq(file, 1, n))
    BY <1>1 DEF ReaderHas
  <2>2. PICK n \in 0..has : before[r] = Entries(SubSeq(file, 1, n))
    BY <2>1
  <2>3. \A k \in 0..Len(file) : SubSeq(file', 1, k) = SubSeq(file, 1, k)
    BY <1>1, PrefixOfPrefix
  <2> HIDE DEF has
  <2>4. has \in 0..Len(file') /\ n \in 0..Len(file)
    BY <1>0, <1>1, <2>1
  <2> QED
    BY <1>1, <2>1, <2>2, <2>3, <2>4 DEF has
<1>2. ASSUME UNCHANGED file
      PROVE  file' \in Seq(Byte) /\ Len(file) \in 0..Len(file') /\ SubSeq(file', 1, Len(file)) = file
  BY <1>0, <1>2, WholePrefix
<1>3. ASSUME NEW p \in Appenders, Repair(p) PROVE ReaderHas(r)'
  <2>1. /\ UNCHANGED <<readPc, buffer, before>>
        /\ disturbed'[r] = (disturbed[r] \/ cut[p] # Len(file))
        /\ file' = SubSeq(file, 1, cut[p])
    BY <1>3 DEF Repair, readVars
  <2>2. CASE cut[p] = Len(file)
    <3>1. file' = file
      BY <1>0, <2>1, <2>2, WholePrefix
    <3>2. ~disturbed'[r] => ~disturbed[r]
      BY <2>1, Zenon
    <3> QED
      BY <1>1, <1>2, <2>1, <3>1, <3>2
  <2>3. CASE cut[p] # Len(file)
    <3>1. disturbed'[r]
      BY <2>1, <2>3, Zenon
    <3> QED
      BY <3>1, Zenon DEF ReaderHas
  <2> QED
    BY <2>2, <2>3
<1>4. ASSUME NEW p \in Appenders, Write(p) PROVE ReaderHas(r)'
  <2>1. PICK n \in 0..LineBytes :
          GrownTo(file', file, record[p], n) /\ record[p] \in 1..MaxRecords
    BY <1>4, WriteGrows
  <2>2. file' \in Seq(Byte) /\ Len(file') = Len(file) + n /\ SubSeq(file', 1, Len(file)) = file
    BY <2>1 DEF GrownTo
  <2>3. Len(file) \in 0..Len(file')
    BY <1>0, <2>2, LineBytesAssumption
  <2>4. UNCHANGED <<readPc, buffer, before, disturbed>>
    BY <1>4 DEF Write, readVars
  <2> QED
    BY <1>1, <2>2, <2>3, <2>4
<1>5. ASSUME UNCHANGED <<file, readPc, buffer, before, disturbed>> PROVE ReaderHas(r)'
  BY <1>1, <1>2, <1>5
<1>6. ASSUME NEW p \in Appenders, Begin(p) \/ Flock(p) \/ Scan(p) \/ Fsync(p) \/ Return(p) \/ Crash(p)
      PROVE  ReaderHas(r)'
  BY <1>5, <1>6 DEF Begin, Flock, Scan, Fsync, Return, Crash, readVars
<1>7. ASSUME NEW q \in Readers, ReadStep(q), q # r PROVE ReaderHas(r)'
  <2>1. /\ file' = file /\ readPc'[r] = readPc[r] /\ buffer'[r] = buffer[r]
        /\ before'[r] = before[r]
    <3>1. CASE StartReading(q)
      BY <1>0, <1>7, <3>1 DEF StartReading
    <3>2. CASE ReadMore(q)
      BY <1>0, <1>7, <3>2 DEF ReadMore
    <3>3. CASE StopReading(q)
      BY <1>0, <1>7, <3>3 DEF StopReading
    <3> QED
      BY <1>7, <3>1, <3>2, <3>3 DEF ReadStep
  <2>2. disturbed'[r] = disturbed[r]
    BY <1>7, Zenon DEF ReadStep, StartReading, ReadMore, StopReading, TypeOK
  <2> QED
    BY <1>1, <1>2, <2>1, <2>2
<1>8. CASE StartReading(r)
  <2>1. file' = file /\ buffer'[r] = file /\ before'[r] = Entries(file)
    BY <1>8 DEF StartReading, TypeOK
  <2>2. SubSeq(file, 1, Len(file)) = file /\ Len(file) \in 0..Len(file)
    BY <1>0, WholePrefix
  <2> QED
    BY <2>1, <2>2 DEF ReaderHas
<1>9. CASE ReadMore(r)
  <2>1. /\ readPc[r] = "reading" /\ UNCHANGED <<file, readPc, before, disturbed>>
        /\ buffer'[r] = buffer[r] \o Unread(r)
    BY <1>9 DEF ReadMore, TypeOK
  <2> SUFFICES ASSUME ~disturbed[r] PROVE ReaderHas(r)'
    BY <2>1 DEF ReaderHas
  <2>2. /\ Len(buffer[r]) \in 0..Len(file)
        /\ buffer[r] = SubSeq(file, 1, Len(buffer[r]))
        /\ \E n \in 0..Len(buffer[r]) : before[r] = Entries(SubSeq(file, 1, n))
    BY <2>1 DEF ReaderHas
  <2>3. buffer'[r] = file
    BY <1>0, <2>1, <2>2, PrefixAndRest DEF Unread
  <2>4. PICK n \in 0..Len(buffer[r]) : before[r] = Entries(SubSeq(file, 1, n))
    BY <2>2
  <2>5. n \in 0..Len(file) /\ Len(file) \in 0..Len(file) /\ SubSeq(file, 1, Len(file)) = file
    BY <1>0, <2>2, <2>4, WholePrefix
  <2> QED
    BY <2>1, <2>3, <2>4, <2>5 DEF ReaderHas
<1>10. CASE StopReading(r)
  <2>1. readPc[r] = "reading" /\ UNCHANGED <<file, buffer, before, disturbed>>
    BY <1>10 DEF StopReading
  <2> QED
    BY <1>1, <1>2, <2>1
<1>11. CASE PowerLoss
  BY <1>11 DEF PowerLoss, ReaderHas
<1>12. CASE UNCHANGED vars
  BY <1>5, <1>12 DEF vars, readVars
<1> QED
  BY <1>3, <1>4, <1>6, <1>7, <1>8, <1>9, <1>10, <1>11, <1>12 DEF Next, AppendStep, ReadStep

LEMMA NextLogInv == LogInv /\ [Next]_vars => LogInv'
<1> SUFFICES ASSUME LogInv, [Next]_vars PROVE LogInv'
  OBVIOUS
<1>1. TypeOK'
  BY TypeStep
<1>2. Exclusion'
  BY ExclusionStep DEF LogInv
<1>3. Formed(file)' /\ RecordedOnce'
  BY FileStep
<1>4. \A p \in Appenders : HolderKnows(p)' /\ Fresh(p)'
  BY HolderStep, FreshStep
<1>5. Acknowledged'
  BY AcknowledgedStep
<1>6. \A r \in Readers : ReaderHas(r)'
  BY ReaderStep
<1> QED
  BY <1>1, <1>2, <1>3, <1>4, <1>5, <1>6 DEF LogInv

(* The invariant holds under every fault, for all appenders and readers.     *)
THEOREM LogInvHolds == Spec => []LogInv
  BY InitLogInv, NextLogInv, PTL DEF Spec

-----------------------------------------------------------------------------
(* What follows from it.                                                     *)

LEMMA RecordsAreLines ==
    ASSUME NEW bytes \in Seq(Byte), Formed(bytes),
           NEW i \in Newlines(bytes)
    PROVE  \E k \in 1..Cardinality(Newlines(bytes)) :
             EndOf(Newlines(bytes), k) = i /\ Entries(bytes)[k] = {bytes[i].record}
<1> DEFINE N == Newlines(bytes)
           k == Place(N, i)
<1>1. N \subseteq Nat \ {0} /\ IsFiniteSet(N) /\ i \in N /\ i \in Nat
  BY NewlinesType
<1>2. k \in 1..Cardinality(N)
  BY <1>1, PlaceType
<1>3. EndOf(N, k) = i
  BY <1>1, <1>2, EndOfIs
<1>4. Entries(bytes)[k] = {Recorded(bytes, k)}
  BY <1>2, EntriesAre
<1> HIDE DEF k
<1> QED
  BY <1>2, <1>3, <1>4 DEF Recorded

(* However appends were cut short, every newline ends the line of exactly    *)
(* one record, which was appended once.  (ledger.py 19-26)                   *)
THEOREM IsNeverBricked == Spec => []NeverBricked
<1>1. LogInv => NeverBricked
  <2> SUFFICES ASSUME LogInv PROVE NeverBricked
    OBVIOUS
  <2> DEFINE N == Newlines(file)
  <2>1. file \in Seq(Byte) /\ Formed(file)
    BY DEF LogInv, TypeOK
  <2>2. /\ Readable(file)
        /\ Entries(file) = [k \in 1..Cardinality(N) |-> {Recorded(file, k)}]
    BY <2>1, EntriesAre
  <2>3. ASSUME NEW k \in 1..Cardinality(N) PROVE Cardinality(Entries(file)[k]) = 1
    BY <2>2, FS_Singleton
  <2>4. ASSUME NEW k \in 1..Cardinality(N), NEW l \in 1..Cardinality(N),
               Entries(file)[k] = Entries(file)[l]
        PROVE  k = l
    <3> DEFINE e == EndOf(N, k)
               f == EndOf(N, l)
    <3>1. /\ N \subseteq Nat \ {0} /\ IsFiniteSet(N)
          /\ \A i : i \in N <=> i \in 1..Len(file) /\ file[i].pos = LineBytes
      BY <2>1, NewlinesType
    <3>2. e \in N /\ f \in N /\ Place(N, e) = k /\ Place(N, f) = l
      BY <3>1, EndOfIs
    <3>3. file[e].record = file[f].record
      BY <2>2, <2>4 DEF Recorded
    <3> HIDE DEF e, f, N
    <3>4. e - LineBytes = f - LineBytes
      <4>1. e \in 1..Len(file) /\ f \in 1..Len(file)
            /\ file[e].pos = LineBytes /\ file[f].pos = LineBytes
        BY <3>1, <3>2
      <4>2. e - file[e].pos = f - file[f].pos
        BY <3>3, <4>1 DEF LogInv, RecordedOnce
      <4> QED
        BY <4>1, <4>2
    <3>5. e = f
      BY <3>1, <3>2, <3>4, LineBytesAssumption
    <3> QED
      BY <3>2, <3>5
  <2>5. DOMAIN Entries(file) = 1..Cardinality(N)
    BY <2>2
  <2> HIDE DEF N
  <2> QED
    BY <2>2, <2>3, <2>4, <2>5 DEF NeverBricked, IsInjective
<1> QED
  BY <1>1, LogInvHolds, PTL

(* No crash, short write or power loss takes back what append() has          *)
(* acknowledged.  (ledger.py 99-104)                                         *)
THEOREM NothingAcknowledgedIsLost == Spec => []AcknowledgedSurvives
<1>1. LogInv => AcknowledgedSurvives
  <2> SUFFICES ASSUME LogInv, NEW a \in acknowledged
               PROVE  {a} \in Range(Entries(SubSeq(file, 1, durable)))
    BY DEF AcknowledgedSurvives
  <2> DEFINE kept == SubSeq(file, 1, durable)
  <2>1. file \in Seq(Byte) /\ Formed(file) /\ durable \in 0..Len(file)
    BY DEF LogInv, TypeOK
  <2>2. /\ kept \in Seq(Byte) /\ Len(kept) = durable /\ Formed(kept)
        /\ \A i \in 1..durable : kept[i] = file[i]
    BY <2>1, Prefix, PrefixSays
  <2>3. PICK i \in 1..durable : file[i].record = a /\ file[i].pos = LineBytes
    BY DEF LogInv, Acknowledged
  <2> HIDE DEF kept
  <2>4. i \in Newlines(kept) /\ kept[i].record = a
    BY <2>2, <2>3, NewlinesType
  <2>5. PICK k \in 1..Cardinality(Newlines(kept)) : Entries(kept)[k] = {a}
    BY <2>2, <2>4, RecordsAreLines
  <2>6. DOMAIN Entries(kept) = 1..Cardinality(Newlines(kept))
    BY <2>2, EntriesAre
  <2> QED
    BY <2>5, <2>6 DEF Range, kept
<1> QED
  BY <1>1, LogInvHolds, PTL

(* A reader that took no lock, and under which no fragment was cut away, has *)
(* read the log of some moment.  (ledger.py 118-148)                         *)
THEOREM UndisturbedReadsAreSnapshots == Spec => []ReadsAreSnapshots
<1>1. LogInv => ReadsAreSnapshots
  <2> SUFFICES ASSUME LogInv, NEW r \in Readers, readPc[r] = "returned", ~disturbed[r]
               PROVE  /\ Readable(buffer[r])
                      /\ IsPrefix(before[r], Entries(buffer[r]))
                      /\ IsPrefix(Entries(buffer[r]), Entries(file))
    BY DEF ReadsAreSnapshots
  <2> DEFINE has == Len(buffer[r])
  <2>1. file \in Seq(Byte) /\ Formed(file)
    BY DEF LogInv, TypeOK
  <2>2. /\ has \in 0..Len(file) /\ buffer[r] = SubSeq(file, 1, has)
        /\ \E n \in 0..has : before[r] = Entries(SubSeq(file, 1, n))
    BY DEF LogInv, ReaderHas
  <2>3. PICK n \in 0..has : before[r] = Entries(SubSeq(file, 1, n))
    BY <2>2
  <2>4. buffer[r] \in Seq(Byte) /\ Formed(buffer[r]) /\ IsPrefix(Entries(buffer[r]), Entries(file))
    <3> HIDE DEF has
    <3>1. SubSeq(file, 1, has) \in Seq(Byte)
      BY <2>1, <2>2, Prefix
    <3>2. Formed(SubSeq(file, 1, has)) /\ IsPrefix(Entries(SubSeq(file, 1, has)), Entries(file))
      BY <2>1, <2>2, PrefixSays
    <3> QED
      BY <2>2, <3>1, <3>2
  <2>5. before[r] = Entries(SubSeq(buffer[r], 1, n))
    BY <2>1, <2>2, <2>3, PrefixOfPrefix
  <2>6. IsPrefix(before[r], Entries(buffer[r]))
    BY <2>3, <2>4, <2>5, PrefixSays
  <2>7. Readable(buffer[r])
    BY <2>4, EntriesAre
  <2> QED
    BY <2>4, <2>6, <2>7
<1> QED
  BY <1>1, LogInvHolds, PTL

-----------------------------------------------------------------------------
(* The refinement of CommitLog.                                              *)

Promised == Len(Entries(SubSeq(file, 1, durable)))

LEMMA PromisedIs ==
    ASSUME LogInv, NEW n \in 0..Len(file)
    PROVE  /\ Len(Entries(SubSeq(file, 1, n))) = Cardinality(Upto(Newlines(file), n))
           /\ Cardinality(Upto(Newlines(file), n)) \in 0..Len(Entries(file))
           /\ Entries(SubSeq(file, 1, n)) =
                SubSeq(Entries(file), 1, Cardinality(Upto(Newlines(file), n)))
<1>1. file \in Seq(Byte) /\ Formed(file)
  BY DEF LogInv, TypeOK
<1>2. Len(Entries(file)) = Cardinality(Newlines(file))
  BY <1>1, EntriesType
<1>3. /\ Newlines(SubSeq(file, 1, n)) = Upto(Newlines(file), n)
      /\ Cardinality(Newlines(SubSeq(file, 1, n))) \in 0..Cardinality(Newlines(file))
      /\ Len(Entries(SubSeq(file, 1, n))) = Cardinality(Newlines(SubSeq(file, 1, n)))
      /\ Entries(SubSeq(file, 1, n)) =
           SubSeq(Entries(file), 1, Cardinality(Newlines(SubSeq(file, 1, n))))
  BY <1>1, PrefixSays
<1> QED
  BY <1>2, <1>3

(* What is durable grows with the bytes that are.                            *)
LEMMA PromisesGrow ==
    ASSUME LogInv, NEW n \in 0..Len(file), NEW m \in 0..Len(file), n <= m
    PROVE  Cardinality(Upto(Newlines(file), n)) <= Cardinality(Upto(Newlines(file), m))
<1> DEFINE N == Newlines(file)
<1>1. N \subseteq Nat /\ IsFiniteSet(N) /\ \A i \in N : i \in Nat
  BY NewlinesType DEF LogInv, TypeOK
<1>2. n \in Nat /\ m \in Nat
  BY DEF LogInv, TypeOK
<1> HIDE DEF N
<1>3. \A i \in N : i <= n => i <= m
  BY <1>1, <1>2
<1>4. Upto(N, n) \subseteq Upto(N, m)
  BY <1>3 DEF Upto
<1>5. IsFiniteSet(Upto(N, m))
  BY <1>1, <1>2, PlaceType
<1>6. Cardinality(Upto(N, n)) <= Cardinality(Upto(N, m))
  BY <1>4, <1>5, FS_Subset
<1> QED
  BY <1>6 DEF N

(* A repair takes nothing away that was committed.                           *)
LEMMA RepairKeepsTheLog ==
    ASSUME LogInv, LogInv', NEW p \in Appenders, Repair(p)
    PROVE  Entries(file)' = Entries(file) /\ Promised' = Promised
<1> DEFINE N == Newlines(file)
           c == cut[p]
<1>1. /\ file \in Seq(Byte) /\ Formed(file) /\ durable \in 0..Len(file)
      /\ N \subseteq Nat /\ IsFiniteSet(N) /\ \A i \in N : i \in Nat
      /\ Len(file) \in Nat
  <2>1. file \in Seq(Byte) /\ Formed(file) /\ durable \in 0..Len(file)
    BY DEF LogInv, TypeOK
  <2>2. N \subseteq Nat \ {0} /\ IsFiniteSet(N)
    BY <2>1, NewlinesType
  <2>3. \A i \in N : i \in Nat
    BY <2>2
  <2> QED
    BY <2>1, <2>2, <2>3
<1>2. /\ c \in 0..Len(file) /\ file' = SubSeq(file, 1, c)
      /\ durable' = IF durable <= c THEN durable ELSE c
      /\ \A i \in N : i <= c
  BY RepairCuts DEF LogInv, Cut
<1> HIDE DEF N, c
<1>3. Upto(N, c) = N
  BY <1>2 DEF Upto
<1>4. Upto(N, durable') = Upto(N, durable)
  <2>1. \A i \in N : i <= durable' <=> i <= durable
    BY <1>1, <1>2
  <2> QED
    BY <2>1 DEF Upto
<1>5. durable' \in 0..c /\ durable' \in 0..Len(file)
  BY <1>1, <1>2
<1>6. Entries(file') = Entries(file)
  <2>1. Entries(file') = SubSeq(Entries(file), 1, Cardinality(N))
    BY <1>2, <1>3, PromisedIs DEF N
  <2>2. Entries(file) \in Seq(SUBSET (1..MaxRecords)) /\ Len(Entries(file)) = Cardinality(N)
    BY <1>1, EntriesType DEF N
  <2> QED
    BY <2>1, <2>2
<1>7. SubSeq(file', 1, durable') = SubSeq(file, 1, durable')
  BY <1>1, <1>2, <1>5, PrefixOfPrefix
<1>8. Promised' = Cardinality(Upto(N, durable'))
  <2>1. Promised' = Len(Entries(SubSeq(file, 1, durable')))
    BY <1>7 DEF Promised
  <2> QED
    BY <1>5, <2>1, PromisedIs DEF N
<1>9. Promised = Cardinality(Upto(N, durable))
  BY <1>1, PromisedIs DEF Promised, N
<1> QED
  BY <1>4, <1>6, <1>8, <1>9

LEMMA LogStep ==
    ASSUME LogInv, LogInv', [Next]_vars
    PROVE  \/ Entries(file)' = Entries(file) /\ Promised' = Promised
           \/ /\ \E rec \in 1..MaxRecords : Entries(file)' = Append(Entries(file), {rec})
              /\ Promised' = Promised
           \/ /\ Entries(file)' = Entries(file)
              /\ Promised' \in Promised..Len(Entries(file))
           \/ \E kept \in Promised..Len(Entries(file)) :
                /\ Entries(file)' = SubSeq(Entries(file), 1, kept)
                /\ Promised' \in Promised..kept
<1> DEFINE N == Newlines(file)
<1>1. /\ file \in Seq(Byte) /\ Formed(file) /\ Len(file) \in Nat
      /\ durable \in 0..Len(file) /\ durable \in Nat
  BY DEF LogInv, TypeOK
<1>2. /\ Promised = Cardinality(Upto(N, durable))
      /\ Promised \in 0..Len(Entries(file)) /\ Len(Entries(file)) \in Nat
  <2>1. Entries(file) \in Seq(SUBSET (1..MaxRecords))
    BY <1>1, EntriesType
  <2>2. Len(Entries(file)) \in Nat
    BY <2>1
  <2> QED
    BY <1>1, <2>2, PromisedIs DEF Promised
<1>3. ASSUME NEW p \in Appenders, Repair(p)
      PROVE  Entries(file)' = Entries(file) /\ Promised' = Promised
  BY <1>3, RepairKeepsTheLog
<1>4. ASSUME NEW p \in Appenders, Write(p)
      PROVE  /\ \/ Entries(file)' = Entries(file)
                \/ \E rec \in 1..MaxRecords : Entries(file)' = Append(Entries(file), {rec})
             /\ Promised' = Promised
  <2>1. PICK n \in 0..LineBytes :
          /\ file' = file \o Piece(record[p], n) /\ GrownTo(file', file, record[p], n)
          /\ Whole(file) /\ record[p] \in 1..MaxRecords
    BY <1>4, WriteGrows DEF LogInv
  <2>2. /\ n # LineBytes => Entries(file') = Entries(file)
        /\ n = LineBytes => Entries(file') = Append(Entries(file), {record[p]})
    BY <1>1, <2>1, GrownSays
  <2>3. /\ file' \in Seq(Byte) /\ Len(file') = Len(file) + n
        /\ SubSeq(file', 1, Len(file)) = file
    BY <2>1 DEF GrownTo
  <2>4. Len(file) \in 0..Len(file')
    BY <1>1, <2>3, LineBytesAssumption
  <2>5. SubSeq(file', 1, durable) = SubSeq(file, 1, durable)
    BY <1>1, <2>3, <2>4, PrefixOfPrefix
  <2>6. Promised' = Promised
    BY <1>4, <2>5 DEF Write, Promised
  <2> QED
    BY <2>1, <2>2, <2>6
<1>5. ASSUME NEW p \in Appenders, Fsync(p)
      PROVE  Entries(file)' = Entries(file) /\ Promised' \in Promised..Len(Entries(file))
  <2>1. file' = file /\ durable' = Len(file)
    BY <1>5 DEF Fsync
  <2>2. SubSeq(file, 1, Len(file)) = file
    BY <1>1, WholePrefix
  <2>3. Promised' = Len(Entries(file))
    BY <2>1, <2>2 DEF Promised
  <2> QED
    BY <1>2, <2>1, <2>3
<1>6. ASSUME PowerLoss
      PROVE  \E kept \in Promised..Len(Entries(file)) :
                /\ Entries(file)' = SubSeq(Entries(file), 1, kept)
                /\ Promised' \in Promised..kept
  <2>1. PICK n \in durable..Len(file) : Cut(n) /\ durable' = n
    BY <1>6, PowerLossCuts DEF LogInv
  <2>2. n \in 0..Len(file) /\ durable <= n /\ file' = SubSeq(file, 1, n)
    BY <1>1, <2>1 DEF Cut
  <2> DEFINE kept == Cardinality(Upto(N, n))
  <2>3. /\ Entries(file') = SubSeq(Entries(file), 1, kept)
        /\ kept \in 0..Len(Entries(file)) /\ Len(Entries(file')) = kept
    BY <2>2, PromisedIs
  <2>4. Promised <= kept
    BY <1>1, <1>2, <2>2, PromisesGrow
  <2>5. SubSeq(file', 1, durable') = file'
    BY <1>1, <2>1, <2>2, PrefixOfPrefix
  <2>6. Promised' = kept
    BY <2>3, <2>5 DEF Promised
  <2> HIDE DEF kept
  <2> QED
    BY <1>2, <2>3, <2>4, <2>6
<1>7. ASSUME UNCHANGED <<file, durable>>
      PROVE  Entries(file)' = Entries(file) /\ Promised' = Promised
  BY <1>7 DEF Promised
<1>8. ASSUME ~PowerLoss, \A p \in Appenders : ~Repair(p) /\ ~Write(p) /\ ~Fsync(p)
      PROVE  UNCHANGED <<file, durable>>
  BY <1>8 DEF Next, AppendStep, Begin, Flock, Scan, Return, Crash, ReadStep, StartReading,
              ReadMore, StopReading, vars
<1> QED
  BY <1>3, <1>4, <1>5, <1>6, <1>7, <1>8

(* The ledger implements the append-only log, under every combination of     *)
(* short writes, crashes and power losses.  (ledger.py 1-30)                 *)
THEOREM LedgerIsAppendOnly == Spec => AppendOnly
<1>1. Init => Log!Init
  <2> SUFFICES ASSUME Init PROVE Log!Init
    OBVIOUS
  <2>1. file = <<>> /\ durable = 0
    BY DEF Init
  <2>2. file \in Seq(Byte) /\ Formed(file) /\ Newlines(file) = {}
    BY <2>1 DEF Formed, Newlines
  <2>3. Entries(file) \in Seq(SUBSET (1..MaxRecords)) /\ Len(Entries(file)) = 0
    BY <2>2, EntriesType, FS_EmptySet
  <2>4. Entries(file) = <<>>
    BY <2>3
  <2>5. SubSeq(file, 1, durable) = file
    BY <2>1
  <2> QED
    BY <2>3, <2>4, <2>5 DEF Log!Init
<1>2. LogInv /\ LogInv' /\ [Next]_vars => [Log!Next]_(Log!vars)
  <2> SUFFICES ASSUME LogInv, LogInv', [Next]_vars PROVE [Log!Next]_(Log!vars)
    OBVIOUS
  <2> DEFINE log == Entries(file)
  <2>1. ASSUME log' = log, Promised' = Promised PROVE UNCHANGED Log!vars
    BY <2>1 DEF Log!vars, Promised
  <2>2. ASSUME NEW rec \in 1..MaxRecords, log' = Append(log, {rec}), Promised' = Promised
        PROVE  Log!Next
    <3>1. Log!Commit({rec})
      BY <2>2 DEF Log!Commit, Promised
    <3> QED
      BY <3>1 DEF Log!Next
  <2>3. ASSUME log' = log, Promised' \in Promised..Len(log) PROVE Log!Next
    BY <2>3 DEF Log!Next, Log!Promise, Promised
  <2>4. ASSUME NEW kept \in Promised..Len(log), log' = SubSeq(log, 1, kept),
               Promised' \in Promised..kept
        PROVE  Log!Next
    BY <2>4 DEF Log!Next, Log!Lose, Promised
  <2> QED
    BY <2>1, <2>2, <2>3, <2>4, LogStep
<1> QED
  BY <1>1, <1>2, LogInvHolds, PTL DEF Spec, AppendOnly, Log!Spec

=============================================================================
