--------------------------- MODULE Framing_proofs ---------------------------
(***************************************************************************)
(* Proofs about Framing, for every limit, every set of messages, every      *)
(* noise and streams of any length.                                         *)
(***************************************************************************)
EXTENDS Framing, SequenceTheorems, TLAPS

(* What has been written stays where it is when more is.                     *)
LEMMA Grown ==
    ASSUME NEW S, NEW s \in Seq(S), NEW t \in Seq(S),
           NEW a \in Nat, NEW b \in Nat, b =< Len(s)
    PROVE  SubSeq(s \o t, a + 1, b) = SubSeq(s, a + 1, b)
  OBVIOUS

(* Two adjoining pieces of a stream make one.                                *)
LEMMA Joined ==
    ASSUME NEW S, NEW s \in Seq(S),
           NEW a \in Nat, NEW b \in Nat, NEW c \in Nat,
           a =< b, b =< c, c =< Len(s)
    PROVE  SubSeq(s, a + 1, b) \o SubSeq(s, b + 1, c) = SubSeq(s, a + 1, c)
  OBVIOUS

(* A piece of a stream is one, and as long as its ends say.                  *)
LEMMA Piece ==
    ASSUME NEW S, NEW s \in Seq(S), NEW a \in Nat, NEW b \in Nat,
           a =< b, b =< Len(s)
    PROVE  SubSeq(s, a + 1, b) \in Seq(S) /\ Len(SubSeq(s, a + 1, b)) = b - a
  OBVIOUS

LEMMA Offset ==
    ASSUME NEW a \in Nat, NEW b \in Nat
    PROVE  a + HEADER_BYTES \in Nat /\ a + HEADER_BYTES =< a + HEADER_BYTES + b
  BY SMT DEF HEADER_BYTES

(* Four bytes declare a number.                                              *)
LEMMA UnpackType ==
    ASSUME NEW h \in Seq(Byte), Len(h) = HEADER_BYTES
    PROVE  Unpack(h) \in Nat
  <1>1. \A i \in 1..Len(h) : h[i] \in Byte
    BY ElementOfSeq
  <1>2. h[1] \in Byte /\ h[2] \in Byte /\ h[3] \in Byte /\ h[4] \in Byte
    BY <1>1 DEF HEADER_BYTES
  <1>3. Byte \subseteq Nat
    BY SMT DEF Byte
  <1>4. h[1] \in Nat /\ h[2] \in Nat /\ h[3] \in Nat /\ h[4] \in Nat
    BY <1>2, <1>3
  <1>5. PICK a \in Nat, b \in Nat, c \in Nat, d \in Nat :
           h[1] = a /\ h[2] = b /\ h[3] = c /\ h[4] = d
    BY <1>4
  <1>6. ((a * 256 + b) * 256 + c) * 256 + d \in Nat
    BY SMT
  <1> QED BY <1>5, <1>6 DEF Unpack

(* A header is four bytes, and declares what was packed into it.             *)
LEMMA PackUnpack ==
    ASSUME NEW n \in Nat, n < 16777216
    PROVE  Pack(n) \in Seq(Byte) /\ Len(Pack(n)) = HEADER_BYTES /\ Unpack(Pack(n)) = n
  <1> DEFINE a == n \div 256
             b == n \div 65536
             c == n \div 16777216
  <1>1. a \in Nat /\ b \in Nat /\ c = 0 /\ b < 256
    BY SMT
  <1>2. b = a \div 256
    BY SMT
  <1>3. n = 256 * a + (n % 256) /\ n % 256 \in 0..255
    BY SMT
  <1>4. b % 256 = b
    BY <1>1, SMT
  <1> HIDE DEF b
  <1>5. a = 256 * b + (a % 256) /\ a % 256 \in 0..255
    BY <1>1, <1>2, SMT
  <1> HIDE DEF a, c
  <1>6. Pack(n) = <<c, b, a % 256, n % 256>>
    BY <1>4 DEF Pack, a, b, c
  <1>7. c \in Byte /\ b \in Byte /\ a % 256 \in Byte /\ n % 256 \in Byte
    BY <1>1, <1>3, <1>5, SMT DEF Byte
  <1>8. Pack(n) \in Seq(Byte) /\ Len(Pack(n)) = HEADER_BYTES
    BY <1>6, <1>7, SMT DEF HEADER_BYTES
  <1>9. Unpack(Pack(n)) = ((c * 256 + b) * 256 + (a % 256)) * 256 + (n % 256)
    BY <1>6 DEF Unpack
  <1> QED BY <1>1, <1>3, <1>5, <1>8, <1>9, SMT

(* What write_frame writes is a header and the body it declares.             *)
LEMMA EncodeType ==
    ASSUME NEW m \in Messages, Fits(m)
    PROVE  /\ m \in Seq(Byte) /\ Len(m) \in 1..MAX_FRAME_BYTES
           /\ Encode(m) \in Seq(Byte)
           /\ Len(Encode(m)) = HEADER_BYTES + Len(m)
  <1>1. m \in Seq(Byte) /\ m # <<>>
    BY MessageAssumption
  <1>2. MAX_FRAME_BYTES \in Nat /\ MAX_FRAME_BYTES < 16777216
    BY LimitAssumption, SMT
  <1>3. Len(m) \in 1..MAX_FRAME_BYTES /\ Len(m) < 16777216
    BY <1>1, <1>2, SMT DEF Fits
  <1>4. Pack(Len(m)) \in Seq(Byte) /\ Len(Pack(Len(m))) = HEADER_BYTES
    BY <1>3, PackUnpack, SMT
  <1> QED BY <1>1, <1>3, <1>4, SMT DEF Encode

-----------------------------------------------------------------------------
(* The inductive invariant: where the reader stands in the stream, and what  *)
(* a verdict has left behind it.                                             *)
Place ==
    /\ Here \in 0..at
    /\ reading = "header" =>
          /\ verdict = "open" /\ Len(parts) =< HEADER_BYTES
          /\ at = Here + Len(parts)
          /\ parts = SubSeq(stream, Here + 1, at)
    /\ reading = "body" =>
          /\ verdict = "open" /\ Len(parts) =< length
          /\ length \in 1..MAX_FRAME_BYTES /\ Declared = length
          /\ at = Here + HEADER_BYTES + Len(parts)
          /\ parts = SubSeq(stream, Here + HEADER_BYTES + 1, at)
    /\ reading = "ended" => verdict # "open"
    /\ verdict = "empty" => Here + HEADER_BYTES =< at
    /\ verdict = "undecodable" => Declared \in Nat /\ Here + HEADER_BYTES + Declared =< at

Inv == TypeOK /\ Place /\ StreamIsCut /\ VerdictIsTrue

LEMMA InitInv == Init => Inv
  <1> SUFFICES ASSUME Init PROVE Inv
    OBVIOUS
  <1>1. TypeOK
    <2>1. cuts \in Seq(Nat) /\ Len(cuts) = Len(frames) + 1
      BY SMT DEF Init
    <2>2. at \in 0..Len(stream) /\ length \in 0..MAX_FRAME_BYTES
      <3>1. MAX_FRAME_BYTES \in Nat
        BY LimitAssumption, SMT
      <3> QED BY <3>1, SMT DEF Init
    <2>3. closed \in BOOLEAN /\ bare \in BOOLEAN /\ torn \in BOOLEAN
      BY Zenon DEF Init
    <2>4. stream \in Seq(Byte) /\ posted \in Seq(Seq(Byte)) /\ parts \in Seq(Byte)
          /\ frames \in Seq(Seq(Byte))
      BY SMT DEF Init
    <2>5. reading \in {"header", "body", "ended"}
          /\ verdict \in {"open", "clean", "short", "empty", "oversize", "undecodable"}
      BY DEF Init
    <2> QED BY <2>1, <2>2, <2>3, <2>4, <2>5, Zenon DEF TypeOK
  <1>2. Place
    BY SMT DEF Init, Place, Here, HEADER_BYTES
  <1>3. StreamIsCut
    BY SMT DEF Init, StreamIsCut
  <1>4. VerdictIsTrue
    BY DEF Init, VerdictIsTrue
  <1> QED BY <1>1, <1>2, <1>3, <1>4 DEF Inv

(* Every frame has a cut on either side.                                     *)
LEMMA CutsAreNat ==
    ASSUME TypeOK, NEW i \in 1..Len(frames)
    PROVE  cuts[i] \in Nat /\ cuts[i + 1] \in Nat
  <1>1. cuts \in Seq(Nat) /\ Len(cuts) = Len(frames) + 1 /\ Len(frames) \in Nat
    BY DEF TypeOK
  <1>2. i \in 1..Len(cuts) /\ i + 1 \in 1..Len(cuts)
    BY <1>1
  <1> QED BY <1>1, <1>2, ElementOfSeq

(* Only an open writer writes, and the stream grows at its end.              *)
LEMMA WriterGrows ==
    ASSUME TypeOK, Write
    PROVE  /\ ~closed /\ UNCHANGED readerVars
           /\ closed' \in BOOLEAN /\ bare' \in BOOLEAN /\ torn' \in BOOLEAN
           /\ posted' \in Seq(Seq(Byte))
           /\ \E t \in Seq(Byte) : stream' = stream \o t
  <1>1. CASE \E m \in Messages : WriteFrame(m)
    <2> PICK m \in Messages : WriteFrame(m)
      BY <1>1
    <2>1. m \in Seq(Byte) /\ Encode(m) \in Seq(Byte)
      BY EncodeType DEF WriteFrame
    <2>2. posted' \in Seq(Seq(Byte))
      BY <2>1, SMT DEF WriteFrame, TypeOK
    <2> QED BY <2>1, <2>2 DEF WriteFrame, TypeOK
  <1>2. CASE \E m \in Messages : Tear(m)
    <2> PICK m \in Messages : Tear(m)
      BY <1>2
    <2>1. Encode(m) \in Seq(Byte) /\ Len(Encode(m)) \in Nat
      BY EncodeType DEF Tear
    <2>2. PICK k \in 1..(Len(Encode(m)) - 1) : stream' = stream \o SubSeq(Encode(m), 1, k)
      BY DEF Tear
    <2>3. SubSeq(Encode(m), 1, k) \in Seq(Byte)
      BY <2>1, <2>2, SMT
    <2> QED BY <2>2, <2>3 DEF Tear, TypeOK
  <1>3. CASE \E b \in Noise : WriteByte(b)
    <2> PICK b \in Noise : WriteByte(b)
      BY <1>3
    <2>1. <<b>> \in Seq(Byte)
      BY NoiseAssumption, SMT
    <2>2. stream' = stream \o <<b>>
      BY SMT DEF WriteByte, TypeOK
    <2> QED BY <2>1, <2>2 DEF WriteByte, TypeOK
  <1>4. CASE Close
    <2>1. <<>> \in Seq(Byte) /\ stream' = stream \o <<>>
      BY <1>4, SMT DEF Close, TypeOK
    <2> QED BY <1>4, <2>1 DEF Close, TypeOK
  <1> QED BY <1>1, <1>2, <1>3, <1>4 DEF Write

(* A step of the writer disturbs nothing the reader has seen.                *)
LEMMA WriterKeeps == ASSUME Inv, Write PROVE Inv'
  <1> USE DEF HEADER_BYTES
  <1>1. TypeOK /\ Place /\ StreamIsCut /\ VerdictIsTrue
    BY DEF Inv
  <1>2. /\ ~closed /\ UNCHANGED readerVars
        /\ closed' \in BOOLEAN /\ bare' \in BOOLEAN /\ torn' \in BOOLEAN
        /\ posted' \in Seq(Seq(Byte))
    BY <1>1, WriterGrows
  <1>3. PICK t \in Seq(Byte) : stream' = stream \o t
    BY <1>1, WriterGrows
  <1>4. /\ stream \in Seq(Byte) /\ stream' \in Seq(Byte)
        /\ Len(stream) \in Nat /\ Len(stream') \in Nat /\ Len(stream) =< Len(stream')
        /\ at \in Nat /\ at =< Len(stream)
        /\ Here \in Nat /\ Here =< at /\ Here + HEADER_BYTES \in Nat
    BY <1>1, <1>3, SMT DEF TypeOK, Place
  <1>5. ASSUME NEW p \in Nat, NEW q \in Nat, q =< at
        PROVE  SubSeq(stream', p + 1, q) = SubSeq(stream, p + 1, q)
    <2>1. q =< Len(stream)
      <3>1. at \in Nat /\ at =< Len(stream) /\ Len(stream) \in Nat
        BY <1>4
      <3> QED BY <1>5, <3>1, SMT
    <2> QED BY <1>3, <1>4, <2>1, Grown
  <1>6. Here' = Here
    BY <1>2 DEF Here, readerVars
  <1>7. Here + HEADER_BYTES =< at => Declared' = Declared
    <2> HAVE Here + HEADER_BYTES =< at
    <2>1. SubSeq(stream', Here + 1, Here + HEADER_BYTES)
            = SubSeq(stream, Here + 1, Here + HEADER_BYTES)
      BY <1>4, <1>5
    <2> QED BY <1>6, <2>1 DEF Declared, HeaderAt
  <1>8. TypeOK'
    <2>1. at' \in 0..Len(stream')
      BY <1>2, <1>4, SMT DEF readerVars
    <2> QED BY <1>1, <1>2, <1>4, <2>1, Zenon DEF TypeOK, readerVars
  <1>9. Place'
    <2>1. SubSeq(stream', Here + 1, at) = SubSeq(stream, Here + 1, at)
      <3>1. at =< at
        BY <1>4, SMT
      <3> QED BY <1>4, <1>5, <3>1
    <2>2. reading = "body" => /\ Here + HEADER_BYTES =< at
                              /\ SubSeq(stream', Here + HEADER_BYTES + 1, at)
                                   = SubSeq(stream, Here + HEADER_BYTES + 1, at)
      <3> HAVE reading = "body"
      <3>1. Here + HEADER_BYTES =< at /\ at =< at
        BY <1>1, <1>4, SMT DEF Place, TypeOK
      <3> QED BY <1>4, <1>5, <3>1
    <2>3. verdict = "undecodable" => Here + HEADER_BYTES =< at
      BY <1>1, <1>4, SMT DEF Place
    <2> QED BY <1>1, <1>2, <1>6, <1>7, <2>1, <2>2, <2>3 DEF Place, readerVars
  <1>10. StreamIsCut'
    <2>1. cuts[1] = 0 /\ UNCHANGED <<cuts, frames, at>>
      BY <1>1, <1>2 DEF StreamIsCut, readerVars
    <2>2. ASSUME NEW i \in 1..Len(frames) PROVE FrameIsCut(i)'
      <3> DEFINE n == cuts[i + 1] - cuts[i] - HEADER_BYTES
      <3>1. FrameIsCut(i)
        BY <1>1 DEF StreamIsCut
      <3>2. cuts[i] \in Nat /\ cuts[i + 1] \in Nat /\ MAX_FRAME_BYTES \in Nat
        BY <1>1, LimitAssumption, CutsAreNat
      <3>3. n \in Nat /\ cuts[i] + HEADER_BYTES + n = cuts[i + 1] /\ cuts[i + 1] =< at
        BY <3>1, <3>2, SMT DEF FrameIsCut
      <3>4. cuts[i] + HEADER_BYTES \in Nat /\ cuts[i] + HEADER_BYTES =< at
        <4>1. ASSUME NEW c \in Nat, NEW k \in Nat, c + HEADER_BYTES + k =< at
              PROVE  c + HEADER_BYTES \in Nat /\ c + HEADER_BYTES =< at
          BY <1>4, <4>1, SMT
        <4>2. cuts[i] + HEADER_BYTES + n =< at
          BY <3>3
        <4> HIDE DEF n
        <4> QED BY <3>2, <3>3, <4>1, <4>2
      <3>5. SubSeq(stream', cuts[i] + 1, cuts[i] + HEADER_BYTES)
              = SubSeq(stream, cuts[i] + 1, cuts[i] + HEADER_BYTES)
        BY <1>5, <3>2, <3>4
      <3>6. SubSeq(stream', cuts[i] + HEADER_BYTES + 1, cuts[i] + HEADER_BYTES + n)
              = SubSeq(stream, cuts[i] + HEADER_BYTES + 1, cuts[i] + HEADER_BYTES + n)
        <4>1. cuts[i] + HEADER_BYTES + n \in Nat /\ cuts[i] + HEADER_BYTES + n =< at
          BY <3>2, <3>3
        <4> QED BY <1>5, <3>4, <4>1
      <3> QED BY <2>1, <3>1, <3>5, <3>6 DEF FrameIsCut, HeaderAt, BodyAt
    <2> QED BY <2>1, <2>2 DEF StreamIsCut
  <1>11. VerdictIsTrue'
    <2>1. verdict # "clean" /\ verdict # "short"
      BY <1>1, <1>2 DEF VerdictIsTrue
    <2>2. verdict = "empty" => Declared' = Declared
      BY <1>1, <1>7 DEF Place
    <2>3. verdict = "oversize" => Declared' = Declared
      BY <1>1, <1>4, <1>7, SMT DEF VerdictIsTrue
    <2>4. verdict = "undecodable" => BodyAt(Here, Declared)' = BodyAt(Here, Declared)
      <3> HAVE verdict = "undecodable"
      <3>1. Declared \in Nat /\ Here + HEADER_BYTES + Declared =< at
        BY <1>1 DEF Place
      <3>2. Declared' = Declared
        BY <1>4, <1>7, <3>1, SMT
      <3>3. SubSeq(stream', Here + HEADER_BYTES + 1, Here + HEADER_BYTES + Declared)
              = SubSeq(stream, Here + HEADER_BYTES + 1, Here + HEADER_BYTES + Declared)
        <4>1. Here + HEADER_BYTES \in Nat /\ Here + HEADER_BYTES + Declared \in Nat
          BY <1>4, <3>1, SMT
        <4> QED BY <1>5, <3>1, <4>1
      <3> QED BY <1>6, <3>2, <3>3 DEF BodyAt
    <2> QED BY <1>1, <1>2, <1>6, <2>1, <2>2, <2>3, <2>4 DEF VerdictIsTrue, readerVars
  <1> QED BY <1>8, <1>9, <1>10, <1>11 DEF Inv

-----------------------------------------------------------------------------
(* A read takes the next bytes of the stream, and no more than are wanted.   *)
LEMMA ReadSomeKeeps == ASSUME Inv, ReadSome, UNCHANGED writerVars PROVE Inv'
  <1>1. TypeOK /\ Place /\ StreamIsCut /\ VerdictIsTrue
    BY DEF Inv
  <1>2. PICK k \in 1..Remaining :
           /\ at + k =< Len(stream) /\ at' = at + k
           /\ parts' = parts \o SubSeq(stream, at + 1, at + k)
    BY DEF ReadSome
  <1>3. /\ reading # "ended" /\ verdict = "open"
        /\ UNCHANGED <<reading, length, frames, cuts, verdict, writerVars>>
    BY <1>1 DEF ReadSome, Place, TypeOK
  <1>4. /\ Here' = Here /\ Declared' = Declared
    BY <1>3 DEF Here, Declared, HeaderAt, writerVars
  <1>5. /\ at \in Nat /\ k \in Nat /\ at + k \in Nat /\ at =< at + k
        /\ Len(stream) \in Nat /\ stream \in Seq(Byte)
        /\ Here \in Nat /\ Here =< at /\ Len(parts) \in Nat
    BY <1>1, <1>2, SMT DEF TypeOK, Place, Remaining, Wanted, HEADER_BYTES
  <1>6. /\ SubSeq(stream, at + 1, at + k) \in Seq(Byte)
        /\ Len(SubSeq(stream, at + 1, at + k)) = k
    BY <1>2, <1>5, Piece, SMT
  <1>7. parts' \in Seq(Byte) /\ Len(parts') = Len(parts) + k
    BY <1>1, <1>2, <1>6, SMT DEF TypeOK
  <1>8. TypeOK'
    <2>1. at' \in 0..Len(stream)
      BY <1>2, <1>5, SMT
    <2> QED BY <1>1, <1>3, <1>7, <2>1, Zenon DEF TypeOK, writerVars
  <1>9. Place'
    <2>1. Here \in 0..at'
      BY <1>2, <1>5, SMT
    <2>2. CASE reading = "header"
      <3>1. at = Here + Len(parts) /\ parts = SubSeq(stream, Here + 1, at)
        BY <1>1, <2>2 DEF Place
      <3>2. parts' = SubSeq(stream, Here + 1, at')
        <4>1. SubSeq(stream, Here + 1, at) \o SubSeq(stream, at + 1, at + k)
                = SubSeq(stream, Here + 1, at + k)
          BY <1>2, <1>5, Joined
        <4> QED BY <1>2, <3>1, <4>1
      <3>3. Len(parts') =< HEADER_BYTES /\ at' = Here + Len(parts')
        BY <1>2, <1>5, <1>7, <2>2, <3>1, SMT DEF Remaining, Wanted, HEADER_BYTES
      <3> QED BY <1>3, <1>4, <2>1, <2>2, <3>2, <3>3, Zenon DEF Place, writerVars
    <2>3. CASE reading = "body"
      <3>1. /\ at = Here + HEADER_BYTES + Len(parts)
            /\ parts = SubSeq(stream, Here + HEADER_BYTES + 1, at)
            /\ length \in 1..MAX_FRAME_BYTES /\ Declared = length
        BY <1>1, <2>3 DEF Place
      <3>2. Here + HEADER_BYTES \in Nat /\ Here + HEADER_BYTES =< at
        BY <1>5, <3>1, Offset
      <3>3. parts' = SubSeq(stream, Here + HEADER_BYTES + 1, at')
        <4>1. SubSeq(stream, Here + HEADER_BYTES + 1, at) \o SubSeq(stream, at + 1, at + k)
                = SubSeq(stream, Here + HEADER_BYTES + 1, at + k)
          <5>1. ASSUME NEW h \in Nat, h =< at
                PROVE  SubSeq(stream, h + 1, at) \o SubSeq(stream, at + 1, at + k)
                         = SubSeq(stream, h + 1, at + k)
            BY <1>2, <1>5, <5>1, Joined
          <5> QED BY <3>2, <5>1
        <4> QED BY <1>2, <3>1, <4>1
      <3>4. Len(parts') =< length /\ at' = Here + HEADER_BYTES + Len(parts')
        <4>1. k \in 1..(length - Len(parts)) /\ length \in Nat
          BY <1>1, <1>2, <2>3, LimitAssumption, SMT DEF Remaining, Wanted, TypeOK
        <4>2. Len(parts) + k =< length
          BY <1>5, <4>1, SMT
        <4>3. at + k = Here + HEADER_BYTES + (Len(parts) + k)
          <5>1. ASSUME NEW h \in Nat, NEW l \in Nat
                PROVE  (h + HEADER_BYTES + l) + k = h + HEADER_BYTES + (l + k)
            BY <1>5, SMT DEF HEADER_BYTES
          <5> QED BY <1>5, <3>1, <5>1
        <4> QED BY <1>2, <1>7, <4>2, <4>3
      <3> QED BY <1>3, <1>4, <2>1, <2>3, <3>1, <3>3, <3>4, Zenon DEF Place, writerVars
    <2> QED BY <1>1, <1>3, <2>2, <2>3 DEF TypeOK
  <1>10. StreamIsCut'
    <2>1. ASSUME NEW i \in 1..Len(frames) PROVE FrameIsCut(i)'
      <3>1. FrameIsCut(i)
        BY <1>1 DEF StreamIsCut
      <3>2. cuts[i + 1] \in Nat
        BY <1>1, CutsAreNat
      <3>3. cuts[i + 1] =< at'
        BY <1>2, <1>5, <3>1, <3>2, SMT DEF FrameIsCut
      <3> QED BY <1>3, <3>1, <3>3 DEF FrameIsCut, HeaderAt, BodyAt, writerVars
    <2> QED BY <1>1, <1>3, <2>1 DEF StreamIsCut
  <1>11. VerdictIsTrue'
    BY <1>3 DEF VerdictIsTrue
  <1> QED BY <1>8, <1>9, <1>10, <1>11 DEF Inv

(* The end of the stream is a verdict about the bytes after the last frame.  *)
LEMMA ReadEOFKeeps == ASSUME Inv, ReadEOF, UNCHANGED writerVars PROVE Inv'
  <1>1. TypeOK /\ Place /\ StreamIsCut /\ VerdictIsTrue
    BY DEF Inv
  <1>2. /\ reading # "ended" /\ closed /\ at = Len(stream) /\ Remaining > 0
        /\ reading' = "ended"
        /\ verdict' = IF reading = "header" /\ parts = <<>> THEN "clean" ELSE "short"
        /\ UNCHANGED <<at, parts, length, frames, cuts, writerVars>>
    BY DEF ReadEOF, End, AtEOF
  <1>3. /\ Here' = Here /\ Declared' = Declared
    BY <1>2 DEF Here, Declared, HeaderAt, writerVars
  <1>4. Len(stream) \in Nat /\ Here \in Nat /\ Here =< at /\ Len(parts) \in Nat
    BY <1>1, SMT DEF TypeOK, Place
  <1>5. TypeOK'
    BY <1>1, <1>2, Zenon DEF TypeOK, writerVars
  <1>6. Place'
    BY <1>1, <1>2, <1>3 DEF Place
  <1>7. StreamIsCut'
    BY <1>1, <1>2 DEF StreamIsCut, FrameIsCut, HeaderAt, BodyAt, writerVars
  <1>8. VerdictIsTrue'
    <2>1. CASE reading = "header" /\ parts = <<>>
      <3>1. Here = Len(stream)
        BY <1>1, <1>2, <1>4, <2>1, SMT DEF Place
      <3> QED BY <1>2, <1>3, <2>1, <3>1 DEF VerdictIsTrue, writerVars
    <2>2. CASE reading = "header" /\ parts # <<>>
      <3>1. Len(parts) > 0
        BY <1>1, <2>2, SMT DEF TypeOK
      <3>2. Len(stream) = Here + Len(parts) /\ Len(parts) < HEADER_BYTES
        BY <1>1, <1>2, <1>4, <2>2, SMT DEF Place, Remaining, Wanted, HEADER_BYTES
      <3>3. Here < Len(stream) /\ ~(Here + HEADER_BYTES =< Len(stream))
        BY <1>4, <3>1, <3>2, SMT DEF HEADER_BYTES
      <3> QED BY <1>2, <1>3, <2>2, <3>3 DEF VerdictIsTrue, writerVars
    <2>3. CASE reading = "body"
      <3>1. /\ Len(stream) = Here + HEADER_BYTES + Len(parts) /\ Declared = length
            /\ length \in Nat /\ Len(parts) < length
        BY <1>1, <1>2, <1>4, <2>3, LimitAssumption, SMT
           DEF Place, Remaining, Wanted, TypeOK, HEADER_BYTES
      <3>2. Here < Len(stream) /\ Len(stream) < Here + HEADER_BYTES + Declared
        <4>1. ASSUME NEW h \in Nat, NEW l \in Nat, NEW d \in Nat, l < d
              PROVE  h < h + HEADER_BYTES + l /\ h + HEADER_BYTES + l < h + HEADER_BYTES + d
          BY <4>1, SMT DEF HEADER_BYTES
        <4> QED BY <1>4, <3>1, <4>1
      <3> QED BY <1>2, <1>3, <2>3, <3>2 DEF VerdictIsTrue, writerVars
    <2> QED BY <1>1, <1>2, <2>1, <2>2, <2>3 DEF TypeOK
  <1> QED BY <1>5, <1>6, <1>7, <1>8 DEF Inv

(* Four bytes read are the header of the next frame.                         *)
LEMMA HeaderReadKeeps == ASSUME Inv, HeaderRead, UNCHANGED writerVars PROVE Inv'
  <1>1. TypeOK /\ Place /\ StreamIsCut /\ VerdictIsTrue
    BY DEF Inv
  <1>2. /\ reading = "header" /\ verdict = "open" /\ Len(parts) = HEADER_BYTES
        /\ UNCHANGED <<at, frames, cuts, writerVars>>
    <2>1. Len(parts) \in Nat
      BY <1>1, SMT DEF TypeOK
    <2>2. Len(parts) = HEADER_BYTES
      BY <2>1, SMT DEF HeaderRead, Remaining, Wanted, HEADER_BYTES
    <2> QED BY <1>1, <2>2 DEF HeaderRead, End, Place
  <1>3. /\ Here' = Here /\ Declared' = Declared
    BY <1>2 DEF Here, Declared, HeaderAt, writerVars
  <1>4. Here \in Nat /\ at \in Nat /\ Here =< at
    BY <1>1, SMT DEF TypeOK, Place
  <1>5. parts = HeaderAt(Here) /\ at = Here + HEADER_BYTES
    BY <1>1, <1>2 DEF Place, HeaderAt
  <1>6. Unpack(parts) = Declared /\ Declared \in Nat
    BY <1>1, <1>2, <1>5, UnpackType DEF Declared, TypeOK
  <1>7. StreamIsCut'
    BY <1>1, <1>2 DEF StreamIsCut, FrameIsCut, HeaderAt, BodyAt, writerVars
  <1>8. CASE Declared = 0
    <2>1. reading' = "ended" /\ verdict' = "empty" /\ UNCHANGED <<parts, length>>
      BY <1>6, <1>8 DEF HeaderRead, End
    <2>2. TypeOK'
      BY <1>1, <1>2, <2>1, Zenon DEF TypeOK, writerVars
    <2>3. Place'
      <3>1. at =< at
        BY <1>4, SMT
      <3> QED BY <1>1, <1>2, <1>3, <1>5, <2>1, <3>1 DEF Place
    <2>4. VerdictIsTrue'
      BY <1>3, <1>8, <2>1 DEF VerdictIsTrue
    <2> QED BY <1>7, <2>2, <2>3, <2>4 DEF Inv
  <1>9. CASE Declared > MAX_FRAME_BYTES
    <2>1. reading' = "ended" /\ verdict' = "oversize" /\ UNCHANGED <<parts, length>>
      <3>1. Declared # 0
        BY <1>6, <1>9, LimitAssumption, SMT
      <3> QED BY <1>6, <1>9, <3>1 DEF HeaderRead, End
    <2>2. TypeOK'
      BY <1>1, <1>2, <2>1, Zenon DEF TypeOK, writerVars
    <2>3. Place'
      BY <1>1, <1>2, <1>3, <2>1 DEF Place
    <2>4. VerdictIsTrue'
      BY <1>2, <1>3, <1>5, <1>9, <2>1 DEF VerdictIsTrue
    <2> QED BY <1>7, <2>2, <2>3, <2>4 DEF Inv
  <1>10. CASE ~(Declared = 0) /\ ~(Declared > MAX_FRAME_BYTES)
    <2>1. /\ reading' = "body" /\ parts' = <<>> /\ length' = Declared
          /\ verdict' = "open"
      BY <1>2, <1>6, <1>10 DEF HeaderRead
    <2>2. Declared \in 1..MAX_FRAME_BYTES /\ Declared \in 0..MAX_FRAME_BYTES
      BY <1>6, <1>10, LimitAssumption, SMT
    <2>3. TypeOK'
      <3>1. <<>> \in Seq(Byte)
        BY SMT
      <3> QED BY <1>1, <1>2, <2>1, <2>2, <3>1, Zenon DEF TypeOK, writerVars
    <2>4. Place'
      <3>1. Len(<<>>) = 0 /\ 0 =< Declared
        BY <2>2, SMT
      <3>2. at = Here + HEADER_BYTES + 0
        BY <1>4, <1>5, SMT DEF HEADER_BYTES
      <3>3. <<>> = SubSeq(stream, Here + HEADER_BYTES + 1, at)
        <4>1. <<>> = SubSeq(stream, at + 1, at)
          BY <1>1, <1>4, SMT DEF TypeOK
        <4> QED BY <1>5, <4>1
      <3> QED BY <1>1, <1>2, <1>3, <2>1, <2>2, <3>1, <3>2, <3>3 DEF Place, writerVars
    <2>5. VerdictIsTrue'
      BY <2>1 DEF VerdictIsTrue
    <2> QED BY <1>7, <2>3, <2>4, <2>5 DEF Inv
  <1> QED BY <1>8, <1>9, <1>10

(* A body read whole is the one its header declared, and the next header     *)
(* begins where it ends.                                                     *)
LEMMA BodyReadKeeps == ASSUME Inv, BodyRead, UNCHANGED writerVars PROVE Inv'
  <1>1. TypeOK /\ Place /\ StreamIsCut /\ VerdictIsTrue
    BY DEF Inv
  <1>2. /\ reading = "body" /\ verdict = "open" /\ Len(parts) = length
        /\ Declared = length /\ length \in Nat /\ length \in 1..MAX_FRAME_BYTES
        /\ parts \in Seq(Byte) /\ UNCHANGED <<at, length, writerVars>>
    <2>1. Len(parts) \in Nat /\ length \in Nat
      BY <1>1, LimitAssumption, SMT DEF TypeOK
    <2>2. reading = "body" /\ Remaining = 0
      BY DEF BodyRead
    <2>3. Len(parts) = length
      BY <1>1, <2>1, <2>2, SMT DEF Remaining, Wanted, Place
    <2> QED BY <1>1, <2>1, <2>2, <2>3 DEF BodyRead, End, Place, TypeOK
  <1>3. Here \in Nat /\ at \in Nat /\ Here =< at /\ Here + HEADER_BYTES \in Nat
    BY <1>1, SMT DEF TypeOK, Place, HEADER_BYTES
  <1>4. parts = BodyAt(Here, length) /\ at = Here + HEADER_BYTES + length
    BY <1>1, <1>2 DEF Place, BodyAt
  <1>5. CASE parts \notin Messages
    <2>1. /\ reading' = "ended" /\ verdict' = "undecodable"
          /\ UNCHANGED <<parts, frames, cuts>>
      BY <1>5 DEF BodyRead, End
    <2>2. Here' = Here /\ Declared' = Declared /\ BodyAt(Here, Declared)' = BodyAt(Here, Declared)
      BY <1>2, <2>1 DEF Here, Declared, HeaderAt, BodyAt, writerVars
    <2>3. TypeOK'
      BY <1>1, <1>2, <2>1, Zenon DEF TypeOK, writerVars
    <2>4. Place'
      <3>1. Here + HEADER_BYTES + Declared =< at
        BY <1>2, <1>3, <1>4, SMT
      <3> QED BY <1>1, <1>2, <2>1, <2>2, <3>1 DEF Place
    <2>5. StreamIsCut'
      BY <1>1, <1>2, <2>1 DEF StreamIsCut, FrameIsCut, HeaderAt, BodyAt, writerVars
    <2>6. VerdictIsTrue'
      BY <1>2, <1>4, <1>5, <2>1, <2>2 DEF VerdictIsTrue
    <2> QED BY <2>3, <2>4, <2>5, <2>6 DEF Inv
  <1>6. CASE parts \in Messages
    <2>1. /\ reading' = "header" /\ verdict' = "open" /\ parts' = <<>>
          /\ frames' = Append(frames, parts) /\ cuts' = Append(cuts, at)
      BY <1>2, <1>6 DEF BodyRead
    <2>2. /\ frames \in Seq(Seq(Byte)) /\ cuts \in Seq(Nat)
          /\ Len(frames) \in Nat /\ Len(cuts) = Len(frames) + 1
      BY <1>1, SMT DEF TypeOK
    <2>3. /\ frames' \in Seq(Seq(Byte)) /\ cuts' \in Seq(Nat)
          /\ Len(frames') = Len(frames) + 1 /\ Len(cuts') = Len(frames) + 2
      BY <1>2, <1>3, <2>1, <2>2, SMT
    <2>4. /\ frames'[Len(frames) + 1] = parts
          /\ \A i \in 1..Len(frames) : frames'[i] = frames[i]
      BY <1>2, <2>1, <2>2, SMT
    <2>5. /\ cuts'[Len(frames) + 2] = at
          /\ \A i \in 1..(Len(frames) + 1) : cuts'[i] = cuts[i]
      BY <1>3, <2>1, <2>2, SMT
    <2>6. Here' = at
      BY <2>3, <2>5 DEF Here
    <2>7. TypeOK'
      <3>1. Len(cuts') = Len(frames') + 1
        BY <2>2, <2>3, SMT
      <3>2. parts' \in Seq(Byte)
        BY <2>1, SMT
      <3> QED BY <1>1, <1>2, <2>1, <2>3, <3>1, <3>2, Zenon DEF TypeOK, writerVars
    <2>8. Place'
      <3>1. Len(<<>>) = 0 /\ 0 =< HEADER_BYTES /\ at = at + 0 /\ at \in 0..at
        BY <1>3, SMT DEF HEADER_BYTES
      <3>2. <<>> = SubSeq(stream, at + 1, at)
        BY <1>1, <1>3, SMT DEF TypeOK
      <3> QED BY <1>2, <2>1, <2>6, <3>1, <3>2 DEF Place, writerVars
    <2>9. StreamIsCut'
      <3>1. cuts'[1] = 0
        BY <1>1, <2>2, <2>5, SMT DEF StreamIsCut
      <3>2. ASSUME NEW i \in 1..Len(frames) PROVE FrameIsCut(i)'
        <4>1. i \in 1..(Len(frames) + 1) /\ i + 1 \in 1..(Len(frames) + 1)
          BY <2>2, <3>2, SMT
        <4>2. cuts'[i] = cuts[i] /\ cuts'[i + 1] = cuts[i + 1] /\ frames'[i] = frames[i]
          BY <2>4, <2>5, <3>2, <4>1
        <4>3. FrameIsCut(i)
          BY <1>1, <3>2 DEF StreamIsCut
        <4> QED BY <1>2, <4>2, <4>3 DEF FrameIsCut, HeaderAt, BodyAt, writerVars
      <3>3. ASSUME NEW i, i = Len(frames) + 1 PROVE FrameIsCut(i)'
        <4>1. cuts'[i] = Here /\ cuts'[i + 1] = at
          BY <2>2, <2>5, <3>3, SMT DEF Here
        <4>2. at - Here - HEADER_BYTES = length
          BY <1>2, <1>3, <1>4, SMT DEF HEADER_BYTES
        <4>3. at =< at
          BY <1>3, SMT
        <4> QED BY <1>2, <1>4, <1>6, <2>4, <3>3, <4>1, <4>2, <4>3
                DEF FrameIsCut, HeaderAt, BodyAt, Declared, writerVars
      <3>4. ASSUME NEW i \in 1..Len(frames') PROVE i \in 1..Len(frames) \/ i = Len(frames) + 1
        BY <2>2, <2>3, <3>4, SMT
      <3> QED BY <3>1, <3>2, <3>3, <3>4 DEF StreamIsCut
    <2>10. VerdictIsTrue'
      BY <2>1 DEF VerdictIsTrue
    <2> QED BY <2>7, <2>8, <2>9, <2>10 DEF Inv
  <1> QED BY <1>5, <1>6

LEMMA NextInv == ASSUME Inv, [Next]_vars PROVE Inv'
  <1>1. CASE Write
    BY <1>1, WriterKeeps
  <1>2. CASE Read
    BY <1>2, ReadSomeKeeps, ReadEOFKeeps, HeaderReadKeeps, BodyReadKeeps DEF Read
  <1>3. CASE UNCHANGED vars
    <2>1. TypeOK'
      BY <1>3 DEF Inv, TypeOK, vars, writerVars, readerVars
    <2>2. Place'
      BY <1>3 DEF Inv, Place, Here, Declared, HeaderAt, BodyAt, vars, writerVars, readerVars
    <2>3. VerdictIsTrue'
      BY <1>3 DEF Inv, VerdictIsTrue, Here, Declared, HeaderAt, BodyAt, vars, writerVars,
                  readerVars
    <2>4. StreamIsCut'
      BY <1>3 DEF Inv, StreamIsCut, FrameIsCut, HeaderAt, BodyAt, vars, writerVars,
                  readerVars
    <2> QED BY <2>1, <2>2, <2>3, <2>4 DEF Inv
  <1> QED BY <1>1, <1>2, <1>3 DEF Next

(* Spec => []Inv: the invariant the two theorems below are parts of.         *)
THEOREM InvHolds == Spec => []Inv
  BY InitInv, NextInv, PTL DEF Spec

(* However the bytes arrive, and whatever they are, what read_frame has      *)
(* returned is the stream cut at its declared lengths (protocol.py:54).      *)
THEOREM FramesAreCut == Spec => []StreamIsCut
  <1>1. Inv => StreamIsCut
    BY DEF Inv
  <1> QED BY <1>1, InvHolds, PTL

(* The way the conversation ended is what the bytes after the last frame     *)
(* say: a fragment is never a clean end, an oversized body is never read     *)
(* (protocol.py:8).                                                          *)
THEOREM VerdictsAreTrue == Spec => []VerdictIsTrue
  <1>1. Inv => VerdictIsTrue
    BY DEF Inv
  <1> QED BY <1>1, InvHolds, PTL

-----------------------------------------------------------------------------
(* Where the messages lie.  `starts` holds the place each of them begins at, *)
(* and the place the bytes after the last one do.                            *)
MessageAt(starts, i) ==
    /\ posted[i] \in Messages /\ Fits(posted[i])
    /\ starts[i + 1] = starts[i] + HEADER_BYTES + Len(posted[i])
    /\ starts[i + 1] =< Len(stream)
    /\ Unpack(HeaderAt(starts[i])) = Len(posted[i])
    /\ BodyAt(starts[i], Len(posted[i])) = posted[i]

(* What a writer killed inside write_frame leaves at p: part of a frame.     *)
FragmentAt(p) ==
    /\ closed /\ p < Len(stream)
    /\ p + HEADER_BYTES =< Len(stream) =>
          /\ Unpack(HeaderAt(p)) \in 1..MAX_FRAME_BYTES
          /\ Len(stream) < p + HEADER_BYTES + Unpack(HeaderAt(p))

Laid(starts) ==
    /\ starts \in Seq(Nat) /\ Len(starts) = Len(posted) + 1 /\ starts[1] = 0
    /\ \A i \in 1..Len(posted) : MessageAt(starts, i)
    /\ torn => FragmentAt(starts[Len(posted) + 1])
    /\ ~torn => starts[Len(posted) + 1] = Len(stream)

(* The reader is in step with them.                                          *)
InStep(starts) ==
    /\ Len(frames) =< Len(posted)
    /\ \A i \in 1..(Len(frames) + 1) : cuts[i] = starts[i]
    /\ \A i \in 1..Len(frames) : frames[i] = posted[i]
    /\ verdict \in {"open", "clean", "short"} /\ (verdict = "short" => torn)
    /\ verdict = "clean" => ~torn /\ Len(frames) = Len(posted)

Arrival == bare \/ \E starts \in Seq(Nat) : Laid(starts) /\ InStep(starts)

(* A frame that was written whole declares its own body.                     *)
LEMMA EncodeDeclares ==
    ASSUME NEW m \in Messages, Fits(m)
    PROVE  /\ SubSeq(Encode(m), 1, HEADER_BYTES) = Pack(Len(m))
           /\ SubSeq(Encode(m), HEADER_BYTES + 1, HEADER_BYTES + Len(m)) = m
           /\ Unpack(Pack(Len(m))) = Len(m)
  <1>1. m \in Seq(Byte) /\ Len(m) \in 1..MAX_FRAME_BYTES
    BY EncodeType
  <1>2. Len(m) \in Nat /\ Len(m) < 16777216
    BY <1>1, LimitAssumption, SMT
  <1>3. /\ Pack(Len(m)) \in Seq(Byte) /\ Len(Pack(Len(m))) = HEADER_BYTES
        /\ Unpack(Pack(Len(m))) = Len(m)
    BY <1>2, PackUnpack
  <1>4. ASSUME NEW h \in Seq(Byte), NEW b \in Seq(Byte), NEW k \in Nat, Len(h) = k
        PROVE  SubSeq(h \o b, 1, k) = h /\ SubSeq(h \o b, k + 1, k + Len(b)) = b
    BY <1>4
  <1>5. HEADER_BYTES \in Nat
    BY SMT DEF HEADER_BYTES
  <1> QED BY <1>1, <1>3, <1>4, <1>5 DEF Encode

(* A piece of what is appended, seen in the stream it is appended to.        *)
LEMMA Appended ==
    ASSUME NEW S, NEW s \in Seq(S), NEW t \in Seq(S), NEW a \in Nat, NEW b \in Nat,
           b =< Len(t)
    PROVE  SubSeq(s \o t, Len(s) + a + 1, Len(s) + b) = SubSeq(t, a + 1, b)
  OBVIOUS

(* What is appended comes last, and the rest is as it was.                   *)
LEMMA Appending ==
    ASSUME NEW S, NEW s \in Seq(S), NEW e \in S
    PROVE  /\ Append(s, e) \in Seq(S) /\ Len(Append(s, e)) = Len(s) + 1
           /\ Append(s, e)[Len(s) + 1] = e
           /\ \A i \in 1..Len(s) : Append(s, e)[i] = s[i]
  OBVIOUS

(* A piece of a beginning is a piece of the whole.                           *)
LEMMA PrefixPiece ==
    ASSUME NEW S, NEW s \in Seq(S), NEW k \in Nat, k =< Len(s),
           NEW a \in Nat, NEW b \in Nat, b =< k
    PROVE  SubSeq(SubSeq(s, 1, k), a + 1, b) = SubSeq(s, a + 1, b)
  OBVIOUS

(* The reader's next header, when its bytes are there, is that of a message, *)
(* or of the fragment: it declares no empty and no oversized body.  And when *)
(* the declared body is there too, they are the next message.                *)
LEMMA NextIsMessage ==
    ASSUME Inv, NEW starts \in Seq(Nat), Laid(starts), InStep(starts),
           Here + HEADER_BYTES =< Len(stream)
    PROVE  /\ Declared \in 1..MAX_FRAME_BYTES
           /\ Here + HEADER_BYTES + Declared =< Len(stream) =>
                 /\ Len(frames) + 1 \in 1..Len(posted)
                 /\ Declared = Len(posted[Len(frames) + 1])
                 /\ BodyAt(Here, Declared) = posted[Len(frames) + 1]
           /\ Len(frames) < Len(posted) =>
                 Here + HEADER_BYTES + Declared =< Len(stream)
  <1>1. /\ Len(frames) \in Nat /\ Len(posted) \in Nat /\ Len(stream) \in Nat
        /\ Len(cuts) = Len(frames) + 1 /\ Len(frames) =< Len(posted)
    BY SMT DEF Inv, TypeOK, InStep
  <1>2. Here = starts[Len(frames) + 1]
    BY <1>1, SMT DEF InStep, Here
  <1>3. Here \in Nat
    BY SMT DEF Inv, TypeOK, Place
  <1>4. CASE Len(frames) < Len(posted)
    <2> DEFINE n == Len(frames) + 1
    <2>1. n \in 1..Len(posted)
      BY <1>1, <1>4, SMT
    <2>2. MessageAt(starts, n) /\ starts[n] = Here
      BY <1>2, <2>1 DEF Laid
    <2> HIDE DEF n
    <2>3. Declared = Len(posted[n]) /\ BodyAt(Here, Declared) = posted[n]
      BY <2>2 DEF MessageAt, Declared
    <2>4. Declared \in 1..MAX_FRAME_BYTES
      BY <2>2, <2>3, EncodeType DEF MessageAt
    <2>5. Here + HEADER_BYTES + Declared =< Len(stream)
      BY <2>2, <2>3 DEF MessageAt
    <2> QED BY <2>1, <2>3, <2>4, <2>5 DEF n
  <1>5. CASE Len(frames) = Len(posted)
    <2>1. torn
      <3>1. Here # Len(stream)
        BY <1>1, <1>3, SMT DEF HEADER_BYTES
      <3> QED BY <1>2, <1>5, <3>1 DEF Laid
    <2>2. FragmentAt(Here)
      BY <1>2, <1>5, <2>1 DEF Laid
    <2>3. Declared \in 1..MAX_FRAME_BYTES /\ Len(stream) < Here + HEADER_BYTES + Declared
      BY <2>2 DEF FragmentAt, Declared
    <2>4. ~(Here + HEADER_BYTES + Declared =< Len(stream))
      BY <1>1, <1>3, <2>3, LimitAssumption, SMT DEF HEADER_BYTES
    <2> QED BY <1>1, <1>5, <2>3, <2>4, SMT
  <1> QED BY <1>1, <1>4, <1>5, SMT

LEMMA InitArrival == Init => Arrival
  <1> SUFFICES ASSUME Init PROVE \E starts \in Seq(Nat) : Laid(starts) /\ InStep(starts)
    BY DEF Arrival
  <1>1. <<0>> \in Seq(Nat) /\ Len(<<0>>) = 1 /\ <<0>>[1] = 0
    BY SMT
  <1>2. Laid(<<0>>)
    BY <1>1, SMT DEF Init, Laid
  <1>3. InStep(<<0>>)
    BY <1>1, SMT DEF Init, InStep
  <1> QED BY <1>1, <1>2, <1>3

(* Bytes appended to the stream move no message that lies in it.             *)
LEMMA MessageStays ==
    ASSUME TypeOK, TypeOK', NEW starts \in Seq(Nat), NEW next \in Seq(Nat),
           NEW i \in 1..Len(posted), Len(starts) = Len(posted) + 1, MessageAt(starts, i),
           NEW t \in Seq(Byte), stream' = stream \o t,
           posted'[i] = posted[i], next[i] = starts[i], next[i + 1] = starts[i + 1]
    PROVE  MessageAt(next, i)'
  <1>1. /\ stream \in Seq(Byte) /\ Len(stream) \in Nat /\ Len(stream') \in Nat
        /\ Len(stream) =< Len(stream')
        /\ Len(posted) \in Nat /\ posted[i] \in Seq(Byte) /\ Len(posted[i]) \in Nat
    <2>1. stream \in Seq(Byte) /\ posted \in Seq(Seq(Byte))
      BY DEF TypeOK
    <2>2. posted[i] \in Seq(Byte)
      BY <2>1, ElementOfSeq
    <2>3. Len(stream') = Len(stream) + Len(t) /\ Len(t) \in Nat
      BY <2>1, SMT
    <2>4. ASSUME NEW S, NEW s \in Seq(S) PROVE Len(s) \in Nat
      BY SMT
    <2>5. Len(stream) \in Nat /\ Len(posted) \in Nat /\ Len(posted[i]) \in Nat
      BY <2>1, <2>2, <2>4
    <2>6. Len(stream') \in Nat /\ Len(stream) =< Len(stream')
      <3>1. ASSUME NEW a \in Nat, NEW b \in Nat PROVE a + b \in Nat /\ a =< a + b
        BY SMT
      <3> QED BY <2>3, <2>5, <3>1, Zenon
    <2> QED BY <2>1, <2>2, <2>5, <2>6
  <1>2. starts[i] \in Nat /\ starts[i + 1] \in Nat
    <2>1. i \in 1..Len(starts) /\ i + 1 \in 1..Len(starts)
      BY <1>1, SMT
    <2> QED BY <2>1, ElementOfSeq
  <1>3. ASSUME NEW p \in Nat, NEW n \in Nat, p + HEADER_BYTES + n =< Len(stream)
        PROVE  /\ HeaderAt(p)' = HeaderAt(p)
               /\ BodyAt(p, n)' = BodyAt(p, n)
    <2>1. /\ p + HEADER_BYTES \in Nat /\ p + HEADER_BYTES =< Len(stream)
          /\ p + HEADER_BYTES + n \in Nat
      BY <1>1, <1>3, SMT DEF HEADER_BYTES
    <2>2. ASSUME NEW a \in Nat, NEW b \in Nat, b =< Len(stream)
          PROVE  SubSeq(stream', a + 1, b) = SubSeq(stream, a + 1, b)
      BY <1>1, <2>2, Grown
    <2>3. SubSeq(stream', p + 1, p + HEADER_BYTES) = SubSeq(stream, p + 1, p + HEADER_BYTES)
      BY <2>1, <2>2
    <2>4. SubSeq(stream', p + HEADER_BYTES + 1, p + HEADER_BYTES + n)
            = SubSeq(stream, p + HEADER_BYTES + 1, p + HEADER_BYTES + n)
      BY <1>3, <2>1, <2>2
    <2> QED BY <2>3, <2>4 DEF HeaderAt, BodyAt, HEADER_BYTES
  <1>4. starts[i] + HEADER_BYTES + Len(posted[i]) =< Len(stream)
    BY DEF MessageAt
  <1>5. /\ HeaderAt(starts[i])' = HeaderAt(starts[i])
        /\ BodyAt(starts[i], Len(posted[i]))' = BodyAt(starts[i], Len(posted[i]))
    BY <1>1, <1>2, <1>3, <1>4
  <1>6. starts[i + 1] =< Len(stream')
    BY <1>1, <1>2, SMT DEF MessageAt
  <1>7. SubSeq(stream', next[i] + 1, next[i] + HEADER_BYTES) = HeaderAt(starts[i])
    BY <1>5 DEF HeaderAt
  <1>8. SubSeq(stream', next[i] + HEADER_BYTES + 1, next[i] + HEADER_BYTES + Len(posted'[i]))
          = BodyAt(starts[i], Len(posted[i]))
    BY <1>5 DEF BodyAt
  <1> QED BY <1>6, <1>7, <1>8 DEF MessageAt, HeaderAt, BodyAt, Fits

(* A message written whole begins where the stream ended.                    *)
LEMMA WriteFrameArrives ==
    ASSUME Inv, TypeOK', Arrival, NEW m \in Messages, WriteFrame(m) PROVE Arrival'
  <1> SUFFICES ASSUME NEW starts \in Seq(Nat), Laid(starts), InStep(starts), ~bare
               PROVE  \E next \in Seq(Nat) : (Laid(next) /\ InStep(next))'
    BY DEF Arrival, WriteFrame
  <1>1. /\ ~closed /\ Fits(m) /\ stream' = stream \o Encode(m)
        /\ posted' = Append(posted, m)
        /\ UNCHANGED <<closed, bare, torn, readerVars>>
    BY DEF WriteFrame
  <1>2. TypeOK
    BY DEF Inv
  <1>3. /\ stream \in Seq(Byte) /\ Len(stream) \in Nat /\ posted \in Seq(Seq(Byte))
        /\ Len(posted) \in Nat /\ Len(frames) \in Nat /\ Len(frames) =< Len(posted)
    <2>1. stream \in Seq(Byte) /\ posted \in Seq(Seq(Byte)) /\ frames \in Seq(Seq(Byte))
      BY <1>2 DEF TypeOK
    <2> QED BY <2>1, SMT DEF InStep
  <1>4. /\ m \in Seq(Byte) /\ Len(m) \in Nat /\ Encode(m) \in Seq(Byte)
        /\ Len(Encode(m)) = HEADER_BYTES + Len(m)
    BY <1>1, EncodeType
  <1>14. /\ SubSeq(Encode(m), 1, HEADER_BYTES) = Pack(Len(m))
         /\ SubSeq(Encode(m), HEADER_BYTES + 1, HEADER_BYTES + Len(m)) = m
         /\ Unpack(Pack(Len(m))) = Len(m)
    BY <1>1, EncodeDeclares
  <1>5. ~torn /\ Len(starts) = Len(posted) + 1 /\ starts[Len(posted) + 1] = Len(stream)
    BY <1>1 DEF Laid, FragmentAt
  <1>6. Len(stream') \in Nat /\ Len(stream') = Len(stream) + HEADER_BYTES + Len(m)
    <2>1. Len(stream') = Len(stream) + Len(Encode(m))
      <3>1. ASSUME NEW s \in Seq(Byte), NEW t \in Seq(Byte)
            PROVE  Len(s \o t) = Len(s) + Len(t)
        BY ConcatProperties
      <3> QED BY <1>1, <1>3, <1>4, <3>1, Zenon
    <2> QED BY <1>3, <1>4, <2>1, SMT DEF HEADER_BYTES
  <1>13. Append(starts, Len(stream')) \in Seq(Nat)
    BY <1>6, SMT
  <1> PICK next \in Seq(Nat) : next = Append(starts, Len(stream'))
    BY <1>13
  <1>7. /\ next \in Seq(Nat) /\ Len(next) = Len(posted) + 2
        /\ next[Len(posted) + 2] = Len(stream')
        /\ \A i \in 1..(Len(posted) + 1) : next[i] = starts[i]
    <2>1. ASSUME NEW e \in Nat, NEW k \in Nat, Len(starts) = k + 1
          PROVE  /\ Append(starts, e) \in Seq(Nat) /\ Len(Append(starts, e)) = k + 2
                 /\ Append(starts, e)[k + 2] = e
                 /\ \A i \in 1..(k + 1) : Append(starts, e)[i] = starts[i]
      BY <2>1, SMT
    <2> QED BY <1>3, <1>5, <1>6, <2>1
  <1>8. /\ Len(posted') = Len(posted) + 1 /\ posted'[Len(posted) + 1] = m
        /\ \A i \in 1..Len(posted) : posted'[i] = posted[i]
    BY <1>1, <1>3, <1>4
  <1>9. ASSUME NEW i \in 1..Len(posted) PROVE MessageAt(next, i)'
    <2>1. MessageAt(starts, i) /\ next[i] = starts[i] /\ next[i + 1] = starts[i + 1]
      <3>1. i \in 1..(Len(posted) + 1) /\ i + 1 \in 1..(Len(posted) + 1)
        BY <1>3, <1>9, SMT
      <3> QED BY <1>7, <1>9, <3>1 DEF Laid
    <2> QED BY <1>1, <1>2, <1>4, <1>5, <1>7, <1>8, <1>9, <2>1, MessageStays
  <1>10. ASSUME NEW i, i = Len(posted) + 1 PROVE MessageAt(next, i)'
    <2>1. next[i] = Len(stream) /\ next[i + 1] = Len(stream')
      <3>1. i \in 1..(Len(posted) + 1) /\ i + 1 = Len(posted) + 2
        BY <1>3, <1>10, SMT
      <3> QED BY <1>5, <1>7, <1>10, <3>1
    <2>2. SubSeq(stream', Len(stream) + 1, Len(stream) + HEADER_BYTES) = Pack(Len(m))
      <3>1. HEADER_BYTES \in Nat /\ HEADER_BYTES =< Len(Encode(m))
        BY <1>4, SMT DEF HEADER_BYTES
      <3>2. SubSeq(stream', Len(stream) + 0 + 1, Len(stream) + HEADER_BYTES)
              = SubSeq(Encode(m), 0 + 1, HEADER_BYTES)
        BY <1>1, <1>3, <1>4, <3>1, Appended
      <3>3. Len(stream) + 0 = Len(stream) /\ 0 + 1 = 1
        BY <1>3, SMT
      <3> QED BY <1>14, <3>2, <3>3
    <2>3. SubSeq(stream', Len(stream) + HEADER_BYTES + 1, Len(stream) + HEADER_BYTES + Len(m)) = m
      <3>1. ASSUME NEW h \in Nat, h + Len(m) = Len(Encode(m))
            PROVE  SubSeq(stream', Len(stream) + h + 1, Len(stream) + h + Len(m))
                     = SubSeq(Encode(m), h + 1, h + Len(m))
        <4>1. h + Len(m) \in Nat /\ h + Len(m) =< Len(Encode(m))
              /\ Len(stream) + (h + Len(m)) = Len(stream) + h + Len(m)
          BY <1>3, <1>4, <3>1, SMT
        <4>2. SubSeq(stream \o Encode(m), Len(stream) + h + 1, Len(stream) + (h + Len(m)))
                = SubSeq(Encode(m), h + 1, h + Len(m))
          <5>1. \A a \in Nat, b \in Nat : b =< Len(Encode(m)) =>
                   SubSeq(stream \o Encode(m), Len(stream) + a + 1, Len(stream) + b)
                     = SubSeq(Encode(m), a + 1, b)
            <6>1. ASSUME NEW s \in Seq(Byte), NEW t \in Seq(Byte), NEW a \in Nat, NEW b \in Nat,
                         b =< Len(t)
                  PROVE  SubSeq(s \o t, Len(s) + a + 1, Len(s) + b) = SubSeq(t, a + 1, b)
              BY <6>1, Appended
            <6> QED BY <1>3, <1>4, <6>1, Zenon
          <5> QED BY <4>1, <5>1
        <4> QED BY <1>1, <4>1, <4>2
      <3>2. HEADER_BYTES \in Nat
        BY SMT DEF HEADER_BYTES
      <3> QED BY <1>4, <1>14, <3>1, <3>2
    <2>4. Len(stream') =< Len(stream')
      BY <1>6, SMT
    <2>5. posted'[i] = m
      BY <1>8, <1>10
    <2> QED BY <1>1, <1>4, <1>6, <1>14, <2>1, <2>2, <2>3, <2>4, <2>5
            DEF MessageAt, HeaderAt, BodyAt, Fits
  <1>11. Laid(next)'
    <2>1. next[1] = 0 /\ next[Len(posted') + 1] = Len(stream') /\ Len(next) = Len(posted') + 1
      <3>1. 1 \in 1..(Len(posted) + 1) /\ Len(posted') + 1 = Len(posted) + 2
        BY <1>3, <1>8, SMT
      <3> QED BY <1>7, <3>1 DEF Laid
    <2>2. \A i \in 1..Len(posted') : MessageAt(next, i)'
      <3>1. \A i \in 1..Len(posted') : i \in 1..Len(posted) \/ i = Len(posted) + 1
        BY <1>3, <1>8, SMT
      <3> QED BY <1>9, <1>10, <3>1
    <2> QED BY <1>1, <1>5, <1>7, <2>1, <2>2 DEF Laid
  <1>12. InStep(next)'
    <2>1. Len(frames) =< Len(posted') /\ verdict = "open"
      <3>1. Len(frames) =< Len(posted')
        BY <1>3, <1>8, SMT
      <3>2. verdict # "clean" /\ verdict # "short"
        BY <1>1 DEF Inv, VerdictIsTrue
      <3> QED BY <3>1, <3>2 DEF InStep
    <2>2. /\ \A i \in 1..(Len(frames) + 1) : cuts[i] = next[i]
          /\ \A i \in 1..Len(frames) : frames[i] = posted'[i]
      <3>1. /\ \A i \in 1..(Len(frames) + 1) : i \in 1..(Len(posted) + 1)
            /\ \A i \in 1..Len(frames) : i \in 1..Len(posted)
        BY <1>3, SMT
      <3> QED BY <1>7, <1>8, <3>1 DEF InStep
    <2> QED BY <1>1, <2>1, <2>2 DEF InStep, readerVars
  <1> QED BY <1>11, <1>12

(* A message already written is where it was, whatever else is appended.     *)
LEMMA MessagesStay ==
    ASSUME TypeOK, TypeOK', NEW starts \in Seq(Nat), Len(starts) = Len(posted) + 1,
           \A i \in 1..Len(posted) : MessageAt(starts, i),
           NEW t \in Seq(Byte), stream' = stream \o t, posted' = posted
    PROVE  \A i \in 1..Len(posted') : MessageAt(starts, i)'
  BY MessageStays

(* The bytes of a write that was cut short are the beginning of a frame.     *)
LEMMA TearArrives ==
    ASSUME Inv, TypeOK', Arrival, NEW m \in Messages, Tear(m) PROVE Arrival'
  <1> SUFFICES ASSUME NEW starts \in Seq(Nat), Laid(starts), InStep(starts), ~bare
               PROVE  (Laid(starts) /\ InStep(starts))'
    BY DEF Arrival, Tear
  <1>1. /\ ~closed /\ Fits(m) /\ closed' = TRUE /\ torn' = TRUE
        /\ UNCHANGED <<posted, bare, readerVars>>
    BY DEF Tear
  <1>2. TypeOK /\ stream \in Seq(Byte) /\ Len(stream) \in Nat
    <2>1. TypeOK /\ stream \in Seq(Byte)
      BY DEF Inv, TypeOK
    <2> QED BY <2>1, SMT
  <1>3. PICK k \in 1..(Len(Encode(m)) - 1) : stream' = stream \o SubSeq(Encode(m), 1, k)
    BY DEF Tear
  <1>4. /\ m \in Seq(Byte) /\ Len(m) \in 1..MAX_FRAME_BYTES /\ Len(m) \in Nat
        /\ Encode(m) \in Seq(Byte) /\ Len(Encode(m)) \in Nat
        /\ Len(Encode(m)) = HEADER_BYTES + Len(m)
    <2>1. Len(m) \in 1..MAX_FRAME_BYTES => Len(m) \in Nat
      BY LimitAssumption, SMT
    <2>2. ASSUME NEW l \in Nat PROVE HEADER_BYTES + l \in Nat
      BY SMT DEF HEADER_BYTES
    <2> QED BY <1>1, <2>1, <2>2, EncodeType
  <1>10. SubSeq(Encode(m), 1, HEADER_BYTES) = Pack(Len(m)) /\ Unpack(Pack(Len(m))) = Len(m)
    BY <1>1, EncodeDeclares
  <1>5. k \in Nat /\ 1 =< k /\ k < HEADER_BYTES + Len(m) /\ k =< Len(Encode(m))
    BY <1>3, <1>4, SMT DEF HEADER_BYTES
  <1>11. PICK t \in Seq(Byte) : t = SubSeq(Encode(m), 1, k) /\ Len(t) = k
    <2>1. ASSUME NEW s \in Seq(Byte), k =< Len(s)
          PROVE  SubSeq(s, 1, k) \in Seq(Byte) /\ Len(SubSeq(s, 1, k)) = k
      BY <1>5, <2>1
    <2> QED BY <1>4, <1>5, <2>1
  <1>6. stream' = stream \o t /\ Len(stream') = Len(stream) + k
    <2>1. stream' = stream \o t
      BY <1>3, <1>11
    <2>2. Len(stream \o t) = Len(stream) + Len(t)
      BY <1>2, ConcatProperties
    <2> QED BY <1>11, <2>1, <2>2
  <1>7. /\ ~torn /\ Len(starts) = Len(posted) + 1
        /\ starts[Len(posted) + 1] = Len(stream)
    BY <1>1 DEF Laid, FragmentAt
  <1>8. \A i \in 1..Len(posted') : MessageAt(starts, i)'
    BY <1>1, <1>2, <1>6, <1>7, MessagesStay DEF Laid
  <1>9. PICK p \in Nat : p = Len(stream)
    BY <1>2
  <1>12. p < Len(stream')
    BY <1>2, <1>5, <1>6, <1>9, SMT
  <1>13. ASSUME p + HEADER_BYTES =< Len(stream')
         PROVE  Unpack(SubSeq(stream', p + 1, p + HEADER_BYTES)) = Len(m)
    <2>1. HEADER_BYTES \in Nat /\ HEADER_BYTES =< k
      BY <1>5, <1>6, <1>9, <1>13, SMT DEF HEADER_BYTES
    <2>2. SubSeq(stream \o t, Len(stream) + 0 + 1, Len(stream) + HEADER_BYTES)
            = SubSeq(t, 0 + 1, HEADER_BYTES)
      BY <1>2, <1>11, <2>1, Appended
    <2>3. SubSeq(SubSeq(Encode(m), 1, k), 0 + 1, HEADER_BYTES)
            = SubSeq(Encode(m), 0 + 1, HEADER_BYTES)
      BY <1>4, <1>5, <2>1, PrefixPiece
    <2>4. Len(stream) + 0 = p /\ 0 + 1 = 1
      BY <1>9, SMT
    <2> QED BY <1>6, <1>9, <1>10, <1>11, <2>2, <2>3, <2>4
  <1>14. Len(stream') < p + HEADER_BYTES + Len(m)
    BY <1>4, <1>5, <1>6, <1>9, SMT DEF HEADER_BYTES
  <1>15. FragmentAt(p)'
    BY <1>1, <1>4, <1>12, <1>13, <1>14 DEF FragmentAt, HeaderAt, HEADER_BYTES
  <1>16. Laid(starts)'
    BY <1>1, <1>7, <1>8, <1>9, <1>15 DEF Laid
  <1>17. InStep(starts)'
    <2>1. verdict # "clean"
      BY <1>1 DEF Inv, VerdictIsTrue
    <2> QED BY <1>1, <2>1 DEF InStep, readerVars
  <1> QED BY <1>16, <1>17

(* The writer closes its end, or writes past the protocol.                   *)
LEMMA WriteArrives == ASSUME Inv, TypeOK', Arrival, Write PROVE Arrival'
  <1>1. CASE \E m \in Messages : WriteFrame(m)
    BY <1>1, WriteFrameArrives
  <1>2. CASE \E m \in Messages : Tear(m)
    BY <1>2, TearArrives
  <1>3. CASE \E b \in Noise : WriteByte(b)
    BY <1>3 DEF WriteByte, Arrival
  <1>4. CASE Close
    <2> SUFFICES ASSUME NEW starts \in Seq(Nat), Laid(starts), InStep(starts), ~bare
                 PROVE  (Laid(starts) /\ InStep(starts))'
      BY <1>4 DEF Arrival, Close
    <2>1. ~closed /\ UNCHANGED <<stream, posted, bare, torn, readerVars>>
      BY <1>4 DEF Close
    <2>2. ~torn
      BY <2>1 DEF Laid, FragmentAt
    <2>3. \A i \in 1..Len(posted) : MessageAt(starts, i)'
      BY <2>1 DEF Laid, MessageAt, HeaderAt, BodyAt, Fits
    <2>4. Laid(starts)'
      BY <2>1, <2>2, <2>3 DEF Laid
    <2>5. InStep(starts)'
      BY <2>1 DEF InStep, readerVars
    <2> QED BY <2>4, <2>5
  <1> QED BY <1>1, <1>2, <1>3, <1>4 DEF Write

(* The reader leaves where the messages lie alone.                           *)
LEMMA ReaderLeavesLaid ==
    ASSUME NEW starts \in Seq(Nat), Laid(starts), UNCHANGED writerVars
    PROVE  Laid(starts)'
  BY DEF Laid, MessageAt, FragmentAt, HeaderAt, BodyAt, Fits, writerVars

(* A reader that ends, ends after the last message, and in error only in the *)
(* fragment that follows it.                                                 *)
LEMMA VerdictArrives ==
    ASSUME Inv, Inv', Arrival, UNCHANGED writerVars,
           reading' = "ended", UNCHANGED <<at, frames, cuts>>,
           verdict' \in {"clean", "short", "empty", "oversize", "undecodable"}
    PROVE  Arrival'
  <1> SUFFICES ASSUME NEW starts \in Seq(Nat), Laid(starts), InStep(starts), ~bare
               PROVE  (Laid(starts) /\ InStep(starts))'
    BY DEF Arrival, writerVars
  <1>1. /\ Here' = Here /\ Declared' = Declared /\ BodyAt(Here, Declared)' = BodyAt(Here, Declared)
        /\ stream' = stream /\ posted' = posted /\ torn' = torn
    BY DEF Here, Declared, HeaderAt, BodyAt, writerVars
  <1>2. /\ Len(frames) \in Nat /\ Len(posted) \in Nat /\ Len(stream) \in Nat
        /\ Len(cuts) = Len(frames) + 1 /\ Len(frames) =< Len(posted)
        /\ Here \in Nat /\ at =< Len(stream) /\ at \in Nat
    <2>1. /\ frames \in Seq(Seq(Byte)) /\ posted \in Seq(Seq(Byte)) /\ stream \in Seq(Byte)
          /\ Len(cuts) = Len(frames) + 1 /\ Len(frames) =< Len(posted)
          /\ at \in 0..Len(stream) /\ Here \in 0..at
      BY DEF Inv, TypeOK, InStep, Place
    <2>2. ASSUME NEW S, NEW s \in Seq(S) PROVE Len(s) \in Nat
      BY SMT
    <2>3. Len(frames) \in Nat /\ Len(posted) \in Nat /\ Len(stream) \in Nat
      BY <2>1, <2>2
    <2> QED BY <2>1, <2>3, SMT
  <1>3. Here = starts[Len(frames) + 1]
    BY <1>2, SMT DEF InStep, Here
  <1>4. Len(frames) < Len(posted) => Here + HEADER_BYTES =< Len(stream)
    <2> HAVE Len(frames) < Len(posted)
    <2>1. PICK n \in 1..Len(posted) : n = Len(frames) + 1
      BY <1>2, SMT
    <2>2. MessageAt(starts, n) /\ starts[n] = Here
      BY <1>3, <2>1 DEF Laid
    <2>3. Len(posted[n]) \in Nat
      BY <2>2, EncodeType, LimitAssumption, SMT DEF MessageAt
    <2>4. Here + HEADER_BYTES + Len(posted[n]) =< Len(stream)
      BY <2>2 DEF MessageAt
    <2>5. ASSUME NEW h \in Nat, NEW l \in Nat, NEW s \in Nat, h + HEADER_BYTES + l =< s
          PROVE  h + HEADER_BYTES =< s
      BY <2>5, SMT DEF HEADER_BYTES
    <2> QED BY <1>2, <2>3, <2>4, <2>5
  <1>5. Here + HEADER_BYTES =< Len(stream) =>
           /\ Declared \in 1..MAX_FRAME_BYTES
           /\ Here + HEADER_BYTES + Declared =< Len(stream) =>
                 /\ Len(frames) + 1 \in 1..Len(posted)
                 /\ BodyAt(Here, Declared) = posted[Len(frames) + 1]
           /\ Len(frames) < Len(posted) =>
                 Here + HEADER_BYTES + Declared =< Len(stream)
    BY NextIsMessage
  <1>6. VerdictIsTrue' /\ Place'
    BY DEF Inv
  <1>7. verdict' # "empty"
    <2> SUFFICES ASSUME verdict' = "empty" PROVE FALSE
      OBVIOUS
    <2>1. Declared = 0 /\ Here + HEADER_BYTES =< at
      BY <1>1, <1>6 DEF VerdictIsTrue, Place
    <2>2. Here + HEADER_BYTES =< Len(stream)
      BY <1>2, <2>1, SMT DEF HEADER_BYTES
    <2> QED BY <1>5, <2>1, <2>2, LimitAssumption, SMT
  <1>8. verdict' # "oversize"
    <2> SUFFICES ASSUME verdict' = "oversize" PROVE FALSE
      OBVIOUS
    <2>1. Declared > MAX_FRAME_BYTES /\ Here + HEADER_BYTES = at
      BY <1>1, <1>6 DEF VerdictIsTrue
    <2>2. Here + HEADER_BYTES =< Len(stream)
      BY <1>2, <2>1, SMT DEF HEADER_BYTES
    <2> QED BY <1>5, <2>1, <2>2, LimitAssumption, SMT
  <1>9. verdict' # "undecodable"
    <2> SUFFICES ASSUME verdict' = "undecodable" PROVE FALSE
      OBVIOUS
    <2>1. /\ Declared \in Nat /\ Here + HEADER_BYTES + Declared =< at
          /\ BodyAt(Here, Declared) \notin Messages
      BY <1>1, <1>6 DEF VerdictIsTrue, Place
    <2>2. Here + HEADER_BYTES =< Len(stream) /\ Here + HEADER_BYTES + Declared =< Len(stream)
      BY <1>2, <2>1, SMT DEF HEADER_BYTES
    <2>3. PICK n \in 1..Len(posted) : BodyAt(Here, Declared) = posted[n]
      BY <1>5, <2>2
    <2> QED BY <2>1, <2>3 DEF Laid, MessageAt
  <1>10. verdict' = "clean" => ~torn /\ Len(frames) = Len(posted)
    <2> SUFFICES ASSUME verdict' = "clean" PROVE ~torn /\ Len(frames) = Len(posted)
      OBVIOUS
    <2>1. Here = Len(stream)
      BY <1>1, <1>6 DEF VerdictIsTrue
    <2>2. ~(Here + HEADER_BYTES =< Len(stream)) /\ ~(Here < Len(stream))
      BY <1>2, <2>1, SMT DEF HEADER_BYTES
    <2>3. Len(frames) = Len(posted)
      BY <1>2, <1>4, <2>2, SMT
    <2> QED BY <1>3, <2>2, <2>3 DEF Laid, FragmentAt
  <1>11. verdict' = "short" => torn
    <2> SUFFICES ASSUME verdict' = "short" PROVE torn
      OBVIOUS
    <2>1. /\ Here < Len(stream)
          /\ Here + HEADER_BYTES =< Len(stream) =>
                Len(stream) < Here + HEADER_BYTES + Declared
      BY <1>1, <1>6 DEF VerdictIsTrue
    <2>2. Len(frames) = Len(posted)
      <3>1. CASE Len(frames) < Len(posted)
        <4>1. /\ Declared \in 1..MAX_FRAME_BYTES
              /\ Len(stream) < Here + HEADER_BYTES + Declared
              /\ Here + HEADER_BYTES + Declared =< Len(stream)
          BY <1>4, <1>5, <2>1, <3>1
        <4> QED BY <1>2, <4>1, LimitAssumption, SMT DEF HEADER_BYTES
      <3> QED BY <1>2, <3>1, SMT
    <2>3. starts[Len(posted) + 1] # Len(stream)
      BY <1>2, <1>3, <2>1, <2>2, SMT
    <2> QED BY <2>3 DEF Laid
  <1>12. InStep(starts)'
    BY <1>1, <1>7, <1>8, <1>9, <1>10, <1>11 DEF InStep
  <1> QED BY <1>12, ReaderLeavesLaid

(* A body read whole is the next message.                                    *)
LEMMA BodyArrives ==
    ASSUME Inv, Arrival, BodyRead, parts \in Messages, UNCHANGED writerVars
    PROVE  Arrival'
  <1> SUFFICES ASSUME NEW starts \in Seq(Nat), Laid(starts), InStep(starts), ~bare
               PROVE  (Laid(starts) /\ InStep(starts))'
    BY DEF Arrival, writerVars
  <1>1. /\ reading = "body" /\ Remaining = 0
        /\ frames' = Append(frames, parts) /\ cuts' = Append(cuts, at)
        /\ verdict' = verdict
    BY DEF BodyRead
  <1>2. /\ Len(parts) =< length /\ length \in 1..MAX_FRAME_BYTES /\ Declared = length
        /\ at = Here + HEADER_BYTES + Len(parts)
        /\ parts = BodyAt(Here, Len(parts)) /\ verdict = "open"
    <2>1. /\ Len(parts) =< length /\ length \in 1..MAX_FRAME_BYTES /\ Declared = length
          /\ at = Here + HEADER_BYTES + Len(parts) /\ verdict = "open"
          /\ parts = SubSeq(stream, Here + HEADER_BYTES + 1, at)
      BY <1>1 DEF Inv, Place
    <2> QED BY <2>1 DEF BodyAt
  <1>3. /\ frames \in Seq(Seq(Byte)) /\ cuts \in Seq(Nat) /\ at \in Nat
        /\ Len(frames) \in Nat /\ Len(cuts) = Len(frames) + 1
        /\ at =< Len(stream) /\ Len(stream) \in Nat /\ Here \in Nat
        /\ Len(parts) \in Nat /\ parts \in Seq(Byte)
        /\ Len(posted) \in Nat
    BY SMT DEF Inv, TypeOK, Place
  <1>4. Len(parts) = length
    BY <1>1, <1>2, <1>3, LimitAssumption, SMT DEF Remaining, Wanted
  <1>5. Here + HEADER_BYTES =< Len(stream)
    BY <1>2, <1>3, SMT DEF HEADER_BYTES
  <1>6. Here + HEADER_BYTES + Declared =< Len(stream)
    BY <1>2, <1>3, <1>4
  <1>7. PICK n \in 1..Len(posted) :
           n = Len(frames) + 1 /\ Declared = Len(posted[n]) /\ BodyAt(Here, Declared) = posted[n]
    BY <1>5, <1>6, NextIsMessage
  <1>8. parts = posted[n] /\ at = starts[n + 1]
    <2>1. parts = posted[n]
      BY <1>2, <1>4, <1>7
    <2>2. Here = starts[n]
      <3>1. n \in 1..(Len(frames) + 1)
        BY <1>3, <1>7, SMT
      <3> QED BY <1>3, <1>7, <3>1 DEF InStep, Here
    <2>3. starts[n + 1] = starts[n] + HEADER_BYTES + Len(posted[n])
      BY DEF Laid, MessageAt
    <2> QED BY <1>2, <2>1, <2>2, <2>3
  <1>13. /\ n \in 1..Len(posted) /\ n = Len(frames) + 1
         /\ Len(frames) \in Nat /\ Len(posted) \in Nat
    BY <1>3, <1>7
  <1>12. n = Len(frames) + 1 /\ parts \in Seq(Byte) /\ posted[n] = parts /\ starts[n + 1] = at
    BY <1>3, <1>7, <1>8
  <1>9. /\ Len(frames') = n /\ frames'[n] = posted[n]
        /\ \A i \in 1..Len(frames) : frames'[i] = frames[i]
    <2>1. /\ Len(Append(frames, parts)) = Len(frames) + 1
          /\ Append(frames, parts)[Len(frames) + 1] = parts
          /\ \A i \in 1..Len(frames) : Append(frames, parts)[i] = frames[i]
      BY <1>3, Appending
    <2> QED BY <1>1, <1>12, <2>1
  <1>10. /\ cuts'[n + 1] = starts[n + 1]
         /\ \A i \in 1..(Len(frames) + 1) : cuts'[i] = cuts[i]
    <2>1. /\ Append(cuts, at)[Len(cuts) + 1] = at
          /\ \A i \in 1..Len(cuts) : Append(cuts, at)[i] = cuts[i]
      BY <1>3, Appending
    <2> QED BY <1>1, <1>3, <1>12, <2>1
  <1>11. InStep(starts)'
    <2>1. /\ \A i \in 1..(n + 1) : i \in 1..(Len(frames) + 1) \/ i = n + 1
          /\ \A i \in 1..n : i \in 1..Len(frames) \/ i = n
          /\ n =< Len(posted)
      BY <1>13, SMT
    <2>2. \A i \in 1..(n + 1) : cuts'[i] = starts[i]
      BY <1>10, <2>1 DEF InStep
    <2>3. \A i \in 1..n : frames'[i] = posted[i]
      BY <1>9, <2>1 DEF InStep
    <2>4. posted' = posted /\ torn' = torn /\ verdict' = "open"
      BY <1>1, <1>2 DEF writerVars
    <2> QED BY <1>9, <2>1, <2>2, <2>3, <2>4 DEF InStep
  <1> QED BY <1>11, ReaderLeavesLaid

LEMMA ReadArrives == ASSUME Inv, Inv', Arrival, Read PROVE Arrival'
  <1>1. UNCHANGED writerVars
    BY DEF Read
  <1>2. CASE UNCHANGED <<frames, cuts, verdict>>
    <2> SUFFICES ASSUME NEW starts \in Seq(Nat), Laid(starts), InStep(starts), ~bare
                 PROVE  (Laid(starts) /\ InStep(starts))'
      BY <1>1 DEF Arrival, writerVars
    <2>1. InStep(starts)'
      BY <1>1, <1>2 DEF InStep, writerVars
    <2> QED BY <1>1, <2>1, ReaderLeavesLaid
  <1>3. CASE ReadSome
    BY <1>2, <1>3 DEF ReadSome
  <1>4. CASE ReadEOF
    BY <1>1, <1>4, VerdictArrives DEF ReadEOF, End
  <1>5. CASE HeaderRead
    BY <1>1, <1>2, <1>5, VerdictArrives DEF HeaderRead, End
  <1>6. CASE BodyRead
    BY <1>1, <1>6, VerdictArrives, BodyArrives DEF BodyRead, End
  <1> QED BY <1>3, <1>4, <1>5, <1>6 DEF Read

LEMMA NextArrival == ASSUME Inv, Inv', Arrival, [Next]_vars PROVE Arrival'
  <1>1. CASE Write
    BY <1>1, WriteArrives DEF Inv
  <1>2. CASE Read
    BY <1>2, ReadArrives
  <1>3. CASE UNCHANGED vars
    <2> SUFFICES ASSUME NEW starts \in Seq(Nat), Laid(starts), InStep(starts), ~bare
                 PROVE  (Laid(starts) /\ InStep(starts))'
      BY <1>3 DEF Arrival, vars, writerVars
    <2>1. InStep(starts)'
      BY <1>3 DEF InStep, vars, writerVars, readerVars
    <2> QED BY <1>3, <2>1, ReaderLeavesLaid DEF vars
  <1> QED BY <1>1, <1>2, <1>3 DEF Next

(* Between two ends that both keep to protocol.py every message arrives, in  *)
(* order and once: the reader is never out of step with the writer, and only *)
(* a death inside a frame ends the conversation with an error.               *)
THEOREM EveryMessageArrives == Spec => []MessagesArrive
  <1>1. ASSUME Inv, Arrival PROVE MessagesArrive
    <2> SUFFICES ASSUME NEW starts \in Seq(Nat), Laid(starts), InStep(starts), ~bare
                 PROVE  MessagesArrive
      BY <1>1 DEF Arrival, MessagesArrive
    <2>1. /\ frames \in Seq(Seq(Byte)) /\ posted \in Seq(Seq(Byte))
      BY <1>1 DEF Inv, TypeOK
    <2>2. frames = SubSeq(posted, 1, Len(frames))
      <3>1. Len(frames) =< Len(posted) /\ \A i \in 1..Len(frames) : frames[i] = posted[i]
        BY DEF InStep
      <3> QED BY <2>1, <3>1, SMT
    <2>3. Len(frames) = Len(posted) => frames = posted
      <3>1. \A i \in 1..Len(frames) : frames[i] = posted[i]
        BY DEF InStep
      <3> QED BY <2>1, <3>1, SeqEqual
    <2> QED BY <2>2, <2>3 DEF InStep, MessagesArrive
  <1>2. Init => Arrival
    BY InitArrival
  <1>3. Inv /\ Inv' /\ Arrival /\ [Next]_vars => Arrival'
    BY NextArrival
  <1> QED BY <1>1, <1>2, <1>3, InvHolds, PTL DEF Spec

=============================================================================
