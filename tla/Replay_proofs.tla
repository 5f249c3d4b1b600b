---------------------------- MODULE Replay_proofs ----------------------------
(***************************************************************************)
(* What a run records is exact while it fits the precision; a verdict of    *)
(* REPRODUCED means that the two executions had the same position and cash; *)
(* and what `sbx verify` names as the first divergence is one, and is the   *)
(* first.  For decimals of any precision and executions of any length.      *)
(*                                                                          *)
(* The parts: the divergence named; naturals, with induction over a set and *)
(* recursion along a function that stands for the step; powers of ten and   *)
(* sums; decimals, whose operations are exact within the precision and      *)
(* depend on values alone beyond it; and the books that they make.          *)
(***************************************************************************)
EXTENDS Replay, WellFoundedInduction, SequenceTheorems, TLAPS

FillRecord ==
    [at : Nat, side : {"BUY", "SELL"}, size : Sizes, price : Prices]

(* Every book has a sequence of fills, each with the fields of one.          *)
Filling(b) == b.fills \in Seq(FillRecord)

BookType ==
    /\ DOMAIN book = {"position", "cash", "lastPrice", "fills", "ticks"}
    /\ Filling(book) /\ book.ticks \in Nat
    /\ Filling(first.book)

(* A verdict of divergence is the one of the two executions at hand.         *)
JudgedOnce ==
    /\ verdict = "DIVERGED" =>
          /\ phase = "judged"
          /\ divergence = first_divergence(Recorded(first.book), Recorded(book))
          /\ ResultHash(book, outcome) # Recorded(first.book)
    /\ phase \in {"replaying", "replayed", "judged"} => first.hash = Recorded(first.book)

IInv == BookType /\ JudgedOnce

-----------------------------------------------------------------------------
(* A set of naturals has a least one.                                        *)
LEMMA NatMin ==
    ASSUME NEW T, T \subseteq Nat, T # {}
    PROVE  \E m \in T : \A k \in T : m =< k
<1>1. \E x \in T : \A y \in T : ~ (<<y, x>> \in OpToRel(<, Nat))
  BY NatLessThanWellFounded, WFMin
<1>2. PICK x \in T : \A y \in T : ~ (<<y, x>> \in OpToRel(<, Nat))
  BY <1>1
<1>3. ASSUME NEW k \in T  PROVE x =< k
  <2>1. k \in Nat /\ x \in Nat  OBVIOUS
  <2>2. ~ (k < x)  BY <1>2, <2>1 DEF OpToRel
  <2>3. QED  BY <2>1, <2>2
<1>4. QED  BY <1>3

(* Of any pairs there are, one comes before all others.                      *)
LEMMA FirstPair ==
    ASSUME NEW D, D \subseteq Nat \X Nat, D # {}
    PROVE  \E q \in D : \A o \in D : Before(q, o)
<1> DEFINE I == {p[1] : p \in D}
<1>1. I \subseteq Nat /\ I # {}  OBVIOUS
<1>2. PICK i \in I : \A k \in I : i =< k  BY <1>1, NatMin
<1> DEFINE J == {j \in Nat : <<i, j>> \in D}
<1>3. J \subseteq Nat /\ J # {}
  <2>1. PICK p \in D : p[1] = i  OBVIOUS
  <2>2. p = <<i, p[2]>> /\ p[2] \in Nat  BY <2>1
  <2>3. QED  BY <2>2
<1>4. PICK j \in J : \A k \in J : j =< k  BY <1>3, NatMin
<1>5. <<i, j>> \in D  OBVIOUS
<1>6. ASSUME NEW o \in D  PROVE Before(<<i, j>>, o)
  <2>1. o = <<o[1], o[2]>> /\ o[1] \in Nat /\ o[2] \in Nat  OBVIOUS
  <2>2. i =< o[1] /\ i \in Nat  BY <1>1, <1>2, <2>1
  <2>3. CASE o[1] = i
    <3>1. o[2] \in J  BY <2>1, <2>3
    <3>2. j =< o[2]  BY <3>1, <1>4
    <3>3. QED  BY <3>2, <2>3 DEF Before
  <2>4. CASE o[1] # i
    <3>1. i < o[1]  BY <2>1, <2>2, <2>4
    <3>2. QED  BY <3>1 DEF Before
  <2>5. QED  BY <2>3, <2>4
<1>7. QED  BY <1>5, <1>6

(* A recorded execution has as many fills as its book, each with the four    *)
(* fields.                                                                   *)
LEMMA RecordedFills ==
    ASSUME NEW b, Filling(b)
    PROVE  /\ Len(b.fills) \in Nat
           /\ Len(Recorded(b).fills) = Len(b.fills)
           /\ Recorded(b).fills = [i \in 1..Len(b.fills) |-> Recorded(b).fills[i]]
           /\ \A i \in 1..Len(b.fills) :
                 Recorded(b).fills[i] =
                   [at |-> b.fills[i].at, side |-> b.fills[i].side,
                    size |-> Text(b.fills[i].size), price |-> Text(b.fills[i].price)]
<1> DEFINE W(i) == [at |-> b.fills[i].at, side |-> b.fills[i].side,
                    size |-> Text(b.fills[i].size), price |-> Text(b.fills[i].price)]
<1>1. Len(b.fills) \in Nat  BY LenProperties DEF Filling
<1>2. Recorded(b).fills = [i \in 1..Len(b.fills) |-> W(i)]  BY DEF Recorded
<1> HIDE DEF W
<1>3. Len([i \in 1..Len(b.fills) |-> W(i)]) = Len(b.fills)  BY <1>1
<1>4. Len(Recorded(b).fills) = Len(b.fills)  BY <1>2, <1>3
<1>5. \A i \in 1..Len(b.fills) : Recorded(b).fills[i] = W(i)  BY <1>2
<1>6. Recorded(b).fills = [i \in 1..Len(b.fills) |-> Recorded(b).fills[i]]  BY <1>2, <1>5
<1>7. QED  BY <1>1, <1>4, <1>5, <1>6 DEF W

(* Fills that agree in the four fields are equal.                            *)
LEMMA FieldsDecide ==
    ASSUME NEW a, NEW b, Filling(a), Filling(b),
           NEW i \in 1..Len(a.fills), i \in 1..Len(b.fills),
           \A k \in 1..4 : Recorded(a).fills[i][FillFields[k]] = Recorded(b).fills[i][FillFields[k]]
    PROVE  Recorded(a).fills[i] = Recorded(b).fills[i]
<1>1. Recorded(a).fills[i] =
        [at |-> a.fills[i].at, side |-> a.fills[i].side,
         size |-> Text(a.fills[i].size), price |-> Text(a.fills[i].price)]
  BY RecordedFills
<1>2. Recorded(b).fills[i] =
        [at |-> b.fills[i].at, side |-> b.fills[i].side,
         size |-> Text(b.fills[i].size), price |-> Text(b.fills[i].price)]
  BY RecordedFills
<1>3. FillFields[1] = "at" /\ FillFields[2] = "side" /\ FillFields[3] = "size"
      /\ FillFields[4] = "price"
  BY DEF FillFields
<1>4. Recorded(a).fills[i].at = Recorded(b).fills[i].at
      /\ Recorded(a).fills[i].side = Recorded(b).fills[i].side
      /\ Recorded(a).fills[i].size = Recorded(b).fills[i].size
      /\ Recorded(a).fills[i].price = Recorded(b).fills[i].price
  BY <1>3
<1>5. QED  BY <1>1, <1>2, <1>4

(* Recorded executions with equally many fills, all equal, have equal fills. *)
LEMMA SameFills ==
    ASSUME NEW a, NEW b, Filling(a), Filling(b), Len(a.fills) = Len(b.fills),
           \A i \in 1..Len(a.fills) : Recorded(a).fills[i] = Recorded(b).fills[i]
    PROVE  Recorded(a).fills = Recorded(b).fills
<1> DEFINE f == Recorded(a).fills
           g == Recorded(b).fills
           n == Len(a.fills)
<1>1. f = [i \in 1..n |-> f[i]]  BY RecordedFills
<1>2. g = [i \in 1..n |-> g[i]]  BY RecordedFills
<1>3. \A i \in 1..n : f[i] = g[i]  OBVIOUS
<1> HIDE DEF f, g, n
<1>4. f = g  BY <1>1, <1>2, <1>3
<1>5. QED  BY <1>4 DEF f, g

(* first_divergence, case by case: what it names.                            *)
LEMMA FirstDivergence ==
    ASSUME NEW a, NEW b, Filling(a), Filling(b)
    PROVE  LET was == Recorded(a)
               now == Recorded(b)
               d   == first_divergence(was, now)
               agreeTo(n) == \A i \in 1..n : was.fills[i] = now.fills[i]
           IN  \/ d = [field |-> "position"] /\ was.position # now.position
               \/ /\ d = [field |-> "pnl"]
                  /\ was.position = now.position /\ was.pnl # now.pnl
               \/ /\ was.position = now.position /\ was.pnl = now.pnl
                  /\ \E i \in Nat, k \in 1..4 :
                        /\ d = [field |-> FillFields[k], fill |-> i]
                        /\ agreeTo(i - 1)
                        /\ was.fills[i][FillFields[k]] # now.fills[i][FillFields[k]]
               \/ /\ was.position = now.position /\ was.pnl = now.pnl
                  /\ d = [field |-> "fills"] /\ Len(was.fills) # Len(now.fills)
                  /\ agreeTo(Smaller(Len(was.fills), Len(now.fills)))
               \/ /\ was.position = now.position /\ was.pnl = now.pnl
                  /\ d = Nothing /\ was.fills = now.fills
<1> DEFINE was == Recorded(a)
           now == Recorded(b)
           D   == DifferingFills(was, now)
           la  == Len(a.fills)
           lb  == Len(b.fills)
<1>1. la \in Nat /\ lb \in Nat /\ Len(was.fills) = la /\ Len(now.fills) = lb
  BY RecordedFills
<1>2. Common(was, now) = 1..Smaller(la, lb) /\ Smaller(la, lb) \in Nat
      /\ Smaller(la, lb) =< la /\ Smaller(la, lb) =< lb
  BY <1>1 DEF Common, Smaller
<1>3. D \subseteq Nat \X Nat  BY <1>2 DEF DifferingFills
<1>4. ASSUME NEW i \in Common(was, now), \A k \in 1..4 : <<i, k>> \notin D
      PROVE  was.fills[i] = now.fills[i]
  <2>1. i \in 1..la /\ i \in 1..lb  BY <1>1, <1>2
  <2>2. \A k \in 1..4 : was.fills[i][FillFields[k]] = now.fills[i][FillFields[k]]
    BY <1>4 DEF DifferingFills
  <2>3. QED  BY <2>1, <2>2, FieldsDecide
<1> DEFINE totals == was.position = now.position /\ was.pnl = now.pnl
           p == CHOOSE q \in D : \A o \in D : Before(q, o)
<1>5. CASE totals /\ D # {}
  <2>1. p \in D /\ \A o \in D : Before(p, o)  BY <1>3, <1>5, FirstPair
  <2>2. first_divergence(was, now) = [field |-> FillFields[p[2]], fill |-> p[1]]
    BY <1>5 DEF first_divergence
  <2> HIDE DEF p
  <2>3. p[1] \in Common(was, now) /\ p[2] \in 1..4
        /\ was.fills[p[1]][FillFields[p[2]]] # now.fills[p[1]][FillFields[p[2]]]
    BY <2>1 DEF DifferingFills
  <2>4. p[1] \in Nat /\ p[1] =< Smaller(la, lb) /\ p[1] >= 1  BY <2>3, <1>2
  <2>5. ASSUME NEW i \in 1..(p[1] - 1)  PROVE was.fills[i] = now.fills[i]
    <3>1. i \in Common(was, now) /\ i < p[1]  BY <2>4, <1>2
    <3>2. ASSUME NEW k \in 1..4  PROVE <<i, k>> \notin D
      <4>1. ~ Before(p, <<i, k>>)
        <5>1. <<i, k>>[1] = i  OBVIOUS
        <5>2. ~ (p[1] < i) /\ p[1] # i  BY <2>4, <3>1
        <5>3. QED  BY <5>1, <5>2 DEF Before
      <4>2. QED  BY <4>1, <2>1
    <3>3. QED  BY <3>1, <3>2, <1>4
  <2>6. QED  BY <1>5, <2>2, <2>3, <2>4, <2>5
<1>6. CASE totals /\ D = {}
  <2>1. \A i \in 1..Smaller(la, lb) : was.fills[i] = now.fills[i]  BY <1>2, <1>4, <1>6
  <2>2. CASE la # lb
    <3>1. first_divergence(was, now) = [field |-> "fills"]
      BY <1>1, <1>6, <2>2 DEF first_divergence
    <3>2. Smaller(Len(was.fills), Len(now.fills)) = Smaller(la, lb)  BY <1>1
    <3>3. QED  BY <1>1, <1>6, <2>1, <2>2, <3>1, <3>2
  <2>3. CASE la = lb
    <3>1. Smaller(la, lb) = la  BY <2>3 DEF Smaller
    <3>2. was.fills = now.fills  BY <2>1, <2>3, <3>1, SameFills
    <3>3. first_divergence(was, now) = Nothing  BY <1>1, <1>6, <2>3 DEF first_divergence
    <3>4. QED  BY <1>6, <3>2, <3>3
  <2>4. QED  BY <2>2, <2>3
<1>7. CASE was.position # now.position
  <2>1. first_divergence(was, now) = [field |-> "position"]  BY <1>7 DEF first_divergence
  <2>2. QED  BY <1>7, <2>1
<1>8. CASE was.position = now.position /\ was.pnl # now.pnl
  <2>1. first_divergence(was, now) = [field |-> "pnl"]  BY <1>8 DEF first_divergence
  <2>2. QED  BY <1>8, <2>1
<1>9. QED  BY <1>5, <1>6, <1>7, <1>8

-----------------------------------------------------------------------------
LEMMA InitInv == Init => IInv
<1> SUFFICES ASSUME Init  PROVE IInv
  OBVIOUS
<1>1. DOMAIN EmptyBook = {"position", "cash", "lastPrice", "fills", "ticks"}
      /\ EmptyBook.fills = <<>> /\ EmptyBook.ticks = 0
  BY DEF EmptyBook
<1>2. <<>> \in Seq(FillRecord)  OBVIOUS
<1>3. book = EmptyBook /\ first.book = EmptyBook  BY DEF Init
<1>4. BookType
  <2>1. Filling(EmptyBook)  BY <1>1, <1>2 DEF Filling
  <2>2. Filling(book) /\ Filling(first.book)  BY <1>3, <2>1
  <2>3. DOMAIN book = {"position", "cash", "lastPrice", "fills", "ticks"} /\ book.ticks \in Nat
    BY <1>1, <1>3
  <2>4. QED  BY <2>2, <2>3 DEF BookType
<1>5. JudgedOnce  BY DEF Init, JudgedOnce
<1>6. QED  BY <1>4, <1>5 DEF IInv

(* Only a tick adds a fill, and it is a fill of plausible decimals.          *)
LEMMA TickKeepsFills ==
    ASSUME BookType, Tick  PROVE BookType'
<1>1. PICK price \in Prices :
        \/ Trade(price)
        \/ \E side \in {"BUY", "SELL"}, size \in Sizes : TradeFilling(side, size, price)
  BY DEF Tick
<1>2. first' = first  BY DEF Tick
<1> DEFINE shape == {"position", "cash", "lastPrice", "fills", "ticks"}
<1>3. CASE Trade(price)
  <2>1. DOMAIN book' = shape /\ book'.fills = book.fills /\ book'.ticks = book.ticks + 1
    BY <1>3 DEF Trade, Revealed, BookType
  <2>2. QED  BY <2>1, <1>2 DEF BookType, Filling
<1>4. CASE \E side \in {"BUY", "SELL"}, size \in Sizes : TradeFilling(side, size, price)
  <2>1. PICK side \in {"BUY", "SELL"}, size \in Sizes : TradeFilling(side, size, price)
    BY <1>4
  <2> DEFINE fill == [at |-> book.ticks, side |-> side, size |-> size, price |-> price]
             b    == Filled(book, side, size, price)
  <2>2. DOMAIN b = shape /\ b.fills = Append(book.fills, fill) /\ b.ticks = book.ticks
    BY DEF Filled, BookType
  <2>3. DOMAIN Revealed(b, price) = shape /\ Revealed(b, price).fills = b.fills
        /\ Revealed(b, price).ticks = b.ticks + 1
    BY <2>2 DEF Revealed
  <2>4. book' = Revealed(b, price)  BY <2>1 DEF TradeFilling
  <2>5. fill \in FillRecord  BY DEF FillRecord, BookType
  <2>6. Append(book.fills, fill) \in Seq(FillRecord)
    BY <2>5, AppendProperties DEF BookType, Filling
  <2> HIDE DEF fill, b
  <2>7. DOMAIN book' = shape /\ book'.fills \in Seq(FillRecord)
    BY <2>2, <2>3, <2>4, <2>6
  <2>8. book'.ticks \in Nat
    BY <2>2, <2>3, <2>4 DEF BookType, Filling
  <2>9. Filling(book')  BY <2>7 DEF Filling
  <2>10. Filling(first'.book)  BY <1>2, Zenon DEF BookType
  <2>11. QED  BY <2>7, <2>8, <2>9, <2>10 DEF BookType
<1>5. QED  BY <1>1, <1>3, <1>4

LEMMA StepInv == IInv /\ [Next]_vars => IInv'
<1> SUFFICES ASSUME IInv, [Next]_vars  PROVE IInv'
  OBVIOUS
<1> USE DEF IInv
<1>1. CASE Tick
  <2>1. BookType'  BY <1>1, TickKeepsFills
  <2>2. JudgedOnce'  BY <1>1 DEF Tick, JudgedOnce
  <2>3. QED  BY <2>1, <2>2
<1>2. CASE End
  <2>1. BookType'  BY <1>2 DEF End, BookType, Filling
  <2>2. JudgedOnce'  BY <1>2 DEF End, Ended, JudgedOnce
  <2>3. QED  BY <2>1, <2>2
<1>3. CASE Implausible
  <2>1. BookType'  BY <1>3 DEF Implausible, BookType, Filling
  <2>2. JudgedOnce'  BY <1>3 DEF Implausible, Ended, JudgedOnce
  <2>3. QED  BY <2>1, <2>2
<1>4. CASE Verify
  <2>1. book' = EmptyBook /\ first'.book = book /\ first'.hash = Recorded(book)
    BY <1>4 DEF Verify, ResultHash
  <2>2. BookType'  BY <2>1 DEF BookType, Filling, EmptyBook
  <2>3. JudgedOnce'  BY <2>1, <1>4 DEF Verify, JudgedOnce
  <2>4. QED  BY <2>2, <2>3
<1>5. CASE Judge
  <2>1. BookType'  BY <1>5 DEF Judge, BookType, Filling
  <2>2. JudgedOnce'  BY <1>5 DEF Judge, JudgedOnce
  <2>3. QED  BY <2>1, <2>2
<1>6. CASE UNCHANGED vars
  BY <1>6 DEF vars, BookType, Filling, JudgedOnce
<1>7. QED  BY <1>1, <1>2, <1>3, <1>4, <1>5, <1>6 DEF Next

(* The books keep their types and each execution is judged once: the         *)
(* invariant the theorem below is read from.                                 *)
THEOREM InvHolds == Spec => []IInv
  BY InitInv, StepInv, PTL DEF Spec

(* If totals, fills and ticks agree, so do the hashes of two results.        *)
LEMMA HashDecides ==
    ASSUME NEW a, NEW b, NEW how \in RAN_OUTCOMES,
           Recorded(a).position = Recorded(b).position, Recorded(a).pnl = Recorded(b).pnl,
           Recorded(a).fills = Recorded(b).fills, Recorded(a).ticks = Recorded(b).ticks
    PROVE  ResultHash(b, how) = Recorded(a)
<1> DEFINE R(x) == [position |-> Recorded(x).position, pnl |-> Recorded(x).pnl,
                    fills |-> Recorded(x).fills, ticks |-> Recorded(x).ticks]
<1>1. \A x : Recorded(x) = R(x)  BY DEF Recorded
<1>2. R(a) = R(b)  OBVIOUS
<1>3. QED  BY <1>1, <1>2 DEF ResultHash

LEMMA InvIsEnough == IInv => DivergenceIsFirst
<1> SUFFICES ASSUME IInv, verdict = "DIVERGED"  PROVE DivergenceIsFirst
  BY DEF DivergenceIsFirst
<1> DEFINE was == Recorded(first.book)
           now == Recorded(book)
           agreeTo(n) == \A i \in 1..n : was.fills[i] = now.fills[i]
           totals == was.position = now.position /\ was.pnl = now.pnl
<1>1. Filling(first.book) /\ Filling(book)  BY DEF IInv, BookType
<1>2. divergence = first_divergence(was, now) /\ ResultHash(book, outcome) # was
  BY DEF IInv, JudgedOnce
<1>3. \/ divergence = [field |-> "position"] /\ was.position # now.position
      \/ /\ divergence = [field |-> "pnl"]
         /\ was.position = now.position /\ was.pnl # now.pnl
      \/ /\ totals
         /\ \E i \in Nat, k \in 1..4 :
               /\ divergence = [field |-> FillFields[k], fill |-> i]
               /\ agreeTo(i - 1)
               /\ was.fills[i][FillFields[k]] # now.fills[i][FillFields[k]]
      \/ /\ totals
         /\ divergence = [field |-> "fills"] /\ Len(was.fills) # Len(now.fills)
         /\ agreeTo(Smaller(Len(was.fills), Len(now.fills)))
      \/ totals /\ divergence = Nothing /\ was.fills = now.fills
  BY <1>1, <1>2, FirstDivergence
<1>4. totals /\ was.fills = now.fills => was.ticks # now.ticks \/ outcome \notin RAN_OUTCOMES
  BY <1>2, HashDecides
<1> HIDE DEF was, now
<1>5. CASE divergence = [field |-> "position"] /\ was.position # now.position
  BY <1>5 DEF DivergenceIsFirst, Nothing, was, now
<1>6. CASE divergence = [field |-> "pnl"] /\ was.position = now.position /\ was.pnl # now.pnl
  BY <1>6 DEF DivergenceIsFirst, Nothing, was, now
<1>7. CASE totals /\ \E i \in Nat, k \in 1..4 :
              /\ divergence = [field |-> FillFields[k], fill |-> i]
              /\ agreeTo(i - 1)
              /\ was.fills[i][FillFields[k]] # now.fills[i][FillFields[k]]
  <2>1. PICK i \in Nat, k \in 1..4 :
              /\ divergence = [field |-> FillFields[k], fill |-> i]
              /\ agreeTo(i - 1)
              /\ was.fills[i][FillFields[k]] # now.fills[i][FillFields[k]]
    BY <1>7
  <2>2. FillFields[k] \in {"at", "side", "size", "price"}  BY DEF FillFields
  <2>3. divergence.field = FillFields[k] /\ divergence.fill = i
        /\ DOMAIN divergence = {"field", "fill"}
    BY <2>1
  <2>4. divergence # Nothing  BY <2>3 DEF Nothing
  <2>5. QED  BY <1>7, <2>1, <2>2, <2>3, <2>4 DEF DivergenceIsFirst, was, now
<1>8. CASE /\ totals
           /\ divergence = [field |-> "fills"] /\ Len(was.fills) # Len(now.fills)
           /\ agreeTo(Smaller(Len(was.fills), Len(now.fills)))
  BY <1>8 DEF DivergenceIsFirst, Nothing, was, now
<1>9. CASE totals /\ divergence = Nothing /\ was.fills = now.fills
  BY <1>4, <1>9 DEF DivergenceIsFirst, Nothing, was, now
<1>10. QED  BY <1>3, <1>5, <1>6, <1>7, <1>8, <1>9

(* Whatever the precision and however the executions differ: the field a     *)
(* DIVERGED verdict names differs and is the first that does, and when it    *)
(* names none the two agree in all it looks at.  verify.first_divergence.    *)
THEOREM DivergencesAreFirst == Spec => []DivergenceIsFirst
  BY InvHolds, InvIsEnough, PTL

-----------------------------------------------------------------------------
(* Arithmetic the solvers are told of.                                       *)
LEMMA Cancel ==
    ASSUME NEW a \in Int, NEW b \in Int, NEW c \in Int, c > 0, a * c = b * c
    PROVE  a = b
  BY SMT

LEMMA MulMono ==
    ASSUME NEW a \in Int, NEW b \in Int, NEW c \in Nat, a =< b
    PROVE  a * c =< b * c
  BY SMT

LEMMA MulMonoStrict ==
    ASSUME NEW a \in Int, NEW b \in Int, NEW c \in Int, c > 0, a < b
    PROVE  a * c < b * c
  BY SMT

LEMMA MulAssoc ==
    ASSUME NEW a \in Int, NEW b \in Int, NEW c \in Int
    PROVE  (a * b) * c = a * (b * c) /\ a * b = b * a /\ a * b \in Int
  BY SMT

LEMMA MulDist ==
    ASSUME NEW a \in Int, NEW b \in Int, NEW c \in Int
    PROVE  (a + b) * c = a * c + b * c
  BY SMT

LEMMA MulNat ==
    ASSUME NEW a \in Nat, NEW b \in Nat
    PROVE  a * b \in Nat /\ (a > 0 /\ b > 0 => a * b > 0 /\ a * b >= a)
  BY SMT

LEMMA DivUnique ==
    ASSUME NEW q \in Nat, NEW r \in Nat, NEW K \in Nat, r < K
    PROVE  (q * K + r) \div K = q /\ (q * K + r) % K = r
  BY SMT

LEMMA DivMod ==
    ASSUME NEW n \in Nat, NEW K \in Nat, K > 0
    PROVE  /\ n \div K \in Nat /\ n % K \in Nat /\ n % K < K
           /\ n = (n \div K) * K + (n % K)
  <1>1. n \div K \in Nat
    BY SMT
  <1>2. n % K \in Nat /\ n % K < K
    BY SMT
  <1>3. n = (n \div K) * K + (n % K)
    BY SMT
  <1> QED BY <1>1, <1>2, <1>3

(* Induction: a set of naturals that holds 0, and with k also k + 1, holds   *)
(* all of them.                                                              *)
LEMMA Induction ==
    ASSUME NEW T, 0 \in T, \A k \in Nat : k \in T => k + 1 \in T
    PROVE  \A k \in Nat : k \in T
  <1> SUFFICES ASSUME {k \in Nat : k \notin T} # {} PROVE FALSE
    OBVIOUS
  <1>1. PICK m \in {k \in Nat : k \notin T} : \A k \in {k \in Nat : k \notin T} : m =< k
    <2>1. {k \in Nat : k \notin T} \subseteq Nat
      OBVIOUS
    <2> QED BY <2>1, NatMin
  <1>2. m \in Nat /\ m \notin T /\ m # 0 /\ m - 1 \in Nat /\ ~(m =< m - 1)
    BY SMT
  <1>3. m - 1 \in T
    BY <1>1, <1>2
  <1>4. (m - 1) + 1 \in T
    BY <1>2, <1>3
  <1> QED BY <1>2, <1>4, SMT

(* Recursion: a first value and a step make a function of the naturals.      *)
Steps(f, c, step, n) ==
    f[0] = c /\ \A k \in Nat : k < n => f[k + 1] = step[<<k, f[k]>>]

LEMMA StepsAgree ==
    ASSUME NEW c, NEW step, NEW f, NEW g, NEW m \in Nat, NEW n \in Nat,
           Steps(f, c, step, m), Steps(g, c, step, n)
    PROVE  \A k \in Nat : k =< m /\ k =< n => f[k] = g[k]
  <1> DEFINE T == {k \in Nat : k =< m /\ k =< n => f[k] = g[k]}
  <1>1. 0 \in T
    BY DEF Steps
  <1>2. ASSUME NEW k \in Nat, k \in T PROVE k + 1 \in T
    <2> SUFFICES ASSUME k + 1 =< m, k + 1 =< n PROVE f[k + 1] = g[k + 1]
      BY SMT
    <2>1. k < m /\ k < n /\ k =< m /\ k =< n
      BY SMT
    <2>2. f[k] = g[k]
      BY <1>2, <2>1
    <2> QED BY <2>1, <2>2 DEF Steps
  <1> HIDE DEF T
  <1>3. \A k \in Nat : k \in T
    BY <1>1, <1>2, Induction
  <1> QED BY <1>3 DEF T

StepOn(S) == [Nat \X S -> S]
Follows(f, c, step) == f[0] = c /\ \A k \in Nat : f[k + 1] = step[<<k, f[k]>>]

LEMMA Recursion ==
    ASSUME NEW S, NEW c \in S, NEW step \in StepOn(S)
    PROVE  \E f \in [Nat -> S] : Follows(f, c, step)
  <1> USE DEF StepOn
  <1> DEFINE T == {n \in Nat : \E f \in [Nat -> S] : Steps(f, c, step, n)}
  <1>1. 0 \in T
    <2> DEFINE f == [k \in Nat |-> c]
    <2>1. f \in [Nat -> S] /\ f[0] = c
      OBVIOUS
    <2>2. \A k \in Nat : ~(k < 0)
      BY SMT
    <2> QED BY <2>1, <2>2 DEF Steps
  <1>2. ASSUME NEW n \in Nat, n \in T PROVE n + 1 \in T
    <2>1. PICK f \in [Nat -> S] : Steps(f, c, step, n)
      BY <1>2
    <2> DEFINE g == [f EXCEPT ![n + 1] = step[<<n, f[n]>>]]
    <2>2. g \in [Nat -> S] /\ g[n + 1] = step[<<n, f[n]>>]
      BY SMT
    <2>3. \A k \in Nat : k # n + 1 => g[k] = f[k]
      OBVIOUS
    <2> HIDE DEF g
    <2>4. g[0] = c
      BY <2>1, <2>3, SMT DEF Steps
    <2>5. ASSUME NEW k \in Nat, k < n + 1 PROVE g[k + 1] = step[<<k, g[k]>>]
      <3>1. g[k] = f[k]
        BY <2>3, <2>5, SMT
      <3>2. CASE k = n
        BY <2>2, <3>1, <3>2
      <3>3. CASE k < n
        <4>1. k + 1 # n + 1 /\ k + 1 \in Nat
          BY <3>3, SMT
        <4> QED BY <2>1, <2>3, <3>1, <3>3, <4>1 DEF Steps
      <3> QED BY <2>5, <3>2, <3>3, SMT
    <2> QED BY <2>2, <2>4, <2>5 DEF Steps
  <1> HIDE DEF T
  <1>3. \A n \in Nat : n \in T
    BY <1>1, <1>2, Induction
  <1>4. \A n \in Nat : \E f \in [Nat -> S] : Steps(f, c, step, n)
    BY <1>3 DEF T
  <1> DEFINE upTo(n) == CHOOSE f \in [Nat -> S] : Steps(f, c, step, n)
             h == [n \in Nat |-> upTo(n)[n]]
  <1>5. \A n \in Nat : upTo(n) \in [Nat -> S] /\ Steps(upTo(n), c, step, n)
    BY <1>4
  <1> HIDE DEF upTo
  <1>6. h \in [Nat -> S]
    BY <1>5
  <1>7. h[0] = c
    BY <1>5 DEF Steps
  <1>8. ASSUME NEW k \in Nat PROVE h[k + 1] = step[<<k, h[k]>>]
    <2>1. k + 1 \in Nat /\ k < k + 1 /\ k =< k + 1 /\ k =< k
      BY SMT
    <2>2. upTo(k + 1)[k + 1] = step[<<k, upTo(k + 1)[k]>>]
      BY <1>5, <2>1 DEF Steps
    <2>3. upTo(k + 1)[k] = upTo(k)[k]
      BY <1>5, <2>1, StepsAgree
    <2> QED BY <2>1, <2>2, <2>3
  <1> QED BY <1>6, <1>7, <1>8 DEF Follows

(* The powers of ten are what their definition says.                         *)
LEMMA Pow10Defined ==
    /\ Pow10[0] = 1
    /\ \A k \in Nat : Pow10[k] \in Nat /\ Pow10[k + 1] = 10 * Pow10[k]
  <1> DEFINE step == [p \in Nat \X Nat |-> 10 * p[2]]
             IsPow(f) == f = [k \in Nat |-> IF k = 0 THEN 1 ELSE 10 * f[k - 1]]
  <1>1. step \in StepOn(Nat)
    BY SMT DEF StepOn
  <1>2. \A k \in Nat, v \in Nat : step[<<k, v>>] = 10 * v
    OBVIOUS
  <1> HIDE DEF step
  <1>10. PICK f \in [Nat -> Nat] : Follows(f, 1, step)
    BY <1>1, Recursion, Zenon
  <1>3. f[0] = 1 /\ \A k \in Nat : f[k + 1] = step[<<k, f[k]>>]
    BY <1>10 DEF Follows
  <1>4. ASSUME NEW k \in Nat PROVE f[k] = IF k = 0 THEN 1 ELSE 10 * f[k - 1]
    <2>1. CASE k = 0
      BY <1>3, <2>1
    <2>2. CASE k # 0
      <3>1. PICK j \in Nat : k = j + 1 /\ k - 1 = j
        <4>1. k - 1 \in Nat /\ k = (k - 1) + 1
          BY <2>2, SMT
        <4> QED BY <4>1
      <3>2. f[k] = 10 * f[j]
        BY <1>2, <1>3, <3>1
      <3> QED BY <2>2, <3>1, <3>2
    <2> QED BY <2>1, <2>2
  <1>5. IsPow(f)
    BY <1>4
  <1>6. Pow10 = CHOOSE g : IsPow(g)
    BY DEF Pow10
  <1>7. IsPow(Pow10)
    BY <1>5, <1>6
  <1>8. Pow10[0] = 1 /\ \A k \in Nat : Pow10[k + 1] = 10 * Pow10[k]
    <2>1. \A k \in Nat : Pow10[k] = IF k = 0 THEN 1 ELSE 10 * Pow10[k - 1]
      BY <1>7
    <2>2. \A k \in Nat : k + 1 \in Nat /\ k + 1 # 0 /\ (k + 1) - 1 = k
      BY SMT
    <2> QED BY <2>1, <2>2
  <1>9. \A k \in Nat : Pow10[k] \in Nat
    <2> DEFINE T == {k \in Nat : Pow10[k] \in Nat}
    <2>1. 0 \in T
      BY <1>8
    <2>2. \A k \in Nat : k \in T => k + 1 \in T
      BY <1>8, SMT
    <2> HIDE DEF T
    <2>3. \A k \in Nat : k \in T
      BY <2>1, <2>2, Induction
    <2> QED BY <2>3 DEF T
  <1> QED BY <1>8, <1>9

LEMMA PowPositive == \A k \in Nat : Pow10[k] \in Nat /\ Pow10[k] > 0 /\ k < Pow10[k]
  <1> DEFINE T == {k \in Nat : k < Pow10[k]}
  <1>1. 0 \in T
    BY Pow10Defined
  <1>2. ASSUME NEW k \in Nat, k \in T PROVE k + 1 \in T
    <2>1. k < Pow10[k] /\ Pow10[k] \in Nat /\ Pow10[k + 1] = 10 * Pow10[k]
      BY <1>2, Pow10Defined
    <2>2. k + 1 < Pow10[k + 1]
      BY <2>1, SMT
    <2> QED BY <2>2
  <1> HIDE DEF T
  <1>3. \A k \in Nat : k \in T
    BY <1>1, <1>2, Induction
  <1>4. ASSUME NEW k \in Nat PROVE Pow10[k] \in Nat /\ Pow10[k] > 0 /\ k < Pow10[k]
    <2>1. k < Pow10[k] /\ Pow10[k] \in Nat
      BY <1>3, Pow10Defined DEF T
    <2> QED BY <2>1, SMT
  <1> QED BY <1>4

LEMMA PowSum == \A a \in Nat, b \in Nat : Pow10[a + b] = Pow10[a] * Pow10[b]
  <1> SUFFICES ASSUME NEW a \in Nat PROVE \A b \in Nat : Pow10[a + b] = Pow10[a] * Pow10[b]
    OBVIOUS
  <1> DEFINE T == {b \in Nat : Pow10[a + b] = Pow10[a] * Pow10[b]}
  <1>1. 0 \in T
    <2>1. a + 0 = a /\ Pow10[a] * 1 = Pow10[a]
      BY Pow10Defined, SMT
    <2> QED BY <2>1, Pow10Defined
  <1>2. ASSUME NEW b \in Nat, b \in T PROVE b + 1 \in T
    <2>1. a + (b + 1) = (a + b) + 1 /\ a + b \in Nat
      BY SMT
    <2>2. Pow10[(a + b) + 1] = 10 * (Pow10[a] * Pow10[b])
      BY <1>2, <2>1, Pow10Defined
    <2>3. Pow10[b + 1] = 10 * Pow10[b]
      BY Pow10Defined
    <2>4. ASSUME NEW x \in Nat, NEW y \in Nat PROVE 10 * (x * y) = x * (10 * y)
      BY SMT
    <2>5. Pow10[a] \in Nat /\ Pow10[b] \in Nat
      BY Pow10Defined
    <2>6. Pow10[a + (b + 1)] = Pow10[a] * Pow10[b + 1]
      BY <2>1, <2>2, <2>3, <2>4, <2>5
    <2> QED BY <2>6
  <1> HIDE DEF T
  <1>3. \A b \in Nat : b \in T
    BY <1>1, <1>2, Induction
  <1> QED BY <1>3 DEF T

LEMMA PowMono ==
    ASSUME NEW a \in Nat, NEW b \in Nat, a =< b
    PROVE  Pow10[a] =< Pow10[b]
  <1>1. PICK c \in Nat : b = a + c
    <2>1. b - a \in Nat /\ b = a + (b - a)
      BY SMT
    <2> QED BY <2>1
  <1>2. Pow10[b] = Pow10[a] * Pow10[c]
    BY <1>1, PowSum
  <1>3. /\ Pow10[a] \in Nat /\ Pow10[c] \in Nat /\ Pow10[a] > 0 /\ Pow10[c] > 0
    BY PowPositive
  <1> QED BY <1>2, <1>3, MulNat

-----------------------------------------------------------------------------
(* Sums.                                                                     *)
IsSum(f, terms) ==
    f = [k \in 0..Len(terms) |-> IF k = 0 THEN 0 ELSE f[k - 1] + terms[k]]

LEMMA SumsExist ==
    ASSUME NEW terms \in Seq(Int) PROVE \E f : IsSum(f, terms)
  <1> DEFINE n == Len(terms)
             step == [p \in Nat \X Int |-> IF p[1] < n THEN p[2] + terms[p[1] + 1] ELSE p[2]]
  <1>1. n \in Nat /\ \A k \in 1..n : terms[k] \in Int
    BY SMT
  <1> HIDE DEF n
  <1>2. step \in StepOn(Int)
    <2>1. ASSUME NEW p \in Nat \X Int
          PROVE  (IF p[1] < n THEN p[2] + terms[p[1] + 1] ELSE p[2]) \in Int
      <3>1. p[1] \in Nat /\ p[2] \in Int /\ (p[1] < n => p[1] + 1 \in 1..n)
        BY <1>1, SMT
      <3> QED BY <1>1, <3>1, SMT
    <2> QED BY <2>1 DEF StepOn
  <1>3. \A k \in Nat, v \in Int : k < n => step[<<k, v>>] = v + terms[k + 1]
    OBVIOUS
  <1> HIDE DEF step
  <1>4. PICK f \in [Nat -> Int] : Follows(f, 0, step)
    <2>1. 0 \in Int
      OBVIOUS
    <2> QED BY <1>2, <2>1, Recursion, Zenon
  <1>5. f[0] = 0 /\ \A k \in Nat : f[k + 1] = step[<<k, f[k]>>]
    BY <1>4 DEF Follows
  <1> DEFINE g == [k \in 0..n |-> f[k]]
  <1>6. ASSUME NEW k \in 0..n PROVE g[k] = IF k = 0 THEN 0 ELSE g[k - 1] + terms[k]
    <2>1. CASE k = 0
      BY <1>5, <2>1
    <2>2. CASE k # 0
      <3>1. PICK j \in Nat : k = j + 1 /\ k - 1 = j /\ j < n /\ j \in 0..n
        <4>1. k - 1 \in Nat /\ k = (k - 1) + 1 /\ k - 1 < n /\ k - 1 \in 0..n
          BY <1>1, <2>2, SMT
        <4> QED BY <4>1
      <3>2. f[k] = f[j] + terms[k]
        BY <1>3, <1>5, <3>1
      <3> QED BY <2>2, <3>1, <3>2
    <2> QED BY <2>1, <2>2
  <1>7. g = [k \in 0..n |-> IF k = 0 THEN 0 ELSE g[k - 1] + terms[k]]
    BY <1>6
  <1> QED BY <1>7 DEF IsSum, n

LEMMA SumIs ==
    ASSUME NEW terms \in Seq(Int)
    PROVE  \E f : IsSum(f, terms) /\ SumOf(terms) = f[Len(terms)]
  <1>1. SumOf(terms) = (CHOOSE f : IsSum(f, terms))[Len(terms)]
    BY DEF SumOf, IsSum
  <1> QED BY <1>1, SumsExist

(* Two sums over terms that begin alike begin alike.                         *)
LEMMA SumsAgree ==
    ASSUME NEW s \in Seq(Int), NEW t \in Seq(Int), Len(s) =< Len(t),
           \A i \in 1..Len(s) : s[i] = t[i],
           NEW f, NEW g, IsSum(f, s), IsSum(g, t)
    PROVE  \A k \in 0..Len(s) : f[k] = g[k] /\ f[k] \in Int
  <1> DEFINE T == {k \in Nat : k =< Len(s) => f[k] = g[k] /\ f[k] \in Int}
  <1>0. Len(s) \in Nat /\ Len(t) \in Nat
    BY SMT
  <1>1. 0 \in T
    <2>1. 0 \in 0..Len(s) /\ 0 \in 0..Len(t)
      BY <1>0, SMT
    <2>2. f[0] = 0 /\ g[0] = 0
      BY <2>1 DEF IsSum
    <2> QED BY <2>2
  <1>2. ASSUME NEW k \in Nat, k \in T PROVE k + 1 \in T
    <2> SUFFICES ASSUME k + 1 =< Len(s) PROVE f[k + 1] = g[k + 1] /\ f[k + 1] \in Int
      BY SMT
    <2>1. /\ k =< Len(s) /\ k + 1 # 0 /\ (k + 1) - 1 = k
          /\ k + 1 \in 1..Len(s) /\ k + 1 \in 0..Len(s) /\ k + 1 \in 0..Len(t)
      BY <1>0, SMT
    <2>2. f[k] = g[k] /\ f[k] \in Int
      BY <1>2, <2>1
    <2>3. f[k + 1] = f[k] + s[k + 1] /\ g[k + 1] = g[k] + t[k + 1]
      BY <2>1 DEF IsSum
    <2>4. s[k + 1] = t[k + 1] /\ s[k + 1] \in Int
      BY <2>1, ElementOfSeq
    <2> QED BY <2>2, <2>3, <2>4, SMT
  <1> HIDE DEF T
  <1>3. \A k \in Nat : k \in T
    BY <1>1, <1>2, Induction
  <1>4. \A k \in 0..Len(s) : k \in Nat /\ k =< Len(s)
    BY <1>0, SMT
  <1> QED BY <1>3, <1>4 DEF T

LEMMA SumEmpty == SumOf(<<>>) = 0
  <1>1. <<>> \in Seq(Int) /\ Len(<<>>) = 0
    BY SMT
  <1>2. PICK f : IsSum(f, <<>>) /\ SumOf(<<>>) = f[0]
    BY <1>1, SumIs
  <1>3. 0 \in 0..0
    BY SMT
  <1> QED BY <1>1, <1>2, <1>3 DEF IsSum

LEMMA SumAppend ==
    ASSUME NEW s \in Seq(Int), NEW e \in Int
    PROVE  /\ SumOf(Append(s, e)) = SumOf(s) + e
           /\ SumOf(s) \in Int
  <1>1. PICK f : IsSum(f, s) /\ SumOf(s) = f[Len(s)]
    BY SumIs
  <1>2. PICK t \in Seq(Int) : t = Append(s, e)
    BY AppendProperties
  <1>3. PICK g : IsSum(g, t) /\ SumOf(t) = g[Len(t)]
    BY SumIs
  <1>4. /\ Len(s) \in Nat /\ Len(t) = Len(s) + 1 /\ t[Len(s) + 1] = e
        /\ \A i \in 1..Len(s) : t[i] = s[i]
    BY <1>2, AppendProperties, LenProperties
  <1>5. Len(s) =< Len(t) /\ Len(s) \in 0..Len(s)
    BY <1>4, SMT
  <1>6. f[Len(s)] = g[Len(s)] /\ f[Len(s)] \in Int
    BY <1>1, <1>3, <1>4, <1>5, SumsAgree
  <1>7. Len(t) \in 0..Len(t) /\ Len(t) # 0 /\ Len(t) - 1 = Len(s)
    BY <1>4, SMT
  <1>8. g[Len(t)] = g[Len(s)] + e
    BY <1>3, <1>4, <1>7 DEF IsSum
  <1> QED BY <1>1, <1>2, <1>3, <1>6, <1>8

-----------------------------------------------------------------------------
(* How many digits a number has.                                             *)
HasDigits(n, k) == n < Pow10[k] /\ (k > 1 => n >= Pow10[k - 1])

(* There is a number of digits, and Digits finds it.                         *)
LEMMA DigitsAre ==
    ASSUME NEW n \in Nat
    PROVE  Digits(n) \in Nat /\ Digits(n) >= 1 /\ HasDigits(n, Digits(n))
  <1> DEFINE T == {k \in Nat : k >= 1 /\ n < Pow10[k]}
  <1>1. n + 1 \in T
    <2>1. n + 1 \in Nat /\ n + 1 >= 1
      BY SMT
    <2>2. n + 1 < Pow10[n + 1] /\ Pow10[n + 1] \in Nat
      BY <2>1, PowPositive
    <2>3. n < Pow10[n + 1]
      BY <2>2, SMT
    <2> QED BY <2>1, <2>3
  <1>2. PICK k \in T : \A o \in T : k =< o
    BY <1>1, NatMin
  <1>3. k \in Nat /\ k >= 1 /\ n < Pow10[k] /\ k =< n + 1
    BY <1>1, <1>2
  <1>4. k > 1 => n >= Pow10[k - 1]
    <2> SUFFICES ASSUME k > 1 PROVE n >= Pow10[k - 1]
      OBVIOUS
    <2>1. k - 1 \in Nat /\ k - 1 >= 1 /\ ~(k =< k - 1)
      BY <1>3, SMT
    <2>2. ~(n < Pow10[k - 1])
      BY <1>2, <2>1
    <2>3. Pow10[k - 1] \in Nat
      BY <2>1, Pow10Defined
    <2> QED BY <2>2, <2>3, SMT
  <1>5. k \in 1..(n + 1)
    BY <1>3, SMT
  <1>6. Digits(n) \in 1..(n + 1) /\ HasDigits(n, Digits(n))
    BY <1>3, <1>4, <1>5 DEF Digits, HasDigits
  <1> QED BY <1>6, SMT

LEMMA DigitsAtMost ==
    ASSUME NEW n \in Nat, NEW p \in Nat, p >= 1, n < Pow10[p]
    PROVE  Digits(n) =< p
  <1> SUFFICES ASSUME ~(Digits(n) =< p) PROVE FALSE
    OBVIOUS
  <1>1. Digits(n) \in Nat /\ HasDigits(n, Digits(n))
    BY DigitsAre
  <1>2. Digits(n) > 1 /\ Digits(n) - 1 \in Nat /\ p =< Digits(n) - 1
    BY <1>1, SMT
  <1>3. n >= Pow10[Digits(n) - 1]
    BY <1>1, <1>2 DEF HasDigits
  <1>4. Pow10[p] =< Pow10[Digits(n) - 1]
    BY <1>2, PowMono
  <1>5. Pow10[p] \in Nat /\ Pow10[Digits(n) - 1] \in Nat
    BY <1>2, Pow10Defined
  <1> QED BY <1>3, <1>4, <1>5, SMT

LEMMA DigitsUnique ==
    ASSUME NEW n \in Nat, NEW k \in Nat, k >= 1, HasDigits(n, k)
    PROVE  Digits(n) = k
  <1>1. Digits(n) \in Nat /\ Digits(n) >= 1 /\ n < Pow10[Digits(n)]
    BY DigitsAre DEF HasDigits
  <1>2. Digits(n) =< k
    BY DigitsAtMost DEF HasDigits
  <1> SUFFICES ASSUME Digits(n) < k PROVE FALSE
    BY <1>1, <1>2, SMT
  <1>3. k > 1 /\ k - 1 \in Nat /\ Digits(n) =< k - 1
    BY <1>1, SMT
  <1>4. Pow10[Digits(n)] =< Pow10[k - 1]
    BY <1>1, <1>3, PowMono
  <1>5. n >= Pow10[k - 1]
    BY <1>3 DEF HasDigits
  <1>6. Pow10[Digits(n)] \in Nat /\ Pow10[k - 1] \in Nat
    BY <1>1, <1>3, Pow10Defined
  <1> QED BY <1>1, <1>4, <1>5, <1>6, SMT

(* Zeros appended are digits more.                                           *)
LEMMA DigitsShifted ==
    ASSUME NEW c \in Nat, NEW m \in Nat, c > 0
    PROVE  /\ c * Pow10[m] \in Nat /\ c * Pow10[m] > 0
           /\ Digits(c * Pow10[m]) = Digits(c) + m
  <1>1. PICK k \in Nat : k = Digits(c)
    BY DigitsAre
  <1>2. k >= 1 /\ c < Pow10[k] /\ (k > 1 => c >= Pow10[k - 1])
    BY <1>1, DigitsAre DEF HasDigits
  <1>3. PICK q \in Nat : q = Pow10[m]
    BY Pow10Defined
  <1>4. q > 0
    BY <1>3, PowPositive
  <1>5. c * q \in Nat /\ c * q > 0 /\ c * q >= q
    BY <1>4, MulNat, MulAssoc
  <1>6. Pow10[k] \in Nat /\ Pow10[k + m] = Pow10[k] * q
    BY <1>3, PowSum, Pow10Defined
  <1>7. c * q < Pow10[k + m]
    BY <1>2, <1>4, <1>6, MulMonoStrict
  <1>8. k + m > 1 => c * q >= Pow10[(k + m) - 1]
    <2>1. CASE k > 1
      <3>1. k - 1 \in Nat /\ (k + m) - 1 = (k - 1) + m
        BY <2>1, SMT
      <3>2. Pow10[(k + m) - 1] = Pow10[k - 1] * q /\ Pow10[k - 1] \in Nat
        <4>1. Pow10[(k - 1) + m] = Pow10[k - 1] * Pow10[m]
          BY <3>1, PowSum
        <4> QED BY <1>3, <3>1, <4>1, Pow10Defined
      <3>3. Pow10[k - 1] =< c
        BY <1>2, <2>1, <3>2, SMT
      <3>4. Pow10[k - 1] * q =< c * q
        BY <3>2, <3>3, MulMono
      <3>5. Pow10[k - 1] * q \in Nat
        BY <3>2, MulNat
      <3> QED BY <1>5, <3>2, <3>4, <3>5, SMT
    <2>2. CASE ~(k > 1)
      <3>1. (k + m) - 1 = m
        BY <1>2, <2>2, SMT
      <3> QED BY <1>3, <1>5, <3>1
    <2> QED BY <2>1, <2>2
  <1>9. Digits(c * q) = k + m
    <2>1. k + m \in Nat /\ k + m >= 1
      BY <1>2, SMT
    <2> QED BY <1>5, <1>7, <1>8, <2>1, DigitsUnique DEF HasDigits
  <1> QED BY <1>1, <1>3, <1>5, <1>9

-----------------------------------------------------------------------------
(* Units.                                                                    *)
Signed(d) == (IF d.neg THEN -1 ELSE 1) * d.coeff

(* A decimal's parts, and its coefficient with its sign.                     *)
LEMMA SignedIs ==
    ASSUME NEW d \in DecimalType
    PROVE  /\ Signed(d) \in Int
           /\ d.coeff \in Nat /\ d.exp \in Int /\ d.neg \in BOOLEAN
           /\ (d.neg => Signed(d) = -d.coeff) /\ (~d.neg => Signed(d) = d.coeff)
  <1>1. d.coeff \in Nat /\ d.exp \in Int /\ d.neg \in BOOLEAN
    BY DEF DecimalType
  <1>2. CASE d.neg
    BY <1>1, <1>2, SMT DEF Signed
  <1>3. CASE ~d.neg
    BY <1>1, <1>3, SMT DEF Signed
  <1> QED BY <1>1, <1>2, <1>3

LEMMA UnitsAre ==
    ASSUME NEW d \in DecimalType, NEW j \in Int, d.exp + j \in Nat
    PROVE  Units(d, j) = Signed(d) * Pow10[d.exp + j] /\ Units(d, j) \in Int
  <1>1. Units(d, j) = Signed(d) * Pow10[d.exp + j]
    BY DEF Units, Signed
  <1>2. Pow10[d.exp + j] \in Int /\ Signed(d) \in Int
    BY Pow10Defined, SignedIs
  <1> QED BY <1>1, <1>2, MulAssoc

(* In a finer unit, so many times as many.                                   *)
LEMMA UnitsScale ==
    ASSUME NEW d \in DecimalType, NEW j \in Int, NEW m \in Nat, d.exp + j \in Nat
    PROVE  d.exp + (j + m) \in Nat /\ Units(d, j + m) = Units(d, j) * Pow10[m]
  <1>1. d.exp \in Int /\ Signed(d) \in Int
    BY SignedIs
  <1>2. d.exp + (j + m) = (d.exp + j) + m /\ d.exp + (j + m) \in Nat /\ j + m \in Int
    BY <1>1, SMT
  <1>3. Pow10[(d.exp + j) + m] = Pow10[d.exp + j] * Pow10[m]
    BY PowSum
  <1>4. Pow10[d.exp + j] \in Int /\ Pow10[m] \in Int
    BY Pow10Defined
  <1>5. (Signed(d) * Pow10[d.exp + j]) * Pow10[m] = Signed(d) * (Pow10[d.exp + j] * Pow10[m])
    BY <1>1, <1>4, MulAssoc
  <1> QED BY <1>2, <1>3, <1>5, UnitsAre

(* The coefficient is no more than the number of units.                      *)
LEMMA CoeffBound ==
    ASSUME NEW d \in DecimalType, NEW j \in Int, d.exp + j \in Nat
    PROVE  d.coeff =< Abs(Units(d, j))
  <1>1. d.coeff \in Nat /\ Pow10[d.exp + j] \in Nat /\ Pow10[d.exp + j] > 0
    BY SignedIs, PowPositive
  <1>2. Units(d, j) = Signed(d) * Pow10[d.exp + j]
    BY UnitsAre
  <1>3. ASSUME NEW c \in Nat, NEW p \in Nat, p > 0
        PROVE  c =< Abs(c * p) /\ c =< Abs((-c) * p)
    <2>1. c * p >= c /\ c * p \in Nat
      <3>1. CASE c = 0
        BY <3>1, SMT
      <3>2. CASE c > 0
        BY <1>3, <3>2, MulNat
      <3> QED BY <3>1, <3>2, SMT
    <2>2. (-c) * p = -(c * p)
      BY SMT
    <2> QED BY <2>1, <2>2, SMT DEF Abs
  <1>4. Signed(d) = d.coeff \/ Signed(d) = -d.coeff
    BY SignedIs
  <1> QED BY <1>1, <1>2, <1>3, <1>4

(* FromUnits makes the decimal it is asked for.                              *)
LEMMA FromUnitsIs ==
    ASSUME NEW n \in Int, NEW e \in Int
    PROVE  /\ FromUnits(n, e) \in DecimalType /\ FromUnits(n, e).exp = e
           /\ Signed(FromUnits(n, e)) = n
  <1> DEFINE d == FromUnits(n, e)
  <1>1. d.neg = (n < 0) /\ d.coeff = (IF n < 0 THEN -n ELSE n) /\ d.exp = e
        /\ d = [neg |-> d.neg, coeff |-> d.coeff, exp |-> d.exp]
    BY DEF FromUnits, Decimal
  <1>2. (IF n < 0 THEN -n ELSE n) \in Nat
        /\ (IF n < 0 THEN -1 ELSE 1) * (IF n < 0 THEN -n ELSE n) = n
    BY SMT
  <1>3. (n < 0) \in BOOLEAN
    BY SMT
  <1> HIDE DEF d
  <1>4. d.neg \in BOOLEAN /\ d.coeff \in Nat /\ d.exp \in Int
    BY <1>1, <1>2, <1>3, Zenon
  <1>5. d \in DecimalType
    BY <1>1, <1>4, Zenon DEF DecimalType
  <1>6. Signed(d) = n
    <2>1. CASE n < 0
      <3>1. d.neg /\ d.coeff = -n
        BY <1>1, <2>1, Zenon
      <3>2. Signed(d) = (-1) * d.coeff
        BY <3>1, SMT DEF Signed
      <3>3. (-1) * (-n) = n
        BY SMT
      <3> QED BY <3>1, <3>2, <3>3
    <2>2. CASE ~(n < 0)
      <3>1. ~d.neg /\ d.coeff = n
        BY <1>1, <2>2, Zenon
      <3>2. Signed(d) = 1 * n
        BY <3>1, Zenon DEF Signed
      <3> QED BY <3>2, SMT
    <2> QED BY <2>1, <2>2
  <1> QED BY <1>1, <1>5, <1>6 DEF d

-----------------------------------------------------------------------------
(* Rounding: to a natural, the identity where nothing is cut off, and the    *)
(* same however many zeros were appended before.                             *)
LEMMA RoundIsNat ==
    ASSUME NEW n \in Nat, NEW k \in Nat
    PROVE  RoundHalfEven(n, k) \in Nat
  <1>1. Pow10[k] \in Nat /\ Pow10[k] > 0
    BY PowPositive
  <1>2. n \div Pow10[k] \in Nat /\ (n \div Pow10[k]) + 1 \in Nat
    BY <1>1, DivMod, SMT
  <1> QED BY <1>2 DEF RoundHalfEven

LEMMA RoundExact ==
    ASSUME NEW q \in Nat, NEW k \in Nat
    PROVE  RoundHalfEven(q * Pow10[k], k) = q
  <1>1. PICK K \in Nat : K = Pow10[k] /\ K > 0
    BY PowPositive
  <1>2. (q * K) \div K = q /\ (q * K) % K = 0
    <2>1. q * K + 0 = q * K
      BY MulNat, SMT
    <2>2. 0 < K /\ 0 \in Nat
      BY <1>1
    <2> QED BY <2>1, <2>2, DivUnique
  <1>3. ~(2 * 0 > K) /\ 2 * 0 # K
    BY <1>1, SMT
  <1> QED BY <1>1, <1>2, <1>3 DEF RoundHalfEven

LEMMA RoundShifted ==
    ASSUME NEW n \in Nat, NEW k \in Nat, NEW m \in Nat
    PROVE  RoundHalfEven(n * Pow10[m], k + m) = RoundHalfEven(n, k)
  <1>1. PICK K \in Nat : K = Pow10[k] /\ K > 0
    BY PowPositive
  <1>2. PICK M \in Nat : M = Pow10[m] /\ M > 0
    BY PowPositive
  <1>3. PICK q \in Nat : q = n \div K
    BY <1>1, DivMod
  <1>4. PICK r \in Nat : r = n % K /\ r < K
    BY <1>1, DivMod
  <1>5. n = q * K + r
    BY <1>1, <1>3, <1>4, DivMod
  <1>6. Pow10[k + m] = K * M /\ K * M \in Nat
    BY <1>1, <1>2, PowSum, MulNat
  <1>7. r * M < K * M /\ r * M \in Nat
    BY <1>2, <1>4, MulMonoStrict, MulNat
  <1>8. n * M = q * (K * M) + r * M
    <2>1. (q * K + r) * M = (q * K) * M + r * M
      BY MulDist, MulAssoc
    <2>2. (q * K) * M = q * (K * M)
      BY MulAssoc
    <2> QED BY <1>5, <2>1, <2>2
  <1>9. (n * M) \div (K * M) = q /\ (n * M) % (K * M) = r * M
    <2>1. ASSUME NEW x, NEW y \in Nat, NEW z \in Nat, z < y, x = q * y + z
          PROVE  x \div y = q /\ x % y = z
      BY <2>1, DivUnique
    <2> QED BY <1>6, <1>7, <1>8, <2>1
  <1>10. (2 * (r * M) > K * M) = (2 * r > K) /\ (2 * (r * M) = K * M) = (2 * r = K)
    <2>1. 2 * (r * M) = (2 * r) * M /\ (2 * r) * M \in Int
      BY MulAssoc
    <2>2. 2 * r > K => (2 * r) * M > K * M
      BY <1>2, MulMonoStrict
    <2>3. 2 * r < K => (2 * r) * M < K * M
      BY <1>2, MulMonoStrict
    <2>4. 2 * r = K => (2 * r) * M = K * M
      OBVIOUS
    <2>5. ASSUME NEW x \in Int, NEW y \in Int,
                 2 * r > K => x > y, 2 * r < K => x < y, 2 * r = K => x = y
          PROVE  (x > y) = (2 * r > K) /\ (x = y) = (2 * r = K)
      BY <2>5, SMT
    <2> QED BY <1>6, <2>1, <2>2, <2>3, <2>4, <2>5
  <1>11. RoundHalfEven(n * M, k + m) =
            IF 2 * (r * M) > K * M \/ (2 * (r * M) = K * M /\ q % 2 = 1) THEN q + 1 ELSE q
    BY <1>6, <1>9 DEF RoundHalfEven
  <1>12. RoundHalfEven(n, k) = IF 2 * r > K \/ (2 * r = K /\ q % 2 = 1) THEN q + 1 ELSE q
    BY <1>1, <1>3, <1>4 DEF RoundHalfEven
  <1> QED BY <1>2, <1>10, <1>11, <1>12

-----------------------------------------------------------------------------
(* Fix, by how many digits are too many.                                     *)
TooMany(d) == Digits(d.coeff) - PREC
Kept(d)    == RoundHalfEven(d.coeff, TooMany(d))

LEMMA FixIs ==
    ASSUME NEW d \in DecimalType
    PROVE  /\ TooMany(d) \in Int
           /\ TooMany(d) =< 0 => Fix(d) = d
           /\ TooMany(d) > 0 =>
                /\ Kept(d) \in Nat
                /\ Kept(d) = Pow10[PREC] =>
                     Fix(d) = Decimal(d.neg, Pow10[PREC - 1], d.exp + TooMany(d) + 1)
                /\ Kept(d) # Pow10[PREC] =>
                     Fix(d) = Decimal(d.neg, Kept(d), d.exp + TooMany(d))
  <1>1. d.coeff \in Nat /\ Digits(d.coeff) \in Nat /\ PREC \in Int
    BY SignedIs, DigitsAre, PrecisionAssumption
  <1>2. TooMany(d) \in Int
    BY <1>1, SMT DEF TooMany
  <1>3. TooMany(d) =< 0 => Fix(d) = d
    BY DEF Fix, TooMany
  <1>4. ASSUME TooMany(d) > 0
        PROVE  /\ Larger(TooMany(d), 0) = TooMany(d) /\ ~(TooMany(d) =< 0)
               /\ TooMany(d) \in Nat /\ Kept(d) \in Nat
    <2>1. Larger(TooMany(d), 0) = TooMany(d) /\ ~(TooMany(d) =< 0) /\ TooMany(d) \in Nat
      BY <1>2, <1>4, SMT DEF Larger
    <2> QED BY <1>1, <2>1, RoundIsNat DEF Kept
  <1> QED BY <1>2, <1>3, <1>4 DEF Fix, TooMany, Kept

(* What is rounded stays a decimal, of no more places than before.           *)
LEMMA FixType ==
    ASSUME NEW d \in DecimalType
    PROVE  Fix(d) \in DecimalType /\ Fix(d).exp >= d.exp
  <1>1. d.neg \in BOOLEAN /\ d.exp \in Int
    BY SignedIs
  <1>2. CASE TooMany(d) =< 0
    <2>1. Fix(d) = d
      BY <1>2, FixIs
    <2>2. d.exp >= d.exp
      BY <1>1, SMT
    <2> QED BY <2>1, <2>2
  <1>3. CASE TooMany(d) > 0
    <2>1. TooMany(d) \in Int
      BY FixIs
    <2>2. /\ d.exp + TooMany(d) + 1 \in Int /\ d.exp + TooMany(d) + 1 >= d.exp
          /\ d.exp + TooMany(d) \in Int /\ d.exp + TooMany(d) >= d.exp
      BY <1>1, <1>3, <2>1, SMT
    <2>3. Pow10[PREC - 1] \in Nat
      <3>1. PREC - 1 \in Nat
        BY PrecisionAssumption, SMT
      <3> QED BY <3>1, Pow10Defined
    <2>4. ASSUME NEW c \in Nat, NEW e \in Int
          PROVE  Decimal(d.neg, c, e) \in DecimalType /\ Decimal(d.neg, c, e).exp = e
      BY <1>1, Zenon DEF Decimal, DecimalType
    <2>5. CASE Kept(d) = Pow10[PREC]
      <3>1. Fix(d) = Decimal(d.neg, Pow10[PREC - 1], d.exp + TooMany(d) + 1)
        BY <1>3, <2>5, FixIs
      <3> QED BY <2>2, <2>3, <2>4, <3>1
    <2>6. CASE Kept(d) # Pow10[PREC]
      <3>1. Fix(d) = Decimal(d.neg, Kept(d), d.exp + TooMany(d)) /\ Kept(d) \in Nat
        BY <1>3, <2>6, FixIs
      <3> QED BY <2>2, <2>4, <3>1
    <2> QED BY <2>5, <2>6
  <1>4. TooMany(d) =< 0 \/ TooMany(d) > 0
    BY FixIs, SMT
  <1> QED BY <1>2, <1>3, <1>4

(* No more digits than are kept: nothing happens.                            *)
LEMMA FixExact ==
    ASSUME NEW d \in DecimalType, d.coeff < Pow10[PREC]
    PROVE  Fix(d) = d
  <1>1. d.coeff \in Nat /\ PREC \in Nat /\ PREC >= 1
    BY SignedIs, PrecisionAssumption, SMT
  <1>2. Digits(d.coeff) =< PREC /\ Digits(d.coeff) \in Nat
    BY <1>1, DigitsAtMost, DigitsAre
  <1>3. TooMany(d) =< 0
    BY <1>1, <1>2, SMT DEF TooMany
  <1> QED BY <1>3, FixIs

LEMMA FixExactUnits ==
    ASSUME NEW d \in DecimalType, NEW j \in Int, d.exp + j \in Nat,
           Abs(Units(d, j)) < Pow10[PREC]
    PROVE  Fix(d) = d
  <1>1. d.coeff =< Abs(Units(d, j)) /\ Units(d, j) \in Int /\ d.coeff \in Nat
    BY CoeffBound, UnitsAre, SignedIs
  <1>2. Pow10[PREC] \in Nat
    BY Pow10Defined, PrecisionAssumption
  <1>3. Abs(Units(d, j)) \in Int
    BY <1>1, SMT DEF Abs
  <1>4. d.coeff < Pow10[PREC]
    BY <1>1, <1>2, <1>3, SMT
  <1> QED BY <1>4, FixExact

(* The same number with m zeros more is rounded to the same number.          *)
LEMMA FixShifted ==
    ASSUME NEW d \in DecimalType, NEW e \in DecimalType, NEW m \in Nat, NEW j \in Int,
           d.exp + j \in Nat, e.exp = d.exp + m, d.neg = e.neg,
           e.coeff > 0, d.coeff = e.coeff * Pow10[m]
    PROVE  Units(Fix(d), j) = Units(Fix(e), j)
  <1> DEFINE c == e.coeff
             K == TooMany(e)
  <1>0. PICK s \in Int : s = IF d.neg THEN -1 ELSE 1
    OBVIOUS
  <1>1. /\ c \in Nat /\ d.exp \in Int /\ e.exp \in Int /\ d.neg \in BOOLEAN
        /\ K \in Int /\ PREC \in Nat /\ PREC >= 1
    BY SignedIs, FixIs, PrecisionAssumption, SMT
  <1>2. c * Pow10[m] \in Nat /\ Digits(c * Pow10[m]) = Digits(c) + m
    BY <1>1, DigitsShifted
  <1>3. Digits(c) \in Nat /\ Digits(c) = K + PREC
    BY <1>1, DigitsAre, SMT DEF TooMany
  <1>4. TooMany(d) = K + m
    BY <1>1, <1>2, <1>3, SMT DEF TooMany
  <1>5. Units(d, j) = Units(e, j)
    <2>1. e.exp + j \in Nat /\ e.exp + j = m + (d.exp + j)
      BY <1>1, SMT
    <2>2. Pow10[e.exp + j] = Pow10[m] * Pow10[d.exp + j]
      BY <2>1, PowSum
    <2>3. Pow10[m] \in Int /\ Pow10[d.exp + j] \in Int
      BY Pow10Defined
    <2>4. ASSUME NEW p \in Int, NEW q \in Int
          PROVE  (s * (c * p)) * q = (s * c) * (p * q)
      BY <1>1, MulAssoc
    <2>5. Units(d, j) = (s * (c * Pow10[m])) * Pow10[d.exp + j]
      BY <1>0 DEF Units
    <2>6. Units(e, j) = (s * c) * (Pow10[m] * Pow10[d.exp + j])
      BY <1>0, <2>2 DEF Units
    <2> QED BY <2>3, <2>4, <2>5, <2>6
  <1>6. CASE K + m =< 0
    <2>1. K =< 0
      BY <1>1, <1>6, SMT
    <2> QED BY <1>4, <1>5, <1>6, <2>1, FixIs
  <1>7. CASE K =< 0 /\ K + m > 0
    <2>1. Fix(e) = e
      BY <1>7, FixIs
    <2>2. PICK z \in Nat : z = -K
      BY <1>1, <1>7, SMT
    <2>3. PICK k \in Nat : k = K + m /\ m = z + k
      <3>1. K + m \in Nat /\ m = z + (K + m)
        BY <1>1, <1>7, <2>2, SMT
      <3> QED BY <3>1
    <2>4. c * Pow10[z] \in Nat /\ Digits(c * Pow10[z]) = PREC
      <3>1. Digits(c) + z = PREC
        BY <1>1, <1>3, <2>2, SMT
      <3> QED BY <1>1, <3>1, DigitsShifted
    <2>5. c * Pow10[m] = (c * Pow10[z]) * Pow10[k]
      <3>1. Pow10[m] = Pow10[z] * Pow10[k]
        BY <2>3, PowSum
      <3>2. Pow10[z] \in Int /\ Pow10[k] \in Int
        BY Pow10Defined
      <3> QED BY <1>1, <3>1, <3>2, MulAssoc
    <2>6. Kept(d) = c * Pow10[z]
      BY <1>4, <2>3, <2>4, <2>5, RoundExact DEF Kept
    <2>7. Kept(d) # Pow10[PREC]
      <3>1. c * Pow10[z] < Pow10[PREC]
        BY <2>4, DigitsAre DEF HasDigits
      <3>2. Pow10[PREC] \in Nat
        BY <1>1, Pow10Defined
      <3> QED BY <2>4, <2>6, <3>1, <3>2, SMT
    <2>8. Fix(d) = Decimal(d.neg, c * Pow10[z], d.exp + k)
      BY <1>4, <1>7, <2>3, <2>6, <2>7, FixIs
    <2>9. (d.exp + k) + j \in Nat /\ e.exp + j = z + ((d.exp + k) + j)
      BY <1>1, <2>3, SMT
    <2>10. Pow10[e.exp + j] = Pow10[z] * Pow10[(d.exp + k) + j]
      BY <2>9, PowSum
    <2>11. Pow10[z] \in Int /\ Pow10[(d.exp + k) + j] \in Int
      BY <2>9, Pow10Defined
    <2>12. ASSUME NEW p \in Int, NEW q \in Int
           PROVE  (s * (c * p)) * q = (s * c) * (p * q)
      BY <1>1, MulAssoc
    <2>13. Units(Fix(d), j) = (s * (c * Pow10[z])) * Pow10[(d.exp + k) + j]
      BY <1>0, <2>8 DEF Units, Decimal
    <2>14. Units(e, j) = (s * c) * (Pow10[z] * Pow10[(d.exp + k) + j])
      BY <1>0, <2>10 DEF Units
    <2> QED BY <2>1, <2>11, <2>12, <2>13, <2>14
  <1>8. CASE K > 0
    <2>1. K \in Nat /\ K + m > 0
      BY <1>1, <1>8, SMT
    <2>2. Kept(d) = Kept(e)
      <3>1. RoundHalfEven(c * Pow10[m], K + m) = RoundHalfEven(c, K)
        BY <1>1, <2>1, RoundShifted
      <3>2. Kept(d) = RoundHalfEven(c * Pow10[m], K + m)
        BY <1>4 DEF Kept
      <3> QED BY <3>1, <3>2 DEF Kept
    <2>3. d.exp + TooMany(d) = e.exp + K
      BY <1>1, <1>4, SMT
    <2>4. Fix(d) = Fix(e)
      BY <1>4, <1>8, <2>1, <2>2, <2>3, FixIs
    <2> QED BY <2>4
  <1> QED BY <1>1, <1>6, <1>7, <1>8, SMT

-----------------------------------------------------------------------------
(* Of two decimals of one value.                                             *)
LEMMA FixAgreesOrdered ==
    ASSUME NEW d \in DecimalType, NEW e \in DecimalType, NEW j \in Int,
           d.exp + j \in Nat, e.exp + j \in Nat, d.exp =< e.exp, Units(d, j) = Units(e, j)
    PROVE  Units(Fix(d), j) = Units(Fix(e), j)
  <1>1. /\ d.exp \in Int /\ e.exp \in Int /\ d.coeff \in Nat /\ e.coeff \in Nat
        /\ Signed(d) \in Int /\ Signed(e) \in Int
        /\ d.neg \in BOOLEAN /\ e.neg \in BOOLEAN
    BY SignedIs
  <1>2. PICK m \in Nat : e.exp = d.exp + m
    <2>1. e.exp - d.exp \in Nat /\ e.exp = d.exp + (e.exp - d.exp)
      BY <1>1, SMT
    <2> QED BY <2>1
  <1>3. PICK p \in Nat : p = Pow10[d.exp + j] /\ p > 0
    BY PowPositive
  <1>4. PICK q \in Nat : q = Pow10[m] /\ q > 0
    BY PowPositive
  <1>5. Signed(d) = Signed(e) * q
    <2>1. e.exp + j = m + (d.exp + j)
      BY <1>1, <1>2, SMT
    <2>2. Pow10[e.exp + j] = q * p
      BY <1>3, <1>4, <2>1, PowSum
    <2>3. Signed(d) * p = Signed(e) * (q * p)
      BY <1>3, <2>2, UnitsAre
    <2>4. PICK y \in Int : y = Signed(e) * q
      BY <1>1, MulAssoc
    <2>5. Signed(d) * p = y * p
      BY <1>1, <2>3, <2>4, MulAssoc
    <2>6. Signed(d) = y
      BY <1>1, <1>3, <2>5, Cancel
    <2> QED BY <2>4, <2>6
  <1>6. CASE e.coeff = 0
    <2>1. Signed(e) = 0
      BY <1>6, SignedIs, SMT
    <2>2. Signed(d) = 0
      BY <1>4, <1>5, <2>1, SMT
    <2>3. d.coeff = 0
      BY <1>1, <2>2, SignedIs, SMT
    <2>4. PREC \in Nat
      BY PrecisionAssumption
    <2>5. 0 < Pow10[PREC]
      BY <2>4, PowPositive, SMT
    <2> QED BY <1>6, <2>3, <2>5, FixExact
  <1>7. CASE e.coeff > 0
    <2>1. e.coeff * q \in Nat /\ e.coeff * q > 0
      BY <1>1, <1>4, <1>7, MulNat
    <2>2. CASE e.neg
      <3>1. Signed(e) = -e.coeff
        BY <2>2, SignedIs
      <3>2. (-e.coeff) * q = -(e.coeff * q)
        BY <1>1, <1>4, SMT
      <3>3. Signed(d) = -(e.coeff * q)
        BY <1>5, <3>1, <3>2
      <3>4. d.neg
        <4>1. ~(Signed(d) = d.coeff)
          BY <1>1, <2>1, <3>3, SMT
        <4> QED BY <4>1, SignedIs
      <3>5. -d.coeff = -(e.coeff * q)
        BY <3>3, <3>4, SignedIs
      <3>6. d.coeff = e.coeff * q
        BY <1>1, <2>1, <3>5, SMT
      <3>7. d.neg = e.neg
        BY <1>1, <2>2, <3>4
      <3> QED BY <1>2, <1>4, <1>7, <3>6, <3>7, FixShifted
    <2>3. CASE ~e.neg
      <3>1. Signed(d) = e.coeff * q
        BY <1>5, <2>3, SignedIs
      <3>2. ~d.neg
        <4>1. ~(Signed(d) = -d.coeff)
          BY <1>1, <2>1, <3>1, SMT
        <4> QED BY <4>1, SignedIs
      <3>3. d.coeff = e.coeff * q
        BY <3>1, <3>2, SignedIs
      <3>4. d.neg = e.neg
        BY <1>1, <2>3, <3>2
      <3> QED BY <1>2, <1>4, <1>7, <3>3, <3>4, FixShifted
    <2> QED BY <2>2, <2>3
  <1> QED BY <1>1, <1>6, <1>7, SMT

LEMMA FixAgrees ==
    ASSUME NEW d \in DecimalType, NEW e \in DecimalType, NEW j \in Int,
           d.exp + j \in Nat, e.exp + j \in Nat, Units(d, j) = Units(e, j)
    PROVE  Units(Fix(d), j) = Units(Fix(e), j)
  <1>1. d.exp =< e.exp \/ e.exp =< d.exp
    BY SignedIs, SMT
  <1> QED BY <1>1, FixAgreesOrdered

-----------------------------------------------------------------------------
(* The exact results that the operations round.                              *)
RawPlus(a, b) ==
    LET exp == Smaller(a.exp, b.exp)
    IN  FromUnits(Units(a, -exp) + Units(b, -exp), exp)
RawNegated(a)  == Decimal(~a.neg /\ a.coeff # 0, a.coeff, a.exp)
RawTimes(a, b) == Decimal(a.neg # b.neg, a.coeff * b.coeff, a.exp + b.exp)

LEMMA RawPlusIs ==
    ASSUME NEW a \in DecimalType, NEW b \in DecimalType, NEW j \in Int,
           a.exp + j \in Nat, b.exp + j \in Nat
    PROVE  /\ RawPlus(a, b) \in DecimalType /\ RawPlus(a, b).exp + j \in Nat
           /\ RawPlus(a, b).exp = Smaller(a.exp, b.exp)
           /\ Units(RawPlus(a, b), j) = Units(a, j) + Units(b, j)
           /\ Plus(a, b) = Fix(RawPlus(a, b))
  <1> DEFINE r == RawPlus(a, b)
  <1>1. a.exp \in Int /\ b.exp \in Int
    BY SignedIs
  <1>2. PICK x \in Int : x = Smaller(a.exp, b.exp)
    BY <1>1 DEF Smaller
  <1>3. /\ -x \in Int /\ a.exp + (-x) \in Nat /\ b.exp + (-x) \in Nat /\ x + j \in Nat
        /\ j = (-x) + (x + j)
    BY <1>1, <1>2, SMT DEF Smaller
  <1>4. Units(a, -x) \in Int /\ Units(b, -x) \in Int
    BY <1>3, UnitsAre
  <1>5. r = FromUnits(Units(a, -x) + Units(b, -x), x)
    BY <1>2 DEF RawPlus
  <1>6. Units(a, -x) + Units(b, -x) \in Int
    BY <1>4, SMT
  <1>7. r \in DecimalType /\ r.exp = x /\ Signed(r) = Units(a, -x) + Units(b, -x)
    BY <1>5, <1>6, FromUnitsIs
  <1>8. Units(r, j) = (Units(a, -x) + Units(b, -x)) * Pow10[x + j]
    BY <1>3, <1>7, UnitsAre
  <1>9. Pow10[x + j] \in Int
    BY <1>3, Pow10Defined
  <1>10. Units(r, j) = Units(a, -x) * Pow10[x + j] + Units(b, -x) * Pow10[x + j]
    BY <1>4, <1>8, <1>9, MulDist
  <1>11. Units(a, j) = Units(a, -x) * Pow10[x + j] /\ Units(b, j) = Units(b, -x) * Pow10[x + j]
    <2>1. ASSUME NEW y \in Int, NEW m \in Nat, j = y + m, a.exp + y \in Nat, b.exp + y \in Nat
          PROVE  Units(a, j) = Units(a, y) * Pow10[m] /\ Units(b, j) = Units(b, y) * Pow10[m]
      BY <2>1, UnitsScale
    <2> QED BY <1>3, <2>1
  <1>12. Plus(a, b) = Fix(r)
    BY DEF Plus, RawPlus
  <1> QED BY <1>2, <1>3, <1>7, <1>10, <1>11, <1>12

LEMMA RawNegatedIs ==
    ASSUME NEW a \in DecimalType, NEW j \in Int, a.exp + j \in Nat
    PROVE  /\ RawNegated(a) \in DecimalType /\ RawNegated(a).exp = a.exp
           /\ Units(RawNegated(a), j) = -Units(a, j)
           /\ Negated(a) = Fix(RawNegated(a))
  <1> DEFINE r == RawNegated(a)
  <1>1. a.neg \in BOOLEAN /\ a.coeff \in Nat /\ a.exp \in Int
    BY SignedIs
  <1>2. /\ r.neg = (~a.neg /\ a.coeff # 0) /\ r.coeff = a.coeff /\ r.exp = a.exp
        /\ r \in DecimalType
    BY <1>1, Zenon DEF RawNegated, Decimal, DecimalType
  <1>3. Negated(a) = Fix(r)
    BY DEF Negated, RawNegated
  <1> HIDE DEF r
  <1>4. Signed(r) = -Signed(a) /\ Signed(a) \in Int
    <2>1. CASE a.coeff = 0
      BY <1>1, <1>2, <2>1, SignedIs, SMT
    <2>2. CASE a.coeff # 0 /\ a.neg
      <3>1. ~r.neg
        BY <1>2, <2>2
      <3>2. Signed(r) = a.coeff /\ Signed(a) = -a.coeff
        BY <1>2, <2>2, <3>1, SignedIs
      <3> QED BY <1>1, <3>2, SMT
    <2>3. CASE a.coeff # 0 /\ ~a.neg
      <3>1. r.neg
        BY <1>2, <2>3
      <3>2. Signed(r) = -a.coeff /\ Signed(a) = a.coeff
        BY <1>2, <2>3, <3>1, SignedIs
      <3> QED BY <1>1, <3>2, SMT
    <2> QED BY <2>1, <2>2, <2>3
  <1>5. Units(r, j) = (-Signed(a)) * Pow10[a.exp + j] /\ Units(a, j) = Signed(a) * Pow10[a.exp + j]
    BY <1>2, <1>4, UnitsAre
  <1>6. ASSUME NEW x \in Int, NEW y \in Int PROVE (-x) * y = -(x * y)
    BY SMT
  <1>7. Pow10[a.exp + j] \in Int
    BY Pow10Defined
  <1>8. Units(r, j) = -Units(a, j)
    BY <1>4, <1>5, <1>6, <1>7
  <1> QED BY <1>2, <1>3, <1>8 DEF r

LEMMA RawTimesIs ==
    ASSUME NEW a \in DecimalType, NEW b \in DecimalType, NEW i \in Int, NEW j \in Int,
           a.exp + i \in Nat, b.exp + j \in Nat
    PROVE  /\ RawTimes(a, b) \in DecimalType
           /\ RawTimes(a, b).exp = a.exp + b.exp /\ (a.exp + b.exp) + (i + j) \in Nat
           /\ Units(RawTimes(a, b), i + j) = Units(a, i) * Units(b, j)
           /\ Times(a, b) = Fix(RawTimes(a, b))
  <1> DEFINE r == RawTimes(a, b)
  <1>1. /\ a.neg \in BOOLEAN /\ a.coeff \in Nat /\ a.exp \in Int /\ Signed(a) \in Int
        /\ b.neg \in BOOLEAN /\ b.coeff \in Nat /\ b.exp \in Int /\ Signed(b) \in Int
    BY SignedIs
  <1>2. a.coeff * b.coeff \in Nat /\ a.exp + b.exp \in Int
    BY <1>1, MulNat, SMT
  <1>3. /\ r.neg = (a.neg # b.neg) /\ r.coeff = a.coeff * b.coeff /\ r.exp = a.exp + b.exp
        /\ r \in DecimalType
    BY <1>1, <1>2, Zenon DEF RawTimes, Decimal, DecimalType
  <1>4. Times(a, b) = Fix(r)
    BY DEF Times, RawTimes
  <1> HIDE DEF r
  <1>5. Signed(r) = Signed(a) * Signed(b)
    <2>1. PICK x \in Nat : x = a.coeff
      BY <1>1
    <2>2. PICK y \in Nat : y = b.coeff
      BY <1>1
    <2>3. x * y \in Nat /\ (-x) * (-y) = x * y /\ (-x) * y = -(x * y) /\ x * (-y) = -(x * y)
      BY SMT
    <2>4. (r.neg => Signed(r) = -(x * y)) /\ (~r.neg => Signed(r) = x * y)
      BY <1>3, <2>1, <2>2, SignedIs
    <2>5. CASE a.neg /\ b.neg
      <3>1. ~r.neg /\ Signed(a) = -x /\ Signed(b) = -y
        BY <1>3, <2>1, <2>2, <2>5, SignedIs
      <3> QED BY <2>3, <2>4, <3>1
    <2>6. CASE a.neg /\ ~b.neg
      <3>1. r.neg /\ Signed(a) = -x /\ Signed(b) = y
        BY <1>1, <1>3, <2>1, <2>2, <2>6, SignedIs
      <3> QED BY <2>3, <2>4, <3>1
    <2>7. CASE ~a.neg /\ b.neg
      <3>1. r.neg /\ Signed(a) = x /\ Signed(b) = -y
        BY <1>1, <1>3, <2>1, <2>2, <2>7, SignedIs
      <3> QED BY <2>3, <2>4, <3>1
    <2>8. CASE ~a.neg /\ ~b.neg
      <3>1. ~r.neg /\ Signed(a) = x /\ Signed(b) = y
        BY <1>1, <1>3, <2>1, <2>2, <2>8, SignedIs
      <3> QED BY <2>3, <2>4, <3>1
    <2> QED BY <2>5, <2>6, <2>7, <2>8
  <1>6. (a.exp + b.exp) + (i + j) = (a.exp + i) + (b.exp + j)
        /\ (a.exp + b.exp) + (i + j) \in Nat /\ i + j \in Int
    BY <1>1, SMT
  <1>7. Pow10[(a.exp + b.exp) + (i + j)] = Pow10[a.exp + i] * Pow10[b.exp + j]
    BY <1>6, PowSum
  <1>8. Units(r, i + j) = (Signed(a) * Signed(b)) * (Pow10[a.exp + i] * Pow10[b.exp + j])
    BY <1>3, <1>5, <1>6, <1>7, UnitsAre
  <1>9. Units(a, i) = Signed(a) * Pow10[a.exp + i] /\ Units(b, j) = Signed(b) * Pow10[b.exp + j]
    BY UnitsAre
  <1>10. ASSUME NEW w \in Int, NEW x \in Int, NEW y \in Int, NEW z \in Int
         PROVE  (w * x) * (y * z) = (w * y) * (x * z)
    BY SMT
  <1>11. Pow10[a.exp + i] \in Int /\ Pow10[b.exp + j] \in Int
    BY Pow10Defined
  <1>12. Units(r, i + j) = Units(a, i) * Units(b, j)
    BY <1>1, <1>8, <1>9, <1>10, <1>11
  <1> QED BY <1>3, <1>4, <1>6, <1>12 DEF r

-----------------------------------------------------------------------------
(* The decimals that are whole numbers of units of 10^-j, and the operations *)
(* on them: of that kind again, exact while the result has not too many      *)
(* digits, and in any case the same for operands of the same values.         *)
At(j) == {d \in DecimalType : d.exp + j \in Nat}

LEMMA FixKeeps ==
    ASSUME NEW j \in Int, NEW d \in At(j)
    PROVE  Fix(d) \in At(j)
  <1>1. d \in DecimalType /\ d.exp + j \in Nat
    BY DEF At
  <1>2. Fix(d) \in DecimalType /\ Fix(d).exp >= d.exp
    BY <1>1, FixType
  <1>3. d.exp \in Int /\ Fix(d).exp \in Int
    BY <1>1, <1>2, SignedIs
  <1>4. Fix(d).exp + j \in Nat
    BY <1>1, <1>2, <1>3, SMT
  <1> QED BY <1>2, <1>4 DEF At

LEMMA UnitsInt ==
    ASSUME NEW j \in Int, NEW d \in At(j)
    PROVE  Units(d, j) \in Int
  BY UnitsAre DEF At

LEMMA PlusIs ==
    ASSUME NEW j \in Int, NEW a \in At(j), NEW b \in At(j)
    PROVE  /\ Plus(a, b) \in At(j)
           /\ Abs(Units(a, j) + Units(b, j)) < Pow10[PREC] =>
                /\ Units(Plus(a, b), j) = Units(a, j) + Units(b, j)
                /\ Plus(a, b).exp = Smaller(a.exp, b.exp)
  <1>1. /\ RawPlus(a, b) \in DecimalType /\ RawPlus(a, b).exp + j \in Nat
        /\ RawPlus(a, b).exp = Smaller(a.exp, b.exp)
        /\ Units(RawPlus(a, b), j) = Units(a, j) + Units(b, j)
        /\ Plus(a, b) = Fix(RawPlus(a, b))
    BY RawPlusIs DEF At
  <1>2. RawPlus(a, b) \in At(j)
    BY <1>1 DEF At
  <1> QED BY <1>1, <1>2, FixKeeps, FixExactUnits

LEMMA PlusAgrees ==
    ASSUME NEW j \in Int, NEW a \in At(j), NEW b \in At(j), NEW c \in At(j), NEW d \in At(j),
           Units(a, j) = Units(c, j), Units(b, j) = Units(d, j)
    PROVE  Units(Plus(a, b), j) = Units(Plus(c, d), j)
  <1>1. /\ RawPlus(a, b) \in DecimalType /\ RawPlus(a, b).exp + j \in Nat
        /\ Units(RawPlus(a, b), j) = Units(a, j) + Units(b, j)
        /\ Plus(a, b) = Fix(RawPlus(a, b))
    BY RawPlusIs DEF At
  <1>2. /\ RawPlus(c, d) \in DecimalType /\ RawPlus(c, d).exp + j \in Nat
        /\ Units(RawPlus(c, d), j) = Units(c, j) + Units(d, j)
        /\ Plus(c, d) = Fix(RawPlus(c, d))
    BY RawPlusIs DEF At
  <1> QED BY <1>1, <1>2, FixAgrees

LEMMA NegatedIs ==
    ASSUME NEW j \in Int, NEW a \in At(j)
    PROVE  /\ Negated(a) \in At(j)
           /\ Abs(Units(a, j)) < Pow10[PREC] =>
                /\ Units(Negated(a), j) = -Units(a, j)
                /\ Negated(a).exp = a.exp
  <1>1. /\ RawNegated(a) \in DecimalType /\ RawNegated(a).exp = a.exp
        /\ Units(RawNegated(a), j) = -Units(a, j)
        /\ Negated(a) = Fix(RawNegated(a))
        /\ a.exp + j \in Nat
    BY RawNegatedIs DEF At
  <1>2. RawNegated(a) \in At(j)
    BY <1>1 DEF At
  <1>3. Abs(-Units(a, j)) = Abs(Units(a, j))
    BY UnitsInt, SMT DEF Abs
  <1> QED BY <1>1, <1>2, <1>3, FixKeeps, FixExactUnits

LEMMA NegatedAgrees ==
    ASSUME NEW j \in Int, NEW a \in At(j), NEW c \in At(j), Units(a, j) = Units(c, j)
    PROVE  Units(Negated(a), j) = Units(Negated(c), j)
  <1>1. /\ RawNegated(a) \in DecimalType /\ RawNegated(a).exp + j \in Nat
        /\ Units(RawNegated(a), j) = -Units(a, j)
        /\ Negated(a) = Fix(RawNegated(a))
    BY RawNegatedIs DEF At
  <1>2. /\ RawNegated(c) \in DecimalType /\ RawNegated(c).exp + j \in Nat
        /\ Units(RawNegated(c), j) = -Units(c, j)
        /\ Negated(c) = Fix(RawNegated(c))
    BY RawNegatedIs DEF At
  <1> QED BY <1>1, <1>2, FixAgrees

LEMMA TimesIs ==
    ASSUME NEW i \in Int, NEW j \in Int, NEW a \in At(i), NEW b \in At(j)
    PROVE  /\ Times(a, b) \in At(i + j)
           /\ Abs(Units(a, i) * Units(b, j)) < Pow10[PREC] =>
                Units(Times(a, b), i + j) = Units(a, i) * Units(b, j)
  <1>0. i + j \in Int
    OBVIOUS
  <1>1. /\ RawTimes(a, b) \in DecimalType /\ RawTimes(a, b).exp + (i + j) \in Nat
        /\ Units(RawTimes(a, b), i + j) = Units(a, i) * Units(b, j)
        /\ Times(a, b) = Fix(RawTimes(a, b))
    BY RawTimesIs DEF At
  <1>2. RawTimes(a, b) \in At(i + j)
    BY <1>1 DEF At
  <1> QED BY <1>0, <1>1, <1>2, FixKeeps, FixExactUnits

LEMMA TimesAgrees ==
    ASSUME NEW i \in Int, NEW j \in Int, NEW a \in At(i), NEW b \in At(j),
           NEW c \in At(i), NEW d \in At(j),
           Units(a, i) = Units(c, i), Units(b, j) = Units(d, j)
    PROVE  Units(Times(a, b), i + j) = Units(Times(c, d), i + j)
  <1>0. i + j \in Int
    OBVIOUS
  <1>1. /\ RawTimes(a, b) \in DecimalType /\ RawTimes(a, b).exp + (i + j) \in Nat
        /\ Units(RawTimes(a, b), i + j) = Units(a, i) * Units(b, j)
        /\ Times(a, b) = Fix(RawTimes(a, b))
    BY RawTimesIs DEF At
  <1>2. /\ RawTimes(c, d) \in DecimalType /\ RawTimes(c, d).exp + (i + j) \in Nat
        /\ Units(RawTimes(c, d), i + j) = Units(c, i) * Units(d, j)
        /\ Times(c, d) = Fix(RawTimes(c, d))
    BY RawTimesIs DEF At
  <1> QED BY <1>0, <1>1, <1>2, FixAgrees

(* One text is one value.                                                    *)
LEMMA TextDecides ==
    ASSUME NEW j \in Nat, NEW a \in At(j), NEW c \in At(j), Text(a) = Text(c)
    PROVE  Units(a, j) = Units(c, j)
  <1> DEFINE U(t) == ((IF t.neg THEN -1 ELSE 1) * t.digits) * Pow10[j - t.places]
  <1>1. ASSUME NEW d \in At(j) PROVE Units(d, j) = U(Text(d))
    <2>1. d \in DecimalType /\ d.exp + j \in Nat
      BY DEF At
    <2>2. d.coeff \in Nat /\ d.exp \in Int /\ d.neg \in BOOLEAN
      BY <2>1, SignedIs
    <2>3. PICK s \in Int : s = IF d.neg /\ d.coeff # 0 THEN -1 ELSE 1
      OBVIOUS
    <2>4. Signed(d) = s * d.coeff
      <3>1. CASE d.coeff = 0
        BY <2>2, <2>3, <3>1, SMT DEF Signed
      <3>2. CASE d.coeff # 0
        BY <2>2, <2>3, <3>2 DEF Signed
      <3> QED BY <3>1, <3>2
    <2>5. Units(d, j) = (s * d.coeff) * Pow10[d.exp + j]
      BY <2>1, <2>4, UnitsAre
    <2>6. U(Text(d)) = (s * (d.coeff * Pow10[Larger(d.exp, 0)])) * Pow10[j - Larger(-d.exp, 0)]
      BY <2>3 DEF Text
    <2>7. ASSUME NEW c1 \in Nat, NEW x \in Int, NEW y \in Int
          PROVE  (s * (c1 * x)) * y = (s * c1) * (x * y)
      BY MulAssoc
    <2>8. CASE d.exp >= 0
      <3>1. /\ Larger(d.exp, 0) = d.exp /\ Larger(-d.exp, 0) = 0 /\ j - 0 = j
            /\ d.exp \in Nat
        BY <2>2, <2>8, SMT DEF Larger
      <3>2. Pow10[d.exp + j] = Pow10[d.exp] * Pow10[j]
        BY <3>1, PowSum
      <3>3. Pow10[d.exp] \in Int /\ Pow10[j] \in Int
        BY <3>1, Pow10Defined
      <3> QED BY <2>2, <2>5, <2>6, <2>7, <3>1, <3>2, <3>3
    <2>9. CASE ~(d.exp >= 0)
      <3>1. Larger(d.exp, 0) = 0 /\ Larger(-d.exp, 0) = -d.exp /\ j - (-d.exp) = d.exp + j
        BY <2>2, <2>9, SMT DEF Larger
      <3>2. Pow10[0] = 1 /\ d.coeff * 1 = d.coeff
        BY <2>2, Pow10Defined, SMT
      <3> QED BY <2>5, <2>6, <3>1, <3>2
    <2> QED BY <2>8, <2>9
  <1> HIDE DEF U
  <1> QED BY <1>1

(* A coarser unit's whole numbers are a finer unit's.                        *)
LEMMA AtFiner ==
    ASSUME NEW j \in Int, NEW m \in Nat, NEW d \in At(j)
    PROVE  d \in At(j + m) /\ Units(d, j + m) = Units(d, j) * Pow10[m]
  BY UnitsScale DEF At

-----------------------------------------------------------------------------
(* Fills whose sizes have no more than s places and whose prices no more     *)
(* than t, and the sums over them.                                           *)
Positive(j) == {d \in At(j) : ~d.neg /\ d.coeff > 0}
Fills(s, t) == [at : Nat, side : {"BUY", "SELL"}, size : Positive(s), price : Positive(t)]

Over(g, fills) == [i \in DOMAIN fills |-> g[fills[i]]]

LEMMA SumOver ==
    ASSUME NEW S, NEW g \in [S -> Int], NEW fills \in Seq(S), NEW f \in S
    PROVE  /\ SumOf(Over(g, fills)) \in Int /\ g[f] \in Int
           /\ SumOf(Over(g, Append(fills, f))) = SumOf(Over(g, fills)) + g[f]
  <1> DEFINE n == Len(fills)
             terms == Over(g, fills)
  <1>1. n \in Nat /\ DOMAIN fills = 1..n /\ \A i \in 1..n : fills[i] \in S
    BY LenProperties, ElementOfSeq
  <1>2. terms = [i \in 1..n |-> g[fills[i]]] /\ \A i \in 1..n : g[fills[i]] \in Int
    BY <1>1 DEF Over
  <1>3. terms \in Seq(Int) /\ Len(terms) = n
    BY <1>1, <1>2, SMT
  <1>4. PICK long \in Seq(S) : long = Append(fills, f)
    BY AppendProperties
  <1>5. /\ Len(long) = n + 1 /\ DOMAIN long = 1..(n + 1) /\ long[n + 1] = f
        /\ \A i \in 1..n : long[i] = fills[i]
    BY <1>4, AppendProperties, LenProperties
  <1>6. PICK more \in Seq(Int) : more = Append(terms, g[f])
    BY <1>3, AppendProperties
  <1>7. /\ Len(more) = n + 1 /\ more[n + 1] = g[f] /\ \A i \in 1..n : more[i] = terms[i]
    BY <1>3, <1>6, AppendProperties
  <1>8. more = [i \in 1..(n + 1) |-> more[i]]
    BY <1>7, LenProperties
  <1>9. ASSUME NEW i \in 1..(n + 1) PROVE g[long[i]] = more[i]
    <2>1. CASE i = n + 1
      BY <1>5, <1>7, <2>1
    <2>2. CASE i # n + 1
      <3>1. i \in 1..n
        BY <1>1, <2>2, SMT
      <3>2. long[i] = fills[i] /\ more[i] = terms[i]
        BY <1>5, <1>7, <3>1
      <3>3. terms[i] = g[fills[i]]
        BY <1>2, <3>1
      <3> QED BY <3>2, <3>3
    <2> QED BY <2>1, <2>2
  <1>10. Over(g, long) = more
    BY <1>5, <1>8, <1>9 DEF Over
  <1>11. SumOf(more) = SumOf(terms) + g[f] /\ SumOf(terms) \in Int
    BY <1>3, <1>6, SumAppend
  <1> QED BY <1>4, <1>10, <1>11

LEMMA FillUnits ==
    ASSUME NEW s \in Nat, NEW t \in Nat, NEW f \in Fills(s, t)
    PROVE  /\ Size(f, s) \in Nat /\ Units(f.price, t) \in Nat /\ Cost(f, s, t) \in Nat
           /\ Sign(f.side) \in {1, -1}
           /\ f.size \in At(s) /\ f.price \in At(t)
           /\ Size(f, s) = Units(f.size, s) /\ Cost(f, s, t) = Size(f, s) * Units(f.price, t)
  <1>1. f.size \in Positive(s) /\ f.price \in Positive(t)
    BY DEF Fills
  <1>2. ASSUME NEW j \in Nat, NEW d \in Positive(j) PROVE d \in At(j) /\ Units(d, j) \in Nat
    <2>1. d \in DecimalType /\ d.exp + j \in Nat /\ ~d.neg /\ d \in At(j)
      BY DEF Positive, At
    <2>2. Signed(d) = d.coeff /\ d.coeff \in Nat /\ Pow10[d.exp + j] \in Nat
      BY <2>1, SignedIs, Pow10Defined
    <2>3. Units(d, j) = d.coeff * Pow10[d.exp + j]
      BY <2>1, <2>2, UnitsAre
    <2> QED BY <2>1, <2>2, <2>3, MulNat
  <1>3. Size(f, s) \in Nat /\ Units(f.price, t) \in Nat /\ f.size \in At(s) /\ f.price \in At(t)
    BY <1>1, <1>2 DEF Size
  <1>4. Cost(f, s, t) = Size(f, s) * Units(f.price, t) /\ Cost(f, s, t) \in Nat
    BY <1>3, MulNat DEF Cost, Size
  <1> QED BY <1>3, <1>4 DEF Sign, Size

(* With a fill more the sums grow by its size and its cost.                  *)
LEMMA SumsGrow ==
    ASSUME NEW s \in Nat, NEW t \in Nat, NEW b, NEW c, NEW f \in Fills(s, t),
           b.fills \in Seq(Fills(s, t)), c.fills = Append(b.fills, f)
    PROVE  /\ ExactPosition(b, s) \in Int /\ ExactCash(b, s, t) \in Int
           /\ Volume(b, s) \in Int /\ Turnover(b, s, t) \in Int
           /\ ExactPosition(c, s) = ExactPosition(b, s) + Sign(f.side) * Size(f, s)
           /\ ExactCash(c, s, t) = ExactCash(b, s, t) - Sign(f.side) * Cost(f, s, t)
           /\ Volume(c, s) = Volume(b, s) + Size(f, s)
           /\ Turnover(c, s, t) = Turnover(b, s, t) + Cost(f, s, t)
  <1> DEFINE S == Fills(s, t)
             gp == [x \in S |-> Sign(x.side) * Size(x, s)]
             gc == [x \in S |-> Sign(x.side) * Cost(x, s, t)]
             gv == [x \in S |-> Size(x, s)]
             gt == [x \in S |-> Cost(x, s, t)]
  <1>1. ASSUME NEW x \in S
        PROVE  /\ Sign(x.side) * Size(x, s) \in Int /\ Sign(x.side) * Cost(x, s, t) \in Int
               /\ Size(x, s) \in Int /\ Cost(x, s, t) \in Int
    <2>1. Sign(x.side) \in Int /\ Size(x, s) \in Int /\ Cost(x, s, t) \in Int
      BY FillUnits
    <2> QED BY <2>1, MulAssoc
  <1>2. gp \in [S -> Int] /\ gc \in [S -> Int] /\ gv \in [S -> Int] /\ gt \in [S -> Int]
    BY <1>1
  <1>3. ASSUME NEW y, y.fills \in Seq(S)
        PROVE  /\ ExactPosition(y, s) = SumOf(Over(gp, y.fills))
               /\ ExactCash(y, s, t) = -SumOf(Over(gc, y.fills))
               /\ Volume(y, s) = SumOf(Over(gv, y.fills))
               /\ Turnover(y, s, t) = SumOf(Over(gt, y.fills))
    <2>1. \A i \in DOMAIN y.fills : y.fills[i] \in S
      BY <1>3, LenProperties, ElementOfSeq
    <2>2. ExactPosition(y, s) = SumOf(Over(gp, y.fills))
      BY <2>1 DEF ExactPosition, Over
    <2>3. ExactCash(y, s, t) = -SumOf(Over(gc, y.fills))
      BY <2>1 DEF ExactCash, Over
    <2>4. Volume(y, s) = SumOf(Over(gv, y.fills))
      BY <2>1 DEF Volume, Over
    <2>5. Turnover(y, s, t) = SumOf(Over(gt, y.fills))
      BY <2>1 DEF Turnover, Over
    <2> QED BY <2>2, <2>3, <2>4, <2>5
  <1>4. c.fills \in Seq(S)
    BY AppendProperties
  <1>5. /\ gp[f] = Sign(f.side) * Size(f, s) /\ gc[f] = Sign(f.side) * Cost(f, s, t)
        /\ gv[f] = Size(f, s) /\ gt[f] = Cost(f, s, t)
    OBVIOUS
  <1> HIDE DEF S, gp, gc, gv, gt
  <1>6. f \in S /\ b.fills \in Seq(S)
    BY DEF S
  <1>7. ASSUME NEW g \in [S -> Int]
        PROVE  /\ SumOf(Over(g, b.fills)) \in Int /\ g[f] \in Int
               /\ SumOf(Over(g, c.fills)) = SumOf(Over(g, b.fills)) + g[f]
    BY <1>6, SumOver
  <1>8. ASSUME NEW x \in Int, NEW y \in Int PROVE -(x + y) = (-x) - y /\ -x \in Int
    BY SMT
  <1>9. ExactCash(c, s, t) = ExactCash(b, s, t) - gc[f] /\ ExactCash(b, s, t) \in Int
    <2>1. /\ SumOf(Over(gc, b.fills)) \in Int /\ gc[f] \in Int
          /\ SumOf(Over(gc, c.fills)) = SumOf(Over(gc, b.fills)) + gc[f]
      BY <1>2, <1>7
    <2>2. /\ ExactCash(b, s, t) = -SumOf(Over(gc, b.fills))
          /\ ExactCash(c, s, t) = -SumOf(Over(gc, c.fills))
      BY <1>3, <1>4, <1>6
    <2> QED BY <1>8, <2>1, <2>2
  <1>10. /\ ExactPosition(b, s) \in Int
         /\ ExactPosition(c, s) = ExactPosition(b, s) + gp[f]
    BY <1>2, <1>3, <1>4, <1>6, <1>7
  <1>11. Volume(b, s) \in Int /\ Volume(c, s) = Volume(b, s) + gv[f]
    BY <1>2, <1>3, <1>4, <1>6, <1>7
  <1>12. Turnover(b, s, t) \in Int /\ Turnover(c, s, t) = Turnover(b, s, t) + gt[f]
    BY <1>2, <1>3, <1>4, <1>6, <1>7
  <1> QED BY <1>5, <1>9, <1>10, <1>11, <1>12

LEMMA NothingFilled ==
    ASSUME NEW b, NEW s, NEW t, b.fills = <<>>
    PROVE  /\ ExactPosition(b, s) = 0 /\ ExactCash(b, s, t) = 0
           /\ Volume(b, s) = 0 /\ Turnover(b, s, t) = 0
  <1>1. /\ [i \in DOMAIN b.fills |-> Sign(b.fills[i].side) * Size(b.fills[i], s)] = <<>>
        /\ [i \in DOMAIN b.fills |-> Sign(b.fills[i].side) * Cost(b.fills[i], s, t)] = <<>>
        /\ [i \in DOMAIN b.fills |-> Size(b.fills[i], s)] = <<>>
        /\ [i \in DOMAIN b.fills |-> Cost(b.fills[i], s, t)] = <<>>
    OBVIOUS
  <1>2. PICK x \in Int : x = 0
    OBVIOUS
  <1>3. -x = 0 - x
    BY SMT
  <1>4. -x = x
    BY <1>2, <1>3, SMT
  <1>5. ExactCash(b, s, t) = -x
    BY <1>1, <1>2, SumEmpty DEF ExactCash
  <1> QED BY <1>1, <1>2, <1>4, <1>5, SumEmpty DEF ExactPosition, Volume, Turnover

-----------------------------------------------------------------------------
(* What a fill moves the position by.                                        *)
Moved(f) == IF f.side = "BUY" THEN f.size ELSE Negated(f.size)

(* The position shows as many places as the finest size filled.              *)
Depth(b) ==
    /\ b.position.exp =< 0
    /\ \A i \in DOMAIN b.fills : b.position.exp =< b.fills[i].size.exp
    /\ b.position.exp = 0 \/ \E i \in DOMAIN b.fills : b.position.exp = b.fills[i].size.exp

Exact(b, s, t) ==
    /\ b.position \in At(s) /\ Units(b.position, s) = ExactPosition(b, s)
    /\ b.cash \in At(s + t) /\ Units(b.cash, s + t) = ExactCash(b, s, t)
    /\ Depth(b)

(* In units that the fills are whole numbers of, the sums bound position and *)
(* cash, and while they fit the precision nothing has been rounded.          *)
Summed(b, s, t) ==
    b.fills \in Seq(Fills(s, t)) =>
      /\ ExactPosition(b, s) \in Int /\ Volume(b, s) \in Int
      /\ ExactCash(b, s, t) \in Int /\ Turnover(b, s, t) \in Int
      /\ Abs(ExactPosition(b, s)) =< Volume(b, s)
      /\ Abs(ExactCash(b, s, t)) =< Turnover(b, s, t)
      /\ Volume(b, s) < Pow10[PREC] /\ Turnover(b, s, t) < Pow10[PREC] => Exact(b, s, t)

(* The position and the cash after each fill, as `_fill` makes one from the  *)
(* one before.                                                               *)
Made(fills, p, c) ==
    /\ p[0] = Zero /\ c[0] = Zero
    /\ \A k \in Nat : k < Len(fills) =>
         /\ p[k + 1] = Plus(p[k], Moved(fills[k + 1]))
         /\ c[k + 1] = Minus(c[k], Times(Moved(fills[k + 1]), fills[k + 1].price))

(* Everything a theorem below needs to know of a book.                       *)
GoodBook(b) ==
    /\ b.fills \in Seq(Fills(MAX_DECIMAL_PLACES, MAX_DECIMAL_PLACES))
    /\ b.lastPrice = Zero \/ b.lastPrice \in Positive(MAX_DECIMAL_PLACES)
    /\ \E p \in [Nat -> At(MAX_DECIMAL_PLACES)],
          c \in [Nat -> At(MAX_DECIMAL_PLACES + MAX_DECIMAL_PLACES)] :
         /\ Made(b.fills, p, c)
         /\ b.position = p[Len(b.fills)] /\ b.cash = c[Len(b.fills)]
    /\ \A s, t \in 0..MAX_DECIMAL_PLACES : Summed(b, s, t)

-----------------------------------------------------------------------------
LEMMA ZeroIs ==
    ASSUME NEW j \in Nat
    PROVE  Zero \in At(j) /\ Units(Zero, j) = 0 /\ Zero.exp = 0 /\ Zero.coeff = 0
  <1>1. Zero = [neg |-> FALSE, coeff |-> 0, exp |-> 0]
    BY DEF Zero, Decimal
  <1>2. Zero.neg = FALSE /\ Zero.coeff = 0 /\ Zero.exp = 0 /\ Zero \in DecimalType
    BY <1>1 DEF DecimalType
  <1>3. Zero.exp + j = j
    BY <1>2, SMT
  <1>4. Pow10[j] \in Int
    BY Pow10Defined
  <1>5. Units(Zero, j) = (1 * 0) * Pow10[j]
    BY <1>2, <1>3 DEF Units
  <1>6. ASSUME NEW x \in Int PROVE (1 * 0) * x = 0
    BY SMT
  <1> QED BY <1>2, <1>3, <1>4, <1>5, <1>6 DEF At

(* Within the precision, a fill moves the position by its size, up or down.  *)
LEMMA MovedIs ==
    ASSUME NEW s \in Nat, NEW t \in Nat, NEW f \in Fills(s, t)
    PROVE  /\ Moved(f) \in At(s)
           /\ Size(f, s) < Pow10[PREC] =>
                Units(Moved(f), s) = Sign(f.side) * Size(f, s) /\ Moved(f).exp = f.size.exp
  <1>1. f.size \in At(s) /\ Size(f, s) \in Nat /\ Size(f, s) = Units(f.size, s)
    BY FillUnits
  <1>2. CASE f.side = "BUY"
    <2>1. Moved(f) = f.size /\ Sign(f.side) = 1
      BY <1>2 DEF Moved, Sign
    <2>2. 1 * Size(f, s) = Size(f, s)
      BY <1>1, SMT
    <2> QED BY <1>1, <2>1, <2>2
  <1>3. CASE f.side # "BUY"
    <2>1. Moved(f) = Negated(f.size) /\ Sign(f.side) = -1
      BY <1>3 DEF Moved, Sign
    <2>2. (-1) * Size(f, s) = -Size(f, s)
      BY <1>1, SMT
    <2>3. Abs(Units(f.size, s)) = Size(f, s)
      BY <1>1, SMT DEF Abs
    <2> QED BY <1>1, <2>1, <2>2, <2>3, NegatedIs
  <1> QED BY <1>2, <1>3

LEMMA DepthGrows ==
    ASSUME NEW s \in Nat, NEW t \in Nat, NEW b, NEW c, NEW f \in Fills(s, t),
           b.fills \in Seq(Fills(s, t)), c.fills = Append(b.fills, f),
           b.position \in At(s), Depth(b), c.position.exp = Smaller(b.position.exp, f.size.exp)
    PROVE  Depth(c)
  <1> DEFINE n == Len(b.fills)
  <1>1. n \in Nat /\ DOMAIN b.fills = 1..n
    BY LenProperties
  <1>2. /\ DOMAIN c.fills = 1..(n + 1) /\ c.fills[n + 1] = f
        /\ \A i \in 1..n : c.fills[i] = b.fills[i]
    BY AppendProperties, LenProperties
  <1>3. \A i \in 1..n : b.fills[i] \in Fills(s, t)
    BY <1>1, ElementOfSeq
  <1>4. ASSUME NEW x \in Fills(s, t) PROVE x.size.exp \in Int
    BY <1>4, FillUnits, SignedIs DEF At
  <1>5. b.position.exp \in Int /\ f.size.exp \in Int
    BY <1>4, SignedIs DEF At
  <1>6. /\ c.position.exp =< b.position.exp /\ c.position.exp =< f.size.exp
        /\ c.position.exp \in {b.position.exp, f.size.exp}
    BY <1>5, SMT DEF Smaller
  <1>7. c.position.exp =< 0
    BY <1>5, <1>6, SMT DEF Depth
  <1>8. ASSUME NEW i \in 1..(n + 1) PROVE c.position.exp =< c.fills[i].size.exp
    <2>1. CASE i = n + 1
      BY <1>2, <1>6, <2>1
    <2>2. CASE i # n + 1
      <3>1. i \in 1..n
        BY <1>1, <2>2, SMT
      <3>2. b.position.exp =< c.fills[i].size.exp /\ c.fills[i].size.exp \in Int
        BY <1>1, <1>2, <1>3, <1>4, <3>1 DEF Depth
      <3> QED BY <1>5, <1>6, <3>2, SMT
    <2> QED BY <2>1, <2>2
  <1>9. c.position.exp = 0 \/ \E i \in 1..(n + 1) : c.position.exp = c.fills[i].size.exp
    <2>1. CASE c.position.exp = f.size.exp
      <3>1. n + 1 \in 1..(n + 1)
        BY <1>1, SMT
      <3> QED BY <1>2, <2>1, <3>1
    <2>2. CASE c.position.exp = b.position.exp
      <3>1. 1..n \subseteq 1..(n + 1)
        BY <1>1, SMT
      <3> QED BY <1>1, <1>2, <2>2, <3>1 DEF Depth
    <2> QED BY <1>6, <2>1, <2>2
  <1> QED BY <1>2, <1>7, <1>8, <1>9 DEF Depth

(* A fill is added to the sums and to the book alike, as long as they fit.   *)
LEMMA SummedGrows ==
    ASSUME NEW s \in Nat, NEW t \in Nat, NEW S, NEW b, NEW c, NEW f \in S,
           b.fills \in Seq(S), c.fills = Append(b.fills, f), Summed(b, s, t),
           c.position = Plus(b.position, Moved(f)),
           c.cash = Minus(b.cash, Times(Moved(f), f.price))
    PROVE  Summed(c, s, t)
  <1> SUFFICES ASSUME c.fills \in Seq(Fills(s, t)) PROVE Summed(c, s, t)
    BY DEF Summed
  <1>1. b.fills \in Seq(Fills(s, t)) /\ f \in Fills(s, t)
    <2>1. PICK n \in Nat : n = Len(b.fills)
      BY LenProperties
    <2>2. /\ Len(c.fills) = n + 1 /\ c.fills[n + 1] = f
          /\ \A i \in 1..n : c.fills[i] = b.fills[i]
      BY <2>1, AppendProperties
    <2>3. \A i \in 1..(n + 1) : c.fills[i] \in Fills(s, t)
      BY <2>2, ElementOfSeq
    <2>4. n + 1 \in 1..(n + 1) /\ 1..n \subseteq 1..(n + 1)
      BY <2>1, SMT
    <2>5. f \in Fills(s, t) /\ \A i \in 1..n : b.fills[i] \in Fills(s, t)
      BY <2>2, <2>3, <2>4
    <2>6. b.fills = [i \in 1..n |-> b.fills[i]]
      BY <2>1, LenProperties
    <2> QED BY <2>1, <2>5, <2>6, IsASeq
  <1>2. PICK x \in Int : x = ExactPosition(b, s)
    BY <1>1 DEF Summed
  <1>3. PICK y \in Int : y = ExactCash(b, s, t)
    BY <1>1 DEF Summed
  <1>4. PICK v \in Int : v = Volume(b, s) /\ Abs(x) =< v
    BY <1>1, <1>2 DEF Summed
  <1>5. PICK w \in Int : w = Turnover(b, s, t) /\ Abs(y) =< w
    BY <1>1, <1>3 DEF Summed
  <1>6. PICK z \in Nat : z = Size(f, s)
    BY <1>1, FillUnits
  <1>7. PICK k \in Nat : k = Cost(f, s, t) /\ k = z * Units(f.price, t)
    BY <1>1, <1>6, FillUnits
  <1>8. PICK g \in {1, -1} : g = Sign(f.side)
    BY <1>1, FillUnits
  <1>9. /\ ExactPosition(c, s) = x + g * z /\ ExactCash(c, s, t) = y - g * k
        /\ Volume(c, s) = v + z /\ Turnover(c, s, t) = w + k
    <2>1. /\ ExactPosition(c, s) = ExactPosition(b, s) + Sign(f.side) * Size(f, s)
          /\ ExactCash(c, s, t) = ExactCash(b, s, t) - Sign(f.side) * Cost(f, s, t)
          /\ Volume(c, s) = Volume(b, s) + Size(f, s)
          /\ Turnover(c, s, t) = Turnover(b, s, t) + Cost(f, s, t)
      <3>1. f \in Fills(s, t) /\ b.fills \in Seq(Fills(s, t)) /\ c.fills = Append(b.fills, f)
        BY <1>1
      <3> QED BY <3>1, SumsGrow
    <2> QED BY <1>2, <1>3, <1>4, <1>5, <1>6, <1>7, <1>8, <2>1, Zenon
  <1>10. g * z \in Int /\ g * k \in Int /\ Abs(g * z) = z /\ Abs(g * k) = k
    <2>1. CASE g = 1
      BY <2>1, SMT DEF Abs
    <2>2. CASE g = -1
      BY <2>2, SMT DEF Abs
    <2> QED BY <2>1, <2>2
  <1>11. /\ x + g * z \in Int /\ y - g * k \in Int /\ v + z \in Int /\ w + k \in Int
         /\ Abs(x + g * z) =< v + z /\ Abs(y - g * k) =< w + k
    <2>1. ASSUME NEW o \in Int, NEW n \in Int, NEW u \in Nat, NEW a \in Int,
                 Abs(o) =< n, Abs(a) = u
          PROVE  /\ o + a \in Int /\ o - a \in Int /\ n + u \in Int
                 /\ Abs(o + a) =< n + u /\ Abs(o - a) =< n + u
      BY <2>1, SMT DEF Abs
    <2> QED BY <1>4, <1>5, <1>10, <2>1
  <1>12. ASSUME v + z < Pow10[PREC], w + k < Pow10[PREC] PROVE Exact(c, s, t)
    <2>1. PICK P \in Nat : P = Pow10[PREC]
      BY Pow10Defined, PrecisionAssumption
    <2>2. v < P /\ w < P /\ z < P /\ k < P
      <3>1. v >= 0 /\ w >= 0
        BY <1>4, <1>5, SMT DEF Abs
      <3> QED BY <1>12, <2>1, <3>1, SMT
    <2>3. Exact(b, s, t)
      BY <1>1, <1>4, <1>5, <2>1, <2>2 DEF Summed
    <2>4. b.position \in At(s) /\ Units(b.position, s) = x /\ Depth(b)
          /\ b.cash \in At(s + t) /\ Units(b.cash, s + t) = y
      BY <1>2, <1>3, <2>3 DEF Exact
    <2>5. Moved(f) \in At(s) /\ Units(Moved(f), s) = g * z /\ Moved(f).exp = f.size.exp
      BY <1>1, <1>6, <1>8, <2>1, <2>2, MovedIs
    <2>6. Abs(x + g * z) < P /\ Abs(y - g * k) < P
      BY <1>10, <1>11, <1>12, <2>1, SMT DEF Abs
    <2>7. /\ c.position \in At(s) /\ Units(c.position, s) = x + g * z
          /\ c.position.exp = Smaller(b.position.exp, f.size.exp)
      <3>1. s \in Int /\ Abs(Units(b.position, s) + Units(Moved(f), s)) < Pow10[PREC]
        BY <2>1, <2>4, <2>5, <2>6
      <3>2. /\ Plus(b.position, Moved(f)) \in At(s)
            /\ Units(Plus(b.position, Moved(f)), s) = Units(b.position, s) + Units(Moved(f), s)
            /\ Plus(b.position, Moved(f)).exp = Smaller(b.position.exp, Moved(f).exp)
        BY <2>4, <2>5, <3>1, PlusIs, Zenon
      <3> QED BY <2>4, <2>5, <3>2
    <2>8. Depth(c)
      BY <1>1, <2>4, <2>7, DepthGrows
    <2>9. f.price \in At(t) /\ s + t \in Int /\ Units(f.price, t) \in Int
      BY <1>1, FillUnits
    <2>10. (g * z) * Units(f.price, t) = g * k
      BY <1>7, <2>9, MulAssoc
    <2> DEFINE paid == Times(Moved(f), f.price)
    <2>11. paid \in At(s + t) /\ Units(paid, s + t) = g * k
      <3>1. Abs(Units(Moved(f), s) * Units(f.price, t)) < Pow10[PREC]
        BY <1>10, <2>1, <2>2, <2>5, <2>10
      <3>2. Units(Times(Moved(f), f.price), s + t) = Units(Moved(f), s) * Units(f.price, t)
            /\ Times(Moved(f), f.price) \in At(s + t)
        BY <2>5, <2>9, <3>1, TimesIs
      <3> QED BY <2>5, <2>10, <3>2
    <2>12. Negated(paid) \in At(s + t) /\ Units(Negated(paid), s + t) = -(g * k)
      BY <1>10, <2>1, <2>2, <2>9, <2>11, NegatedIs
    <2>13. y + -(g * k) = y - g * k
      BY <1>10, SMT
    <2>14. c.cash = Plus(b.cash, Negated(paid))
      BY DEF Minus
    <2>15. c.cash \in At(s + t) /\ Units(c.cash, s + t) = y - g * k
      BY <2>1, <2>4, <2>6, <2>9, <2>12, <2>13, <2>14, PlusIs
    <2> QED BY <1>9, <2>7, <2>8, <2>15 DEF Exact
  <1> QED BY <1>9, <1>11, <1>12 DEF Summed

-----------------------------------------------------------------------------
(* What the two executions keep, and what a verdict that reproduces is.      *)
GoodBooks ==
    /\ GoodBook(book) /\ GoodBook(first.book)
    /\ verdict = "REPRODUCED" => phase = "judged" /\ Recorded(book) = Recorded(first.book)

(* A plausible decimal is positive and has no more than MAX_DECIMAL_PLACES.  *)
LEMMA PlausibleIs ==
    ASSUME NEW d \in DecimalType, Plausible(d)
    PROVE  d \in Positive(MAX_DECIMAL_PLACES)
  <1>1. ~d.neg /\ d.coeff > 0 /\ d.exp >= -MAX_DECIMAL_PLACES
    BY DEF Plausible
  <1>2. MAX_DECIMAL_PLACES \in Nat /\ d.exp \in Int
    BY PrecisionAssumption, SignedIs
  <1>3. d.exp + MAX_DECIMAL_PLACES \in Nat
    BY <1>1, <1>2, SMT
  <1> QED BY <1>1, <1>3 DEF Positive, At

LEMMA EmptyGood == GoodBook(EmptyBook)
  <1> DEFINE D == MAX_DECIMAL_PLACES
             p == [k \in Nat |-> Zero]
  <1>1. D \in Nat /\ D + D \in Nat
    BY PrecisionAssumption, SMT
  <1>2. /\ EmptyBook.position = Zero /\ EmptyBook.cash = Zero
        /\ EmptyBook.lastPrice = Zero /\ EmptyBook.fills = <<>>
    BY DEF EmptyBook, NoDecimal
  <1>3. <<>> \in Seq(Fills(D, D)) /\ Len(<<>>) = 0
    BY EmptySeq
  <1>4. p \in [Nat -> At(D)] /\ p \in [Nat -> At(D + D)] /\ p[0] = Zero
    BY <1>1, ZeroIs
  <1>5. Made(<<>>, p, p)
    <2>1. \A k \in Nat : ~(k < 0)
      BY SMT
    <2> QED BY <1>3, <1>4, <2>1 DEF Made
  <1>6. ASSUME NEW s \in 0..D, NEW t \in 0..D PROVE Summed(EmptyBook, s, t)
    <2>1. s \in Nat /\ t \in Nat /\ s + t \in Nat
      BY <1>1, SMT
    <2>2. /\ ExactPosition(EmptyBook, s) = 0 /\ ExactCash(EmptyBook, s, t) = 0
          /\ Volume(EmptyBook, s) = 0 /\ Turnover(EmptyBook, s, t) = 0
      BY <1>2, NothingFilled
    <2>3. Depth(EmptyBook)
      <3>1. Zero.exp = 0 /\ 0 =< 0
        BY <1>1, ZeroIs
      <3> QED BY <1>2, <3>1 DEF Depth
    <2>4. Exact(EmptyBook, s, t)
      BY <1>2, <2>1, <2>2, <2>3, ZeroIs DEF Exact
    <2>5. Abs(0) = 0 /\ 0 =< 0
      BY DEF Abs
    <2> QED BY <2>2, <2>4, <2>5 DEF Summed
  <1> HIDE DEF p
  <1> QED BY <1>2, <1>3, <1>4, <1>5, <1>6 DEF GoodBook

(* One fill more is one step more of the history.                            *)
LEMMA HistoryGrows ==
    ASSUME NEW D \in Nat, NEW fills \in Seq(Fills(D, D)), NEW f \in Fills(D, D),
           NEW p \in [Nat -> At(D)], NEW c \in [Nat -> At(D + D)], Made(fills, p, c)
    PROVE  \E q \in [Nat -> At(D)], d \in [Nat -> At(D + D)] :
             /\ Made(Append(fills, f), q, d)
             /\ q[Len(Append(fills, f))] = Plus(p[Len(fills)], Moved(f))
             /\ d[Len(Append(fills, f))] = Minus(c[Len(fills)], Times(Moved(f), f.price))
  <1> DEFINE n    == Len(fills)
             long == Append(fills, f)
             x    == Plus(p[n], Moved(f))
             y    == Minus(c[n], Times(Moved(f), f.price))
             q    == [p EXCEPT ![n + 1] = x]
             d    == [c EXCEPT ![n + 1] = y]
  <1>1. n \in Nat /\ n + 1 \in Nat /\ D + D \in Int /\ D \in Int
    BY LenProperties, SMT
  <1>2. Len(long) = n + 1 /\ long[n + 1] = f /\ \A i \in 1..n : long[i] = fills[i]
    BY AppendProperties
  <1>3. x \in At(D)
    BY <1>1, MovedIs, PlusIs
  <1>4. y \in At(D + D)
    <2>1. Times(Moved(f), f.price) \in At(D + D)
      BY <1>1, MovedIs, FillUnits, TimesIs
    <2>2. Negated(Times(Moved(f), f.price)) \in At(D + D)
      BY <1>1, <2>1, NegatedIs
    <2> QED BY <1>1, <2>2, PlusIs DEF Minus
  <1>5. /\ q \in [Nat -> At(D)] /\ d \in [Nat -> At(D + D)]
        /\ q[n + 1] = x /\ d[n + 1] = y
        /\ \A k \in Nat : k # n + 1 => q[k] = p[k] /\ d[k] = c[k]
    BY <1>1, <1>3, <1>4
  <1> HIDE DEF q, d, long
  <1>6. q[0] = Zero /\ d[0] = Zero
    <2>1. 0 # n + 1
      BY <1>1, SMT
    <2> QED BY <1>5, <2>1 DEF Made
  <1>7. ASSUME NEW k \in Nat, k < n + 1
        PROVE  /\ q[k + 1] = Plus(q[k], Moved(long[k + 1]))
               /\ d[k + 1] = Minus(d[k], Times(Moved(long[k + 1]), long[k + 1].price))
    <2>1. q[k] = p[k] /\ d[k] = c[k]
      BY <1>1, <1>5, <1>7, SMT
    <2>2. CASE k = n
      BY <1>2, <1>5, <2>1, <2>2
    <2>3. CASE k < n
      <3>1. k + 1 \in Nat /\ k + 1 # n + 1 /\ k + 1 \in 1..n
        BY <1>1, <2>3, SMT
      <3>2. q[k + 1] = p[k + 1] /\ d[k + 1] = c[k + 1] /\ long[k + 1] = fills[k + 1]
        BY <1>2, <1>5, <3>1
      <3>3. /\ p[k + 1] = Plus(p[k], Moved(fills[k + 1]))
            /\ c[k + 1] = Minus(c[k], Times(Moved(fills[k + 1]), fills[k + 1].price))
        BY <2>3 DEF Made
      <3> QED BY <2>1, <3>2, <3>3
    <2> QED BY <1>1, <1>7, <2>2, <2>3, SMT
  <1>8. Made(long, q, d)
    BY <1>2, <1>6, <1>7 DEF Made
  <1>9. q[Len(long)] = x /\ d[Len(long)] = y
    BY <1>2, <1>5
  <1> QED BY <1>5, <1>8, <1>9 DEF long

(* A tick leaves a good book good, with a fill and without.                  *)
LEMMA FillGood ==
    ASSUME NEW b, NEW c, NEW f \in Fills(MAX_DECIMAL_PLACES, MAX_DECIMAL_PLACES), GoodBook(b),
           c.fills = Append(b.fills, f), c.lastPrice = f.price,
           c.position = Plus(b.position, Moved(f)),
           c.cash = Minus(b.cash, Times(Moved(f), f.price))
    PROVE  GoodBook(c)
  <1> DEFINE D == MAX_DECIMAL_PLACES
  <1>1. D \in Nat /\ b.fills \in Seq(Fills(D, D))
    BY PrecisionAssumption DEF GoodBook
  <1>2. PICK p \in [Nat -> At(D)], h \in [Nat -> At(D + D)] :
             /\ Made(b.fills, p, h)
             /\ b.position = p[Len(b.fills)] /\ b.cash = h[Len(b.fills)]
    BY DEF GoodBook
  <1>3. \E q \in [Nat -> At(D)], d \in [Nat -> At(D + D)] :
             /\ Made(c.fills, q, d)
             /\ c.position = q[Len(c.fills)] /\ c.cash = d[Len(c.fills)]
    <2>1. PICK q \in [Nat -> At(D)], d \in [Nat -> At(D + D)] :
             /\ Made(Append(b.fills, f), q, d)
             /\ q[Len(Append(b.fills, f))] = Plus(p[Len(b.fills)], Moved(f))
             /\ d[Len(Append(b.fills, f))] =
                  Minus(h[Len(b.fills)], Times(Moved(f), f.price))
      BY <1>1, <1>2, HistoryGrows
    <2>2. Made(c.fills, q, d) /\ c.position = q[Len(c.fills)] /\ c.cash = d[Len(c.fills)]
      BY <1>2, <2>1
    <2> QED BY <2>2
  <1>4. c.fills \in Seq(Fills(D, D))
    BY <1>1, AppendProperties
  <1>5. c.lastPrice \in Positive(D)
    BY DEF Fills
  <1>6. ASSUME NEW s \in 0..D, NEW t \in 0..D PROVE Summed(c, s, t)
    <2>1. s \in Nat /\ t \in Nat /\ Summed(b, s, t)
      BY <1>1, SMT DEF GoodBook
    <2> QED BY <1>1, <2>1, SummedGrows
  <1> QED BY <1>3, <1>4, <1>5, <1>6 DEF GoodBook

LEMMA TradeGood ==
    ASSUME NEW b, NEW c, NEW price \in Positive(MAX_DECIMAL_PLACES), GoodBook(b),
           c.fills = b.fills, c.lastPrice = price, c.position = b.position, c.cash = b.cash
    PROVE  GoodBook(c)
  <1>1. ASSUME NEW s, NEW t, Summed(b, s, t) PROVE Summed(c, s, t)
    BY <1>1 DEF Summed, Exact, Depth, ExactPosition, ExactCash, Volume, Turnover
  <1> QED BY <1>1 DEF GoodBook

LEMMA InitGood == Init => GoodBooks
  BY EmptyGood DEF Init, GoodBooks

LEMMA TickGood == BookType /\ GoodBooks /\ Tick => GoodBooks'
  <1> SUFFICES ASSUME BookType, GoodBooks, Tick PROVE GoodBooks'
    OBVIOUS
  <1> DEFINE shape == {"position", "cash", "lastPrice", "fills", "ticks"}
             D     == MAX_DECIMAL_PLACES
  <1>1. first' = first /\ verdict' = verdict /\ phase' = phase /\ phase \in {"running", "replaying"}
    BY DEF Tick
  <1>2. DOMAIN book = shape /\ book.ticks \in Nat /\ GoodBook(book) /\ GoodBook(first.book)
    BY DEF BookType, GoodBooks
  <1>3. verdict # "REPRODUCED"
    BY <1>1 DEF GoodBooks
  <1>4. PICK price \in Prices :
          /\ Plausible(price)
          /\ \/ Trade(price)
             \/ \E side \in {"BUY", "SELL"}, size \in Sizes :
                  Plausible(size) /\ TradeFilling(side, size, price)
    BY DEF Tick
  <1>5. price \in Positive(D)
    BY <1>4, PlausibleIs, InputAssumption
  <1>6. CASE Trade(price)
    <2>1. /\ book'.fills = book.fills /\ book'.lastPrice = price
          /\ book'.position = book.position /\ book'.cash = book.cash
      BY <1>2, <1>6 DEF Trade, Revealed
    <2>2. GoodBook(book')
      BY <1>2, <1>5, <2>1, TradeGood
    <2> QED BY <1>1, <1>2, <1>3, <2>2 DEF GoodBooks
  <1>7. CASE \E side \in {"BUY", "SELL"}, size \in Sizes :
               Plausible(size) /\ TradeFilling(side, size, price)
    <2>1. PICK side \in {"BUY", "SELL"}, size \in Sizes :
               Plausible(size) /\ TradeFilling(side, size, price)
      BY <1>7
    <2> DEFINE f == [at |-> book.ticks, side |-> side, size |-> size, price |-> price]
               b == Filled(book, side, size, price)
    <2>2. size \in Positive(D)
      BY <2>1, PlausibleIs, InputAssumption
    <2>3. f \in Fills(D, D)
      BY <1>2, <1>5, <2>2 DEF Fills
    <2>4. f.side = side /\ f.size = size /\ f.price = price
      OBVIOUS
    <2>5. Moved(f) = IF side = "BUY" THEN size ELSE Negated(size)
      BY <2>4 DEF Moved
    <2>6. /\ DOMAIN b = shape /\ b.fills = Append(book.fills, f)
          /\ b.position = Plus(book.position, Moved(f))
          /\ b.cash = Minus(book.cash, Times(Moved(f), f.price))
      BY <1>2, <2>5 DEF Filled
    <2> HIDE DEF f, b
    <2>7. book' = Revealed(b, price)
      BY <2>1 DEF TradeFilling, b
    <2>8. /\ book'.fills = b.fills /\ book'.lastPrice = price
          /\ book'.position = b.position /\ book'.cash = b.cash
      BY <2>6, <2>7 DEF Revealed
    <2>9. GoodBook(book')
      BY <1>2, <2>3, <2>4, <2>6, <2>8, FillGood
    <2> QED BY <1>1, <1>2, <1>3, <2>9 DEF GoodBooks
  <1> QED BY <1>4, <1>6, <1>7

LEMMA StepGood == IInv /\ GoodBooks /\ [Next]_vars => GoodBooks'
  <1> SUFFICES ASSUME IInv, GoodBooks, [Next]_vars PROVE GoodBooks'
    OBVIOUS
  <1>1. CASE Tick
    BY <1>1, TickGood DEF IInv
  <1>2. CASE End
    BY <1>2 DEF End, GoodBooks, Ended
  <1>3. CASE Implausible
    BY <1>3 DEF Implausible, GoodBooks, Ended
  <1>4. CASE Verify
    <2>1. /\ book' = EmptyBook /\ first'.book = book /\ verdict' = verdict
          /\ phase = "recorded"
      BY <1>4 DEF Verify
    <2>2. verdict # "REPRODUCED"
      BY <2>1 DEF GoodBooks
    <2>3. GoodBook(book') /\ GoodBook(first'.book)
      BY <2>1, EmptyGood DEF GoodBooks
    <2> QED BY <2>1, <2>2, <2>3 DEF GoodBooks
  <1>5. CASE Judge
    <2>1. book' = book /\ first' = first /\ phase' = "judged" /\ phase = "replayed"
      BY <1>5 DEF Judge
    <2>2. GoodBook(book') /\ GoodBook(first'.book)
      BY <2>1 DEF GoodBooks
    <2>3. ASSUME verdict' = "REPRODUCED" PROVE Recorded(book) = Recorded(first.book)
      <3>1. ResultHash(book, outcome) = first.hash
        BY <1>5, <2>3 DEF Judge
      <3>2. first.hash = Recorded(first.book)
        BY <2>1 DEF IInv, JudgedOnce
      <3>3. Recorded(first.book) # NoHash
        <4>1. DOMAIN Recorded(first.book) = {"position", "pnl", "fills", "ticks"}
          BY DEF Recorded
        <4>2. DOMAIN NoHash = {"field"}
          BY DEF NoHash, Nothing
        <4> QED BY <4>1, <4>2
      <3> QED BY <3>1, <3>2, <3>3 DEF ResultHash
    <2>4. verdict' = "REPRODUCED" => Recorded(book') = Recorded(first'.book)
      <3>1. Recorded(book') = Recorded(book) /\ Recorded(first'.book) = Recorded(first.book)
        BY <2>1
      <3> QED BY <2>3, <3>1
    <2> QED BY <2>1, <2>2, <2>4 DEF GoodBooks
  <1>6. CASE UNCHANGED vars
    BY <1>6 DEF vars, GoodBooks
  <1> QED BY <1>1, <1>2, <1>3, <1>4, <1>5, <1>6 DEF Next

(* Both executions' books are good in every state, and after a verdict of    *)
(* REPRODUCED they are recorded alike: the second inductive invariant.  Of   *)
(* a position and a cash it says both what they are exactly, while the sums  *)
(* fit, and how each came from the one before, whether they fit or not.      *)
THEOREM BooksAreGood == Spec => []GoodBooks
  BY InitInv, StepInv, InitGood, StepGood, PTL DEF Spec

-----------------------------------------------------------------------------
(* In units that cover a book, its fills and last price are whole numbers.   *)
LEMMA Covered ==
    ASSUME NEW b, GoodBook(b), NEW s \in Nat, NEW t \in Nat, Covers(b, s, t)
    PROVE  b.fills \in Seq(Fills(s, t)) /\ b.lastPrice \in At(t)
  <1> DEFINE D == MAX_DECIMAL_PLACES
  <1>1. ASSUME NEW j \in Nat, NEW d \in Positive(D), d.exp >= -j PROVE d \in Positive(j)
    <2>1. d \in DecimalType /\ ~d.neg /\ d.coeff > 0
      BY DEF Positive, At
    <2>2. d.exp + j \in Nat
      BY <1>1, <2>1, SignedIs, SMT
    <2> QED BY <2>1, <2>2 DEF Positive, At
  <1>2. PICK n \in Nat : n = Len(b.fills) /\ DOMAIN b.fills = 1..n
    BY LenProperties DEF GoodBook
  <1>3. ASSUME NEW i \in 1..n PROVE b.fills[i] \in Fills(s, t)
    <2>1. b.fills[i] \in Fills(D, D)
      BY <1>2, ElementOfSeq DEF GoodBook
    <2>2. b.fills[i].size.exp >= -s /\ b.fills[i].price.exp >= -t
      BY <1>2 DEF Covers
    <2>3. b.fills[i].size \in Positive(s) /\ b.fills[i].price \in Positive(t)
      BY <1>1, <2>1, <2>2 DEF Fills
    <2> QED BY <2>1, <2>3 DEF Fills
  <1>4. b.fills = [i \in 1..n |-> b.fills[i]]
    BY <1>2, LenProperties DEF GoodBook
  <1>5. b.fills \in Seq(Fills(s, t))
    BY <1>3, <1>4, IsASeq
  <1>6. b.lastPrice \in At(t)
    <2>1. CASE b.lastPrice = Zero
      BY <2>1, ZeroIs
    <2>2. CASE b.lastPrice \in Positive(D)
      BY <1>1, <2>2 DEF Covers, Positive
    <2> QED BY <2>1, <2>2 DEF GoodBook
  <1> QED BY <1>5, <1>6

(* Where the sums fit the precision, position, cash and PnL are exact.       *)
LEMMA NothingRounded ==
    ASSUME NEW b, GoodBook(b),
           NEW s \in 0..MAX_DECIMAL_PLACES, NEW t \in 0..MAX_DECIMAL_PLACES,
           Covers(b, s, t), FitsPrecision(b, s, t)
    PROVE  /\ Exact(b, s, t) /\ b.lastPrice \in At(t)
           /\ ExactCash(b, s, t) \in Int /\ Mark(b, s, t) \in Int
           /\ Pnl(b) \in At(s + t)
           /\ Units(Pnl(b), s + t) = ExactCash(b, s, t) + Mark(b, s, t)
  <1>1. s \in Nat /\ t \in Nat /\ s \in Int /\ t \in Int /\ s + t \in Int
    BY PrecisionAssumption, SMT
  <1>2. b.fills \in Seq(Fills(s, t)) /\ b.lastPrice \in At(t) /\ Summed(b, s, t)
    BY <1>1, Covered DEF GoodBook
  <1>3. PICK P \in Nat : P = Pow10[PREC]
    BY Pow10Defined, PrecisionAssumption
  <1>4. PICK x \in Int : x = ExactPosition(b, s)
    BY <1>2 DEF Summed
  <1>5. PICK y \in Int : y = ExactCash(b, s, t)
    BY <1>2 DEF Summed
  <1>6. PICK w \in Int : w = Turnover(b, s, t) /\ Abs(y) =< w
    BY <1>2, <1>5 DEF Summed
  <1>7. PICK u \in Int : u = Units(b.lastPrice, t)
    BY <1>1, <1>2, UnitsInt
  <1>8. PICK m \in Int : m = Mark(b, s, t) /\ m = x * u
    BY <1>4, <1>7, MulAssoc DEF Mark
  <1>9. w + Abs(m) < P /\ Volume(b, s) < P
    BY <1>3, <1>6, <1>8 DEF FitsPrecision
  <1>10. w < P /\ Abs(m) < P /\ Abs(y + m) < P
    BY <1>6, <1>9, SMT DEF Abs
  <1>11. Exact(b, s, t)
    BY <1>2, <1>3, <1>6, <1>9, <1>10 DEF Summed
  <1>12. /\ b.position \in At(s) /\ Units(b.position, s) = x
         /\ b.cash \in At(s + t) /\ Units(b.cash, s + t) = y
    BY <1>4, <1>5, <1>11 DEF Exact
  <1>13. Pnl(b) \in At(s + t) /\ Units(Pnl(b), s + t) = y + m
    <2>1. CASE b.lastPrice = NoDecimal
      <3>1. Pnl(b) = b.cash
        BY <2>1 DEF Pnl
      <3>2. u = 0
        BY <1>1, <1>7, <2>1, ZeroIs DEF NoDecimal
      <3>3. y + m = y
        BY <1>8, <3>2, SMT
      <3> QED BY <1>12, <3>1, <3>3
    <2>2. CASE b.lastPrice # NoDecimal
      <3> DEFINE worth == Times(b.position, b.lastPrice)
      <3>1. Pnl(b) = Plus(b.cash, worth)
        BY <2>2 DEF Pnl
      <3>2. worth \in At(s + t) /\ Units(worth, s + t) = m
        <4>1. Abs(Units(b.position, s) * Units(b.lastPrice, t)) < Pow10[PREC]
          BY <1>3, <1>7, <1>8, <1>10, <1>12
        <4>2. /\ Times(b.position, b.lastPrice) \in At(s + t)
              /\ Units(Times(b.position, b.lastPrice), s + t) =
                   Units(b.position, s) * Units(b.lastPrice, t)
          <5>1. s \in Int /\ t \in Int /\ b.position \in At(s) /\ b.lastPrice \in At(t)
            BY <1>1, <1>2, <1>12
          <5> QED BY <4>1, <5>1, TimesIs, Zenon
        <4> QED BY <1>7, <1>8, <1>12, <4>2
      <3> QED BY <1>1, <1>3, <1>10, <1>12, <3>1, <3>2, PlusIs
    <2> QED BY <2>1, <2>2
  <1> QED BY <1>2, <1>5, <1>8, <1>11, <1>13

(* The places of the position's text are the finest size's.                  *)
LEMMA PlacesShown ==
    ASSUME NEW b, NEW s \in Nat, NEW t \in Nat, b.fills \in Seq(Fills(s, t)),
           b.position \in At(s), Depth(b)
    PROVE  /\ \A p \in Scales(b) : p =< Text(b.position).places
           /\ Text(b.position).places \in Scales(b)
  <1> DEFINE e == b.position.exp
  <1>1. e \in Int /\ e =< 0
    BY SignedIs DEF At, Depth
  <1>2. Text(b.position).places = Larger(-e, 0) /\ Larger(-e, 0) = -e
    BY <1>1, SMT DEF Text, Larger
  <1>3. ASSUME NEW i \in DOMAIN b.fills
        PROVE  /\ b.fills[i].size.exp \in Int /\ e =< b.fills[i].size.exp
    <2>1. b.fills[i] \in Fills(s, t)
      BY LenProperties, ElementOfSeq
    <2> QED BY <2>1, FillUnits, SignedIs DEF At, Depth
  <1>4. ASSUME NEW x \in Int, e =< x PROVE Larger(-x, 0) =< -e
    BY <1>1, <1>4, SMT DEF Larger
  <1>5. 0 =< -e
    BY <1>1, SMT
  <1>6. \A p \in Scales(b) : p =< -e
    BY <1>3, <1>4, <1>5 DEF Scales
  <1>7. -e \in Scales(b)
    <2>1. CASE e = 0
      <3>1. 0 =< -e /\ -e =< 0 /\ -e \in Int
        BY <1>1, <2>1, SMT
      <3>2. ASSUME NEW x \in Int, 0 =< x, x =< 0 PROVE x = 0
        BY <3>2, SMT
      <3> HIDE DEF e
      <3> QED BY <3>1, <3>2, Zenon DEF Scales
    <2>2. CASE \E i \in DOMAIN b.fills : e = b.fills[i].size.exp
      BY <1>2, <2>2 DEF Scales
    <2> QED BY <2>1, <2>2 DEF Depth
  <1> QED BY <1>2, <1>6, <1>7

LEMMA GoodIsExact == GoodBooks => ExactWithinPrecision
  <1> SUFFICES ASSUME GoodBooks,
                      NEW s \in 0..MAX_DECIMAL_PLACES, NEW t \in 0..MAX_DECIMAL_PLACES,
                      Covers(book, s, t), FitsPrecision(book, s, t)
               PROVE  /\ Units(book.position, s) = ExactPosition(book, s)
                      /\ Units(book.cash, s + t) = ExactCash(book, s, t)
                      /\ Units(Pnl(book), s + t) = ExactCash(book, s, t) + Mark(book, s, t)
                      /\ \A p \in Scales(book) : p =< Text(book.position).places
                      /\ Text(book.position).places \in Scales(book)
    BY DEF ExactWithinPrecision
  <1>1. GoodBook(book) /\ s \in Nat /\ t \in Nat
    BY PrecisionAssumption, SMT DEF GoodBooks
  <1>2. Exact(book, s, t) /\ Units(Pnl(book), s + t) = ExactCash(book, s, t) + Mark(book, s, t)
    BY <1>1, NothingRounded
  <1>3. book.fills \in Seq(Fills(s, t))
    BY <1>1, Covered
  <1> QED BY <1>1, <1>2, <1>3, PlacesShown DEF Exact

(* However many fills of however fine sizes and prices: position, cash and   *)
(* PnL are the exact sums while those fit the precision, and the position's  *)
(* text shows the places of the finest size.  portfolio._fill, Portfolio.pnl,*)
(* canonical.decimal_text.                                                   *)
THEOREM NothingIsRounded == Spec => []ExactWithinPrecision
  BY BooksAreGood, GoodIsExact, PTL

-----------------------------------------------------------------------------
(* Histories of fills that are recorded alike.                               *)
Alike(x, y) ==
    /\ Len(x) = Len(y)
    /\ \A i \in 1..Len(x) : /\ x[i].side = y[i].side /\ Text(x[i].size) = Text(y[i].size)
                            /\ Text(x[i].price) = Text(y[i].price)

History(D, fills, p, c) ==
    /\ fills \in Seq(Fills(D, D))
    /\ p \in [Nat -> At(D)] /\ c \in [Nat -> At(D + D)]
    /\ Made(fills, p, c)

LEMMA HistoriesAgree ==
    ASSUME NEW D \in Nat, NEW x, NEW y, Alike(x, y), NEW p, NEW q, NEW c, NEW d,
           History(D, x, p, c), History(D, y, q, d)
    PROVE  /\ Units(p[Len(x)], D) = Units(q[Len(x)], D)
           /\ Units(c[Len(x)], D + D) = Units(d[Len(x)], D + D)
  <1> DEFINE T == {k \in Nat : k =< Len(x) =>
                      /\ Units(p[k], D) = Units(q[k], D)
                      /\ Units(c[k], D + D) = Units(d[k], D + D)}
  <1> USE DEF History
  <1>0. Len(x) \in Nat /\ Len(y) = Len(x) /\ D + D \in Nat /\ D \in Int /\ D + D \in Int
    BY LenProperties, SMT DEF Alike
  <1>1. 0 \in T
    BY DEF Made
  <1>2. ASSUME NEW k \in Nat, k \in T PROVE k + 1 \in T
    <2> SUFFICES ASSUME k + 1 =< Len(x)
                 PROVE  /\ Units(p[k + 1], D) = Units(q[k + 1], D)
                        /\ Units(c[k + 1], D + D) = Units(d[k + 1], D + D)
      BY SMT
    <2>1. k < Len(x) /\ k < Len(y) /\ k =< Len(x) /\ k + 1 \in 1..Len(x) /\ k + 1 \in 1..Len(y)
      BY <1>0, SMT
    <2>2. Units(p[k], D) = Units(q[k], D) /\ Units(c[k], D + D) = Units(d[k], D + D)
      BY <1>2, <2>1
    <2>3. PICK f \in Fills(D, D) : f = x[k + 1]
      BY <2>1, ElementOfSeq
    <2>4. PICK g \in Fills(D, D) : g = y[k + 1]
      BY <2>1, ElementOfSeq
    <2>5. f.side = g.side /\ Text(f.size) = Text(g.size) /\ Text(f.price) = Text(g.price)
      BY <2>1, <2>3, <2>4 DEF Alike
    <2>6. /\ f.size \in At(D) /\ f.price \in At(D) /\ g.size \in At(D) /\ g.price \in At(D)
          /\ Moved(f) \in At(D) /\ Moved(g) \in At(D)
      BY FillUnits, MovedIs
    <2>7. Units(f.size, D) = Units(g.size, D) /\ Units(f.price, D) = Units(g.price, D)
      BY <2>5, <2>6, TextDecides
    <2>8. Units(Moved(f), D) = Units(Moved(g), D)
      BY <2>5, <2>6, <2>7, NegatedAgrees DEF Moved
    <2>9. p[k + 1] = Plus(p[k], Moved(f)) /\ q[k + 1] = Plus(q[k], Moved(g))
      BY <2>1, <2>3, <2>4 DEF Made
    <2>10. /\ c[k + 1] = Plus(c[k], Negated(Times(Moved(f), f.price)))
           /\ d[k + 1] = Plus(d[k], Negated(Times(Moved(g), g.price)))
      BY <2>1, <2>3, <2>4 DEF Made, Minus
    <2>11. Units(p[k + 1], D) = Units(q[k + 1], D)
      BY <2>2, <2>6, <2>8, <2>9, PlusAgrees
    <2>12. /\ Times(Moved(f), f.price) \in At(D + D) /\ Times(Moved(g), g.price) \in At(D + D)
           /\ Units(Times(Moved(f), f.price), D + D) = Units(Times(Moved(g), g.price), D + D)
      <3>1. Times(Moved(f), f.price) \in At(D + D)
        BY <1>0, <2>6, TimesIs
      <3>2. Times(Moved(g), g.price) \in At(D + D)
        BY <1>0, <2>6, TimesIs
      <3>3. Units(Times(Moved(f), f.price), D + D) = Units(Times(Moved(g), g.price), D + D)
        <4>1. /\ D \in Int /\ f.price \in At(D) /\ g.price \in At(D)
              /\ Moved(f) \in At(D) /\ Moved(g) \in At(D)
              /\ Units(f.price, D) = Units(g.price, D)
              /\ Units(Moved(f), D) = Units(Moved(g), D)
          BY <1>0, <2>6, <2>7, <2>8
        <4> QED BY <4>1, TimesAgrees
      <3> QED BY <3>1, <3>2, <3>3
    <2>13. PICK v \in At(D + D) : v = Negated(Times(Moved(f), f.price))
      BY <1>0, <2>12, NegatedIs
    <2>14. PICK w \in At(D + D) : w = Negated(Times(Moved(g), g.price))
      BY <1>0, <2>12, NegatedIs
    <2>15. Units(v, D + D) = Units(w, D + D)
      BY <1>0, <2>12, <2>13, <2>14, NegatedAgrees
    <2>16. Units(c[k + 1], D + D) = Units(d[k + 1], D + D)
      BY <1>0, <2>2, <2>10, <2>13, <2>14, <2>15, PlusAgrees
    <2> QED BY <2>11, <2>16
  <1> HIDE DEF T
  <1>3. \A k \in Nat : k \in T
    BY <1>1, <1>2, Induction
  <1>4. Len(x) =< Len(x)
    BY <1>0, SMT
  <1> QED BY <1>0, <1>3, <1>4 DEF T

(* PnL has no more places than a product of a size and a price.              *)
LEMMA PnlAt ==
    ASSUME NEW b, GoodBook(b)
    PROVE  /\ b.position \in At(MAX_DECIMAL_PLACES)
           /\ b.cash \in At(MAX_DECIMAL_PLACES + MAX_DECIMAL_PLACES)
           /\ b.lastPrice \in At(MAX_DECIMAL_PLACES)
           /\ Pnl(b) \in At(MAX_DECIMAL_PLACES + MAX_DECIMAL_PLACES)
  <1> DEFINE D == MAX_DECIMAL_PLACES
  <1>1. D \in Nat /\ D \in Int /\ D + D \in Int /\ Len(b.fills) \in Nat
    BY PrecisionAssumption, LenProperties, SMT DEF GoodBook
  <1>2. b.position \in At(D) /\ b.cash \in At(D + D)
    BY <1>1 DEF GoodBook
  <1>3. b.lastPrice \in At(D)
    BY <1>1, ZeroIs DEF GoodBook, Positive
  <1>4. Times(b.position, b.lastPrice) \in At(D + D)
    BY <1>1, <1>2, <1>3, TimesIs
  <1>5. Plus(b.cash, Times(b.position, b.lastPrice)) \in At(D + D)
    BY <1>1, <1>2, <1>4, PlusIs
  <1> QED BY <1>2, <1>3, <1>5 DEF Pnl

(* Recorded alike, two books have the same position and cash.                *)
LEMMA RecordsDecide ==
    ASSUME NEW a, NEW b, Filling(a), Filling(b), GoodBook(a), GoodBook(b),
           Recorded(a) = Recorded(b)
    PROVE  LET D == MAX_DECIMAL_PLACES
           IN  /\ Units(a.position, D) = Units(b.position, D)
               /\ Units(a.cash, D + D) = Units(b.cash, D + D)
               /\ Units(Pnl(a), D + D) = Units(Pnl(b), D + D)
  <1> DEFINE D == MAX_DECIMAL_PLACES
             n == Len(a.fills)
  <1>1. D \in Nat /\ D + D \in Nat
    BY PrecisionAssumption, SMT
  <1>2. Len(b.fills) = n
    BY RecordedFills
  <1>3. ASSUME NEW i \in 1..n
        PROVE  /\ a.fills[i].side = b.fills[i].side
               /\ Text(a.fills[i].size) = Text(b.fills[i].size)
               /\ Text(a.fills[i].price) = Text(b.fills[i].price)
    <2>1. /\ Recorded(a).fills[i] =
               [at |-> a.fills[i].at, side |-> a.fills[i].side,
                size |-> Text(a.fills[i].size), price |-> Text(a.fills[i].price)]
          /\ Recorded(b).fills[i] =
               [at |-> b.fills[i].at, side |-> b.fills[i].side,
                size |-> Text(b.fills[i].size), price |-> Text(b.fills[i].price)]
      BY <1>2, RecordedFills
    <2>2. Recorded(a).fills[i] = Recorded(b).fills[i]
      OBVIOUS
    <2>3. ASSUME NEW f, f = Recorded(a).fills[i]
          PROVE  /\ f.side = a.fills[i].side /\ f.size = Text(a.fills[i].size)
                 /\ f.price = Text(a.fills[i].price)
                 /\ f.side = b.fills[i].side /\ f.size = Text(b.fills[i].size)
                 /\ f.price = Text(b.fills[i].price)
      BY <2>1, <2>2, <2>3
    <2> QED BY <2>3
  <1>4. a.fills \in Seq(Fills(D, D)) /\ b.fills \in Seq(Fills(D, D))
    BY DEF GoodBook
  <1>5. PICK p \in [Nat -> At(D)], c \in [Nat -> At(D + D)] :
          Made(a.fills, p, c) /\ a.position = p[n] /\ a.cash = c[n]
    BY DEF GoodBook
  <1>6. PICK q \in [Nat -> At(D)], d \in [Nat -> At(D + D)] :
          Made(b.fills, q, d) /\ b.position = q[n] /\ b.cash = d[n]
    BY <1>2 DEF GoodBook
  <1>7. Units(p[n], D) = Units(q[n], D) /\ Units(c[n], D + D) = Units(d[n], D + D)
    <2>1. History(D, a.fills, p, c) /\ History(D, b.fills, q, d)
      BY <1>4, <1>5, <1>6 DEF History
    <2>2. Alike(a.fills, b.fills)
      BY <1>2, <1>3 DEF Alike
    <2> QED BY <1>1, <2>1, <2>2, HistoriesAgree
  <1>8. Text(Pnl(a)) = Text(Pnl(b))
    <2>1. Recorded(a).pnl = Text(Pnl(a)) /\ Recorded(b).pnl = Text(Pnl(b))
      BY DEF Recorded
    <2> QED BY <2>1
  <1>9. Units(Pnl(a), D + D) = Units(Pnl(b), D + D)
    BY <1>1, <1>8, PnlAt, TextDecides
  <1> QED BY <1>5, <1>6, <1>7, <1>9

(* Where nothing was rounded, PnL is cash and the position at its last price.*)
LEMMA PnlIs ==
    ASSUME NEW b, GoodBook(b), Unrounded(b)
    PROVE  LET D == MAX_DECIMAL_PLACES
           IN  Units(Pnl(b), D + D) =
                 Units(b.cash, D + D) + Units(b.position, D) * Units(b.lastPrice, D)
  <1> DEFINE D == MAX_DECIMAL_PLACES
  <1>1. PICK s \in 0..D, t \in 0..D : Covers(b, s, t) /\ FitsPrecision(b, s, t)
    BY DEF Unrounded
  <1>2. s \in Nat /\ t \in Nat /\ s + t \in Int /\ D \in Nat
    BY PrecisionAssumption, SMT
  <1>3. PICK i \in Nat : D = s + i
    <2>1. D - s \in Nat /\ D = s + (D - s)
      BY <1>2, SMT
    <2> QED BY <2>1
  <1>4. PICK j \in Nat : D = t + j
    <2>1. D - t \in Nat /\ D = t + (D - t)
      BY <1>2, SMT
    <2> QED BY <2>1
  <1>5. D + D = (s + t) + (i + j) /\ i + j \in Nat
    BY <1>2, <1>3, <1>4, SMT
  <1>6. /\ Exact(b, s, t) /\ b.lastPrice \in At(t) /\ Pnl(b) \in At(s + t)
        /\ Units(Pnl(b), s + t) = ExactCash(b, s, t) + Mark(b, s, t)
    BY <1>1, NothingRounded
  <1>7. /\ b.position \in At(s) /\ Units(b.position, s) = ExactPosition(b, s)
        /\ b.cash \in At(s + t) /\ Units(b.cash, s + t) = ExactCash(b, s, t)
    BY <1>6 DEF Exact
  <1>8. PICK x \in Int : x = Units(b.position, s)
    BY <1>2, <1>7, UnitsInt
  <1>9. PICK y \in Int : y = Units(b.cash, s + t)
    BY <1>2, <1>7, UnitsInt
  <1>10. PICK u \in Int : u = Units(b.lastPrice, t)
    BY <1>2, <1>6, UnitsInt
  <1>11. Units(Pnl(b), s + t) = y + x * u
    BY <1>6, <1>7, <1>8, <1>9, <1>10 DEF Mark
  <1>12. PICK g \in Int : g = Pow10[i]
    BY Pow10Defined
  <1>13. PICK h \in Int : h = Pow10[j]
    BY Pow10Defined
  <1>14. Pow10[i + j] = g * h
    BY <1>12, <1>13, PowSum
  <1>15. ASSUME NEW e \in At(s + t) PROVE Units(e, D + D) = Units(e, s + t) * (g * h)
    BY <1>2, <1>5, <1>14, AtFiner
  <1>16. Units(b.position, D) = x * g /\ Units(b.lastPrice, D) = u * h
    <2>0. s \in Int /\ t \in Int
      BY <1>2, SMT
    <2>1. Units(b.position, s + i) = x * g
      BY <1>7, <1>8, <1>12, <2>0, AtFiner, Zenon
    <2>2. Units(b.lastPrice, t + j) = u * h
      BY <1>6, <1>10, <1>13, <2>0, AtFiner, Zenon
    <2> QED BY <1>3, <1>4, <2>1, <2>2
  <1>17. Units(Pnl(b), D + D) = (y + x * u) * (g * h) /\ Units(b.cash, D + D) = y * (g * h)
    BY <1>6, <1>7, <1>9, <1>11, <1>15
  <1>18. (y + x * u) * (g * h) = y * (g * h) + (x * g) * (u * h)
    BY SMT
  <1> QED BY <1>16, <1>17, <1>18

LEMMA GoodBooksAgree == BookType /\ GoodBooks => ReproducedBooksAgree
  <1> SUFFICES ASSUME BookType, GoodBooks, verdict = "REPRODUCED" PROVE ReproducedBooksAgree
    BY DEF ReproducedBooksAgree
  <1> DEFINE D == MAX_DECIMAL_PLACES
             a == book
             b == first.book
  <1>1. /\ Filling(a) /\ Filling(b) /\ GoodBook(a) /\ GoodBook(b)
        /\ Recorded(a) = Recorded(b)
    BY DEF BookType, GoodBooks
  <1>2. D \in Nat /\ 2 * D = D + D /\ D \in Int
    BY PrecisionAssumption, SMT
  <1>3. /\ Units(a.position, D) = Units(b.position, D)
        /\ Units(a.cash, D + D) = Units(b.cash, D + D)
        /\ Units(Pnl(a), D + D) = Units(Pnl(b), D + D)
    BY <1>1, RecordsDecide
  <1>4. /\ a.position \in At(D) /\ b.position \in At(D)
        /\ a.lastPrice \in At(D) /\ b.lastPrice \in At(D)
        /\ a.cash \in At(D + D)
    BY <1>1, PnlAt
  <1>5. PICK P \in Int : P = Pow10[D]
    BY <1>2, Pow10Defined
  <1>6. ASSUME NEW d \in At(D) PROVE Value(d) = Units(d, D) * P /\ Units(d, D) \in Int
    BY <1>2, <1>5, AtFiner, UnitsInt DEF Value
  <1>7. Value(a.position) = Value(b.position)
    BY <1>3, <1>4, <1>6
  <1>8. Value(a.cash) = Value(b.cash)
    BY <1>2, <1>3 DEF Value
  <1>9. ASSUME Unrounded(a), Unrounded(b), Value(a.position) # 0
        PROVE  Value(a.lastPrice) = Value(b.lastPrice)
    <2>1. PICK x \in Int : x = Units(a.position, D)
      BY <1>4, <1>6
    <2>2. PICK u \in Int : u = Units(a.lastPrice, D)
      BY <1>4, <1>6
    <2>3. PICK v \in Int : v = Units(b.lastPrice, D)
      BY <1>4, <1>6
    <2>4. PICK y \in Int : y = Units(a.cash, D + D)
      BY <1>2, <1>4, UnitsInt
    <2>5. y + x * u = y + x * v
      BY <1>1, <1>3, <1>9, <2>1, <2>2, <2>3, <2>4, PnlIs
    <2>6. x # 0
      <3>1. ASSUME NEW z \in Int, z = 0 PROVE z * P = 0
        BY <3>1, SMT
      <3> QED BY <1>4, <1>6, <1>9, <2>1, <3>1
    <2>7. x * u = x * v
      <3>1. x * u \in Int /\ x * v \in Int
        BY MulAssoc
      <3> QED BY <2>5, <3>1, SMT
    <2>8. u = v
      BY <2>6, <2>7, SMT
    <2> QED BY <1>4, <1>6, <2>2, <2>3, <2>8
  <1> QED BY <1>7, <1>8, <1>9 DEF ReproducedBooksAgree

(* Whatever was rounded in either: an execution whose hash is the recorded   *)
(* one's had its position and its cash, although cash is not hashed; and its *)
(* last price, if it ended with a position and nothing was rounded.          *)
(* runner.execute's result_hash, verify.                                     *)
THEOREM ReproducedBooks == Spec => []ReproducedBooksAgree
  <1>1. IInv /\ GoodBooks => ReproducedBooksAgree
    BY GoodBooksAgree DEF IInv
  <1> QED BY InvHolds, BooksAreGood, <1>1, PTL
=============================================================================
