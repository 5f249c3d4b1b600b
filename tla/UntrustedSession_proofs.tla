----------------------- MODULE UntrustedSession_proofs -----------------------
(***************************************************************************)
(* Proofs about UntrustedSession, for every set of journals, every cell     *)
(* vocabulary and every bound.                                              *)
(***************************************************************************)
EXTENDS UntrustedSession, FiniteSetTheorems, TLAPS

-----------------------------------------------------------------------------
(* Concatenation, element by element.                                        *)
LEMMA Concat ==
    ASSUME NEW S, NEW a \in Seq(S), NEW b \in Seq(S)
    PROVE  /\ a \o b \in Seq(S)
           /\ Len(a \o b) = Len(a) + Len(b)
           /\ \A k \in 1..Len(a) : (a \o b)[k] = a[k]
           /\ \A k \in 1..Len(b) : (a \o b)[Len(a) + k] = b[k]
           /\ \A k \in (Len(a) + 1)..(Len(a) + Len(b)) : (a \o b)[k] = b[k - Len(a)]
OBVIOUS

LEMMA EmptySeq ==
    ASSUME NEW S
    PROVE  <<>> \in Seq(S) /\ Len(<<>>) = 0
OBVIOUS

LEMMA HeadTail ==
    ASSUME NEW S, NEW s \in Seq(S), s # <<>>
    PROVE  /\ Head(s) \in S
           /\ Tail(s) \in Seq(S)
           /\ Len(Tail(s)) = Len(s) - 1
OBVIOUS

(* Filling keeps the types, and makes one fill per waiting order, in order.  *)
NewFills(at, price, trade) ==
    /\ Len(fills') = Len(fills) + Len(pending)
    /\ \A k \in 1..Len(fills) : fills'[k] = fills[k]
    /\ \A k \in (Len(fills) + 1)..Len(fills') :
        /\ k - Len(fills) \in 1..Len(pending)
        /\ fills'[k].order = pending[k - Len(fills)]
        /\ fills'[k].at = at
        /\ fills'[k].price = price
        /\ fills'[k].trade = trade

LEMMA FillAllFills ==
    ASSUME fills \in Seq(Fill), pending \in Seq(Order),
           NEW at \in Int, NEW price \in Nat \ {0}, NEW trade \in Nat,
           FillAll(at, price, trade)
    PROVE  /\ fills' \in Seq(Fill)
           /\ pending' = <<>>
           /\ NewFills(at, price, trade)
<1> DEFINE new == [k \in 1..Len(pending) |->
                     [order |-> pending[k], at |-> at,
                      price |-> price, trade |-> trade]]
<1>1. \A k \in 1..Len(pending) : new[k] \in Fill
  BY DEF Fill
<1>2. new \in Seq(Fill) /\ Len(new) = Len(pending)
  BY <1>1
<1>3. fills' = fills \o new /\ pending' = <<>>
  BY DEF FillAll
<1> HIDE DEF new
<1>4. /\ fills' \in Seq(Fill) /\ Len(fills') = Len(fills) + Len(pending)
      /\ Len(fills) \in Nat /\ Len(pending) \in Nat
  <2>1. fills \o new \in Seq(Fill) /\ Len(fills \o new) = Len(fills) + Len(new)
    BY <1>2, Concat, Zenon
  <2> QED
    BY <1>2, <1>3, <2>1
<1>5. \A k \in 1..Len(fills) : fills'[k] = fills[k]
  BY <1>2, <1>3, Concat
<1>6. \A k \in (Len(fills) + 1)..Len(fills') : fills'[k] = new[k - Len(fills)]
  BY <1>2, <1>3, <1>4, Concat
<1>7. \A k \in (Len(fills) + 1)..Len(fills') : k - Len(fills) \in 1..Len(pending)
  BY <1>4
<1>8. \A k \in 1..Len(pending) :
        /\ new[k].order = pending[k] /\ new[k].at = at
        /\ new[k].price = price /\ new[k].trade = trade
  BY DEF new
<1> QED
  BY <1>3, <1>4, <1>5, <1>6, <1>7, <1>8 DEF NewFills

(* What an accepted answer adds: a sequence of orders, all of the current    *)
(* tick and of the sight the answer was written with.                        *)
LEMMA StampedOrders ==
    ASSUME NEW orders \in Seq(RawOrder), NEW s \in Nat, NEW n \in 0..Len(orders),
           Admitted(orders, n), cursor \in Nat
    PROVE  /\ Stamp(SubSeq(orders, 1, n), s) \in Seq(Order)
           /\ Len(Stamp(SubSeq(orders, 1, n), s)) = n
           /\ \A k \in 1..n : /\ Stamp(SubSeq(orders, 1, n), s)[k].tick = cursor
                              /\ Stamp(SubSeq(orders, 1, n), s)[k].sight = s
<1> DEFINE first == SubSeq(orders, 1, n)
           new == [k \in 1..Len(first) |->
                     [side |-> first[k].side, size |-> first[k].size,
                      tick |-> cursor, sight |-> s, nth |-> k]]
<1>1. Len(first) = n /\ \A k \in 1..n : first[k] = orders[k]
  OBVIOUS
<1>2. \A k \in 1..n : orders[k] \in RawOrder
  OBVIOUS
<1>3. \A k \in 1..n : orders[k].side \in Sides /\ orders[k].size \in Nat \ {0}
  BY <1>2 DEF Admitted, WellFormed, Plausible, RawOrder
<1> HIDE DEF first
<1>4. \A k \in 1..n : new[k] \in Order
  BY <1>1, <1>3 DEF Order
<1>5. new \in Seq(Order) /\ Len(new) = n
  BY <1>1, <1>4
<1>6. \A k \in 1..n : new[k].tick = cursor /\ new[k].sight = s
  BY <1>1
<1>7. new = Stamp(first, s)
  BY DEF Stamp
<1> HIDE DEF new
<1> QED
  BY <1>5, <1>6, <1>7 DEF first

-----------------------------------------------------------------------------
(* Type correctness.                                                         *)

LEMMA InitTypeOK == Init => TypeOK
<1> SUFFICES ASSUME Init PROVE TypeOK
  OBVIOUS
<1>1. IsJournal(journal)
  BY JournalsAssumption DEF Init, FeederInit, GateInit
<1>2. Len(journal) \in Nat
  BY <1>1 DEF IsJournal
<1>3. WireTypeOK
  BY PipeFramesAssumption, EmptySeq DEF Init, FeederInit, WireInit, WireTypeOK
<1>4. GateTypeOK
  BY <1>1, <1>2 DEF Init, FeederInit, GateInit, GateTypeOK, Epoch
<1>5. BookTypeOK
  BY EmptySeq DEF Init, FeederInit, PortfolioInit, BookTypeOK
<1>6. TalkTypeOK
  BY DEF Init, FeederInit, TalkTypeOK, HostPcs, Failures
<1> QED
  BY <1>3, <1>4, <1>5, <1>6 DEF Init, TypeOK

(* No operation on the pipes breaks their types or their capacity.           *)
LEMMA WireOperations ==
    ASSUME WireTypeOK,
           \/ HostWriteBreaks(TooLong) \/ HostRefusesFrame(TooLong) \/ HostReadBreaks
           \/ HostReads \/ HostReadsEOF \/ HostCloses
           \/ \E frame \in HostFrame : HostWrites(frame, TooLong)
           \/ CellReadsFrame \/ CellEndsClose
           \/ \E frame \in CellFrame : CellWritesFrame(frame)
           \/ UNCHANGED wireVars
    PROVE  WireTypeOK'
<1> USE PipeFramesAssumption DEF WireTypeOK
<1>1. CASE \/ HostWriteBreaks(TooLong) \/ HostRefusesFrame(TooLong) \/ HostReadBreaks
           \/ HostReadsEOF \/ UNCHANGED wireVars
  BY <1>1 DEF HostWriteBreaks, HostRefusesFrame, HostReadBreaks, HostReadsEOF, wireVars
<1>2. CASE HostReads
  BY <1>2, HeadTail DEF HostReads
<1>3. CASE HostCloses
  BY <1>3 DEF HostCloses
<1>4. ASSUME NEW frame \in HostFrame, HostWrites(frame, TooLong) PROVE WireTypeOK'
  BY <1>4 DEF HostWrites
<1>5. CASE CellReadsFrame
  BY <1>5, HeadTail DEF CellReadsFrame
<1>6. CASE CellEndsClose
  <2>1. cellReads' \in BOOLEAN /\ cellWrites' \in BOOLEAN
    BY <1>6, Zenon DEF CellEndsClose
  <2>2. toCell' \in Seq(HostFrame) /\ Len(toCell') <= PipeFrames
    BY <1>6, EmptySeq DEF CellEndsClose
  <2>3. UNCHANGED <<fromCell, hostEnd>>
    BY <1>6 DEF CellEndsClose
  <2> QED
    BY <2>1, <2>2, <2>3
<1>7. ASSUME NEW frame \in CellFrame, CellWritesFrame(frame) PROVE WireTypeOK'
  BY <1>7 DEF CellWritesFrame
<1> QED
  BY <1>1, <1>2, <1>3, <1>4, <1>5, <1>6, <1>7

(* What the host says and what the cell says are frames.                     *)
LEMMA SaidFrames ==
    ASSUME TypeOK
    PROVE  /\ \A m \in {"start", "tick", "stop"} :
                [m |-> m, now |-> now, line |-> cursor] \in HostFrame
           /\ \A frame \in CellFrames : Witnessed(frame) \in CellFrame
<1>1. cursor \in Nat /\ now \in Int /\ sight \in Nat
  BY DEF TypeOK, GateTypeOK, IsJournal
<1> QED
  BY <1>1, CellFramesAssumption DEF HostFrame, CellFrame, Witnessed

(* The parts of the type invariant a step leaves alone.                      *)
LEMMA SamePartsTypeOK ==
    ASSUME TypeOK
    PROVE  /\ UNCHANGED gateVars => GateTypeOK'
           /\ UNCHANGED <<bookVars, accepted>> => BookTypeOK'
           /\ UNCHANGED talkVars => TalkTypeOK'
BY DEF TypeOK, GateTypeOK, BookTypeOK, TalkTypeOK, gateVars, bookVars, talkVars, IsJournal

LEMMA TalkMoves ==
    ASSUME TypeOK,
           \/ \E pc \in HostPcs : Goto(pc)
           \/ \E why \in Failures : Fail(why)
    PROVE  TalkTypeOK'
BY DEF TypeOK, TalkTypeOK, Goto, Fail, HostPcs

(* The generator moves forward to a line of the journal.                     *)
LEMMA Advances ==
    ASSUME TypeOK, NEW i \in (cursor + 1)..Len(journal), AdvanceTo(i)
    PROVE  /\ GateTypeOK'
           /\ i \in Nat /\ cursor \in Nat /\ cursor' = i /\ cursor < i
           /\ journal' = journal
           /\ journal[i] \in Line
<1>1. Len(journal) \in Nat /\ cursor \in Nat /\ cursor' = i /\ journal' = journal
  BY DEF TypeOK, GateTypeOK, IsJournal, AdvanceTo
<1>2. i \in 1..Len(journal)
  BY <1>1
<1>3. journal[i] \in Line
  BY <1>1, <1>2 DEF TypeOK, GateTypeOK, IsJournal
<1>4. now' \in Int
  BY <1>3 DEF TypeOK, GateTypeOK, AdvanceTo, ClockAt, Line
<1> QED
  BY <1>1, <1>2, <1>3, <1>4 DEF TypeOK, GateTypeOK, IsJournal

(* What observe leaves behind has the right types.                           *)
LEMMA ObserveTypeOK ==
    ASSUME TypeOK, NEW event \in Line, NEW at \in Int, NEW i \in Nat,
           Observe(event, at, i), UNCHANGED accepted
    PROVE  BookTypeOK'
<1>1. CASE event.type = "trade"
  <2>1. event.price \in Nat \ {0}
    BY <1>1 DEF Observe, Unobservable, Plausible, Line
  <2>2. lastPrice' = event.price /\ FillAll(at, event.price, i)
    BY <1>1 DEF Observe
  <2>3. fills' \in Seq(Fill) /\ pending' = <<>>
    BY <2>1, <2>2, FillAllFills DEF TypeOK, BookTypeOK
  <2> QED
    BY <2>1, <2>2, <2>3, EmptySeq DEF TypeOK, BookTypeOK
<1>2. CASE event.type # "trade"
  BY <1>2, SamePartsTypeOK DEF Observe
<1> QED
  BY <1>1, <1>2

(* The answer at the head of the pipe.                                       *)
LEMMA HeardFrame ==
    ASSUME TypeOK, HostReads
    PROVE  Heard \in CellFrame
BY HeadTail DEF TypeOK, WireTypeOK, HostReads, Heard

LEMMA AcceptTypeOK ==
    ASSUME TypeOK, NEW reply \in CellFrame, AcceptDecision(reply)
    PROVE  BookTypeOK' /\ TalkTypeOK'
<1>1. cursor \in Nat /\ reply.orders \in Seq(RawOrder) /\ reply.sight \in Nat
  BY DEF TypeOK, GateTypeOK, IsJournal, CellFrame
<1>2. PICK n \in 0..Len(reply.orders) :
        /\ Admitted(reply.orders, n)
        /\ Submit(Stamp(SubSeq(reply.orders, 1, n), reply.sight))
        /\ accepted' = accepted \o Stamp(SubSeq(reply.orders, 1, n), reply.sight)
        /\ IF n = Len(reply.orders) THEN Goto("replay") ELSE Fail("sbx_error")
  BY DEF AcceptDecision
<1>3. Stamp(SubSeq(reply.orders, 1, n), reply.sight) \in Seq(Order)
  BY <1>1, <1>2, StampedOrders
<1>4. BookTypeOK'
  BY <1>2, <1>3, Concat DEF TypeOK, BookTypeOK, Submit
<1>5. TalkTypeOK'
  BY <1>2, TalkMoves DEF HostPcs, Failures
<1> QED
  BY <1>4, <1>5

LEMMA NextTypeOK == TypeOK /\ [Next]_vars => TypeOK'
<1> SUFFICES ASSUME TypeOK, [Next]_vars PROVE TypeOK'
  OBVIOUS
<1> USE WireOperations, SamePartsTypeOK, TalkMoves DEF TypeOK
<1>1. CASE BreakPipe /\ UNCHANGED sight
  BY <1>1 DEF BreakPipe, Failures
<1>2. CASE Opening /\ UNCHANGED sight
  BY <1>2 DEF Opening, HostPcs, Failures
<1>3. CASE SendStart /\ UNCHANGED sight
  BY <1>3, SaidFrames DEF SendStart, Say, HostPcs
<1>4. CASE Reveal /\ UNCHANGED sight
  <2>1. PICK i \in (cursor + 1)..Len(journal) :
          AdvanceTo(i) /\ Observe(journal[i], now', i) /\ Goto("send")
    BY <1>4 DEF Reveal
  <2>2. GateTypeOK' /\ i \in Nat /\ journal[i] \in Line
    BY <2>1, Advances
  <2>3. BookTypeOK'
    BY <1>4, <2>1, <2>2, ObserveTypeOK DEF GateTypeOK, Reveal
  <2> QED
    BY <1>4, <2>1, <2>2, <2>3 DEF Reveal, HostPcs
<1>5. CASE RevealUnobservable /\ UNCHANGED sight
  <2>1. PICK i \in (cursor + 1)..Len(journal) : AdvanceTo(i) /\ Fail("sbx_error")
    BY <1>5 DEF RevealUnobservable
  <2> QED
    BY <1>5, <2>1, Advances DEF RevealUnobservable, Failures
<1>6. CASE RefuseJournal /\ UNCHANGED sight
  BY <1>6 DEF RefuseJournal, Failures
<1>7. CASE Exhaust /\ UNCHANGED sight
  BY <1>7 DEF Exhaust, TalkTypeOK, HostPcs
<1>8. CASE SendTick /\ UNCHANGED sight
  BY <1>8, SaidFrames DEF SendTick, Say, TalkTypeOK, HostPcs
<1>18. CASE RefuseTick /\ UNCHANGED sight
  BY <1>18 DEF RefuseTick, Failures
<1>19. CASE TalkerLeft
  BY <1>19 DEF TalkerLeft, CloseStreams
<1>9. CASE ReadAnswer /\ UNCHANGED sight
  <2>1. CASE HostReadsEOF /\ Fail("stopped_answering") /\ UNCHANGED <<bookVars, accepted>>
    BY <1>9, <2>1 DEF ReadAnswer, Failures
  <2>2. CASE HostReads /\ AcceptDecision(Heard)
    BY <1>9, <2>2, HeardFrame, AcceptTypeOK DEF ReadAnswer
  <2>3. CASE HostReads /\ RejectReply(Heard)
    BY <1>9, <2>3 DEF ReadAnswer, RejectReply, HostPcs, Failures
  <2> QED
    BY <1>9, <2>1, <2>2, <2>3 DEF ReadAnswer
<1>10. CASE SendStop /\ UNCHANGED sight
  BY <1>10, SaidFrames DEF SendStop, Say, HostPcs
<1>11. CASE HangUp /\ UNCHANGED sight
  BY <1>11 DEF HangUp, HostPcs
<1>12. CASE CellSpeaks
  BY <1>12, SaidFrames DEF CellSpeaks, hostVars
<1>13. CASE CellListens
  <2>1. Told \in HostFrame
    BY <1>13, HeadTail DEF CellListens, CellReadsFrame, Told, WireTypeOK
  <2>2. sight' \in Nat
    BY <1>13, <2>1 DEF CellListens, HostFrame
  <2> QED
    BY <1>13, <2>2 DEF CellListens, hostVars
<1>14. CASE CellGoesDeaf
  <2>1. toCell' \in Seq(HostFrame) /\ Len(toCell') <= PipeFrames
    BY <1>14, EmptySeq, PipeFramesAssumption DEF CellGoesDeaf
  <2>2. cellReads' \in BOOLEAN
    BY <1>14, Zenon DEF CellGoesDeaf
  <2>3. WireTypeOK'
    BY <1>14, <2>1, <2>2 DEF CellGoesDeaf, WireTypeOK
  <2> QED
    BY <1>14, <2>3 DEF CellGoesDeaf, hostVars
<1>15. CASE CellGoesMute
  BY <1>15 DEF CellGoesMute, hostVars, WireTypeOK
<1>16. CASE CellDies
  BY <1>16 DEF CellDies, hostVars
<1>17. CASE UNCHANGED vars
  BY <1>17 DEF vars, feederVars
<1> QED
  BY <1>1, <1>2, <1>3, <1>4, <1>5, <1>6, <1>7, <1>8, <1>9, <1>10, <1>11, <1>12,
     <1>13, <1>14, <1>15, <1>16, <1>17, <1>18, <1>19
  DEF Next, Host, Cell, Over

(* Every reachable state is well typed, for all journals and all cells.      *)
THEOREM TypeCorrect == Spec => []TypeOK
BY InitTypeOK, NextTypeOK, PTL DEF Spec, Steps

-----------------------------------------------------------------------------
(* No look-ahead.                                                            *)

(* A frame that leaves or joins a pipe leaves the others as they were.       *)
LEMMA PipeElements ==
    ASSUME NEW S, NEW s \in Seq(S), NEW e \in S
    PROVE  /\ s # <<>> => /\ Head(s) = s[1] /\ 1 \in 1..Len(s)
                          /\ \A k \in 1..Len(Tail(s)) :
                               k + 1 \in 1..Len(s) /\ Tail(s)[k] = s[k + 1]
           /\ Append(s, e) \in Seq(S)
           /\ \A k \in 1..Len(Append(s, e)) :
                IF k = Len(s) + 1 THEN Append(s, e)[k] = e
                                  ELSE k \in 1..Len(s) /\ Append(s, e)[k] = s[k]
OBVIOUS

(* Of all steps, only three kinds touch the gate or the books.               *)
LEMMA StepKinds ==
    ASSUME [Next]_vars
    PROVE  \/ UNCHANGED <<gateVars, bookVars, accepted>>
           \/ Reveal /\ UNCHANGED sight
           \/ RevealUnobservable /\ UNCHANGED sight
           \/ /\ hostPc = "answer"
              /\ HostReads /\ AcceptDecision(Heard)
              /\ UNCHANGED <<gateVars, sight>>
<1>1. CASE ReadAnswer /\ UNCHANGED sight
  BY <1>1 DEF ReadAnswer, RejectReply
<1> QED
  BY <1>1 DEF Next, Host, Cell, Over, vars, feederVars, hostVars, BreakPipe, Opening,
     SendStart, RefuseJournal, Exhaust, SendTick, RefuseTick, SendStop, HangUp, CellSpeaks,
     CellListens, CellGoesDeaf, CellGoesMute, CellDies, TalkerLeft, CloseStreams

(* What is on the wire stays behind a gate that only moves forward.          *)
WireBehind(pos) ==
    /\ sight <= pos
    /\ \A k \in 1..Len(toCell) : toCell[k].line <= pos
    /\ \A k \in 1..Len(fromCell) : fromCell[k].sight <= pos

LEMMA GateForward ==
    ASSUME TypeOK, [Next]_vars
    PROVE  cursor \in Nat /\ cursor' \in Nat /\ cursor <= cursor' /\ journal' = journal
<1>1. cursor \in Nat
  BY DEF TypeOK, GateTypeOK, IsJournal
<1>2. CASE Reveal \/ RevealUnobservable
  <2>1. PICK i \in (cursor + 1)..Len(journal) : AdvanceTo(i)
    BY <1>2 DEF Reveal, RevealUnobservable
  <2> QED
    BY <1>1, <2>1, Advances
<1>3. CASE UNCHANGED gateVars
  BY <1>1, <1>3 DEF gateVars
<1> QED
  BY <1>2, <1>3, StepKinds

LEMMA WireStaysBehind ==
    ASSUME TypeOK, WireBehind(cursor), [Next]_vars
    PROVE  WireBehind(cursor)'
<1>1. cursor \in Nat /\ cursor' \in Nat /\ cursor <= cursor'
  BY GateForward
<1>2. /\ toCell \in Seq(HostFrame)
      /\ fromCell \in Seq(CellFrame)
      /\ sight \in Nat
  BY DEF TypeOK, WireTypeOK
<1>3. \A k \in 1..Len(toCell) : toCell[k].line \in Nat
  <2>1. \A k \in 1..Len(toCell) : toCell[k] \in HostFrame
    BY <1>2
  <2> QED
    BY <2>1 DEF HostFrame
<1>4. \A k \in 1..Len(fromCell) : fromCell[k].sight \in Nat
  <2>1. \A k \in 1..Len(fromCell) : fromCell[k] \in CellFrame
    BY <1>2
  <2> QED
    BY <2>1 DEF CellFrame
<1>5. CASE UNCHANGED <<toCell, fromCell, sight>>
  BY <1>1, <1>2, <1>3, <1>4, <1>5 DEF WireBehind
<1>6. CASE HostReads /\ UNCHANGED <<sight>>
  BY <1>1, <1>2, <1>3, <1>4, <1>6, PipeElements DEF HostReads, WireBehind
<1>7. CASE \E m \in {"start", "tick", "stop"} : Say(m) /\ UNCHANGED <<sight>>
  <2>1. PICK m \in {"start", "tick", "stop"} : Say(m)
    BY <1>7
  <2> DEFINE frame == [m |-> m, now |-> now, line |-> cursor]
  <2>2. frame \in HostFrame /\ frame.line = cursor
    BY SaidFrames
  <2>3. toCell' = Append(toCell, frame) /\ UNCHANGED fromCell
    BY <2>1 DEF Say, HostWrites
  <2> HIDE DEF frame
  <2>4. \A k \in 1..Len(toCell') : toCell'[k].line <= cursor
    BY <1>1, <1>2, <1>3, <2>2, <2>3, PipeElements DEF WireBehind
  <2>5. \A k \in 1..Len(toCell') : toCell'[k].line \in Nat
    BY <1>1, <1>2, <1>3, <2>2, <2>3, PipeElements
  <2>6. \A k \in 1..Len(toCell') : toCell'[k].line <= cursor'
    BY <1>1, <2>4, <2>5
  <2>7. \A k \in 1..Len(fromCell') : fromCell'[k].sight <= cursor'
    BY <1>1, <1>4, <2>3 DEF WireBehind
  <2>8. sight' <= cursor'
    BY <1>1, <1>2, <1>7 DEF WireBehind
  <2> QED
    BY <2>6, <2>7, <2>8 DEF WireBehind
<1>8. CASE CellSpeaks
  <2>1. PICK frame \in CellFrames : CellWritesFrame(Witnessed(frame))
    BY <1>8 DEF CellSpeaks
  <2>2. Witnessed(frame) \in CellFrame /\ Witnessed(frame).sight <= cursor
    BY <1>1, <1>2, <2>1, SaidFrames DEF Witnessed, WireBehind
  <2>3. fromCell' = Append(fromCell, Witnessed(frame)) /\ UNCHANGED <<toCell, sight>>
    BY <1>8, <2>1 DEF CellSpeaks, CellWritesFrame
  <2>4. \A k \in 1..Len(fromCell') : fromCell'[k].sight <= cursor
    BY <1>2, <2>2, <2>3, PipeElements DEF WireBehind
  <2>5. \A k \in 1..Len(fromCell') : fromCell'[k].sight \in Nat
    BY <1>2, <1>4, <2>2, <2>3, PipeElements DEF CellFrame
  <2> QED
    BY <1>1, <1>2, <1>3, <2>3, <2>4, <2>5 DEF WireBehind
<1>9. CASE CellListens
  <2>1. sight' <= cursor /\ sight' \in Nat
    <3>1. Told = toCell[1] /\ 1 \in 1..Len(toCell)
      BY <1>2, <1>9, PipeElements DEF CellListens, CellReadsFrame, Told
    <3> QED
      BY <1>2, <1>3, <1>9, <3>1 DEF CellListens, WireBehind
  <2>2. \A k \in 1..Len(toCell') : toCell'[k].line <= cursor /\ toCell'[k].line \in Nat
    BY <1>2, <1>3, <1>9, PipeElements DEF CellListens, CellReadsFrame, WireBehind
  <2> QED
    BY <1>1, <1>4, <1>9, <2>1, <2>2 DEF CellListens, CellReadsFrame, WireBehind
<1>10. CASE toCell' = <<>> /\ UNCHANGED <<fromCell, sight>>
  BY <1>1, <1>2, <1>4, <1>10, EmptySeq DEF WireBehind
<1>11. CASE Host /\ UNCHANGED sight
  <2>1. \/ UNCHANGED <<toCell, fromCell>> \/ HostReads
        \/ \E m \in {"start", "tick", "stop"} : Say(m)
    BY <1>11 DEF Host, wireVars, BreakPipe, Opening, SendStart, Reveal, RevealUnobservable,
       RefuseJournal, Exhaust, SendTick, RefuseTick, ReadAnswer, SendStop, HangUp,
       HostWriteBreaks, HostRefusesFrame, HostReadBreaks, HostReadsEOF, HostCloses
  <2> QED
    BY <1>5, <1>6, <1>7, <1>11, <2>1
<1>12. CASE Cell
  BY <1>5, <1>8, <1>9, <1>10, <1>12 DEF Cell, CellGoesDeaf, CellGoesMute, CellDies, CellEndsClose
<1>13. CASE TalkerLeft \/ Over \/ UNCHANGED vars
  BY <1>5, <1>13 DEF TalkerLeft, CloseStreams, HostCloses, Over, vars, feederVars, wireVars
<1> QED
  BY <1>11, <1>12, <1>13 DEF Next

(* What an accepted answer does to the books.                                *)
LEMMA AcceptStep ==
    ASSUME TypeOK, HostReads, AcceptDecision(Heard)
    PROVE  \E new \in Seq(Order) :
             /\ pending' = pending \o new
             /\ accepted' = accepted \o new
             /\ fills' = fills
             /\ Len(new) <= MaxOrders
             /\ \A k \in 1..Len(new) : new[k].tick = cursor /\ new[k].sight = Heard.sight
<1>1. cursor \in Nat /\ Heard.orders \in Seq(RawOrder) /\ Heard.sight \in Nat
  BY HeardFrame DEF TypeOK, GateTypeOK, IsJournal, CellFrame
<1>2. PICK n \in 0..Len(Heard.orders) :
        /\ Admitted(Heard.orders, n)
        /\ Submit(Stamp(SubSeq(Heard.orders, 1, n), Heard.sight))
        /\ accepted' = accepted \o Stamp(SubSeq(Heard.orders, 1, n), Heard.sight)
  BY DEF AcceptDecision
<1> DEFINE new == Stamp(SubSeq(Heard.orders, 1, n), Heard.sight)
<1>3. /\ new \in Seq(Order) /\ Len(new) = n
      /\ \A k \in 1..n : new[k].tick = cursor /\ new[k].sight = Heard.sight
  BY <1>1, <1>2, StampedOrders
<1>4. pending' = pending \o new /\ accepted' = accepted \o new /\ fills' = fills
  BY <1>2 DEF Submit
<1> HIDE DEF new
<1>5. Len(new) <= MaxOrders
  <2>1. Len(Heard.orders) <= MaxOrders
    BY DEF AcceptDecision
  <2> QED
    BY <1>1, <1>3, <2>1, MaxOrdersAssumption
<1> QED
  BY <1>3, <1>4, <1>5

(* What a revealed event does to the books.                                  *)
LEMMA RevealStep ==
    ASSUME TypeOK, Reveal
    PROVE  \E i \in (cursor + 1)..Len(journal) :
             /\ AdvanceTo(i) /\ cursor' = i /\ i \in Nat
             /\ UNCHANGED <<accepted, journal>>
             /\ \/ /\ IsTrade(i)
                   /\ journal[i].price \in Nat \ {0}
                   /\ FillAll(now', journal[i].price, i)
                \/ /\ journal[i].type # "trade" /\ ~IsTrade(i)
                   /\ UNCHANGED <<fills, pending>>
<1>1. PICK i \in (cursor + 1)..Len(journal) : AdvanceTo(i) /\ Observe(journal[i], now', i)
  BY DEF Reveal
<1>2. cursor' = i /\ i \in Nat /\ journal' = journal /\ journal[i] \in Line
  BY <1>1, Advances
<1>3. CASE journal[i].type = "trade"
  BY <1>1, <1>2, <1>3 DEF Reveal, Observe, Unobservable, Plausible, IsTrade, Line
<1>4. CASE journal[i].type # "trade"
  BY <1>1, <1>2, <1>4 DEF Reveal, Observe, IsTrade, bookVars
<1> QED
  BY <1>3, <1>4

(* Waiting orders, their authors' sight and the fills made so far.           *)
OrderFields(order) ==
    order.tick \in Nat /\ order.sight \in Nat

LEMMA BookElements ==
    ASSUME TypeOK
    PROVE  /\ \A k \in 1..Len(pending) : pending[k] \in Order /\ OrderFields(pending[k])
           /\ \A k \in 1..Len(fills) : /\ fills[k] \in Fill
                                       /\ fills[k].trade \in Nat
                                       /\ OrderFields(fills[k].order)
<1>1. pending \in Seq(Order) /\ fills \in Seq(Fill)
  BY DEF TypeOK, BookTypeOK
<1>2. \A k \in 1..Len(pending) : pending[k] \in Order
  BY <1>1
<1>3. \A k \in 1..Len(fills) : fills[k] \in Fill
  BY <1>1
<1> QED
  BY <1>2, <1>3 DEF OrderFields, Order, Fill

WaitingBehind(pos) ==
    \A k \in 1..Len(pending) :
        pending[k].sight <= pending[k].tick /\ pending[k].tick <= pos

LEMMA WaitingStaysBehind ==
    ASSUME TypeOK, WireBehind(cursor), WaitingBehind(cursor), [Next]_vars
    PROVE  WaitingBehind(cursor)'
<1>1. cursor \in Nat /\ cursor' \in Nat /\ cursor <= cursor'
  BY GateForward
<1>2. CASE UNCHANGED pending
  BY <1>1, <1>2, BookElements DEF WaitingBehind, OrderFields
<1>3. CASE Reveal
  <2>1. PICK i \in (cursor + 1)..Len(journal) : 
          UNCHANGED pending \/ FillAll(now', journal[i].price, i)
    BY <1>3, RevealStep
  <2> QED
    BY <1>2, <2>1 DEF FillAll, WaitingBehind
<1>4. CASE HostReads /\ AcceptDecision(Heard) /\ UNCHANGED gateVars
  <2>1. PICK new \in Seq(Order) :
          /\ pending' = pending \o new
          /\ \A k \in 1..Len(new) : new[k].tick = cursor /\ new[k].sight = Heard.sight
    BY <1>4, AcceptStep
  <2>2. Heard.sight <= cursor
    BY <1>4, PipeElements DEF HostReads, Heard, WireBehind, TypeOK, WireTypeOK
  <2>3. pending \in Seq(Order) /\ cursor' = cursor
    BY <1>4 DEF TypeOK, BookTypeOK, gateVars
  <2>4. \A k \in 1..Len(pending') :
          \/ k \in 1..Len(pending) /\ pending'[k] = pending[k]
          \/ k - Len(pending) \in 1..Len(new) /\ pending'[k] = new[k - Len(pending)]
    BY <2>1, <2>3, Concat
  <2> QED
    BY <1>1, <2>1, <2>2, <2>3, <2>4 DEF WaitingBehind
<1> QED
  BY <1>2, <1>3, <1>4, StepKinds DEF RevealUnobservable, bookVars

LEMMA LookAheadStep ==
    ASSUME TypeOK, WaitingBehind(cursor), NoLookAhead, [Next]_vars
    PROVE  NoLookAhead'
<1>1. CASE UNCHANGED fills
  BY <1>1 DEF NoLookAhead
<1>2. CASE Reveal
  <2>1. PICK i \in (cursor + 1)..Len(journal) :
          /\ AdvanceTo(i) /\ i \in Nat
          /\ \/ UNCHANGED fills
             \/ journal[i].price \in Nat \ {0} /\ FillAll(now', journal[i].price, i)
    BY <1>2, RevealStep
  <2>2. ASSUME journal[i].price \in Nat \ {0}, FillAll(now', journal[i].price, i)
        PROVE  NoLookAhead'
    <3>1. now' \in Int /\ cursor \in Nat /\ cursor < i
      BY <2>1, Advances DEF GateTypeOK
    <3>2. fills \in Seq(Fill) /\ pending \in Seq(Order)
      BY DEF TypeOK, BookTypeOK
    <3>3. PICK at \in Int, price \in Nat \ {0} : FillAll(at, price, i)
      BY <2>2, <3>1
    <3>4. NewFills(at, price, i)
      BY <2>1, <3>2, <3>3, FillAllFills
    <3>5. ASSUME NEW k \in 1..Len(fills')
          PROVE  \/ k \in 1..Len(fills) /\ fills'[k] = fills[k]
                 \/ /\ k - Len(fills) \in 1..Len(pending)
                    /\ fills'[k].order = pending[k - Len(fills)]
                    /\ fills'[k].trade = i
      BY <3>2, <3>4 DEF NewFills
    <3>6. ASSUME NEW k \in 1..Len(fills')
          PROVE  /\ fills'[k].trade > fills'[k].order.tick
                 /\ fills'[k].order.tick >= fills'[k].order.sight
      <4> DEFINE j == k - Len(fills)
      <4>1. CASE k \in 1..Len(fills) /\ fills'[k] = fills[k]
        BY <4>1 DEF NoLookAhead
      <4>2. CASE /\ j \in 1..Len(pending) /\ fills'[k].order = pending[j]
                 /\ fills'[k].trade = i
        <5> HIDE DEF j
        <5>1. /\ pending[j].tick \in Nat /\ pending[j].sight \in Nat
              /\ pending[j].sight <= pending[j].tick /\ pending[j].tick <= cursor
          BY <4>2, BookElements DEF WaitingBehind, OrderFields
        <5> QED
          BY <2>1, <3>1, <4>2, <5>1
      <4> QED
        BY <3>5, <4>1, <4>2
    <3> QED
      BY <3>6 DEF NoLookAhead
  <2> QED
    BY <1>1, <2>1, <2>2
<1>3. CASE HostReads /\ AcceptDecision(Heard)
  BY <1>1, <1>3, AcceptStep
<1> QED
  BY <1>1, <1>2, <1>3, StepKinds DEF RevealUnobservable, bookVars

(* No order is filled at a trade its author could have seen.                 *)
THEOREM NeverLooksAhead == Spec => [](NoLookAhead /\ NothingAhead)
<1> DEFINE Inv == TypeOK /\ WireBehind(cursor) /\ WaitingBehind(cursor) /\ NoLookAhead
<1>1. Init => Inv
  <2>1. Init => WireBehind(cursor) /\ WaitingBehind(cursor) /\ NoLookAhead
    BY EmptySeq DEF Init, FeederInit, WireInit, GateInit, PortfolioInit, WireBehind,
       WaitingBehind, NoLookAhead
  <2> QED
    BY <2>1, InitTypeOK
<1>2. Inv /\ [Next]_vars => Inv'
  BY NextTypeOK, WireStaysBehind, WaitingStaysBehind, LookAheadStep
<1>3. Inv => NoLookAhead /\ NothingAhead
  BY DEF WireBehind, WaitingBehind, NothingAhead
<1> QED
  BY <1>1, <1>2, <1>3, PTL DEF Spec, Steps
-----------------------------------------------------------------------------
(* The two kinds of step that touch the orders, place by place.              *)
LEMMA NewFillsCases ==
    ASSUME TypeOK, NEW at, NEW price, NEW trade, NewFills(at, price, trade),
           NEW k \in 1..Len(fills')
    PROVE  \/ k \in 1..Len(fills) /\ fills'[k] = fills[k]
           \/ /\ k - Len(fills) \in 1..Len(pending)
              /\ fills'[k].order = pending[k - Len(fills)]
              /\ fills'[k].at = at
              /\ fills'[k].price = price
              /\ fills'[k].trade = trade
<1>1. Len(fills) \in Nat /\ Len(pending) \in Nat
  BY DEF TypeOK, BookTypeOK
<1> QED
  BY <1>1 DEF NewFills

(* Every step that leaves the books or does one of two things to them.       *)
BooksFilled ==
    \E i \in (cursor + 1)..Len(journal) :
        /\ i \in Nat /\ cursor' = i /\ IsTrade(i) /\ YieldsLine(i) /\ now' = ClockAt(i)
        /\ NewFills(now', journal[i].price, i)
        /\ fills' \in Seq(Fill) /\ pending' = <<>>
        /\ UNCHANGED <<accepted, journal>>

BooksGrown ==
    /\ UNCHANGED <<fills, gateVars>>
    /\ \E new \in Seq(Order) :
        /\ pending' = pending \o new
        /\ accepted' = accepted \o new
        /\ \A k \in 1..Len(new) : new[k].tick = cursor

(* The generator goes on to a line that is not a trade to the portfolio.     *)
GateMoved ==
    /\ UNCHANGED <<fills, pending, accepted, journal>>
    /\ \E i \in (cursor + 1)..Len(journal) :
        /\ i \in Nat /\ cursor' = i /\ ~IsTrade(i) /\ YieldsLine(i) /\ now' = ClockAt(i)

LEMMA BookSteps ==
    ASSUME TypeOK, [Next]_vars
    PROVE  \/ UNCHANGED <<fills, pending, accepted, gateVars>>
           \/ BooksFilled \/ BooksGrown \/ GateMoved
<1>1. CASE UNCHANGED <<gateVars, bookVars, accepted>>
  BY <1>1 DEF bookVars
<1>2. CASE Reveal
  <2>1. PICK i \in (cursor + 1)..Len(journal) :
          /\ AdvanceTo(i) /\ cursor' = i /\ i \in Nat
          /\ UNCHANGED <<accepted, journal>>
          /\ \/ /\ IsTrade(i)
                /\ journal[i].price \in Nat \ {0}
                /\ FillAll(now', journal[i].price, i)
             \/ ~IsTrade(i) /\ UNCHANGED <<fills, pending>>
    BY <1>2, RevealStep
  <2>2. YieldsLine(i) /\ now' = ClockAt(i)
    BY <2>1 DEF AdvanceTo
  <2>3. CASE /\ IsTrade(i)
             /\ journal[i].price \in Nat \ {0}
             /\ FillAll(now', journal[i].price, i)
    <3>1. now' \in Int
      BY <2>1, Advances DEF GateTypeOK
    <3>2. PICK at \in Int, price \in Nat \ {0} :
            at = now' /\ price = journal[i].price /\ FillAll(at, price, i)
      BY <2>3, <3>1
    <3>3. fills' \in Seq(Fill) /\ pending' = <<>> /\ NewFills(at, price, i)
      BY <2>1, <3>2, FillAllFills DEF TypeOK, BookTypeOK
    <3>4. NewFills(now', journal[i].price, i)
      BY <3>2, <3>3
    <3> QED
      BY <2>1, <2>2, <2>3, <3>3, <3>4 DEF BooksFilled
  <2>4. CASE ~IsTrade(i) /\ UNCHANGED <<fills, pending>>
    BY <2>1, <2>2, <2>4 DEF GateMoved
  <2> QED
    BY <2>1, <2>3, <2>4
<1>3. CASE RevealUnobservable
  <2>1. PICK i \in (cursor + 1)..Len(journal) : AdvanceTo(i) /\ Unobservable(journal[i])
    BY <1>3 DEF RevealUnobservable
  <2>2. i \in Nat /\ cursor' = i /\ journal' = journal /\ YieldsLine(i) /\ now' = ClockAt(i)
    BY <2>1, Advances DEF AdvanceTo
  <2>3. ~IsTrade(i)
    BY <2>1 DEF Unobservable, IsTrade
  <2> QED
    BY <1>3, <2>2, <2>3 DEF RevealUnobservable, GateMoved, bookVars
<1>4. CASE HostReads /\ AcceptDecision(Heard) /\ UNCHANGED gateVars
  BY <1>4, AcceptStep DEF BooksGrown
<1> QED
  BY <1>1, <1>2, <1>3, <1>4, StepKinds

-----------------------------------------------------------------------------
LEMMA OrdersAccountedStep ==
    ASSUME TypeOK, OrdersAccounted, [Next]_vars
    PROVE  OrdersAccounted'
<1>1. fills \in Seq(Fill) /\ pending \in Seq(Order) /\ accepted \in Seq(Order)
  BY DEF TypeOK, BookTypeOK
<1>2. Len(fills) \in Nat /\ Len(pending) \in Nat /\ Len(accepted) = Len(fills) + Len(pending)
  BY <1>1 DEF OrdersAccounted
<1>3. CASE UNCHANGED <<fills, pending, accepted>>
  BY <1>3 DEF OrdersAccounted
<1>4. CASE BooksFilled
  <2>1. PICK at, price, trade : NewFills(at, price, trade)
    BY <1>4 DEF BooksFilled
  <2>2. pending' = <<>> /\ Len(pending') = 0 /\ accepted' = accepted
    BY <1>4, EmptySeq DEF BooksFilled
  <2>3. Len(fills') = Len(accepted)
    BY <1>2, <2>1 DEF NewFills
  <2>4. ASSUME NEW k \in 1..Len(fills')
        PROVE  fills'[k].order = accepted[k]
    <3>1. CASE k \in 1..Len(fills) /\ fills'[k] = fills[k]
      BY <3>1 DEF OrdersAccounted
    <3>2. CASE /\ k - Len(fills) \in 1..Len(pending)
               /\ fills'[k].order = pending[k - Len(fills)]
      <4>1. Len(fills) + (k - Len(fills)) = k
        BY <1>2, <2>3
      <4> QED
        BY <3>2, <4>1 DEF OrdersAccounted
    <3> QED
      BY <2>1, <3>1, <3>2, NewFillsCases
  <2> QED
    BY <1>2, <2>2, <2>3, <2>4 DEF OrdersAccounted
<1>5. CASE BooksGrown
  <2>1. PICK new \in Seq(Order) : pending' = pending \o new /\ accepted' = accepted \o new
    BY <1>5 DEF BooksGrown
  <2>2. fills' = fills
    BY <1>5 DEF BooksGrown
  <2>3. /\ Len(new) \in Nat
        /\ Len(pending') = Len(pending) + Len(new)
        /\ Len(accepted') = Len(accepted) + Len(new)
    BY <1>1, <2>1, Concat
  <2>4. \A k \in 1..Len(accepted) : accepted'[k] = accepted[k]
    BY <1>1, <2>1, Concat
  <2>5. ASSUME NEW k \in 1..Len(pending')
        PROVE  pending'[k] = accepted'[Len(fills) + k]
    <3>1. CASE k \in 1..Len(pending)
      <4>1. pending'[k] = pending[k]
        BY <1>1, <2>1, <3>1, Concat
      <4>2. Len(fills) + k \in 1..Len(accepted)
        BY <1>2, <3>1
      <4> QED
        BY <2>4, <3>1, <4>1, <4>2 DEF OrdersAccounted
    <3>2. CASE k \in (Len(pending) + 1)..(Len(pending) + Len(new))
      <4>1. pending'[k] = new[k - Len(pending)]
        BY <1>1, <2>1, <3>2, Concat
      <4>2. /\ Len(fills) + k \in (Len(accepted) + 1)..(Len(accepted) + Len(new))
            /\ Len(fills) + k - Len(accepted) = k - Len(pending)
        BY <1>2, <2>3, <3>2
      <4>3. accepted'[Len(fills) + k] = new[Len(fills) + k - Len(accepted)]
        BY <1>1, <2>1, <4>2, Concat
      <4> QED
        BY <4>1, <4>2, <4>3
    <3> QED
      BY <1>2, <2>3, <3>1, <3>2
  <2>6. \A k \in 1..Len(fills) : k \in 1..Len(accepted)
    BY <1>2
  <2> QED
    BY <1>2, <2>2, <2>3, <2>4, <2>5, <2>6 DEF OrdersAccounted
<1> QED
  BY <1>3, <1>4, <1>5, BookSteps DEF GateMoved

(* Every order submit() was given is either filled or waiting, exactly once  *)
(* and in the order it was submitted, however the conversation ended.        *)
THEOREM LosesNoOrder == Spec => []OrdersAccounted
<1>1. Init => OrdersAccounted
  BY EmptySeq DEF Init, FeederInit, PortfolioInit, OrdersAccounted
<1> QED
  BY <1>1, InitTypeOK, NextTypeOK, OrdersAccountedStep, PTL DEF Spec, Steps
-----------------------------------------------------------------------------
(* What the gate skips is no trade.                                          *)
LEMMA SkippedNoTrade ==
    ASSUME NEW i, Skipped(i)
    PROVE  ~IsTrade(i)
BY DEF Skipped, Diagnosed, IsTrade

(* A waiting order has seen no trade since its tick, up to the line in front *)
(* of the one the gate goes on to.                                           *)
LEMMA NoTradePassed ==
    ASSUME TypeOK, WaitingBehind(cursor), NextTradeFills,
           NEW i \in Nat, YieldsLine(i), NEW j \in 1..Len(pending),
           NEW l \in (pending[j].tick + 1)..(i - 1)
    PROVE  ~IsTrade(l)
<1>1. cursor \in Nat /\ pending[j].tick \in Nat /\ pending[j].tick <= cursor
  BY BookElements DEF TypeOK, GateTypeOK, IsJournal, OrderFields, WaitingBehind
<1>2. CASE l <= cursor
  <2>1. l \in (pending[j].tick + 1)..cursor
    BY <1>1, <1>2
  <2> QED
    BY <2>1 DEF NextTradeFills
<1>3. CASE l > cursor
  <2>1. l \in (cursor + 1)..(i - 1)
    BY <1>1, <1>3
  <2> QED
    BY <2>1, SkippedNoTrade DEF YieldsLine, Reaches
<1> QED
  BY <1>1, <1>2, <1>3

LEMMA NextTradeFillsStep ==
    ASSUME TypeOK, WaitingBehind(cursor), NextTradeFills, [Next]_vars
    PROVE  NextTradeFills'
<1>1. cursor \in Nat /\ pending \in Seq(Order) /\ fills \in Seq(Fill)
  BY DEF TypeOK, GateTypeOK, BookTypeOK, IsJournal
<1>2. journal' = journal /\ \A l : IsTrade(l)' <=> IsTrade(l)
  <2>1. journal' = journal
    BY BookSteps DEF BooksFilled, BooksGrown, GateMoved, gateVars
  <2> QED
    BY <2>1 DEF IsTrade
<1>3. CASE UNCHANGED <<fills, pending, accepted, gateVars>>
  BY <1>2, <1>3 DEF NextTradeFills, gateVars
<1>4. CASE BooksFilled
  <2>1. PICK i \in (cursor + 1)..Len(journal) :
          /\ i \in Nat /\ IsTrade(i) /\ YieldsLine(i)
          /\ NewFills(now', journal[i].price, i)
    BY <1>4 DEF BooksFilled
  <2>2. ASSUME NEW k \in 1..Len(fills')
        PROVE  /\ IsTrade(fills'[k].trade)
               /\ fills'[k].price = journal[fills'[k].trade].price
               /\ \A l \in (fills'[k].order.tick + 1)..(fills'[k].trade - 1) : ~IsTrade(l)
    <3>1. CASE k \in 1..Len(fills) /\ fills'[k] = fills[k]
      BY <3>1 DEF NextTradeFills
    <3>2. CASE /\ k - Len(fills) \in 1..Len(pending)
               /\ fills'[k].order = pending[k - Len(fills)]
               /\ fills'[k].price = journal[i].price
               /\ fills'[k].trade = i
      BY <2>1, <3>2, NoTradePassed
    <3> QED
      BY <2>1, <3>1, <3>2, NewFillsCases
  <2>3. Len(pending') = 0
    BY <1>4, EmptySeq DEF BooksFilled
  <2> QED
    BY <1>2, <2>2, <2>3 DEF NextTradeFills
<1>5. CASE BooksGrown
  <2>1. PICK new \in Seq(Order) :
          pending' = pending \o new /\ \A k \in 1..Len(new) : new[k].tick = cursor
    BY <1>5 DEF BooksGrown
  <2>2. fills' = fills /\ cursor' = cursor
    BY <1>5 DEF BooksGrown, gateVars
  <2>3. ASSUME NEW k \in 1..Len(pending'), NEW l \in (pending'[k].tick + 1)..cursor
        PROVE  ~IsTrade(l)
    <3>1. Len(pending) \in Nat /\ Len(new) \in Nat
      BY <1>1
    <3>2. CASE k \in 1..Len(pending) /\ pending'[k] = pending[k]
      BY <3>2 DEF NextTradeFills
    <3>3. CASE k - Len(pending) \in 1..Len(new) /\ pending'[k] = new[k - Len(pending)]
      <4>1. pending'[k].tick = cursor
        BY <2>1, <3>3
      <4>2. l \in (cursor + 1)..cursor
        BY <4>1
      <4> QED
        BY <1>1, <4>2
    <3>4. \/ k \in 1..Len(pending) /\ pending'[k] = pending[k]
          \/ k - Len(pending) \in 1..Len(new) /\ pending'[k] = new[k - Len(pending)]
      BY <1>1, <2>1, <3>1, Concat
    <3> QED
      BY <3>2, <3>3, <3>4
  <2> QED
    BY <1>2, <2>2, <2>3 DEF NextTradeFills
<1>6. CASE GateMoved
  <2>1. PICK i \in (cursor + 1)..Len(journal) :
          i \in Nat /\ cursor' = i /\ ~IsTrade(i) /\ YieldsLine(i)
    BY <1>6 DEF GateMoved
  <2>2. fills' = fills /\ pending' = pending
    BY <1>6 DEF GateMoved
  <2>3. ASSUME NEW k \in 1..Len(pending), NEW l \in (pending[k].tick + 1)..i
        PROVE  ~IsTrade(l)
    <3>1. pending[k].tick \in Nat
      BY BookElements DEF OrderFields
    <3>2. CASE l = i
      BY <2>1, <3>2
    <3>3. CASE l \in (pending[k].tick + 1)..(i - 1)
      BY <2>1, <3>3, NoTradePassed
    <3> QED
      BY <2>1, <3>1, <3>2, <3>3
  <2> QED
    BY <1>2, <2>1, <2>2, <2>3 DEF NextTradeFills
<1> QED
  BY <1>3, <1>4, <1>5, <1>6, BookSteps

(* An order fills at the first trade after its decision, at its price, and   *)
(* no trade passes a waiting order.                                          *)
THEOREM FillsAtNextTrade == Spec => []NextTradeFills
<1> DEFINE Inv == /\ TypeOK /\ WireBehind(cursor) /\ WaitingBehind(cursor)
                  /\ NextTradeFills
<1>1. Init => Inv
  <2>1. Init => WireBehind(cursor) /\ WaitingBehind(cursor) /\ NextTradeFills
    BY EmptySeq DEF Init, FeederInit, WireInit, GateInit, PortfolioInit, WireBehind,
       WaitingBehind, NextTradeFills
  <2> QED
    BY <2>1, InitTypeOK
<1>2. Inv /\ [Next]_vars => Inv'
  BY NextTypeOK, WireStaysBehind, WaitingStaysBehind, NextTradeFillsStep
<1> QED
  BY <1>1, <1>2, PTL DEF Spec, Steps
-----------------------------------------------------------------------------
(* The stamps up to a line.                                                  *)
LEMMA StampsGrow ==
    ASSUME NEW i \in Nat, NEW j \in Nat, i <= j
    PROVE  Stamps(i) \subseteq Stamps(j)
<1>1. 1..i \subseteq 1..j
  OBVIOUS
<1> QED
  BY <1>1 DEF Stamps

LEMMA StampsAreInstants ==
    ASSUME TypeOK, NEW i \in 0..Len(journal)
    PROVE  Stamps(i) \subseteq Int
<1>1. \A k \in 1..i : k \in 1..Len(journal)
  BY DEF TypeOK, GateTypeOK, IsJournal
<1>2. \A k \in 1..i : journal[k] \in Line
  BY <1>1 DEF TypeOK, GateTypeOK, IsJournal
<1>3. \A k \in 1..i : journal[k].stamp \in Int
  BY <1>2 DEF Line
<1> QED
  BY <1>3 DEF Stamps, Epoch

(* What the gate skips has no stamp that counts.                             *)
LEMMA StampsAtYield ==
    ASSUME TypeOK, NEW i \in Nat, YieldsLine(i)
    PROVE  Stamps(i) = Stamps(cursor) \union
                       (IF journal[i].type \in Timed THEN {journal[i].stamp} ELSE {})
<1>1. cursor \in Nat /\ cursor < i
  BY DEF TypeOK, GateTypeOK, IsJournal, YieldsLine
<1>2. \A k \in (cursor + 1)..(i - 1) : journal[k].type \notin Timed
  BY DEF YieldsLine, Reaches, Skipped, Diagnosed, Timed
<1> DEFINE TimedTo(n) == {l \in 1..n : journal[l].type \in Timed}
<1>3. TimedTo(i) = TimedTo(cursor) \union
                   (IF journal[i].type \in Timed THEN {i} ELSE {})
  <2>1. ASSUME NEW l \in 1..i, journal[l].type \in Timed
        PROVE  l \in 1..cursor \/ l = i
    BY <1>1, <1>2, <2>1
  <2>2. 1..cursor \subseteq 1..i /\ i \in 1..i
    BY <1>1
  <2> QED
    BY <2>1, <2>2
<1>4. \A n : Stamps(n) = {Epoch} \union {journal[k].stamp : k \in TimedTo(n)}
  BY DEF Stamps
<1> HIDE DEF TimedTo
<1> QED
  BY <1>3, <1>4

(* The clock at the next line is the latest stamp so far, and not earlier.   *)
LEMMA ClockForward ==
    ASSUME TypeOK, IsClockAt(cursor, now), NEW i \in Nat, YieldsLine(i)
    PROVE  /\ ClockAt(i) \in Int
           /\ now <= ClockAt(i)
           /\ IsClockAt(i, ClockAt(i))
<1>1. cursor \in 0..Len(journal) /\ now \in Int /\ i \in 1..Len(journal)
  BY DEF TypeOK, GateTypeOK, IsJournal, YieldsLine
<1>2. journal[i].stamp \in Int
  <2>1. journal[i] \in Line
    BY <1>1 DEF TypeOK, GateTypeOK, IsJournal
  <2> QED
    BY <2>1 DEF Line
<1>3. ClockAt(i) \in Int /\ now <= ClockAt(i)
  BY <1>1, <1>2 DEF ClockAt
<1>4. \A t \in Stamps(cursor) : t \in Int /\ t <= now
  BY <1>1, StampsAreInstants DEF IsClockAt
<1>5. \A t \in Stamps(i) : t <= ClockAt(i)
  BY <1>1, <1>2, <1>3, <1>4, StampsAtYield DEF ClockAt
<1>6. ClockAt(i) \in Stamps(i)
  BY StampsAtYield DEF ClockAt, IsClockAt
<1> QED
  BY <1>3, <1>5, <1>6 DEF IsClockAt

(* FillsNotBackdated is inductive once no fill is ahead of the clock.        *)
FillsInThePast == \A k \in 1..Len(fills) : fills[k].at <= now

LEMMA FillsInThePastStep ==
    ASSUME TypeOK, FillsNotBackdated, FillsInThePast, [Next]_vars
    PROVE  FillsInThePast'
<1>1. now \in Int /\ \A k \in 1..Len(fills) : fills[k].at \in Int
  BY BookElements DEF TypeOK, GateTypeOK, Fill
<1>2. CASE UNCHANGED <<fills, now>>
  BY <1>2 DEF FillsInThePast
<1>3. CASE BooksFilled
  <2>1. PICK i \in Nat : YieldsLine(i) /\ now' = ClockAt(i) /\ NewFills(now', journal[i].price, i)
    BY <1>3 DEF BooksFilled
  <2>2. now' \in Int /\ now <= now'
    BY <2>1, ClockForward DEF FillsNotBackdated
  <2>3. ASSUME NEW k \in 1..Len(fills')
        PROVE  fills'[k].at <= now'
    <3>1. CASE k \in 1..Len(fills) /\ fills'[k] = fills[k]
      BY <1>1, <2>2, <3>1 DEF FillsInThePast
    <3>2. CASE fills'[k].at = now'
      BY <2>2, <3>2
    <3> QED
      BY <2>1, <3>1, <3>2, NewFillsCases
  <2> QED
    BY <2>3 DEF FillsInThePast
<1>4. CASE GateMoved
  <2>1. PICK i \in Nat : YieldsLine(i) /\ now' = ClockAt(i)
    BY <1>4 DEF GateMoved
  <2>2. now' \in Int /\ now <= now'
    BY <2>1, ClockForward DEF FillsNotBackdated
  <2> QED
    BY <1>1, <1>4, <2>2 DEF GateMoved, FillsInThePast
<1> QED
  BY <1>2, <1>3, <1>4, BookSteps DEF BooksGrown, gateVars

LEMMA FillsNotBackdatedStep ==
    ASSUME TypeOK, WaitingBehind(cursor), FillsNotBackdated, FillsInThePast, [Next]_vars
    PROVE  FillsNotBackdated'
<1>1. cursor \in Nat /\ now \in Int /\ \A k \in 1..Len(fills) : fills[k].at \in Int
  BY BookElements DEF TypeOK, GateTypeOK, IsJournal, Fill
<1>2. journal' = journal
  BY BookSteps DEF BooksFilled, BooksGrown, GateMoved, gateVars
<1>3. \A i : Stamps(i)' = Stamps(i)
  BY <1>2 DEF Stamps
<1>4. \A i, t : IsClockAt(i, t)' <=> IsClockAt(i, t)
  BY <1>3 DEF IsClockAt
<1>5. CASE UNCHANGED <<fills, cursor, now>>
  BY <1>2, <1>5 DEF FillsNotBackdated, IsClockAt, Stamps
<1>6. CASE BooksFilled
  <2>1. PICK i \in Nat :
          /\ YieldsLine(i) /\ cursor' = i /\ now' = ClockAt(i)
          /\ NewFills(now', journal[i].price, i)
    BY <1>6 DEF BooksFilled
  <2>2. now' \in Int /\ now <= now' /\ IsClockAt(i, now') /\ cursor <= i
    BY <1>1, <2>1, ClockForward DEF FillsNotBackdated, YieldsLine
  <2> DEFINE Old(k) == k \in 1..Len(fills) /\ fills'[k] = fills[k]
             New(k) == /\ k - Len(fills) \in 1..Len(pending)
                       /\ fills'[k].order = pending[k - Len(fills)]
                       /\ fills'[k].at = now'
                       /\ fills'[k].trade = i
  <2>3. \A k \in 1..Len(fills') : Old(k) \/ New(k)
    BY <2>1, NewFillsCases
  <2>4. \A k \in 1..Len(fills') : fills'[k].at \in Int /\ fills'[k].at <= now'
    BY <1>1, <2>2, <2>3 DEF FillsInThePast
  <2>5. ASSUME NEW k \in 1..Len(fills'), Old(k)
        PROVE  /\ IsClockAt(fills'[k].trade, fills'[k].at)
               /\ \A t \in Stamps(fills'[k].order.tick) : t <= fills'[k].at
               /\ \A l \in 1..k : fills'[l].at <= fills'[k].at
    <3>1. \A l \in 1..k : Old(l)
      <4>1. Len(fills) \in Nat /\ Len(fills') \in Nat /\ \A l \in 1..k : l \in 1..Len(fills)
        BY <2>1, <2>5 DEF TypeOK, BookTypeOK, NewFills
      <4> QED
        BY <2>1, <4>1 DEF NewFills
    <3> QED
      BY <2>5, <3>1 DEF FillsNotBackdated
  <2>6. ASSUME NEW k \in 1..Len(fills'), New(k)
        PROVE  /\ IsClockAt(fills'[k].trade, fills'[k].at)
               /\ \A t \in Stamps(fills'[k].order.tick) : t <= fills'[k].at
               /\ \A l \in 1..k : fills'[l].at <= fills'[k].at
    <3>1. fills'[k].order.tick \in Nat /\ fills'[k].order.tick <= i
      BY <1>1, <2>1, <2>2, <2>6, BookElements DEF OrderFields, WaitingBehind
    <3>2. \A t \in Stamps(fills'[k].order.tick) : t <= now'
      BY <2>2, <3>1, StampsGrow DEF IsClockAt
    <3>3. \A l \in 1..k : l \in 1..Len(fills')
      <4>1. Len(fills') \in Nat
        BY <2>1 DEF TypeOK, BookTypeOK, NewFills
      <4> QED
        BY <4>1
    <3> QED
      BY <2>2, <2>4, <2>6, <3>2, <3>3
  <2> HIDE DEF Old, New
  <2> QED
    BY <1>3, <1>4, <2>1, <2>2, <2>3, <2>5, <2>6 DEF FillsNotBackdated
<1>7. CASE GateMoved
  <2>1. PICK i \in Nat : YieldsLine(i) /\ cursor' = i /\ now' = ClockAt(i)
    BY <1>7 DEF GateMoved
  <2>2. IsClockAt(i, now')
    BY <2>1, ClockForward DEF FillsNotBackdated
  <2>3. fills' = fills
    BY <1>7 DEF GateMoved
  <2> QED
    BY <1>3, <1>4, <2>1, <2>2, <2>3 DEF FillsNotBackdated
<1> QED
  BY <1>5, <1>6, <1>7, BookSteps DEF BooksGrown, gateVars

(* Fills are dated by the replay clock, which reads the latest stamp shown:  *)
(* never before the decision, never before an earlier fill.                  *)
THEOREM NothingBackdated == Spec => []FillsNotBackdated
<1> DEFINE Inv == /\ TypeOK /\ WireBehind(cursor) /\ WaitingBehind(cursor)
                  /\ FillsNotBackdated /\ FillsInThePast
<1>1. Init => Inv
  <2>1. Init => WireBehind(cursor) /\ WaitingBehind(cursor) /\ FillsInThePast
    BY EmptySeq DEF Init, FeederInit, WireInit, GateInit, PortfolioInit, WireBehind,
       WaitingBehind, FillsInThePast
  <2>2. Init => FillsNotBackdated
    <3> SUFFICES ASSUME Init PROVE FillsNotBackdated
      OBVIOUS
    <3>1. cursor = 0 /\ now = Epoch /\ Len(fills) = 0
      BY EmptySeq DEF Init, FeederInit, GateInit, PortfolioInit
    <3>2. Stamps(0) = {Epoch}
      BY DEF Stamps
    <3> QED
      BY <3>1, <3>2 DEF FillsNotBackdated, IsClockAt, Epoch
  <2> QED
    BY <2>1, <2>2, InitTypeOK
<1>2. Inv /\ [Next]_vars => Inv'
  BY NextTypeOK, WireStaysBehind, WaitingStaysBehind, FillsNotBackdatedStep,
     FillsInThePastStep
<1> QED
  BY <1>1, <1>2, PTL DEF Spec, Steps
-----------------------------------------------------------------------------
(* An exhausted journal was shown whole.                                     *)

(* The lines of a prefix the cell is shown.                                  *)
ShownBy(n) == {i \in 1..n : Shown(i)}

Conversing == {"opening", "start", "replay", "send", "answer"}

(* While the conversation lasts, all lines up to the cursor can be replayed, *)
(* and their ticks are sent except the one about to be.                      *)
SweepSoFar ==
    hostPc \in Conversing =>
        /\ ~exhausted
        /\ ticksSent + (IF hostPc = "send" THEN 1 ELSE 0) = Cardinality(ShownBy(cursor))
        /\ \A i \in 1..cursor : journal[i].type # "refused"

NoFailureYet == hostPc \notin {"hangup", "done"} => failure = "none"

Sweep == SweepSoFar /\ NoFailureYet /\ ExhaustedMeansWhole

LEMMA ShownByIsFinite ==
    ASSUME NEW n \in Nat
    PROVE  IsFiniteSet(ShownBy(n)) /\ Cardinality(ShownBy(n)) \in Nat
<1>1. IsFiniteSet(1..n)
  BY FS_Interval
<1>2. ShownBy(n) \subseteq 1..n
  BY DEF ShownBy
<1> QED
  BY <1>1, <1>2, FS_Subset, FS_CardinalityType

(* The line the gate yields is one more to show.                             *)
LEMMA OneMoreShown ==
    ASSUME TypeOK, NEW i \in Nat, YieldsLine(i)
    PROVE  Cardinality(ShownBy(i)) = Cardinality(ShownBy(cursor)) + 1
<1>1. cursor \in Nat /\ cursor < i
  BY DEF TypeOK, GateTypeOK, IsJournal, YieldsLine
<1>2. \A k \in (cursor + 1)..(i - 1) : ~Shown(k)
  BY DEF YieldsLine, Reaches, Skipped, Shown, Diagnosed, Replayed, Timed, Untimed
<1>3. Shown(i)
  BY DEF YieldsLine, Shown
<1>4. ShownBy(i) = ShownBy(cursor) \union {i}
  <2>1. ASSUME NEW k \in 1..i, Shown(k)
        PROVE  k \in 1..cursor \/ k = i
    BY <1>1, <1>2, <2>1
  <2>2. 1..cursor \subseteq 1..i /\ i \in 1..i
    BY <1>1
  <2> QED
    BY <1>3, <2>1, <2>2 DEF ShownBy
<1>5. i \notin ShownBy(cursor)
  BY <1>1 DEF ShownBy
<1> QED
  BY <1>1, <1>4, <1>5, ShownByIsFinite, FS_AddElement

(* When the journal runs out there is nothing left to show.                  *)
LEMMA NothingLeftToShow ==
    ASSUME TypeOK, RunsOut
    PROVE  /\ ShownBy(Len(journal)) = ShownBy(cursor)
           /\ \A k \in (cursor + 1)..Len(journal) : journal[k].type # "refused"
<1>1. cursor \in Nat /\ Len(journal) \in Nat /\ cursor <= Len(journal)
  BY DEF TypeOK, GateTypeOK, IsJournal
<1>2. PICK e \in (cursor + 1)..(Len(journal) + 1) :
        Reaches(e) /\ (e <= Len(journal) => journal[e].type = "torn")
  BY DEF RunsOut
<1>3. e <= Len(journal) => e = Len(journal)
  <2> SUFFICES ASSUME e <= Len(journal) PROVE e = Len(journal)
    OBVIOUS
  <2>1. e \in 1..Len(journal) /\ journal[e].type = "torn"
    BY <1>1, <1>2
  <2> QED
    BY <2>1 DEF TypeOK, GateTypeOK, IsJournal
<1>4. \A k \in (cursor + 1)..Len(journal) : Skipped(k) \/ journal[k].type = "torn"
  BY <1>1, <1>2, <1>3 DEF Reaches
<1>5. \A k \in (cursor + 1)..Len(journal) : ~Shown(k) /\ journal[k].type # "refused"
  BY <1>4 DEF Skipped, Shown, Diagnosed, Replayed, Timed, Untimed
<1>6. 1..cursor \subseteq 1..Len(journal)
  BY <1>1
<1>7. \A k \in 1..Len(journal) : k \in 1..cursor \/ k \in (cursor + 1)..Len(journal)
  BY <1>1
<1> QED
  BY <1>5, <1>6, <1>7 DEF ShownBy

LEMMA InitSweep == Init => Sweep
<1> SUFFICES ASSUME Init PROVE Sweep
  OBVIOUS
<1>1. hostPc = "opening" /\ ticksSent = 0 /\ ~exhausted /\ failure = "none" /\ cursor = 0
  BY DEF Init, FeederInit, GateInit
<1>2. ShownBy(0) = {}
  BY DEF ShownBy
<1> QED
  BY <1>1, <1>2, FS_EmptySet DEF Sweep, SweepSoFar, NoFailureYet, ExhaustedMeansWhole

(* The host's step leaves the conversation where it is.                      *)
Settled == UNCHANGED <<ticksSent, exhausted, journal, cursor>>

LEMMA SweepStep ==
    ASSUME TypeOK, Sweep, [Next]_vars
    PROVE  Sweep'
<1> USE DEF Sweep
<1>1. /\ cursor \in Nat /\ ticksSent \in Nat
      /\ Cardinality(ShownBy(cursor)) \in Nat
  BY ShownByIsFinite DEF TypeOK, GateTypeOK, TalkTypeOK, IsJournal
<1>2. ASSUME journal' = journal
      PROVE  \A n : ShownBy(n)' = ShownBy(n)
  BY <1>2 DEF ShownBy, Shown
<1>3. CASE UNCHANGED <<gateVars, talkVars>>
  <2>1. ExhaustedMeansWhole'
    BY <1>3 DEF gateVars, talkVars, ExhaustedMeansWhole, Shown
  <2> QED
    BY <1>2, <1>3, <2>1 DEF gateVars, talkVars, SweepSoFar, NoFailureYet
<1>4. CASE Settled /\ hostPc' = "hangup" /\ (exhausted => failure' \in {"none", "broken_pipe"})
  BY <1>4 DEF Settled, SweepSoFar, NoFailureYet, ExhaustedMeansWhole, Conversing, Shown
<1>5. CASE /\ Settled /\ failure' = failure
           /\ hostPc \in Conversing \ {"send"}
           /\ hostPc' \in {"start", "replay", "stop"}
  <2>1. SweepSoFar'
    BY <1>2, <1>5 DEF Settled, SweepSoFar, Conversing
  <2> QED
    BY <1>5, <2>1 DEF Settled, SweepSoFar, NoFailureYet, ExhaustedMeansWhole, Conversing
<1>6. CASE Reveal
  <2>1. PICK i \in Nat :
          /\ YieldsLine(i) /\ cursor' = i /\ journal' = journal
          /\ hostPc = "replay" /\ hostPc' = "send"
          /\ UNCHANGED <<ticksSent, exhausted, failure>>
    BY <1>1, <1>6 DEF Reveal, AdvanceTo, Goto
  <2>2. Cardinality(ShownBy(i)) = Cardinality(ShownBy(cursor)) + 1
    BY <2>1, OneMoreShown
  <2>3. ShownBy(cursor)' = ShownBy(i)
    BY <2>1 DEF ShownBy, Shown
  <2>4. \A k \in 1..i : journal[k].type # "refused"
    <3>1. \A k \in 1..cursor : journal[k].type # "refused"
      BY <2>1 DEF SweepSoFar, Conversing
    <3>2. \A k \in (cursor + 1)..(i - 1) : journal[k].type # "refused"
      BY <2>1 DEF YieldsLine, Reaches, Skipped, Diagnosed
    <3>3. journal[i].type # "refused"
      BY <2>1 DEF YieldsLine, Replayed, Timed, Untimed
    <3>4. \A k \in 1..i : k \in 1..cursor \/ k \in (cursor + 1)..(i - 1) \/ k = i
      BY <1>1, <2>1
    <3> QED
      BY <3>1, <3>2, <3>3, <3>4
  <2>5. ticksSent = Cardinality(ShownBy(cursor)) /\ ~exhausted
    BY <1>1, <2>1 DEF SweepSoFar, Conversing
  <2>6. SweepSoFar'
    BY <2>1, <2>2, <2>3, <2>4, <2>5 DEF SweepSoFar, Conversing
  <2> QED
    BY <2>1, <2>5, <2>6 DEF NoFailureYet, ExhaustedMeansWhole
<1>7. CASE SendTick
  <2>1. /\ hostPc = "send" /\ hostPc' = "answer" /\ ticksSent' = ticksSent + 1
        /\ UNCHANGED <<exhausted, failure, journal, cursor>>
    BY <1>7 DEF SendTick, gateVars
  <2>2. ~exhausted /\ SweepSoFar'
    BY <1>1, <1>2, <2>1 DEF SweepSoFar, Conversing
  <2> QED
    BY <2>1, <2>2 DEF NoFailureYet, ExhaustedMeansWhole
<1>8. CASE Exhaust
  <2>1. /\ hostPc = "replay" /\ hostPc' = "stop" /\ RunsOut
        /\ UNCHANGED <<ticksSent, failure, journal, cursor>>
    BY <1>8 DEF Exhaust, gateVars
  <2>2. ticksSent = Cardinality(ShownBy(Len(journal)))
    BY <1>1, <2>1, NothingLeftToShow DEF SweepSoFar, Conversing
  <2>3. \A k \in 1..Len(journal) : journal[k].type # "refused"
    <3>1. Len(journal) \in Nat
      BY DEF TypeOK, GateTypeOK, IsJournal
    <3>2. \A k \in 1..Len(journal) : k \in 1..cursor \/ k \in (cursor + 1)..Len(journal)
      BY <1>1, <3>1
    <3> QED
      BY <2>1, <3>2, NothingLeftToShow DEF SweepSoFar, Conversing
  <2>4. ExhaustedMeansWhole'
    BY <2>1, <2>2, <2>3 DEF ExhaustedMeansWhole, NoFailureYet, ShownBy, Shown
  <2> QED
    BY <2>1, <2>4 DEF SweepSoFar, NoFailureYet, Conversing
<1>9. CASE SendStop \/ HangUp
  <2>1. /\ Settled /\ failure' = failure
        /\ hostPc \in {"stop", "hangup"} /\ hostPc' \in {"hangup", "done"}
    BY <1>9 DEF SendStop, HangUp, Goto, Settled, gateVars
  <2> QED
    BY <2>1 DEF Settled, SweepSoFar, NoFailureYet, ExhaustedMeansWhole, Conversing, Shown
<1>10. CASE Opening
  <2>1. Settled /\ hostPc = "opening"
    BY <1>10 DEF Opening, Goto, Fail, Settled, gateVars
  <2>2. ~exhausted
    BY <2>1 DEF SweepSoFar, Conversing
  <2>3. \/ hostPc' = "hangup"
        \/ hostPc' = "start" /\ failure' = failure
    BY <1>10 DEF Opening, Goto, Fail
  <2> QED
    BY <1>4, <1>5, <2>1, <2>2, <2>3 DEF Conversing
<1>11. CASE SendStart
  BY <1>5, <1>11 DEF SendStart, Goto, Settled, gateVars, Conversing
<1>12. CASE RefuseJournal \/ RefuseTick \/ BreakPipe
  <2>1. Settled /\ hostPc' = "hangup"
    BY <1>12 DEF RefuseJournal, RefuseTick, BreakPipe, Fail, Settled, gateVars
  <2>2. exhausted => failure' = "broken_pipe"
    BY <1>12 DEF RefuseJournal, RefuseTick, BreakPipe, Fail, SweepSoFar, Conversing
  <2> QED
    BY <1>4, <2>1, <2>2
<1>13. CASE RevealUnobservable
  <2>1. /\ hostPc = "replay" /\ hostPc' = "hangup"
        /\ UNCHANGED <<exhausted>>
    BY <1>13 DEF RevealUnobservable, Fail
  <2>2. ~exhausted
    BY <2>1 DEF SweepSoFar, Conversing
  <2> QED
    BY <2>1, <2>2 DEF SweepSoFar, NoFailureYet, ExhaustedMeansWhole, Conversing
<1>14. CASE ReadAnswer
  <2>1. hostPc = "answer" /\ UNCHANGED <<journal, cursor>>
    BY <1>14 DEF ReadAnswer, gateVars
  <2>2. \/ Goto("replay") \/ Goto("stop") \/ \E why : Fail(why)
    <3>1. CASE HostReadsEOF /\ Fail("stopped_answering")
      BY <3>1
    <3>2. CASE AcceptDecision(Heard)
      BY <3>2 DEF AcceptDecision
    <3>3. CASE RejectReply(Heard)
      BY <3>3 DEF RejectReply
    <3> QED
      BY <1>14, <3>1, <3>2, <3>3 DEF ReadAnswer
  <2>3. ~exhausted
    BY <2>1 DEF SweepSoFar, Conversing
  <2>4. Settled /\ (hostPc' = "hangup" \/ (hostPc' \in {"replay", "stop"} /\ failure' = failure))
    BY <2>1, <2>2 DEF Goto, Fail, Settled
  <2> QED
    BY <1>4, <1>5, <2>1, <2>3, <2>4 DEF Conversing
<1>15. CASE Cell \/ TalkerLeft \/ Over \/ UNCHANGED vars
  BY <1>3, <1>15 DEF Cell, CellSpeaks, CellListens, CellGoesDeaf, CellGoesMute, CellDies,
                     TalkerLeft, CloseStreams, Over, hostVars, vars, feederVars
<1> QED
  BY <1>6, <1>7, <1>8, <1>9, <1>10, <1>11, <1>12, <1>13, <1>14, <1>15 DEF Next, Host

(* A run that says it exhausted its journal sent a tick for every event in   *)
(* it, for all journals and whatever the cell does.  (runner.py 181-209)     *)
THEOREM ExhaustedIsWhole == Spec => []ExhaustedMeansWhole
<1>1. Init => Sweep
  BY InitSweep
<1>2. TypeOK /\ Sweep /\ [Next]_vars => Sweep'
  BY SweepStep
<1>3. Sweep => ExhaustedMeansWhole
  BY DEF Sweep
<1> QED
  BY <1>1, <1>2, <1>3, TypeCorrect, PTL DEF Spec, Steps

-----------------------------------------------------------------------------
(* The refinement of TimeGate: sequences that agree everywhere are equal.    *)
LEMMA SameSeq ==
    ASSUME NEW S, NEW a \in Seq(S), NEW b \in Seq(S), Len(a) = Len(b),
           \A k \in 1..Len(a) : a[k] = b[k]
    PROVE  a = b
OBVIOUS

GatedFill == [tick : Nat, trade : Nat]

GatedBooksOK ==
    /\ Waiting \in Seq(Nat) /\ Len(Waiting) = Len(pending)
    /\ \A k \in 1..Len(pending) : Waiting[k] = pending[k].tick
    /\ Filled \in Seq(GatedFill) /\ Len(Filled) = Len(fills)
    /\ \A k \in 1..Len(fills) :
         Filled[k] = [tick |-> fills[k].order.tick, trade |-> fills[k].trade]

LEMMA GatedBooks == TypeOK => GatedBooksOK
<1> SUFFICES ASSUME TypeOK PROVE GatedBooksOK
  OBVIOUS
<1>1. Len(pending) \in Nat /\ Len(fills) \in Nat
  BY DEF TypeOK, BookTypeOK
<1>2. \A k \in 1..Len(pending) : pending[k].tick \in Nat
  BY BookElements DEF OrderFields
<1>3. \A k \in 1..Len(fills) :
        [tick |-> fills[k].order.tick, trade |-> fills[k].trade] \in GatedFill
  BY BookElements DEF OrderFields, GatedFill
<1>4. Waiting \in Seq(Nat) /\ Len(Waiting) = Len(pending)
  BY <1>1, <1>2 DEF Waiting
<1>5. Filled \in Seq(GatedFill) /\ Len(Filled) = Len(fills)
  BY <1>1, <1>3 DEF Filled
<1> QED
  BY <1>4, <1>5 DEF Waiting, Filled, GatedBooksOK

LEMMA GatedBooksNext == TypeOK' => GatedBooksOK'
BY GatedBooks, PTL

(* The phase moves on its own only to its end.                               *)
QuietPhase ==
    /\ UNCHANGED <<gateVars, bookVars>>
    /\ Phase' = Phase \/ (Phase # "closed" /\ Phase' = "closed")

LEMMA PhaseSteps ==
    ASSUME TypeOK, [Next]_vars
    PROVE  \/ QuietPhase
           \/ Reveal /\ Phase = "free" /\ Phase' = "awaiting"
           \/ RevealUnobservable /\ Phase = "free" /\ Phase' = "closed"
           \/ /\ HostReads /\ AcceptDecision(Heard) /\ UNCHANGED gateVars
              /\ Phase = "awaiting" /\ Phase' \in {"free", "closed"}
<1> USE DEF QuietPhase, Phase
<1>1. CASE ReadAnswer
  <2>1. CASE HostReads /\ AcceptDecision(Heard) /\ UNCHANGED gateVars
    BY <1>1, <2>1 DEF ReadAnswer, AcceptDecision, Goto, Fail
  <2>2. CASE UNCHANGED <<gateVars, bookVars>> /\ hostPc' \in {"stop", "hangup"}
    BY <1>1, <2>2 DEF ReadAnswer
  <2> QED
    BY <1>1, <2>1, <2>2 DEF ReadAnswer, RejectReply, Goto, Fail
<1>2. CASE Reveal
  BY <1>2 DEF Reveal, Goto
<1>3. CASE RevealUnobservable
  BY <1>3 DEF RevealUnobservable, Fail
<1>4. CASE Opening
  <2>1. UNCHANGED <<gateVars, bookVars>> /\ hostPc = "opening" /\ hostPc' \in {"start", "hangup"}
    BY <1>4 DEF Opening, Goto, Fail
  <2> QED
    BY <2>1
<1>5. CASE BreakPipe \/ RefuseJournal \/ RefuseTick
  BY <1>5 DEF BreakPipe, RefuseJournal, RefuseTick, Fail
<1>6. CASE SendStart \/ Exhaust \/ SendTick \/ SendStop \/ HangUp
  BY <1>6 DEF SendStart, Exhaust, SendTick, SendStop, HangUp, Goto
<1>7. CASE Cell \/ TalkerLeft \/ Over \/ UNCHANGED vars
  <2>1. UNCHANGED <<gateVars, bookVars, hostPc>>
    BY <1>7 DEF Cell, TalkerLeft, CloseStreams, Over, vars, feederVars, talkVars, hostVars,
       CellSpeaks, CellListens, CellGoesDeaf, CellGoesMute, CellDies
  <2> QED
    BY <2>1
<1> QED
  BY <1>1, <1>2, <1>3, <1>4, <1>5, <1>6, <1>7 DEF Next, Host

LEMMA GatedReveal ==
    ASSUME TypeOK, TypeOK', Reveal, Phase = "free", Phase' = "awaiting"
    PROVE  Gated!Next
<1>0. /\ Filled \in Seq(GatedFill) /\ Len(Filled) = Len(fills)
      /\ \A k \in 1..Len(fills) :
           Filled[k] = [tick |-> fills[k].order.tick, trade |-> fills[k].trade]
      /\ Len(fills) \in Nat /\ Len(pending) \in Nat
  <2>1. GatedBooksOK
    BY GatedBooks, Zenon
  <2>2. Len(fills) \in Nat /\ Len(pending) \in Nat
    BY DEF TypeOK, BookTypeOK
  <2> QED
    BY <2>1, <2>2, Zenon DEF GatedBooksOK
<1>1. PICK i \in (cursor + 1)..Len(journal) :
        /\ AdvanceTo(i) /\ cursor' = i /\ i \in Nat
        /\ UNCHANGED <<accepted, journal>>
        /\ \/ /\ IsTrade(i)
              /\ journal[i].price \in Nat \ {0}
              /\ FillAll(now', journal[i].price, i)
           \/ journal[i].type # "trade" /\ UNCHANGED <<fills, pending>>
  BY RevealStep
<1>2. /\ journal[i].type \in Replayed
      /\ \A k \in (cursor + 1)..(i - 1) : journal[k].type \notin Replayed
  BY <1>1 DEF AdvanceTo, YieldsLine, Reaches, Skipped, Replayed, Diagnosed, Timed, Untimed
<1>3. CASE /\ IsTrade(i)
           /\ journal[i].price \in Nat \ {0}
           /\ FillAll(now', journal[i].price, i)
  <2>1. now' \in Int
    BY <1>1, Advances DEF GateTypeOK
  <2>2. PICK at \in Int, price \in Nat \ {0} : FillAll(at, price, i)
    BY <1>3, <2>1
  <2>3. pending' = <<>> /\ NewFills(at, price, i)
    BY <1>1, <2>2, FillAllFills DEF TypeOK, BookTypeOK
  <2>4. Waiting' = <<>>
    BY <2>3, EmptySeq, GatedBooks, GatedBooksNext, SameSeq DEF GatedBooksOK
  <2> DEFINE new == [k \in 1..Len(Waiting) |-> [tick |-> Waiting[k], trade |-> i]]
  <2>5. new \in Seq(GatedFill) /\ Len(new) = Len(pending)
    BY <1>1, GatedBooks DEF GatedFill, GatedBooksOK
  <2>6. \A k \in 1..Len(pending) : new[k] = [tick |-> pending[k].tick, trade |-> i]
    BY <1>1, GatedBooks DEF GatedBooksOK
  <2> HIDE DEF new
  <2>7. Filled' = Filled \o new
    <3>1. /\ Filled \o new \in Seq(GatedFill)
          /\ Len(Filled \o new) = Len(fills) + Len(pending)
      <4>1. Filled \o new \in Seq(GatedFill)
        BY <1>0, <2>5
      <4>2. Len(Filled \o new) = Len(Filled) + Len(new)
        BY <1>0, <2>5, Concat, Zenon
      <4> QED
        BY <1>0, <2>5, <4>1, <4>2
    <3>2. Filled' \in Seq(GatedFill) /\ Len(Filled') = Len(fills) + Len(pending)
      BY <2>3, GatedBooksNext DEF NewFills, GatedBooksOK
    <3>3. ASSUME NEW k \in 1..Len(fills')
          PROVE  Filled'[k] = (Filled \o new)[k]
      <4>1. Filled'[k] = [tick |-> fills'[k].order.tick, trade |-> fills'[k].trade]
        BY GatedBooksNext DEF GatedBooksOK
      <4>2. CASE k \in 1..Len(fills) /\ fills'[k] = fills[k]
        <5>1. (Filled \o new)[k] = Filled[k]
          BY <1>0, <2>5, <4>2, Concat
        <5> QED
          BY <1>0, <4>1, <4>2, <5>1
      <4>3. CASE /\ k - Len(fills) \in 1..Len(pending)
                 /\ fills'[k].order = pending[k - Len(fills)]
                 /\ fills'[k].trade = i
        <5>1. Filled'[k] = new[k - Len(fills)]
          BY <2>6, <4>1, <4>3
        <5>2. Len(Filled) + (k - Len(fills)) = k
          BY <1>0, <2>3 DEF NewFills
        <5>3. (Filled \o new)[Len(Filled) + (k - Len(fills))] = new[k - Len(fills)]
          BY <1>0, <2>5, <4>3, Concat, SMTT(20)
        <5>4. (Filled \o new)[k] = new[k - Len(fills)]
          BY <5>2, <5>3, Zenon
        <5> QED
          BY <5>1, <5>4, Zenon
      <4>4. \/ k \in 1..Len(fills) /\ fills'[k] = fills[k]
            \/ /\ k - Len(fills) \in 1..Len(pending)
               /\ fills'[k].order = pending[k - Len(fills)]
               /\ fills'[k].trade = i
        BY <2>3, NewFillsCases
      <4> QED
        BY <4>2, <4>3, <4>4, Zenon
    <3> QED
      BY <2>3, <3>1, <3>2, <3>3, SameSeq, SMTT(20) DEF NewFills
  <2>8. journal[i].type = "trade"
    BY <1>3 DEF IsTrade
  <2> QED
    BY <1>1, <1>2, <2>4, <2>7, <2>8 DEF Gated!Next, Gated!Reveal, Gated!FilledAt, new
<1>4. CASE journal[i].type # "trade" /\ UNCHANGED <<fills, pending>>
  <2>1. UNCHANGED <<Waiting, Filled>>
    BY <1>4 DEF Waiting, Filled
  <2> QED
    BY <1>1, <1>2, <1>4, <2>1 DEF Gated!Next, Gated!Reveal
<1> QED
  BY <1>1, <1>3, <1>4

LEMMA GatedAnswer ==
    ASSUME TypeOK, TypeOK', HostReads, AcceptDecision(Heard), UNCHANGED gateVars,
           Phase = "awaiting", Phase' \in {"free", "closed"}
    PROVE  Gated!Next
<1>0. /\ Waiting \in Seq(Nat) /\ Len(Waiting) = Len(pending)
      /\ \A k \in 1..Len(pending) : Waiting[k] = pending[k].tick
  <2>1. GatedBooksOK
    BY GatedBooks, Zenon
  <2> QED
    BY <2>1, Zenon DEF GatedBooksOK
<1>1. PICK new \in Seq(Order) :
        /\ pending' = pending \o new
        /\ fills' = fills
        /\ Len(new) <= MaxOrders
        /\ \A k \in 1..Len(new) : new[k].tick = cursor
  BY AcceptStep
<1>2. pending \in Seq(Order) /\ cursor \in Nat /\ Len(new) \in Nat
  BY DEF TypeOK, BookTypeOK, GateTypeOK, IsJournal
<1> DEFINE n == Len(new)
           ticks == [k \in 1..n |-> cursor]
<1>3. ticks \in Seq(Nat) /\ Len(ticks) = n /\ \A k \in 1..n : ticks[k] = cursor
  BY <1>2
<1> HIDE DEF ticks
<1>4. Waiting' = Waiting \o ticks
  <2>1. Waiting \o ticks \in Seq(Nat) /\ Len(Waiting \o ticks) = Len(pending) + n
    <3>1. Waiting \o ticks \in Seq(Nat)
      BY <1>0, <1>3
    <3>2. Len(Waiting \o ticks) = Len(Waiting) + Len(ticks)
      BY <1>0, <1>3, Concat, Zenon
    <3> QED
      BY <1>0, <1>3, <3>1, <3>2
  <2>2. Len(pending') = Len(pending) + n
    BY <1>1, <1>2, Concat
  <2>3. ASSUME NEW k \in 1..Len(pending')
        PROVE  Waiting'[k] = (Waiting \o ticks)[k]
    <3>1. Waiting'[k] = pending'[k].tick
      BY GatedBooksNext DEF GatedBooksOK
    <3>2. CASE k \in 1..Len(pending)
      <4>1. pending'[k] = pending[k]
        BY <1>1, <1>2, <3>2, Concat
      <4>2. (Waiting \o ticks)[k] = Waiting[k]
        BY <1>0, <1>3, <3>2, Concat
      <4> QED
        BY <1>0, <3>1, <3>2, <4>1, <4>2
    <3>3. CASE k - Len(pending) \in 1..n
      <4>1. k \in (Len(pending) + 1)..(Len(pending) + n)
        BY <1>2, <2>2, <3>3
      <4>2. pending'[k] = new[k - Len(pending)]
        BY <1>1, <1>2, <4>1, Concat
      <4>3. (Waiting \o ticks)[k] = ticks[k - Len(pending)]
        BY <1>0, <1>2, <1>3, <4>1, Concat, SMTT(20)
      <4>4. pending'[k].tick = cursor /\ ticks[k - Len(pending)] = cursor
        BY <1>1, <1>3, <3>3, <4>2
      <4> QED
        BY <3>1, <4>3, <4>4, Zenon
    <3>4. k \in 1..Len(pending) \/ k - Len(pending) \in 1..n
      BY <1>2, <2>2
    <3> QED
      BY <3>2, <3>3, <3>4, Zenon
  <2> QED
    BY <2>1, <2>2, <2>3, GatedBooksNext, SameSeq DEF GatedBooksOK
<1>5. UNCHANGED <<journal, cursor, Filled>>
  BY <1>1 DEF gateVars, Filled
<1>6. n \in 0..MaxOrders
  BY <1>1, <1>2, MaxOrdersAssumption
<1> QED
  BY <1>4, <1>5, <1>6 DEF Gated!Next, Gated!Answer, ticks

LEMMA GatedStep ==
    ASSUME TypeOK, TypeOK', [Next]_vars
    PROVE  [Gated!Next]_(Gated!vars)
<1>1. CASE QuietPhase
  <2>1. UNCHANGED <<journal, cursor, Waiting, Filled>>
    BY <1>1 DEF QuietPhase, gateVars, bookVars, Waiting, Filled
  <2>2. cursor' \in cursor..Len(journal)
    BY <2>1 DEF TypeOK, GateTypeOK, IsJournal
  <2> QED
    BY <1>1, <2>1, <2>2 DEF QuietPhase, Gated!Next, Gated!Close, Gated!vars
<1>2. CASE RevealUnobservable /\ Phase = "free" /\ Phase' = "closed"
  <2>1. PICK i \in (cursor + 1)..Len(journal) : AdvanceTo(i)
    BY <1>2 DEF RevealUnobservable
  <2>2. cursor' \in cursor..Len(journal) /\ journal' = journal
    BY <2>1, Advances
  <2>3. UNCHANGED <<Waiting, Filled>>
    BY <1>2 DEF RevealUnobservable, bookVars, Waiting, Filled
  <2> QED
    BY <1>2, <2>2, <2>3 DEF Gated!Next, Gated!Close
<1> QED
  BY <1>1, <1>2, PhaseSteps, GatedReveal, GatedAnswer

(* The host implements the time gate, whatever the cell does.                *)
THEOREM HostIsATimeGate == Spec => ImplementsTimeGate
<1>1. Init => Gated!Init
  BY DEF Init, FeederInit, GateInit, PortfolioInit, Gated!Init, Phase, Waiting, Filled
<1>2. TypeOK /\ TypeOK' /\ [Next]_vars => [Gated!Next]_(Gated!vars)
  BY GatedStep
<1> QED
  BY <1>1, <1>2, TypeCorrect, PTL DEF Spec, Steps, ImplementsTimeGate, Gated!Spec

=============================================================================
