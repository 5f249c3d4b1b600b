--------------------------- MODULE Session_proofs ---------------------------
(***************************************************************************)
(* Proofs about Session, for every set of journals, every strategy that is  *)
(* a sequence of moves, every capacity of the pipes and every order limit.  *)
(***************************************************************************)
EXTENDS Session, SequenceTheorems, FiniteSetTheorems, TLAPS

-----------------------------------------------------------------------------
(* Both ends of a queue.                                                     *)
LEMMA AppendTo ==
    ASSUME NEW S, NEW s \in Seq(S), NEW e \in S
    PROVE  /\ Append(s, e) \in Seq(S)
           /\ Len(Append(s, e)) = Len(s) + 1
           /\ \A k \in 1..Len(s) : Append(s, e)[k] = s[k]
           /\ Append(s, e)[Len(s) + 1] = e
           /\ s = <<>> <=> Len(s) = 0
OBVIOUS

LEMMA TailOf ==
    ASSUME NEW S, NEW s \in Seq(S), s # <<>>
    PROVE  /\ Head(s) = s[1] /\ s[1] \in S
           /\ Tail(s) \in Seq(S)
           /\ Len(s) \in Nat \ {0} /\ Len(Tail(s)) = Len(s) - 1
           /\ \A k \in 1..(Len(s) - 1) : Tail(s)[k] = s[k + 1]
           /\ Tail(s) = <<>> <=> Len(s) = 1
<1>1. s[1] \in S /\ Len(s) \in Nat \ {0} /\ Head(s) = s[1]
  OBVIOUS
<1>2. /\ Tail(s) \in Seq(S) /\ Len(Tail(s)) = Len(s) - 1
      /\ \A k \in 1..Len(Tail(s)) : Tail(s)[k] = s[k + 1]
  BY HeadTailProperties
<1>3. \A t \in Seq(S) : t = <<>> <=> Len(t) = 0
  BY EmptySeq
<1> QED
  BY <1>1, <1>2, <1>3

-----------------------------------------------------------------------------
(* What is said in either direction, and the state each side is in.          *)

Times == {Epoch} \union UNION {{j[i].stamp : i \in DOMAIN j} : j \in Journals}

Telling  == [m : {"start", "tick", "stop"}, now : Times, line : Nat]
Speaking == [m : {"ready", "decision", "done", "error"}, now : Times,
             orders : Seq(MarketOrder), sight : Nat]

Types ==
    /\ strategy \in Strategies
    /\ journal \in Journals /\ cursor \in Nat /\ now \in Times
    /\ toCell \in Seq(Telling) /\ fromCell \in Seq(Speaking)
    /\ hostPc \in HostPcs /\ cellPc \in CellPcs
    /\ cellNow \in Times /\ cellLine \in Nat
    /\ queued \in Seq(MarketOrder) /\ leaving \in Goings

(* The runtime holds its ends of the pipes until it is gone, and the first   *)
(* frame it reads is `start`.                                                *)
RuntimeKnows ==
    /\ cellReads = (cellPc # "gone") /\ cellWrites = (cellPc # "gone")
    /\ hostPc \in {"opening", "start"} => toCell = <<>>
    /\ cellPc \in {"ready", "start"} =>
          IF toCell = <<>> THEN hostPc \notin {"replay", "send", "answer", "stop"}
          ELSE toCell[1].m = "start"

(* The strategy returns at its n-th tick; does not answer it; gets there.    *)
Stops(n)      == Goes(n) = "done"
Abandons(n)   == n >= 1 /\ ~MoveOf(strategy, n).answers
StaysUntil(n) == \A l \in 1..(n - 1) : ~Stops(l)

(* What was placed before its n-th tick and goes out with the answer to it.  *)
Due(n) == IF n = 1 THEN strategy.early ELSE <<>>

(* What the runtime's counter and its queue say of the strategy so far.      *)
Path ==
    /\ ticksSeen \in Nat /\ StaysUntil(ticksSeen)
    /\ cellPc \in {"ready", "start", "opening"} => ticksSeen = 0
    /\ cellPc \in {"body", "nested", "answer"} => ticksSeen >= 1
    /\ cellPc \in {"next", "body", "nested", "answer"} \/ ticksSeen >= 1 =>
          strategy.opening = "next"
    /\ cellPc = "next" =>
          /\ ticksSeen >= 1 => ~Stops(ticksSeen)
          /\ queued = Due(ticksSeen + 1)
    /\ cellPc = "body" => queued = Due(ticksSeen)
    /\ cellPc = "answer" =>
          /\ queued = Placed(ticksSeen) /\ ~Abandons(ticksSeen)
          /\ leaving = Goes(ticksSeen)

Known == Types /\ RuntimeKnows /\ Path

Out == {"done", "error", "exit0", "exit1", "gone"}

(* The runtime is on its way out: it has yet to say so, or says nothing, or  *)
(* has said so, after n frames that are not read yet.                        *)
Concluding(n) ==
    \/ cellPc \in Out /\ Len(fromCell) = n
    \/ /\ cellPc \in {"exit0", "exit1", "gone"}
       /\ Len(fromCell) = n + 1 /\ fromCell[n + 1].m \in {"done", "error"}

(* No tick is unanswered.                                                    *)
AtRest ==
    \/ cellPc = "start" /\ fromCell = <<>> /\ Len(toCell) = 1
    \/ cellPc \in {"opening", "next"} /\ fromCell = <<>> /\ toCell = <<>>
    \/ Concluding(0)

TickIs(k) == Len(toCell) = k /\ toCell[k].m = "tick" /\ toCell[k].now = now

(* One is: it is in the pipe, or with the strategy, or its answer is on its  *)
(* way, unless the runtime leaves without.                                   *)
Asked ==
    \/ cellPc = "start" /\ fromCell = <<>> /\ TickIs(2)
    \/ cellPc \in {"opening", "next"} /\ fromCell = <<>> /\ TickIs(1)
    \/ cellPc \in {"body", "nested", "answer"} /\ fromCell = <<>> /\ toCell = <<>>
       /\ cellNow = now
    \/ Concluding(0)
    \/ /\ fromCell # <<>> /\ fromCell[1].m = "decision" /\ fromCell[1].now = now
       /\ \/ cellPc = "next" /\ Len(fromCell) = 1 /\ toCell = <<>>
          \/ Concluding(1)

(* Where the conversation stands when nobody has killed the cell.            *)
InStep ==
    /\ hostPc = "opening" =>
          \/ cellPc = "ready" /\ fromCell = <<>>
          \/ cellPc = "start" /\ Len(fromCell) = 1 /\ fromCell[1].m = "ready"
    /\ hostPc = "start" => cellPc = "start" /\ fromCell = <<>>
    /\ hostPc \in {"replay", "send"} => AtRest
    /\ hostPc = "answer" => Asked

(* The host's streams are closed by the talker when it is done, and for it   *)
(* when the cell is gone; what fails the conversation ends it.               *)
Conversation ==
    /\ exitStatus = "killed" => cellPc = "gone"
    /\ hostEnd = "closed" => hostPc = "done" \/ outlasted
    /\ outlasted => cellPc = "gone"
    /\ failure # "none" => hostPc \in {"hangup", "done"}
    /\ exitStatus # "killed" => InStep

-----------------------------------------------------------------------------
(* Types.                                                                    *)
LEMMA TimesHold ==
    ASSUME NEW j \in Journals, NEW i \in DOMAIN j
    PROVE  j[i].stamp \in Times
BY DEF Times

LEMMA StrategyIs ==
    ASSUME Types
    PROVE  /\ strategy.opening \in Goings /\ strategy.early \in Seq(MarketOrder)
           /\ \A k : /\ MoveOf(strategy, k).places \in Seq(MarketOrder)
                     /\ MoveOf(strategy, k).then \in Goings
<1>1. strategy \in Strategy
  BY StrategiesAssumption DEF Types
<1>2. /\ strategy.opening \in Goings /\ strategy.early \in Seq(MarketOrder)
      /\ strategy.moves \in Seq(Moves)
  BY <1>1 DEF Strategy
<1>3. ASSUME NEW k
      PROVE  /\ MoveOf(strategy, k).places \in Seq(MarketOrder)
             /\ MoveOf(strategy, k).then \in Goings
  <2>1. CASE k \in 1..Len(strategy.moves)
    <3>1. strategy.moves[k] \in Moves /\ MoveOf(strategy, k) = strategy.moves[k]
      BY <1>2, <2>1 DEF MoveOf
    <3> QED
      BY <3>1 DEF Moves
  <2>2. CASE k \notin 1..Len(strategy.moves)
    <3>1. MoveOf(strategy, k) = [places |-> <<>>, answers |-> TRUE, then |-> "next"]
      BY <2>2 DEF MoveOf, Hold
    <3>2. MoveOf(strategy, k).places = <<>> /\ MoveOf(strategy, k).then = "next"
      BY <3>1
    <3> QED
      BY <3>2, EmptySeq DEF Goings
  <2> QED
    BY <2>1, <2>2
<1> QED
  BY <1>2, <1>3

LEMMA PlacedIs ==
    ASSUME Types, NEW k
    PROVE  /\ Due(k) \in Seq(MarketOrder)
           /\ Placed(k) = Due(k) \o MoveOf(strategy, k).places
           /\ Placed(k) \in Seq(MarketOrder) /\ Len(Placed(k)) \in Nat
<1>1. Due(k) \in Seq(MarketOrder)
  BY StrategyIs, EmptySeq DEF Due
<1>2. Placed(k) = Due(k) \o MoveOf(strategy, k).places
  BY DEF Placed, OrdersOf, Due
<1>3. Placed(k) \in Seq(MarketOrder)
  BY <1>1, <1>2, StrategyIs, ConcatProperties
<1> QED
  BY <1>1, <1>2, <1>3

LEMMA ClockTypes ==
    ASSUME Types, NEW i \in (cursor + 1)..Len(journal), AdvanceTo(i)
    PROVE  journal' \in Journals /\ cursor' \in Nat /\ now' \in Times
<1>1. IsJournal(journal) /\ i \in 1..Len(journal)
  BY JournalsAssumption DEF Types
<1>2. journal[i].stamp \in Times
  BY <1>1, TimesHold DEF Types, IsJournal
<1> QED
  BY <1>1, <1>2 DEF AdvanceTo, ClockAt, Types

LEMMA SaidTypes ==
    ASSUME Types, NEW m \in {"start", "tick", "stop"}, Say(m)
    PROVE  /\ toCell' \in Seq(Telling) /\ fromCell' = fromCell
           /\ Len(toCell') = Len(toCell) + 1
           /\ \A k \in 1..Len(toCell) : toCell'[k] = toCell[k]
           /\ toCell'[Len(toCell) + 1].m = m
           /\ toCell'[Len(toCell) + 1].now = now
           /\ toCell = <<>> <=> Len(toCell) = 0
           /\ UNCHANGED <<hostEnd, cellReads, cellWrites>>
<1> DEFINE f == [m |-> m, now |-> now, line |-> cursor]
<1>1. f \in Telling
  BY DEF Types, Telling
<1>2. toCell' = Append(toCell, f) /\ UNCHANGED <<fromCell, hostEnd, cellReads, cellWrites>>
  BY DEF Say, HostWrites
<1>3. toCell \in Seq(Telling)
  BY DEF Types
<1> HIDE DEF f
<1>4. f.m = m /\ f.now = now
  BY DEF f
<1> QED
  BY <1>1, <1>2, <1>3, <1>4, AppendTo

LEMMA HeardTypes ==
    ASSUME Types, HostReads
    PROVE  /\ fromCell' \in Seq(Speaking) /\ toCell' = toCell
           /\ Heard = fromCell[1] /\ Heard \in Speaking
           /\ Len(fromCell) \in Nat \ {0} /\ Len(fromCell') = Len(fromCell) - 1
           /\ \A k \in 1..(Len(fromCell) - 1) : fromCell'[k] = fromCell[k + 1]
           /\ fromCell' = <<>> <=> Len(fromCell) = 1
           /\ UNCHANGED <<hostEnd, cellReads, cellWrites>>
BY TailOf DEF HostReads, Heard, Types

LEMMA SpokenTypes ==
    ASSUME Types, NEW f \in Speaking, CellWritesFrame(f)
    PROVE  /\ fromCell' \in Seq(Speaking) /\ toCell' = toCell
           /\ Len(fromCell') = Len(fromCell) + 1
           /\ \A k \in 1..Len(fromCell) : fromCell'[k] = fromCell[k]
           /\ fromCell'[Len(fromCell) + 1] = f
           /\ fromCell = <<>> <=> Len(fromCell) = 0
           /\ UNCHANGED <<hostEnd, cellReads, cellWrites>>
BY AppendTo DEF CellWritesFrame, Types

LEMMA ToldTypes ==
    ASSUME Types, CellReadsFrame
    PROVE  /\ toCell' \in Seq(Telling) /\ fromCell' = fromCell
           /\ Told = toCell[1] /\ Told \in Telling
           /\ Len(toCell) \in Nat \ {0} /\ Len(toCell') = Len(toCell) - 1
           /\ \A k \in 1..(Len(toCell) - 1) : toCell'[k] = toCell[k + 1]
           /\ toCell' = <<>> <=> Len(toCell) = 1
           /\ UNCHANGED <<hostEnd, cellReads, cellWrites>>
BY TailOf DEF CellReadsFrame, Told, Types

(* What the host does, by what the runtime can notice of it.                 *)
LEMMA HostTypes == ASSUME Types, HostStep PROVE Types'
<1> USE DEF HostStep, marketVars
<1>0. UNCHANGED <<strategy, cellPc, cellNow, cellLine, queued, leaving>>
  OBVIOUS
<1>1. /\ toCell' \in Seq(Telling) /\ fromCell' \in Seq(Speaking)
  <2>1. CASE \E m \in {"start", "tick", "stop"} : Say(m)
    BY <2>1, SaidTypes DEF Types
  <2>2. CASE HostReads
    BY <2>2, HeardTypes DEF Types
  <2>3. CASE UNCHANGED <<toCell, fromCell>>
    BY <2>3 DEF Types
  <2> QED
    BY <2>1, <2>2, <2>3 DEF Host, BreakPipe, HostWriteBreaks, Opening, HostReadsEOF, SendStart,
       Reveal, RevealUnobservable, RefuseJournal, Exhaust, SendTick, RefuseTick,
       HostRefusesFrame, ReadAnswer, SendStop, HangUp, HostCloses, HostReadBreaks, wireVars
<1>2. journal' \in Journals /\ cursor' \in Nat /\ now' \in Times
  <2>1. CASE \E i \in (cursor + 1)..Len(journal) : AdvanceTo(i)
    BY <2>1, ClockTypes
  <2>2. CASE UNCHANGED gateVars
    BY <2>2 DEF Types, gateVars
  <2> QED
    BY <2>1, <2>2 DEF Host, BreakPipe, Opening, SendStart,
       Reveal, RevealUnobservable, RefuseJournal, Exhaust, SendTick, RefuseTick, ReadAnswer,
       SendStop, HangUp
<1>3. hostPc' \in HostPcs
  BY DEF Host, BreakPipe, Opening, SendStart, HostPcs, Goto, Fail, AcceptDecision, RejectReply,
       Reveal, RevealUnobservable, RefuseJournal, Exhaust, SendTick, RefuseTick, ReadAnswer,
       SendStop, HangUp
<1> QED
  BY <1>0, <1>1, <1>2, <1>3 DEF Types

LEMMA FramesAreSpoken ==
    ASSUME Types
    PROVE  /\ \A m \in {"ready", "done", "error"} : Frame(m) \in Speaking /\ Frame(m).m = m
           /\ Decision \in Speaking
           /\ Decision.m = "decision" /\ Decision.now = cellNow /\ Decision.orders = queued
<1>1. <<>> \in Seq(MarketOrder) /\ 0 \in Times
  BY EmptySeq DEF Times, Epoch
<1> QED
  BY <1>1 DEF Types, Frame, Decision, Speaking

(* What a step of the runtime does to the pipes.                             *)
RuntimeSays(f) == CellWritesFrame(f) /\ UNCHANGED <<cellNow, cellLine>>

LEMMA RuntimeKinds ==
    ASSUME Types, Runtime \/ Killed
    PROVE  \/ \E m \in {"ready", "done", "error"} : RuntimeSays(Frame(m))
           \/ cellPc = "answer" /\ RuntimeSays(Decision)
           \/ /\ CellReadsFrame
              /\ IF cellPc = "next" /\ Told.m = "tick"
                 THEN cellNow' = Told.now /\ cellLine' = Told.line
                 ELSE UNCHANGED <<cellNow, cellLine>>
           \/ UNCHANGED <<wireVars, cellNow, cellLine>>
           \/ CellEndsClose /\ UNCHANGED <<cellNow, cellLine>>
BY DEF Runtime, Killed, SendReady, ReadStart, EnterStrategy, NextTick, TicksEnd, CellReadsEOF,
       MakeMove, SendDecision, SendDone, SendError, CellExit, Leave, Jump, RuntimeSays

(* Where the strategy goes, it may go.                                       *)
LEMMA RuntimeGoes ==
    ASSUME Types, Path
    PROVE  /\ EnterStrategy => cellPc' \in Goings
           /\ MakeMove => cellPc' \in {"answer", "nested"} \union Goings
           /\ SendDecision => cellPc' \in Goings
BY StrategyIs DEF Path, EnterStrategy, MakeMove, SendDecision, Goes

LEMMA RuntimeTypes ==
    ASSUME Types, Path, Runtime \/ Killed,
           UNCHANGED <<gateVars, bookVars, talkVars, accepted>>
    PROVE  Types'
<1>1. UNCHANGED <<journal, cursor, now, hostPc>>
  BY DEF gateVars, talkVars
<1>2. strategy' = strategy
  BY DEF Runtime, Killed, SendReady, ReadStart, EnterStrategy, NextTick, TicksEnd,
         MakeMove, SendDecision, SendDone, SendError, CellExit, Leave, Jump
<1>3. /\ toCell' \in Seq(Telling) /\ fromCell' \in Seq(Speaking)
      /\ cellNow' \in Times /\ cellLine' \in Nat
  <2>1. CASE \E m \in {"ready", "done", "error"} : RuntimeSays(Frame(m))
    BY <2>1, FramesAreSpoken, SpokenTypes DEF RuntimeSays, Types
  <2>2. CASE RuntimeSays(Decision)
    BY <2>2, FramesAreSpoken, SpokenTypes DEF RuntimeSays, Types
  <2>3. CASE /\ CellReadsFrame
             /\ IF cellPc = "next" /\ Told.m = "tick"
                THEN cellNow' = Told.now /\ cellLine' = Told.line
                ELSE UNCHANGED <<cellNow, cellLine>>
    <3>1. Told.now \in Times /\ Told.line \in Nat
      BY <2>3, ToldTypes DEF Telling
    <3> QED
      BY <2>3, <3>1, ToldTypes DEF Types
  <2>4. CASE UNCHANGED <<wireVars, cellNow, cellLine>>
    BY <2>4 DEF Types, wireVars
  <2>5. CASE CellEndsClose /\ UNCHANGED <<cellNow, cellLine>>
    BY <2>5 DEF CellEndsClose, Types
  <2> QED
    BY <2>1, <2>2, <2>3, <2>4, <2>5, RuntimeKinds
<1>4. queued' \in Seq(MarketOrder) /\ leaving' \in Goings
  <2>1. CASE MakeMove
    <3>1. /\ queued' = queued \o MoveOf(strategy, ticksSeen).places
          /\ leaving' = MoveOf(strategy, ticksSeen).then
      BY <2>1 DEF MakeMove
    <3>2. queued \in Seq(MarketOrder)
      BY DEF Types
    <3>3. queued \o MoveOf(strategy, ticksSeen).places \in Seq(MarketOrder)
      BY <3>2, StrategyIs, ConcatProperties
    <3> QED
      BY <3>1, <3>3, StrategyIs
  <2>2. CASE (queued' = queued \/ queued' = <<>> \/ queued' = strategy.early) /\ leaving' = leaving
    BY <2>2, StrategyIs, EmptySeq DEF Types
  <2> QED
    BY <2>1, <2>2 DEF Runtime, Killed, SendReady, ReadStart, EnterStrategy, NextTick, TicksEnd,
       SendDecision, SendDone, SendError, CellExit, Leave, Jump
<1>5. cellPc' \in CellPcs
  <2>1. CASE EnterStrategy \/ MakeMove \/ SendDecision
    BY <2>1, RuntimeGoes DEF Goings, Exits, CellPcs
  <2>2. CASE ~EnterStrategy /\ ~MakeMove /\ ~SendDecision
    BY <2>2 DEF Runtime, Killed, SendReady, ReadStart, NextTick, TicksEnd,
       SendDone, SendError, CellExit, Leave, Jump, CellPcs, Exits
  <2> QED
    BY <2>1, <2>2
<1> QED
  BY <1>1, <1>2, <1>3, <1>4, <1>5 DEF Types

-----------------------------------------------------------------------------
(* What the runtime knows stays true.                                        *)
LEMMA HostKeepsKnowing ==
    ASSUME Types, RuntimeKnows, HostStep
    PROVE  RuntimeKnows'
<1>0. UNCHANGED <<cellPc, cellReads, cellWrites>>
  BY DEF HostStep, marketVars, Host, BreakPipe, HostWriteBreaks, HostReadBreaks, Opening,
     HostReads, HostReadsEOF, SendStart, Say, HostWrites, Reveal, RevealUnobservable,
     RefuseJournal, Exhaust, SendTick, RefuseTick, HostRefusesFrame, ReadAnswer, SendStop, HangUp,
     HostCloses, wireVars
<1>1. CASE hostPc = "start" /\ Say("start") /\ hostPc' = "replay"
  <2>1. toCell = <<>> /\ toCell' # <<>> /\ toCell'[1].m = "start"
    <3>1. toCell = <<>> /\ Len(toCell) = 0
      BY <1>1, EmptySeq DEF RuntimeKnows
    <3>2. toCell'[Len(toCell) + 1].m = "start" /\ Len(toCell') = Len(toCell) + 1
      BY <1>1, SaidTypes
    <3>3. toCell'[1].m = "start" /\ Len(toCell') # 0
      BY <3>1, <3>2
    <3> QED
      BY <3>1, <3>3, EmptySeq
  <2> QED
    BY <1>0, <1>1, <2>1 DEF RuntimeKnows
<1>2. CASE hostPc \in {"send", "stop"} /\ (\E m \in {"tick", "stop"} : Say(m))
           /\ hostPc' \in {"answer", "hangup"}
  <2>1. toCell' # <<>> /\ (toCell # <<>> => toCell'[1] = toCell[1])
    <3>1. Len(toCell) \in Nat /\ Len(toCell') = Len(toCell) + 1
          /\ \A k \in 1..Len(toCell) : toCell'[k] = toCell[k]
      BY <1>2, SaidTypes DEF Types
    <3>2. toCell' # <<>> /\ (toCell # <<>> => 1 \in 1..Len(toCell))
      BY <3>1, <1>2, SaidTypes, EmptySeq DEF Types
    <3> QED
      BY <3>1, <3>2
  <2>2. toCell = <<>> => cellPc \notin {"ready", "start"}
    BY <1>2 DEF RuntimeKnows
  <2> QED
    BY <1>0, <1>2, <2>1, <2>2 DEF RuntimeKnows
<1>3. CASE /\ toCell' = toCell
           /\ hostPc' \in {"opening", "start"} => hostPc \in {"opening", "start"}
           /\ hostPc' \in {"replay", "send", "answer", "stop"} =>
                 hostPc \in {"replay", "send", "answer", "stop"}
  BY <1>0, <1>3 DEF RuntimeKnows
<1> QED
  BY <1>1, <1>2, <1>3 DEF HostStep, Host, BreakPipe, HostWriteBreaks, HostReadBreaks, Opening,
     HostReads, HostReadsEOF, SendStart, Reveal, RevealUnobservable, RefuseJournal, Exhaust,
     SendTick, RefuseTick, HostRefusesFrame, ReadAnswer, AcceptDecision, RejectReply, SendStop,
     HangUp, HostCloses, wireVars, Goto, Fail

LEMMA RuntimeKeepsKnowing ==
    ASSUME Types, RuntimeKnows, Path, Runtime \/ Killed,
           UNCHANGED <<gateVars, bookVars, talkVars, accepted>>
    PROVE  RuntimeKnows'
<1>0. UNCHANGED hostPc /\ cellPc # "gone" /\ cellReads /\ cellWrites
  <2>1. cellPc # "gone"
    BY DEF Runtime, Killed, SendReady, ReadStart, EnterStrategy, NextTick, TicksEnd,
           MakeMove, SendDecision, SendDone, SendError, CellExit
  <2> QED
    BY <2>1 DEF talkVars, RuntimeKnows
<1>1. CASE CellExit \/ Killed
  BY <1>0, <1>1 DEF CellExit, Killed, Leave, CellEndsClose, RuntimeKnows
<1>2. CASE ~CellExit /\ ~Killed
  <2>0. EnterStrategy \/ MakeMove \/ SendDecision => cellPc' \notin {"gone", "ready", "start"}
    BY RuntimeGoes DEF Goings, Exits
  <2>1. cellPc' # "gone" /\ UNCHANGED <<cellReads, cellWrites>>
    <3>1. UNCHANGED <<cellReads, cellWrites>>
      BY <1>2 DEF Runtime, SendReady, ReadStart, EnterStrategy, NextTick, TicksEnd, CellReadsEOF,
         MakeMove, SendDecision, SendDone, SendError, CellWritesFrame, CellReadsFrame, wireVars
    <3>2. cellPc' # "gone"
      BY <1>2, <2>0 DEF Runtime, SendReady, ReadStart, NextTick, TicksEnd, SendDone, SendError,
         Jump, Exits
    <3> QED
      BY <3>1, <3>2
  <2>2. toCell = <<>> => toCell' = <<>>
    BY <1>2 DEF Runtime, SendReady, ReadStart, EnterStrategy, NextTick, TicksEnd, CellReadsEOF,
       MakeMove, SendDecision, SendDone, SendError, CellWritesFrame, CellReadsFrame, wireVars
  <2>3. cellPc' \in {"ready", "start"} => cellPc = "ready" /\ toCell' = toCell
    BY <1>2, <2>0 DEF Runtime, SendReady, ReadStart, NextTick, TicksEnd, SendDone, SendError,
       Jump, CellWritesFrame, Exits
  <2> QED
    BY <1>0, <2>1, <2>2, <2>3 DEF RuntimeKnows
<1> QED
  BY <1>1, <1>2

LEMMA PathHost == ASSUME Path, UNCHANGED marketVars PROVE Path'
BY DEF marketVars, Path, StaysUntil, Stops, Abandons, Goes, MoveOf, Placed, OrdersOf, Due

LEMMA PathStep ==
    ASSUME Types, Path, Runtime \/ Killed
    PROVE  Path'
<1>0. strategy' = strategy /\ ticksSeen \in Nat
  BY DEF Path, Runtime, Killed, SendReady, ReadStart, EnterStrategy, NextTick, TicksEnd,
         MakeMove, SendDecision, SendDone, SendError, CellExit, Leave, Jump
(* What is said of a tick changes with the tick only.                        *)
<1>a. /\ \A k : Goes(k)' = Goes(k') /\ Placed(k)' = Placed(k')
      /\ \A k : Stops(k)' = Stops(k') /\ Due(k)' = Due(k') /\ Abandons(k)' = Abandons(k')
      /\ \A k : StaysUntil(k)' = StaysUntil(k')
  BY <1>0 DEF Goes, MoveOf, Placed, OrdersOf, Stops, Due, Abandons, StaysUntil
<1>1. CASE SendReady \/ ReadStart \/ TicksEnd \/ SendDone \/ SendError \/ CellExit \/ Killed
  <2>1. /\ ticksSeen' = ticksSeen
        /\ cellPc' \in {"start", "opening"} => cellPc \in {"ready", "start"}
        /\ cellPc' \in {"start", "opening"} \union Out
    BY <1>1 DEF SendReady, ReadStart, TicksEnd, SendDone, SendError, CellExit, Killed, Leave,
       Jump, Out, Exits
  <2> QED
    BY <1>0, <1>a, <2>1 DEF Path, Out
<1>2. CASE EnterStrategy
  <2>1. /\ ticksSeen' = ticksSeen /\ ticksSeen = 0
        /\ cellPc' \in {"next"} \union Out /\ cellPc' = strategy.opening
        /\ queued' = strategy.early
    BY <1>2, StrategyIs DEF EnterStrategy, Path, Goings, Exits, Out
  <2>2. queued' = Due(ticksSeen + 1)
    BY <2>1 DEF Due
  <2> QED
    BY <1>0, <1>a, <2>1, <2>2 DEF Path, Out
<1>3. CASE NextTick
  <2>1. cellPc = "next" /\ strategy.opening = "next" /\ queued' = queued
        /\ queued = Due(ticksSeen + 1)
    BY <1>3 DEF NextTick, Path, Jump
  <2>2. CASE cellPc' = "body" /\ ticksSeen' = ticksSeen + 1
    <3>1. ticksSeen' \in Nat /\ ticksSeen' >= 1
      BY <1>0, <2>2
    <3>2. \A l \in 1..(ticksSeen' - 1) :
             l \in 1..(ticksSeen - 1) \/ (l = ticksSeen /\ ticksSeen >= 1)
      BY <1>0, <2>2
    <3>3. StaysUntil(ticksSeen')
      BY <2>1, <3>2 DEF Path, StaysUntil
    <3> QED
      BY <1>0, <1>a, <2>1, <2>2, <3>1, <3>3 DEF Path
  <2>3. CASE cellPc' \in {"done", "error"} /\ ticksSeen' = ticksSeen
    BY <1>0, <1>a, <2>1, <2>3 DEF Path
  <2> QED
    BY <1>3, <2>2, <2>3 DEF NextTick, Jump
<1>4. CASE MakeMove
  <2>1. /\ cellPc = "body" /\ ticksSeen' = ticksSeen /\ ticksSeen >= 1
        /\ strategy.opening = "next" /\ queued = Due(ticksSeen)
        /\ queued' = queued \o MoveOf(strategy, ticksSeen).places
        /\ leaving' = MoveOf(strategy, ticksSeen).then
        /\ cellPc' = IF MoveOf(strategy, ticksSeen).answers THEN "answer"
                     ELSE IF MoveOf(strategy, ticksSeen).then = "next" THEN "nested"
                     ELSE MoveOf(strategy, ticksSeen).then
    BY <1>4 DEF MakeMove, Path
  <2>2. queued' = Placed(ticksSeen) /\ leaving' = Goes(ticksSeen)
    BY <2>1, PlacedIs DEF Goes
  <2>3. CASE cellPc' = "answer"
    <3>1. ~Abandons(ticksSeen)
      <4>1. MoveOf(strategy, ticksSeen).then # "answer"
        BY StrategyIs DEF Goings, Exits
      <4> QED
        BY <2>1, <2>3, <4>1 DEF Abandons
    <3> QED
      BY <1>0, <1>a, <2>1, <2>2, <2>3, <3>1 DEF Path
  <2>4. CASE cellPc' # "answer"
    <3>1. cellPc' \in {"nested"} \union Out
      BY <2>1, <2>4, StrategyIs DEF Goings, Exits, Out
    <3> QED
      BY <1>0, <1>a, <2>1, <3>1 DEF Path, Out
  <2> QED
    BY <2>3, <2>4
<1>5. CASE SendDecision
  <2>1. /\ cellPc = "answer" /\ ticksSeen' = ticksSeen /\ cellPc' = Goes(ticksSeen)
        /\ ticksSeen >= 1 /\ strategy.opening = "next" /\ queued' = <<>>
    BY <1>5 DEF SendDecision, Path
  <2>2. cellPc' \in {"next"} \union Out
    BY <2>1, StrategyIs DEF Goes, Goings, Exits, Out
  <2>3. Due(ticksSeen + 1) = <<>>
    BY <1>0, <2>1 DEF Due
  <2> QED
    BY <1>0, <1>a, <2>1, <2>2, <2>3 DEF Path, Out, Stops
<1> QED
  BY <1>1, <1>2, <1>3, <1>4, <1>5 DEF Runtime

LEMMA InitKnown == Init => Known
<1> SUFFICES ASSUME Init PROVE Known
  OBVIOUS
<1>1. now \in Times /\ cellNow \in Times /\ queued \in Seq(MarketOrder) /\ leaving \in Goings
  BY EmptySeq DEF Init, FeederInit, GateInit, MarketInit, Times, Epoch, Goings
<1>2. toCell \in Seq(Telling) /\ fromCell \in Seq(Speaking)
  BY EmptySeq DEF Init, FeederInit, WireInit
<1>3. hostPc \in HostPcs /\ cellPc \in CellPcs
  BY DEF Init, FeederInit, MarketInit, HostPcs, CellPcs
<1>4. /\ strategy \in Strategies /\ journal \in Journals
      /\ cursor \in Nat /\ cellLine \in Nat
  BY DEF Init, FeederInit, GateInit, MarketInit
<1>5. RuntimeKnows
  BY DEF Init, FeederInit, WireInit, MarketInit, RuntimeKnows
<1>6. Path
  BY DEF Init, MarketInit, Path, StaysUntil
<1> QED
  BY <1>1, <1>2, <1>3, <1>4, <1>5, <1>6 DEF Types, Known

(* What changes neither host nor runtime nor pipes.                          *)
Bystander == UNCHANGED <<feederVars, marketVars>>

LEMMA StepKinds ==
    ASSUME [Next]_vars
    PROVE  \/ HostStep
           \/ /\ Runtime \/ Killed
              /\ UNCHANGED <<gateVars, bookVars, talkVars, accepted>> /\ outlasted' = outlasted
           \/ GiveUp
           \/ Bystander /\ outlasted' = outlasted
BY DEF Next, CellStep, Kill, Conclude, Recorded, vars, Bystander

(* Closing the host's streams is nothing the runtime can notice.             *)
LEMMA GivingUp ==
    ASSUME GiveUp
    PROVE  /\ UNCHANGED marketVars
           /\ UNCHANGED <<gateVars, bookVars, talkVars, accepted>>
           /\ UNCHANGED <<journal, cursor, now, fills, pending, hostPc, ticksSent, exhausted,
                          failure, toCell, fromCell, cellReads, cellWrites>>
           /\ UNCHANGED <<strategy, cellPc, exitStatus, ticksSeen, cellNow, cellLine, queued, leaving>>
           /\ cellPc = "gone" /\ outlasted' = TRUE
BY DEF GiveUp, CloseStreams, HostCloses, marketVars, gateVars, bookVars, talkVars

LEMMA NextKnown == Known /\ [Next]_vars => Known'
<1> SUFFICES ASSUME Known, [Next]_vars PROVE Known'
  OBVIOUS
<1>1. CASE HostStep
  BY <1>1, HostTypes, HostKeepsKnowing, PathHost DEF Known, HostStep
<1>2. CASE /\ Runtime \/ Killed
           /\ UNCHANGED <<gateVars, bookVars, talkVars, accepted>>
  BY <1>2, RuntimeTypes, RuntimeKeepsKnowing, PathStep DEF Known
<1>3. CASE GiveUp
  BY <1>3, GivingUp, PathHost DEF Known, Types, RuntimeKnows
<1>4. CASE Bystander
  BY <1>4, PathHost DEF Bystander, Known, Types, RuntimeKnows, feederVars, marketVars, wireVars,
     gateVars, talkVars
<1> QED
  BY <1>1, <1>2, <1>3, <1>4, StepKinds

-----------------------------------------------------------------------------
(* The refinement: what this host and this runtime do, a host and some cell  *)
(* may do.                                                                   *)
LEMMA NetIsNet ==
    ASSUME NEW orders
    PROVE  Untrusted!Net(orders) = Net(orders)
BY DEF Untrusted!Net, Net, Untrusted!FoldLeft, FoldLeft, Untrusted!MapThenFoldSet, MapThenFoldSet,
   Untrusted!Max, Max, Untrusted!Signed, Signed

LEMMA HostIsHost == HostStep => Untrusted!Host /\ UNCHANGED cellLine
<1>1. Untrusted!BreakPipe = BreakPipe
  BY DEF Untrusted!BreakPipe, BreakPipe, Untrusted!HostWriteBreaks, HostWriteBreaks,
     Untrusted!HostReadBreaks, HostReadBreaks, Untrusted!TooLong, TooLong, Untrusted!Fail, Fail,
     Untrusted!wireVars, wireVars, Untrusted!gateVars, gateVars, Untrusted!bookVars, bookVars
<1>2. Untrusted!Opening = Opening
  BY DEF Untrusted!Opening, Opening, Untrusted!HostReadsEOF, HostReadsEOF,
     Untrusted!HostReads, HostReads, Untrusted!Heard, Heard, Untrusted!Goto, Goto,
     Untrusted!Fail, Fail, Untrusted!wireVars, wireVars, Untrusted!gateVars, gateVars,
     Untrusted!bookVars, bookVars
<1>3. Untrusted!SendStart = SendStart
  BY DEF Untrusted!SendStart, SendStart, Untrusted!Say, Say, Untrusted!TooLong, TooLong,
     Untrusted!HostWrites, HostWrites, Untrusted!Goto, Goto, Untrusted!gateVars, gateVars, Untrusted!bookVars,
     bookVars
<1>4. Untrusted!Reveal = Reveal
  BY NetIsNet DEF Untrusted!Reveal, Reveal, Untrusted!AdvanceTo, AdvanceTo,
     Untrusted!YieldsLine, YieldsLine, Untrusted!Reaches, Reaches, Untrusted!Skipped,
     Skipped, Untrusted!Diagnosed, Diagnosed, Untrusted!Replayed, Replayed, Untrusted!Timed,
     Timed, Untrusted!Untimed, Untimed, Untrusted!ClockAt, ClockAt, Untrusted!Observe,
     Observe, Untrusted!Unobservable, Unobservable, Untrusted!Plausible, Plausible,
     Untrusted!FillAll, FillAll, Untrusted!Goto, Goto, Untrusted!wireVars, wireVars,
     Untrusted!bookVars, bookVars
<1>5. Untrusted!RevealUnobservable = RevealUnobservable
  BY DEF Untrusted!RevealUnobservable, RevealUnobservable, Untrusted!AdvanceTo, AdvanceTo,
     Untrusted!YieldsLine, YieldsLine, Untrusted!Reaches, Reaches, Untrusted!Skipped,
     Skipped, Untrusted!Diagnosed, Diagnosed, Untrusted!Replayed, Replayed, Untrusted!Timed,
     Timed, Untrusted!Untimed, Untimed, Untrusted!ClockAt, ClockAt, Untrusted!Unobservable,
     Unobservable, Untrusted!Plausible, Plausible, Untrusted!Fail, Fail, Untrusted!wireVars,
     wireVars, Untrusted!bookVars, bookVars
<1>6. Untrusted!RefuseJournal = RefuseJournal
  BY DEF Untrusted!RefuseJournal, RefuseJournal, Untrusted!Refuses, Refuses,
     Untrusted!Reaches, Reaches, Untrusted!Skipped, Skipped, Untrusted!Diagnosed, Diagnosed,
     Untrusted!Fail, Fail, Untrusted!wireVars, wireVars, Untrusted!gateVars, gateVars,
     Untrusted!bookVars, bookVars
<1>7. Untrusted!Exhaust = Exhaust
  BY DEF Untrusted!Exhaust, Exhaust, Untrusted!RunsOut, RunsOut, Untrusted!Reaches, Reaches,
     Untrusted!Skipped, Skipped, Untrusted!Diagnosed, Diagnosed, Untrusted!wireVars,
     wireVars, Untrusted!gateVars, gateVars, Untrusted!bookVars, bookVars
<1>8. Untrusted!SendTick = SendTick
  BY DEF Untrusted!SendTick, SendTick, Untrusted!Say, Say, Untrusted!TooLong, TooLong,
     Untrusted!HostWrites, HostWrites,
     Untrusted!gateVars, gateVars, Untrusted!bookVars, bookVars
<1>9. Untrusted!ReadAnswer = ReadAnswer
  BY DEF Untrusted!ReadAnswer, ReadAnswer, Untrusted!HostReadsEOF, HostReadsEOF,
     Untrusted!HostReads, HostReads, Untrusted!Heard, Heard, Untrusted!AcceptDecision,
     AcceptDecision, Untrusted!RejectReply, RejectReply, Untrusted!AnswersTick, AnswersTick,
     Untrusted!Admitted, Admitted, Untrusted!WellFormed, WellFormed, Untrusted!Sides, Sides,
     Untrusted!Plausible, Plausible, Untrusted!Stamp, Stamp, Untrusted!Submit, Submit,
     Untrusted!Goto, Goto, Untrusted!Fail, Fail, Untrusted!wireVars, wireVars,
     Untrusted!gateVars, gateVars, Untrusted!bookVars, bookVars
<1>10. Untrusted!SendStop = SendStop
  BY DEF Untrusted!SendStop, SendStop, Untrusted!Say, Say, Untrusted!TooLong, TooLong,
     Untrusted!HostWrites, HostWrites,
     Untrusted!Goto, Goto, Untrusted!gateVars, gateVars, Untrusted!bookVars, bookVars
<1>11. Untrusted!HangUp = HangUp
  BY DEF Untrusted!HangUp, HangUp, Untrusted!HostCloses, HostCloses, Untrusted!Goto, Goto,
     Untrusted!gateVars, gateVars, Untrusted!bookVars, bookVars
<1>12. Untrusted!RefuseTick = RefuseTick
  BY DEF Untrusted!RefuseTick, RefuseTick, Untrusted!HostRefusesFrame, HostRefusesFrame,
     Untrusted!TooLong, TooLong, Untrusted!Fail, Fail, Untrusted!wireVars, wireVars,
     Untrusted!gateVars, gateVars, Untrusted!bookVars, bookVars
<1> QED
  BY <1>1, <1>2, <1>3, <1>4, <1>5, <1>6, <1>7, <1>8, <1>9, <1>10, <1>11, <1>12
     DEF HostStep, marketVars, Host, Untrusted!Host

(* What a strategy is to say of a tick, it may say.                          *)
SaidOrders ==
    {<<>>} \union UNION {{OrdersOf(s, k) : k \in 1..(Len(s.moves) + 1)} : s \in Strategies}

LEMMA PlacedIsSaid ==
    ASSUME Types, NEW k \in Nat \ {0}
    PROVE  Placed(k) \in SaidOrders
<1>1. Len(strategy.moves) \in Nat
  BY StrategiesAssumption DEF Types, Strategy
<1>2. CASE k \in 1..(Len(strategy.moves) + 1)
  <2>1. Placed(k) \in {OrdersOf(strategy, l) : l \in 1..(Len(strategy.moves) + 1)}
    BY <1>2 DEF Placed
  <2> QED
    BY <2>1, Zenon DEF SaidOrders, Types
<1>3. CASE k \notin 1..(Len(strategy.moves) + 1)
  <2>1. k # 1 /\ k \notin 1..Len(strategy.moves)
    BY <1>1, <1>3
  <2>2. Due(k) = <<>> /\ MoveOf(strategy, k).places = <<>>
    BY <2>1 DEF Due, MoveOf, Hold
  <2>3. Placed(k) = <<>> \o <<>>
    BY <2>2, PlacedIs
  <2>4. <<>> \o <<>> = <<>>
    BY EmptySeq, ConcatEmptySeq
  <2> QED
    BY <2>3, <2>4 DEF SaidOrders
<1> QED
  BY <1>2, <1>3

LEMMA SpeechIsAllowed ==
    ASSUME Known
    PROVE  /\ \A m \in {"ready", "done", "error"} :
                 \E f \in Speech : Untrusted!Witnessed(f) = Frame(m)
           /\ cellPc = "answer" => \E f \in Speech : Untrusted!Witnessed(f) = Decision
<1>0. Speech = {[m |-> m, now |-> t, orders |-> o] :
                   m \in {"ready", "decision", "done", "error"}, t \in Times, o \in SaidOrders}
  BY DEF Speech, Times, SaidOrders
<1>1. ASSUME NEW m \in {"ready", "done", "error"}
      PROVE  \E f \in Speech : Untrusted!Witnessed(f) = Frame(m)
  <2> DEFINE f == [m |-> m, now |-> Epoch, orders |-> <<>>]
  <2>1. f \in Speech
    <3>1. Epoch \in Times /\ <<>> \in SaidOrders
      BY DEF Times, SaidOrders
    <3> QED
      BY <1>0, <3>1
  <2>2. Untrusted!Witnessed(f) = Frame(m)
    BY DEF Untrusted!Witnessed, Frame, Epoch
  <2> QED
    BY <2>1, <2>2
<1>2. ASSUME cellPc = "answer"
      PROVE  \E f \in Speech : Untrusted!Witnessed(f) = Decision
  <2> DEFINE f == [m |-> "decision", now |-> cellNow, orders |-> queued]
  <2>1. f \in Speech
    <3>1. queued = Placed(ticksSeen) /\ ticksSeen \in Nat \ {0}
      BY <1>2 DEF Known, Path
    <3>2. queued \in SaidOrders
      BY <3>1, PlacedIsSaid DEF Known
    <3> QED
      BY <1>0, <3>2 DEF Known, Types
  <2>2. Untrusted!Witnessed(f) = Decision
    BY DEF Untrusted!Witnessed, Decision
  <2> QED
    BY <2>1, <2>2
<1> QED
  BY <1>1, <1>2

LEMMA RuntimeIsACell ==
    ASSUME Known, Runtime \/ Killed,
           UNCHANGED <<gateVars, bookVars, talkVars, accepted>>
    PROVE  Untrusted!Cell \/ UNCHANGED Untrusted!vars
<1>0. UNCHANGED Untrusted!hostVars
  BY DEF Untrusted!hostVars, Untrusted!gateVars, Untrusted!bookVars, Untrusted!talkVars,
         gateVars, bookVars, talkVars
<1>1. ASSUME NEW f, RuntimeSays(f), \E g \in Speech : Untrusted!Witnessed(g) = f
      PROVE  Untrusted!CellSpeaks
  BY <1>0, <1>1 DEF Untrusted!CellSpeaks, Untrusted!CellWritesFrame, RuntimeSays, CellWritesFrame
<1>2. CASE CellReadsFrame /\ IF cellPc = "next" /\ Told.m = "tick"
                             THEN cellNow' = Told.now /\ cellLine' = Told.line
                             ELSE UNCHANGED <<cellNow, cellLine>>
  <2>1. cellPc \in {"start", "next"}
    <3>1. toCell' # toCell /\ cellReads'
      <4>1. Len(toCell') = Len(toCell) - 1 /\ Len(toCell) \in Nat
        BY <1>2, ToldTypes DEF Known
      <4>2. Len(toCell') # Len(toCell)
        BY <4>1
      <4>3. toCell' # toCell
        BY <4>2
      <4> QED
        BY <1>2, <4>3 DEF CellReadsFrame
    <3> QED
      BY <3>1 DEF Runtime, Killed, SendReady, ReadStart, EnterStrategy, NextTick, TicksEnd,
         CellReadsEOF, MakeMove, SendDecision, SendDone, SendError, CellExit, Leave,
         CellWritesFrame, CellEndsClose, wireVars
  <2>2. cellPc = "start" => Told.m = "start"
    <3>1. Told = toCell[1] /\ toCell # <<>>
      BY <1>2, ToldTypes DEF Known, CellReadsFrame
    <3> QED
      BY <3>1 DEF Known, RuntimeKnows
  <2>3. cellLine' = IF Told.m = "tick" THEN Told.line ELSE cellLine
    BY <1>2, <2>1, <2>2
  <2>4. Untrusted!CellReadsFrame /\ Untrusted!Told = Told
    BY <1>2 DEF Untrusted!CellReadsFrame, CellReadsFrame, Untrusted!Told, Told
  <2> QED
    BY <1>0, <2>3, <2>4 DEF Untrusted!CellListens, Untrusted!Cell
<1>3. CASE UNCHANGED <<wireVars, cellNow, cellLine>>
  BY <1>0, <1>3 DEF Untrusted!vars, Untrusted!feederVars, Untrusted!wireVars, Untrusted!hostVars,
     wireVars
<1>4. CASE CellEndsClose /\ UNCHANGED <<cellNow, cellLine>>
  <2>1. cellReads
    BY <1>4 DEF Runtime, Killed, SendReady, ReadStart, EnterStrategy, NextTick, TicksEnd,
       MakeMove, SendDecision, SendDone, SendError, CellExit, Known, RuntimeKnows
  <2> QED
    BY <1>0, <1>4, <2>1 DEF Untrusted!CellDies, Untrusted!CellEndsClose, CellEndsClose,
       Untrusted!Cell
<1> QED
  BY <1>1, <1>2, <1>3, <1>4, RuntimeKinds, SpeechIsAllowed DEF Untrusted!Cell, Known

(* A run of the real runtime, whatever the strategy and whenever it is       *)
(* killed, is a run of UntrustedSession: all that is proved of a host and an *)
(* unknown cell holds of it.  (runtime.main, Market.ticks)                   *)
THEOREM HonestIsAlwaysUntrusted == Spec => HonestIsUntrusted
<1>1. Init => Untrusted!Init
  BY DEF Init, FeederInit, WireInit, GateInit, PortfolioInit, MarketInit,
     Untrusted!Init, Untrusted!FeederInit, Untrusted!WireInit, Untrusted!GateInit,
     Untrusted!PortfolioInit, Untrusted!Epoch, Epoch
<1>2. Known /\ [Next]_vars => [Untrusted!Next]_(Untrusted!vars)
  <2> SUFFICES ASSUME Known, [Next]_vars PROVE [Untrusted!Next]_(Untrusted!vars)
    OBVIOUS
  <2>1. CASE HostStep
    BY <2>1, HostIsHost DEF Untrusted!Next
  <2>2. CASE /\ Runtime \/ Killed
             /\ UNCHANGED <<gateVars, bookVars, talkVars, accepted>>
    BY <2>2, RuntimeIsACell DEF Untrusted!Next
  <2>3. CASE GiveUp
    <3>1. Untrusted!TalkerLeft
      BY <2>3 DEF GiveUp, marketVars, CloseStreams, HostCloses, Untrusted!TalkerLeft,
         Untrusted!CloseStreams, Untrusted!HostCloses, gateVars, bookVars, talkVars,
         Untrusted!gateVars, Untrusted!bookVars, Untrusted!talkVars
    <3> QED
      BY <3>1 DEF Untrusted!Next
  <2>4. CASE Bystander
    BY <2>4 DEF Bystander, feederVars, marketVars, wireVars, gateVars, bookVars, talkVars,
       Untrusted!vars, Untrusted!feederVars, Untrusted!wireVars, Untrusted!gateVars,
       Untrusted!bookVars, Untrusted!talkVars
  <2> QED
    BY <2>1, <2>2, <2>3, <2>4, StepKinds
<1> QED
  BY <1>1, <1>2, InitKnown, NextKnown, PTL DEF Spec, HonestIsUntrusted, Untrusted!Steps

-----------------------------------------------------------------------------
(* Host and runtime keep in step.                                            *)
LEMMA LengthZero ==
    ASSUME Types
    PROVE  /\ Len(toCell) \in Nat /\ (toCell = <<>> <=> Len(toCell) = 0)
           /\ Len(fromCell) \in Nat /\ (fromCell = <<>> <=> Len(fromCell) = 0)
BY EmptySeq DEF Types

LEMMA HostStays ==
    ASSUME HostStep
    PROVE  UNCHANGED <<exitStatus, cellPc, cellNow, ticksSeen, strategy, cellWrites, outlasted>>
BY DEF HostStep, marketVars, Host, BreakPipe, HostWriteBreaks, HostReadBreaks, Opening, HostReads,
   HostReadsEOF, SendStart, Say, HostWrites, Reveal, RevealUnobservable, RefuseJournal, Exhaust,
   SendTick, RefuseTick, HostRefusesFrame, ReadAnswer, SendStop, HangUp, HostCloses, wireVars

LEMMA OpeningInStep ==
    ASSUME Known, InStep, HostStep, Opening
    PROVE  hostPc' = "start" /\ cellPc = "start" /\ fromCell' = <<>> /\ failure' = failure
<1>1. ~HostReadsEOF
  BY DEF Opening, HostReadsEOF, InStep, Known, RuntimeKnows
<1>2. HostReads
  BY <1>1 DEF Opening
<1>3. Heard = fromCell[1] /\ Len(fromCell) # 0 /\ (fromCell' = <<>> <=> Len(fromCell) = 1)
  BY <1>2, HeardTypes DEF Known
<1>4. cellPc = "start" /\ Len(fromCell) = 1 /\ fromCell[1].m = "ready"
  BY <1>3, EmptySeq DEF Opening, InStep
<1> QED
  BY <1>1, <1>3, <1>4 DEF Opening, Goto, Fail

LEMMA SendTickInStep ==
    ASSUME Known, AtRest, HostStep, SendTick
    PROVE  Asked'
<1>0. UNCHANGED <<now, cellPc, cellNow>> /\ fromCell' = fromCell
  BY HostStays DEF SendTick, gateVars, Say, HostWrites
<1>1. /\ Len(toCell') = Len(toCell) + 1
      /\ toCell'[Len(toCell) + 1].m = "tick" /\ toCell'[Len(toCell) + 1].now = now
  BY SaidTypes DEF SendTick, Known
<1>2. CASE Concluding(0)
  BY <1>0, <1>2 DEF Concluding, Asked
<1>3. CASE cellPc = "start" /\ fromCell = <<>> /\ Len(toCell) = 1
  BY <1>0, <1>1, <1>3 DEF Asked, TickIs
<1>4. CASE cellPc \in {"opening", "next"} /\ fromCell = <<>> /\ toCell = <<>>
  <2>1. Len(toCell) = 0
    BY <1>4, EmptySeq
  <2> QED
    BY <1>0, <1>1, <1>4, <2>1 DEF Asked, TickIs
<1> QED
  BY <1>2, <1>3, <1>4 DEF AtRest

LEMMA ReadAnswerInStep ==
    ASSUME Known, Asked, HostStep, ReadAnswer
    PROVE  hostPc' \in {"replay", "stop", "hangup"} /\ (hostPc' = "replay" => AtRest')
<1>0. UNCHANGED <<cellPc, cellNow, now>> /\ Len(fromCell) \in Nat
  BY HostStays, LengthZero DEF ReadAnswer, gateVars, Known
<1>1. hostPc' \in {"replay", "stop", "hangup"}
  BY DEF ReadAnswer, AcceptDecision, RejectReply, Goto, Fail
<1>2. ASSUME hostPc' = "replay" PROVE AtRest'
  <2>1. HostReads /\ Heard.m = "decision"
    BY <1>2 DEF ReadAnswer, AcceptDecision, RejectReply, AnswersTick, Goto, Fail
  <2>2. /\ Heard = fromCell[1] /\ Len(fromCell) # 0
        /\ Len(fromCell') = Len(fromCell) - 1
        /\ \A k \in 1..(Len(fromCell) - 1) : fromCell'[k] = fromCell[k + 1]
        /\ (fromCell' = <<>> <=> Len(fromCell) = 1)
        /\ toCell' = toCell
    BY <2>1, HeardTypes DEF Known
  <2>3. fromCell # <<>> /\ ~Concluding(0)
    BY <2>1, <2>2, EmptySeq DEF Concluding
  <2>4. CASE cellPc = "next" /\ Len(fromCell) = 1 /\ toCell = <<>>
    BY <1>0, <2>2, <2>4 DEF AtRest
  <2>5. CASE cellPc \in Out /\ Len(fromCell) = 1
    BY <1>0, <2>2, <2>5 DEF AtRest, Concluding
  <2>6. CASE /\ cellPc \in {"exit0", "exit1", "gone"}
             /\ Len(fromCell) = 2 /\ fromCell[2].m \in {"done", "error"}
    <3>1. Len(fromCell') = 1 /\ fromCell'[1] = fromCell[2]
      BY <2>2, <2>6
    <3> QED
      BY <1>0, <2>6, <3>1 DEF AtRest, Concluding
  <2> QED
    BY <2>3, <2>4, <2>5, <2>6 DEF Asked, Concluding
<1> QED
  BY <1>1, <1>2

(* A failure ends the conversation, and nothing follows it but the end.      *)
LEMMA FailureEnds ==
    ASSUME HostStep, failure # "none" => hostPc \in {"hangup", "done"}
    PROVE  /\ failure # "none" => hostPc' = "done" /\ failure' = failure
           /\ failure' # "none" => hostPc' \in {"hangup", "done"}
           /\ failure' # failure => failure = "none"
BY DEF HostStep, Host, BreakPipe, Opening, SendStart, Reveal, RevealUnobservable, RefuseJournal,
   Exhaust, SendTick, RefuseTick, ReadAnswer, AcceptDecision, RejectReply, SendStop, HangUp, Goto,
   Fail

LEMMA HostKeepsStep ==
    ASSUME Known, Known', Conversation, HostStep
    PROVE  Conversation'
<1>0. UNCHANGED <<exitStatus, cellPc, cellNow, cellWrites, outlasted>>
  BY HostStays
<1>1. hostEnd' = "closed" => hostPc' = "done" \/ outlasted
  <2>1. hostEnd' = hostEnd \/ hostPc' = "done"
    BY DEF HostStep, Host, BreakPipe, HostWriteBreaks, HostReadBreaks, Opening, HostReads,
       HostReadsEOF, SendStart, Say, HostWrites, Reveal, RevealUnobservable, RefuseJournal,
       Exhaust, SendTick, RefuseTick, HostRefusesFrame, ReadAnswer, SendStop, HangUp, wireVars,
       Goto
  <2>2. hostPc # "done"
    BY DEF HostStep, Host, BreakPipe, Opening, SendStart, Reveal, RevealUnobservable,
       RefuseJournal, Exhaust, SendTick, RefuseTick, ReadAnswer, SendStop, HangUp
  <2> QED
    BY <2>1, <2>2 DEF Conversation
<1>2. failure' # "none" => hostPc' \in {"hangup", "done"}
  BY FailureEnds DEF Conversation
<1>3. ASSUME exitStatus # "killed" PROVE InStep'
  <2>0. InStep
    BY <1>3 DEF Conversation
  <2>1. CASE Opening
    BY <2>0, <2>1, <1>0, OpeningInStep DEF InStep
  <2>2. CASE SendStart
    <3>1. hostPc' = "replay"
      BY <2>2 DEF SendStart, Goto
    <3>2. cellPc = "start" /\ fromCell = <<>> /\ toCell = <<>>
      BY <2>0, <2>2 DEF InStep, SendStart, Known, RuntimeKnows
    <3>3. fromCell' = fromCell /\ Len(toCell') = Len(toCell) + 1
      BY <2>2, SaidTypes DEF SendStart, Known
    <3>4. Len(toCell') = 1
      BY <3>2, <3>3, EmptySeq
    <3> QED
      BY <1>0, <2>0, <3>1, <3>2, <3>3, <3>4 DEF InStep, AtRest
  <2>3. CASE Reveal
    <3>1. hostPc = "replay" /\ hostPc' = "send" /\ UNCHANGED <<toCell, fromCell>>
      BY <2>3 DEF Reveal, Goto, wireVars
    <3>2. AtRest
      BY <2>0, <3>1 DEF InStep
    <3>3. AtRest'
      BY <1>0, <3>1, <3>2 DEF AtRest, Concluding
    <3> QED
      BY <3>1, <3>3 DEF InStep
  <2>4. CASE SendTick
    <3>1. hostPc = "send" /\ hostPc' = "answer"
      BY <2>4 DEF SendTick
    <3>2. Asked'
      BY <2>0, <2>4, <3>1, SendTickInStep DEF InStep
    <3> QED
      BY <3>1, <3>2 DEF InStep
  <2>5. CASE ReadAnswer
    <3>1. Asked
      BY <2>0, <2>5 DEF InStep, ReadAnswer
    <3>2. hostPc' \in {"replay", "stop", "hangup"} /\ (hostPc' = "replay" => AtRest')
      BY <2>5, <3>1, ReadAnswerInStep
    <3> QED
      BY <3>2 DEF InStep
  <2>6. CASE hostPc' \in {"stop", "hangup", "done"}
    BY <2>6 DEF InStep
  <2> QED
    BY <2>1, <2>2, <2>3, <2>4, <2>5, <2>6 DEF HostStep, Host, BreakPipe, RevealUnobservable,
       RefuseJournal, Exhaust, RefuseTick, SendStop, HangUp, Goto, Fail
<1> QED
  BY <1>0, <1>1, <1>2, <1>3 DEF Conversation

LEMMA SpeakingInStep ==
    ASSUME Known, InStep, Runtime,
           UNCHANGED <<gateVars, bookVars, talkVars, accepted>>,
           SendReady \/ SendDone \/ SendError \/ SendDecision
    PROVE  InStep'
<1>0. UNCHANGED <<hostPc, now, cellNow>> /\ toCell' = toCell /\ Len(fromCell) \in Nat
  BY LengthZero DEF gateVars, talkVars, SendReady, SendDone, SendError, SendDecision, Jump,
     CellWritesFrame, Known
<1>1. ASSUME NEW f \in Speaking, CellWritesFrame(f)
      PROVE  /\ Len(fromCell') = Len(fromCell) + 1
             /\ fromCell'[Len(fromCell) + 1] = f
             /\ \A k \in 1..Len(fromCell) : fromCell'[k] = fromCell[k]
             /\ fromCell' # <<>>
  <2>1. /\ Len(fromCell') = Len(fromCell) + 1
        /\ fromCell'[Len(fromCell) + 1] = f
        /\ \A k \in 1..Len(fromCell) : fromCell'[k] = fromCell[k]
    BY <1>1, SpokenTypes DEF Known
  <2>2. Len(fromCell') # 0
    BY <1>0, <2>1
  <2> QED
    BY <2>1, <2>2, EmptySeq
<1>2. CASE SendReady
  <2>1. \/ hostPc = "opening" /\ fromCell = <<>>
        \/ hostPc \notin {"opening", "start", "replay", "send", "answer"}
    BY <1>2 DEF SendReady, InStep, AtRest, Asked, Concluding, Out, Known, Types, HostPcs
  <2>2. Len(fromCell') = Len(fromCell) + 1 /\ fromCell'[Len(fromCell) + 1].m = "ready"
    BY <1>1, <1>2, FramesAreSpoken DEF SendReady, Known
  <2>3. cellPc' = "start"
    BY <1>2 DEF SendReady, Jump
  <2>4. fromCell = <<>> => Len(fromCell) = 0
    BY EmptySeq
  <2> QED
    BY <1>0, <2>1, <2>2, <2>3, <2>4 DEF InStep
<1>3. CASE SendDone \/ SendError
  <2>1. /\ Len(fromCell') = Len(fromCell) + 1
        /\ fromCell'[Len(fromCell) + 1].m \in {"done", "error"}
        /\ \A k \in 1..Len(fromCell) : fromCell'[k] = fromCell[k]
        /\ fromCell' # <<>>
    BY <1>1, <1>3, FramesAreSpoken DEF SendDone, SendError, Known
  <2>2. cellPc \in {"done", "error"} /\ cellPc' \in {"exit0", "exit1"}
    BY <1>3 DEF SendDone, SendError, Jump, Exits
  <2>3. ASSUME NEW n \in {0, 1}, Concluding(n) PROVE Concluding(n)'
    <3>1. Len(fromCell) = n
      BY <2>2, <2>3 DEF Concluding
    <3> QED
      BY <2>1, <2>2, <3>1 DEF Concluding
  <2>4. hostPc \notin {"opening", "start"}
    BY <2>2 DEF InStep
  <2>5. AtRest => AtRest'
    BY <2>2, <2>3 DEF AtRest
  <2>6. Asked => Asked'
    <3>1. CASE Concluding(0)
      BY <2>3, <3>1 DEF Asked
    <3>2. CASE /\ fromCell # <<>> /\ fromCell[1].m = "decision" /\ fromCell[1].now = now
               /\ Concluding(1)
      <4>1. fromCell'[1] = fromCell[1]
        <5>1. Len(fromCell) # 0
          BY <3>2, LengthZero DEF Known
        <5>2. 1 \in 1..Len(fromCell)
          BY <1>0, <5>1
        <5> QED
          BY <2>1, <5>2
      <4> QED
        BY <1>0, <2>1, <2>3, <3>2, <4>1 DEF Asked
    <3> QED
      BY <2>2, <3>1, <3>2 DEF Asked
  <2> QED
    BY <1>0, <2>4, <2>5, <2>6 DEF InStep
<1>4. CASE SendDecision
  <2>1. cellPc = "answer" /\ cellPc' \in {"next"} \union Out
    BY <1>4, RuntimeGoes DEF SendDecision, Known, Goings, Exits, Out
  <2>2. hostPc \in {"opening", "start", "replay", "send", "answer"} =>
           hostPc = "answer" /\ fromCell = <<>> /\ toCell = <<>> /\ cellNow = now
    BY <2>1 DEF InStep, AtRest, Asked, Concluding, Out
  <2>3. /\ Len(fromCell') = Len(fromCell) + 1 /\ fromCell' # <<>>
        /\ fromCell'[Len(fromCell) + 1].m = "decision"
        /\ fromCell'[Len(fromCell) + 1].now = cellNow
    BY <1>1, <1>4, FramesAreSpoken DEF SendDecision, Known
  <2>4. fromCell = <<>> => Asked' \/ cellNow # now \/ toCell # <<>>
    <3> SUFFICES ASSUME fromCell = <<>>, cellNow = now, toCell = <<>> PROVE Asked'
      OBVIOUS
    <3>1. Len(fromCell) = 0
      BY EmptySeq
    <3>2. /\ Len(fromCell') = 1 /\ fromCell' # <<>> /\ fromCell'[1].m = "decision"
          /\ fromCell'[1].now = now'
      BY <1>0, <2>3, <3>1
    <3>3. (cellPc' = "next" /\ Len(fromCell') = 1 /\ toCell' = <<>>) \/ Concluding(1)'
      BY <1>0, <2>1, <3>2 DEF Concluding, Out
    <3> QED
      BY <3>2, <3>3 DEF Asked
  <2> QED
    BY <1>0, <2>2, <2>4 DEF InStep
<1> QED
  BY <1>2, <1>3, <1>4

LEMMA ListeningInStep ==
    ASSUME Known, InStep, Runtime,
           UNCHANGED <<gateVars, bookVars, talkVars, accepted>>,
           ReadStart \/ NextTick
    PROVE  InStep'
<1>0. UNCHANGED <<hostPc, now>> /\ Len(toCell) \in Nat
  BY LengthZero DEF gateVars, talkVars, Known
<1>1. /\ Told = toCell[1] /\ Len(toCell) # 0 /\ toCell # <<>> /\ Len(toCell') = Len(toCell) - 1
      /\ \A k \in 1..(Len(toCell) - 1) : toCell'[k] = toCell[k + 1]
      /\ (toCell' = <<>> <=> Len(toCell) = 1) /\ fromCell' = fromCell
  BY ToldTypes DEF ReadStart, NextTick, Known, CellReadsFrame
<1>2. hostPc \notin {"opening", "start"}
  BY <1>1 DEF Known, RuntimeKnows
<1>3. CASE ReadStart
  <2>1. cellPc = "start" /\ cellPc' = "opening" /\ cellNow' = cellNow
    BY <1>1, <1>3 DEF ReadStart, Jump, Known, RuntimeKnows
  <2>2. AtRest => AtRest'
    BY <1>1, <2>1 DEF AtRest, Concluding, Out
  <2>3. Asked => Asked'
    <3>1. Asked => TickIs(2) /\ fromCell = <<>>
      BY <2>1 DEF Asked, Concluding, Out
    <3>2. TickIs(2) => TickIs(1)'
      <4>1. Len(toCell) = 2 => Len(toCell') = 1 /\ toCell'[1] = toCell[2]
        BY <1>1
      <4> QED
        BY <1>0, <4>1 DEF TickIs
    <3> QED
      BY <1>1, <2>1, <3>1, <3>2 DEF Asked
  <2> QED
    BY <1>0, <1>2, <2>2, <2>3 DEF InStep
<1>4. CASE NextTick
  <2>1. cellPc = "next"
    BY <1>4 DEF NextTick
  <2>2. ~AtRest
    BY <1>1, <2>1 DEF AtRest, Concluding, Out
  <2>3. Asked => Asked'
    <3>1. Asked => TickIs(1) /\ fromCell = <<>>
      BY <1>1, <2>1 DEF Asked, Concluding, Out
    <3>2. TickIs(1) => toCell' = <<>> /\ cellPc' = "body" /\ cellNow' = now
      BY <1>1, <1>4 DEF NextTick, TickIs
    <3> QED
      BY <1>0, <1>1, <3>1, <3>2 DEF Asked
  <2> QED
    BY <1>0, <1>2, <2>2, <2>3 DEF InStep
<1> QED
  BY <1>3, <1>4

LEMMA ThinkingInStep ==
    ASSUME Known, InStep, Runtime,
           UNCHANGED <<gateVars, bookVars, talkVars, accepted>>,
           EnterStrategy \/ MakeMove \/ CellExit
    PROVE  InStep'
<1>0. UNCHANGED <<hostPc, now, cellNow, fromCell>> /\ (fromCell = <<>> <=> Len(fromCell) = 0)
  BY LengthZero DEF gateVars, talkVars, EnterStrategy, MakeMove, CellExit, Leave, CellEndsClose,
     Jump, wireVars, Known
<1>1. CASE EnterStrategy
  <2>1. cellPc = "opening" /\ cellPc' \in {"next"} \union Out /\ toCell' = toCell
    BY <1>1, RuntimeGoes DEF EnterStrategy, wireVars, Known, Goings, Exits, Out
  <2>2. hostPc \notin {"opening", "start"}
    BY <2>1 DEF InStep
  <2>3. AtRest => AtRest'
    BY <1>0, <2>1 DEF AtRest, Concluding, Out
  <2>4. Asked => Asked'
    <3>1. Asked => fromCell = <<>> /\ TickIs(1)
      BY <2>1 DEF Asked, Concluding, Out
    <3>2. TickIs(1) => TickIs(1)'
      BY <1>0, <2>1 DEF TickIs
    <3>3. fromCell = <<>> => cellPc' = "next" \/ Concluding(0)'
      BY <1>0, <2>1 DEF Concluding, Out
    <3> QED
      BY <1>0, <3>1, <3>2, <3>3 DEF Asked
  <2> QED
    BY <1>0, <2>2, <2>3, <2>4 DEF InStep
<1>2. CASE MakeMove
  <2>1. cellPc = "body" /\ cellPc' \in {"nested", "answer"} \union Out /\ toCell' = toCell
    BY <1>2, StrategyIs DEF MakeMove, wireVars, Known, Goings, Exits, Out
  <2>2. hostPc \notin {"opening", "start"} /\ ~AtRest
    BY <2>1 DEF InStep, AtRest, Concluding, Out
  <2>3. Asked => Asked'
    <3>1. Asked => fromCell = <<>> /\ toCell = <<>> /\ cellNow = now
      BY <2>1 DEF Asked, Concluding, Out
    <3>2. fromCell = <<>> => cellPc' \in {"nested", "answer"} \/ Concluding(0)'
      BY <1>0, <2>1 DEF Concluding, Out
    <3> QED
      BY <1>0, <2>1, <3>1, <3>2 DEF Asked
  <2> QED
    BY <1>0, <2>2, <2>3 DEF InStep
<1>3. CASE CellExit
  <2>1. cellPc \in {"exit0", "exit1"} /\ cellPc' = "gone"
    BY <1>3 DEF CellExit, Leave
  <2>2. \A n \in {0, 1} : Concluding(n) => Concluding(n)'
    BY <1>0, <2>1 DEF Concluding, Out
  <2>3. hostPc \notin {"opening", "start"}
    BY <2>1 DEF InStep
  <2>4. AtRest => AtRest'
    BY <2>1, <2>2 DEF AtRest
  <2>5. Asked => Asked'
    BY <1>0, <2>1, <2>2 DEF Asked
  <2> QED
    BY <1>0, <2>3, <2>4, <2>5 DEF InStep
<1> QED
  BY <1>1, <1>2, <1>3

LEMMA RuntimeKeepsStep ==
    ASSUME Known, Conversation, Runtime \/ Killed,
           UNCHANGED <<gateVars, bookVars, talkVars, accepted>>, outlasted' = outlasted
    PROVE  Conversation'
<1>0. UNCHANGED <<hostPc, failure, hostEnd>> /\ cellPc # "gone" /\ ~outlasted
  BY DEF talkVars, Runtime, Killed, SendReady, ReadStart, EnterStrategy, NextTick, TicksEnd,
     CellReadsEOF, MakeMove, SendDecision, SendDone, SendError, CellExit, Leave, CellWritesFrame,
     CellReadsFrame, CellEndsClose, wireVars, Conversation
<1>1. CASE Killed
  BY <1>0, <1>1 DEF Killed, Leave, Conversation
<1>2. CASE Runtime
  <2>1. exitStatus # "killed" /\ exitStatus' # "killed"
    <3>1. exitStatus # "killed"
      BY <1>0 DEF Conversation
    <3> QED
      BY <1>2, <3>1 DEF Runtime, SendReady, ReadStart, EnterStrategy, NextTick, TicksEnd,
         MakeMove, SendDecision, SendDone, SendError, CellExit, Leave, Jump
  <2>2. InStep'
    <3>1. CASE TicksEnd
      BY <1>0, <3>1 DEF TicksEnd, CellReadsEOF, Conversation, InStep
    <3> QED
      BY <1>2, <2>1, <3>1, SpeakingInStep, ListeningInStep, ThinkingInStep
         DEF Conversation, Runtime
  <2> QED
    BY <1>0, <2>1, <2>2 DEF Conversation
<1> QED
  BY <1>1, <1>2

LEMMA InitConversation == Init => Conversation
BY DEF Init, FeederInit, WireInit, MarketInit, Conversation, InStep

LEMMA NextConversation == Known /\ Known' /\ Conversation /\ [Next]_vars => Conversation'
<1> SUFFICES ASSUME Known, Known', Conversation, [Next]_vars PROVE Conversation'
  OBVIOUS
<1>1. CASE GiveUp
  <2>1. InStep => InStep'
    BY <1>1, GivingUp DEF InStep, AtRest, Asked, TickIs, Concluding
  <2> QED
    BY <1>1, <2>1, GivingUp DEF Conversation
<1>2. CASE Bystander /\ outlasted' = outlasted
  <2>1. UNCHANGED <<exitStatus, cellPc, cellNow, hostEnd, hostPc, failure, now, toCell, fromCell>>
    BY <1>2 DEF Bystander, feederVars, marketVars, wireVars, gateVars, talkVars
  <2> QED
    BY <1>2, <2>1 DEF Conversation, InStep, AtRest, Asked, TickIs, Concluding
<1> QED
  BY <1>1, <1>2, HostKeepsStep, RuntimeKeepsStep, StepKinds

-----------------------------------------------------------------------------
(* The place of a number among the members of a finite set.                  *)

Upto(T, i)  == {j \in T : j <= i}
Place(T, i) == Cardinality(Upto(T, i))

LEMMA PlaceType ==
    ASSUME NEW T, T \subseteq Nat, IsFiniteSet(T), NEW i \in Nat
    PROVE  /\ IsFiniteSet(Upto(T, i))
           /\ Cardinality(T) \in Nat
           /\ Place(T, i) \in 0..Cardinality(T)
           /\ i \in T => Place(T, i) \in 1..Cardinality(T)
<1>1. Upto(T, i) \subseteq T
  BY DEF Upto
<1>2. IsFiniteSet(Upto(T, i)) /\ Cardinality(Upto(T, i)) <= Cardinality(T)
  BY <1>1, FS_Subset
<1>3. Cardinality(T) \in Nat /\ Cardinality(Upto(T, i)) \in Nat
  BY <1>2, FS_CardinalityType
<1>4. ASSUME i \in T PROVE Cardinality(Upto(T, i)) # 0
  <2>1. i \in Upto(T, i)
    BY <1>4 DEF Upto
  <2> QED
    BY <1>2, <2>1, FS_EmptySet
<1> QED
  BY <1>2, <1>3, <1>4 DEF Place

LEMMA PlaceIncreases ==
    ASSUME NEW T, T \subseteq Nat, IsFiniteSet(T), NEW i \in T, NEW j \in T, i < j
    PROVE  Place(T, i) < Place(T, j)
<1>0. i \in Nat /\ j \in Nat /\ \A l \in T : l \in Nat
  OBVIOUS
<1>1. Upto(T, i) \subseteq Upto(T, j) /\ j \in Upto(T, j) /\ j \notin Upto(T, i)
  <2>1. \A l, n : l \in Upto(T, n) <=> l \in T /\ l <= n
    BY Zenon DEF Upto
  <2>2. \A l \in T : l <= i => l <= j
    BY <1>0
  <2>3. j <= j /\ ~(j <= i)
    BY <1>0
  <2> QED
    BY <2>1, <2>2, <2>3, Zenon
<1>2. IsFiniteSet(Upto(T, j)) /\ IsFiniteSet(Upto(T, i))
  BY <1>0, PlaceType
<1>3. /\ Cardinality(Upto(T, i)) <= Cardinality(Upto(T, j))
      /\ Cardinality(Upto(T, i)) # Cardinality(Upto(T, j))
  BY <1>1, <1>2, FS_Subset
<1> QED
  BY <1>2, <1>3, FS_CardinalityType DEF Place

LEMMA PlacesAreOrdered ==
    ASSUME NEW T, T \subseteq Nat, IsFiniteSet(T), NEW i \in T, NEW j \in T
    PROVE  /\ Place(T, i) < Place(T, j) <=> i < j
           /\ Place(T, i) = Place(T, j) <=> i = j
<1>0. i \in Nat /\ j \in Nat
  OBVIOUS
<1>1. Place(T, i) \in Nat /\ Place(T, j) \in Nat
  BY <1>0, PlaceType, FS_CardinalityType DEF Place
<1>2. i < j => Place(T, i) < Place(T, j)
  BY PlaceIncreases
<1>3. j < i => Place(T, j) < Place(T, i)
  BY PlaceIncreases
<1> QED
  BY <1>0, <1>1, <1>2, <1>3

(* Every place is taken: if one were not, the members would be too many for  *)
(* the others.                                                               *)
LEMMA PlaceIsTaken ==
    ASSUME NEW T, T \subseteq Nat, IsFiniteSet(T), NEW k \in 1..Cardinality(T)
    PROVE  \E i \in T : Place(T, i) = k
<1> SUFFICES ASSUME \A i \in T : Place(T, i) # k PROVE FALSE
  OBVIOUS
<1> DEFINE Others == (1..Cardinality(T)) \ {k}
           f == [i \in T |-> Place(T, i)]
<1>1. Cardinality(T) \in Nat
  BY FS_CardinalityType
<1>2. IsFiniteSet(1..Cardinality(T)) /\ Cardinality(1..Cardinality(T)) = Cardinality(T)
  BY <1>1, FS_Interval
<1>3. IsFiniteSet(Others) /\ Cardinality(Others) = Cardinality(T) - 1
  BY <1>2, FS_RemoveElement
<1>4. f \in [T -> Others]
  BY PlaceType
<1> HIDE DEF Others, f
<1>5. Cardinality(Others) < Cardinality(T)
  BY <1>1, <1>3
<1>6. \E i, j \in T : i # j /\ f[i] = f[j]
  BY <1>3, <1>4, <1>5, FS_PigeonHole
<1> QED
  BY <1>6, PlacesAreOrdered DEF f

(* So a finite set that is not empty has a greatest member.                  *)
LEMMA GreatestExists ==
    ASSUME NEW T, T \subseteq Nat, IsFiniteSet(T), T # {}
    PROVE  \E i \in T : \A j \in T : j <= i
<1>1. Cardinality(T) \in Nat /\ Cardinality(T) # 0
  BY FS_CardinalityType, FS_EmptySet
<1>2. Cardinality(T) \in 1..Cardinality(T)
  BY <1>1
<1>3. PICK i \in T : Place(T, i) = Cardinality(T)
  BY <1>2, PlaceIsTaken
<1>4. ASSUME NEW j \in T PROVE j <= i
  <2>1. i \in Nat /\ j \in Nat
    OBVIOUS
  <2>2. Place(T, j) \in 1..Cardinality(T)
    BY <2>1, PlaceType
  <2>3. ~(Place(T, i) < Place(T, j))
    BY <1>1, <1>3, <2>2
  <2>4. i < j => Place(T, i) < Place(T, j)
    BY PlaceIncreases
  <2> QED
    BY <2>1, <2>3, <2>4
<1> QED
  BY <1>4

-----------------------------------------------------------------------------
(* What a run comes to is determined by the strategy and the journal.        *)

(* How many events there are up to a line.                                   *)
Rank(t) == Place(EventLines, t)

Conversing == {"opening", "start", "replay", "send", "answer"}
Leaving    == {"exit0", "exit1", "gone"}

(* The strategy returned at its n-th tick, or before its first.              *)
Left(n) ==
    \/ strategy.opening = "done" /\ n = 0
    \/ strategy.opening = "next" /\ n >= 1 /\ Stops(n)

Said(ms) == \E k \in 1..Len(fromCell) : fromCell[k].m \in ms

(* Who says `done` while the conversation lasts has left; who says `error`,  *)
(* or leaves without a word, chose to.                                       *)
Farewell ==
    /\ cellPc \notin Out => ~Said({"done", "error"})
    /\ hostPc \in Conversing =>
          /\ cellPc = "done" \/ Said({"done"}) => Left(ticksSeen)
          /\ cellPc = "error" \/ Said({"error"}) => Took({"error"})
          /\ cellPc \in Leaving => Said({"done", "error"}) \/ Took(Exits)

Answering == fromCell # <<>> /\ fromCell[1].m = "decision"

(* Ticks sent, ticks seen and ticks answered.                                *)
Tally ==
    /\ ticksSent \in Nat
    /\ hostPc \in {"opening", "start"} => ticksSent = 0
    /\ hostPc \in {"replay", "send"} => ticksSeen = ticksSent /\ ~Abandons(ticksSeen)
    /\ hostPc = "answer" =>
          /\ ticksSent >= 1
          /\ ticksSeen = ticksSent \/ ticksSeen = ticksSent - 1
          /\ Answering =>
                /\ ticksSeen = ticksSent /\ ~Abandons(ticksSeen)
                /\ fromCell[1].orders = Placed(ticksSent)
          /\ cellPc \in {"body", "nested", "answer"} => ticksSeen = ticksSent
          /\ cellPc \in {"start", "opening", "next"} /\ ~Answering => ticksSeen = ticksSent - 1
          /\ cellPc \in Out /\ ~Answering => (ticksSeen = ticksSent <=> Abandons(ticksSeen))

(* How a conversation ended that nothing failed: the journal ran out, or the *)
(* strategy left, at a tick it answered or did not.                          *)
Exhausted ==
    /\ ticksSent = TickCount /\ StaysUntil(ticksSent) /\ ~Abandons(ticksSent)
    /\ ticksSent >= 1 => strategy.opening = "next"

Departed ==
    \E n \in {ticksSent - 1, ticksSent} :
        n \in Nat /\ Left(n) /\ StaysUntil(n) /\ (n = ticksSent <=> Abandons(n))

Ended ==
    hostPc \notin Conversing => IF exhausted THEN Exhausted ELSE Departed

(* The gate, in ticks.                                                       *)
Gating ==
    /\ exhausted => hostPc \notin Conversing
    /\ Rank(cursor) = ticksSent + (IF hostPc = "send" THEN 1 ELSE 0)
    /\ hostPc \in {"opening", "start"} => cursor = 0
    /\ cursor \in EventLines \union {0}
    /\ hostPc \in {"send", "answer"} => cursor \in EventLines

(* The books: every order of an answered tick, once; filled at the first     *)
(* trade after it, or waiting while there is none.                           *)
AnsweredLines ==
    {t \in EventLines : t < cursor \/ (t = cursor /\ (hostPc = "replay" \/ exhausted))}

Quiet(a, b) == \A i \in EventLines : a < i /\ i <= b => journal[i].type # "trade"

(* The order o is the one its tick and its place in the decision say.        *)
Is(o, t, n) == o.tick = t /\ o.nth = n

Placing(o) ==
    /\ o.nth \in 1..Len(Placed(Rank(o.tick)))
    /\ o.side = Placed(Rank(o.tick))[o.nth].side
    /\ o.size = Placed(Rank(o.tick))[o.nth].size

FilledIn(fs, answered, c) ==
    \A k \in 1..Len(fs) :
        LET o == fs[k].order  i == fs[k].trade IN
            /\ o.tick \in answered /\ Placing(o)
            /\ i \in EventLines /\ journal[i].type = "trade"
            /\ o.tick < i /\ i <= c /\ Quiet(o.tick, i - 1)

WaitingIn(ps, answered, c) ==
    \A k \in 1..Len(ps) :
        ps[k].tick \in answered /\ Placing(ps[k]) /\ Quiet(ps[k].tick, c)

OnceIn(fs, ps) ==
    /\ \A k, l \in 1..Len(fs) : Is(fs[k].order, fs[l].order.tick, fs[l].order.nth) => k = l
    /\ \A k, l \in 1..Len(ps) : Is(ps[k], ps[l].tick, ps[l].nth) => k = l
    /\ \A k \in 1..Len(fs), l \in 1..Len(ps) : ~Is(fs[k].order, ps[l].tick, ps[l].nth)

NoneMissingIn(fs, ps, answered) ==
    \A t \in answered : \A n \in 1..Len(Placed(Rank(t))) :
        \/ \E k \in 1..Len(fs) : Is(fs[k].order, t, n)
        \/ \E k \in 1..Len(ps) : Is(ps[k], t, n)

BooksAre(fs, ps, answered, c) ==
    /\ FilledIn(fs, answered, c) /\ WaitingIn(ps, answered, c)
    /\ OnceIn(fs, ps) /\ NoneMissingIn(fs, ps, answered)

Books == BooksAre(fills, pending, AnsweredLines, cursor)

Undisturbed == exitStatus # "killed" /\ failure = "none"

Determined ==
    Undisturbed =>
        Farewell /\ Tally /\ Ended /\ Gating /\ Books

Concluded ==
    /\ outcome # "none" => cellPc = "gone" /\ (hostPc = "done" \/ outlasted)
    /\ outcome \in RanOutcomes /\ ~outlasted =>
          /\ exitStatus = "0" /\ failure = "none"
          /\ outcome = IF exhausted THEN "completed" ELSE "stopped_early"

LEMMA EventLinesAre ==
    ASSUME Types
    PROVE  /\ EventLines \subseteq Nat \ {0} /\ IsFiniteSet(EventLines)
           /\ TickCount \in Nat
           /\ \A i \in EventLines : i \in 1..Len(journal)
           /\ Len(journal) \in Nat
<1>1. Len(journal) \in Nat
  BY JournalsAssumption DEF Types, IsJournal
<1>2. EventLines \subseteq 1..Len(journal)
  BY DEF EventLines
<1>3. IsFiniteSet(1..Len(journal))
  BY <1>1, FS_Interval
<1>4. IsFiniteSet(EventLines)
  BY <1>2, <1>3, FS_Subset
<1> QED
  BY <1>1, <1>2, <1>4, FS_CardinalityType DEF TickCount

LEMMA RanksAre ==
    ASSUME Types
    PROVE  /\ \A i \in EventLines : Rank(i) \in 1..TickCount
           /\ \A i, j \in EventLines : Rank(i) < Rank(j) <=> i < j
           /\ \A i, j \in EventLines : Rank(i) = Rank(j) <=> i = j
<1>1. EventLines \subseteq Nat /\ IsFiniteSet(EventLines)
  BY EventLinesAre
<1>2. ASSUME NEW i \in EventLines PROVE Rank(i) \in 1..TickCount
  BY <1>1, PlaceType DEF Rank, TickCount
<1>3. ASSUME NEW i \in EventLines, NEW j \in EventLines
      PROVE  (Rank(i) < Rank(j) <=> i < j) /\ (Rank(i) = Rank(j) <=> i = j)
  BY <1>1, PlacesAreOrdered DEF Rank
<1> QED
  BY <1>2, <1>3

LEMMA LineOfIs ==
    ASSUME Types, NEW k \in 1..TickCount
    PROVE  LineOf(k) \in EventLines /\ Rank(LineOf(k)) = k
<1>1. EventLines \subseteq Nat /\ IsFiniteSet(EventLines)
  BY EventLinesAre
<1>2. \E i \in EventLines : Rank(i) = k
  BY <1>1, PlaceIsTaken DEF Rank, TickCount
<1>3. LineOf(k) = CHOOSE i \in EventLines : Rank(i) = k
  BY Zenon DEF LineOf, Rank, Place, Upto
<1> QED
  BY <1>2, <1>3

LEMMA LineOfRank ==
    ASSUME Types, NEW t \in EventLines
    PROVE  LineOf(Rank(t)) = t
<1>1. Rank(t) \in 1..TickCount
  BY RanksAre
<1>2. LineOf(Rank(t)) \in EventLines /\ Rank(LineOf(Rank(t))) = Rank(t)
  BY <1>1, LineOfIs
<1> QED
  BY <1>2, RanksAre

(* The trade before a line is not after t when all is quiet between the two. *)
LEMMA QuietIs ==
    ASSUME Types, NEW i \in EventLines, NEW t \in Nat
    PROVE  PrecedingTrade(i) <= t <=> Quiet(t, i - 1)
<1> DEFINE before == {l \in EventLines : l < i /\ journal[l].type = "trade"}
<1>1. /\ EventLines \subseteq Nat /\ IsFiniteSet(EventLines) /\ i \in Nat
      /\ \A l \in EventLines : l \in Nat
  BY EventLinesAre
<1>2. \A l \in EventLines : l <= i - 1 <=> l < i
  BY <1>1
<1>3. \A l \in EventLines : t < l <=> ~(l <= t)
  BY <1>1
<1>4. Quiet(t, i - 1) <=> \A l \in before : l <= t
  BY <1>2, <1>3 DEF Quiet
<1>5. PrecedingTrade(i) =
         IF before = {} THEN 0 ELSE CHOOSE l \in before : \A o \in before : o <= l
  BY DEF PrecedingTrade
<1>6. before \subseteq Nat /\ IsFiniteSet(before)
  <2>1. before \subseteq EventLines
    OBVIOUS
  <2> QED
    BY <1>1, <2>1, FS_Subset
<1> HIDE DEF before
<1>7. CASE before = {}
  BY <1>4, <1>5, <1>7
<1>8. CASE before # {}
  <2>1. \E l \in before : \A o \in before : o <= l
    BY <1>6, <1>8, GreatestExists
  <2>2. /\ PrecedingTrade(i) \in before
        /\ \A o \in before : o <= PrecedingTrade(i)
    BY <1>5, <1>8, <2>1
  <2>3. PrecedingTrade(i) \in Nat /\ \A o \in before : o \in Nat
    BY <1>6, <2>2
  <2> QED
    BY <1>4, <2>2, <2>3
<1> QED
  BY <1>7, <1>8

-----------------------------------------------------------------------------
(* The runtime's steps.                                                      *)
LEMMA RuntimeLeaves ==
    ASSUME Runtime, UNCHANGED <<gateVars, bookVars, talkVars, accepted>>
    PROVE  UNCHANGED <<strategy, journal, cursor, now, fills, pending, hostPc, ticksSent, exhausted,
                       failure>>
BY DEF Runtime, SendReady, ReadStart, EnterStrategy, NextTick, TicksEnd, MakeMove, SendDecision,
       SendDone, SendError, CellExit, Leave, Jump, gateVars, bookVars, talkVars

(* What is said of a tick changes with the tick only.                        *)
LEMMA StrategyStays ==
    ASSUME strategy' = strategy
    PROVE  /\ \A k : Goes(k)' = Goes(k') /\ Placed(k)' = Placed(k')
           /\ \A k : Stops(k)' = Stops(k') /\ Abandons(k)' = Abandons(k')
           /\ \A k : StaysUntil(k)' = StaysUntil(k') /\ Left(k)' = Left(k')
BY DEF Goes, MoveOf, Placed, OrdersOf, Stops, Abandons, StaysUntil, Left

(* While the conversation lasts, the runtime is not told to stop.            *)
LEMMA NoStopYet ==
    ASSUME Known, InStep, hostPc \in Conversing, NextTick
    PROVE  /\ hostPc = "answer" /\ fromCell = <<>>
           /\ cellPc' = "body" /\ ticksSeen' = ticksSeen + 1
<1>1. toCell # <<>> /\ cellPc = "next" /\ Told = toCell[1]
  BY ToldTypes DEF NextTick, CellReadsFrame, Known
<1>2. hostPc = "answer" /\ Asked
  BY <1>1 DEF InStep, Conversing, AtRest, Concluding, Out
<1>3. fromCell = <<>> /\ toCell[1].m = "tick"
  BY <1>1, <1>2 DEF Asked, Concluding, Out, TickIs
<1> QED
  BY <1>1, <1>2, <1>3 DEF NextTick

LEMMA NoEndYet ==
    ASSUME Conversation, hostPc \in Conversing
    PROVE  ~TicksEnd
BY DEF TicksEnd, CellReadsEOF, Conversation, Conversing

(* It takes the way the strategy takes.                                      *)
LEMMA GoingIs ==
    ASSUME Known, EnterStrategy \/ MakeMove \/ SendDecision, cellPc' \in Out
    PROVE  /\ ticksSeen' = ticksSeen
           /\ cellPc' = "done" => Left(ticksSeen)
           /\ \A ways : cellPc' \in ways => Took(ways)
<1>1. CASE EnterStrategy
  BY <1>1 DEF EnterStrategy, Known, Path, Left, Took
<1>2. CASE MakeMove \/ SendDecision
  <2>1. /\ ticksSeen' = ticksSeen /\ ticksSeen \in Nat /\ ticksSeen >= 1
        /\ strategy.opening = "next" /\ cellPc' = Goes(ticksSeen)
    BY <1>2 DEF MakeMove, SendDecision, Known, Path, Goes, Out
  <2>2. ticksSeen \in 1..ticksSeen
    BY <2>1
  <2> QED
    BY <2>1, <2>2 DEF Left, Stops, Took
<1> QED
  BY <1>1, <1>2

LEMMA TookStays ==
    ASSUME strategy' = strategy, ticksSeen \in Nat, ticksSeen' \in {ticksSeen, ticksSeen + 1},
           NEW ways, Took(ways)
    PROVE  Took(ways)'
<1>1. \A k : Goes(k)' = Goes(k')
  BY StrategyStays
<1>2. \A k \in 1..ticksSeen : k \in 1..ticksSeen'
  OBVIOUS
<1> QED
  BY <1>1, <1>2 DEF Took

LEMMA SaidBy ==
    ASSUME Known, Runtime, NEW ms, "ready" \notin ms, "decision" \notin ms
    PROVE  /\ Said(ms) => Said(ms)'
           /\ Said(ms)' => \/ Said(ms)
                           \/ "done" \in ms /\ SendDone
                           \/ "error" \in ms /\ SendError
           /\ SendDone /\ "done" \in ms => Said(ms)'
           /\ SendError /\ "error" \in ms => Said(ms)'
<1>0. Len(fromCell) \in Nat
  BY LengthZero DEF Known
<1>1. ASSUME NEW f \in Speaking, CellWritesFrame(f)
      PROVE  Said(ms)' <=> Said(ms) \/ f.m \in ms
  <2>1. /\ Len(fromCell') = Len(fromCell) + 1
        /\ \A k \in 1..Len(fromCell) : fromCell'[k] = fromCell[k]
        /\ fromCell'[Len(fromCell) + 1] = f
    BY <1>1, SpokenTypes DEF Known
  <2>2. \A k : k \in 1..Len(fromCell') <=> k \in 1..Len(fromCell) \/ k = Len(fromCell) + 1
    BY <1>0, <2>1
  <2>3. (\E k \in 1..Len(fromCell') : fromCell'[k].m \in ms)
           <=> (\E k \in 1..Len(fromCell) : fromCell[k].m \in ms) \/ f.m \in ms
    BY <2>1, <2>2
  <2> QED
    BY <2>3 DEF Said
<1>2. /\ \A m \in {"ready", "done", "error"} : Frame(m) \in Speaking /\ Frame(m).m = m
      /\ Decision \in Speaking /\ Decision.m = "decision"
  BY FramesAreSpoken DEF Known
<1>3. CASE SendReady
  BY <1>1, <1>2, <1>3 DEF SendReady, SendDone, SendError
<1>4. CASE SendDone
  BY <1>1, <1>2, <1>4 DEF SendDone, SendError
<1>5. CASE SendError
  BY <1>1, <1>2, <1>5 DEF SendDone, SendError
<1>6. CASE SendDecision
  BY <1>1, <1>2, <1>6 DEF SendDecision, SendDone, SendError
<1>7. CASE ~SendReady /\ ~SendDone /\ ~SendError /\ ~SendDecision
  <2>1. fromCell' = fromCell
    BY <1>7 DEF Runtime, ReadStart, EnterStrategy, NextTick, TicksEnd, CellReadsEOF,
       CellReadsFrame, MakeMove, CellExit, Leave, CellEndsClose, wireVars
  <2> QED
    BY <1>7, <2>1 DEF Said
<1> QED
  BY <1>3, <1>4, <1>5, <1>6, <1>7

LEMMA FarewellStep ==
    ASSUME Known, Conversation, InStep, Farewell, Runtime,
           UNCHANGED <<gateVars, bookVars, talkVars, accepted>>
    PROVE  Farewell'
<1>0. /\ strategy' = strategy /\ hostPc' = hostPc /\ ticksSeen \in Nat
      /\ cellPc # "gone"
  BY RuntimeLeaves DEF Known, Path, Runtime, SendReady, ReadStart, EnterStrategy, NextTick,
     TicksEnd, MakeMove, SendDecision, SendDone, SendError, CellExit
<1>1. ticksSeen' \in {ticksSeen, ticksSeen + 1}
  BY DEF Runtime, SendReady, ReadStart, EnterStrategy, NextTick, TicksEnd, MakeMove,
         SendDecision, SendDone, SendError, CellExit, Leave, Jump
<1>2. cellPc \in Out => cellPc' \in Leaving /\ ticksSeen' = ticksSeen
  BY DEF Out, Leaving, Exits, Runtime, SendReady, ReadStart, EnterStrategy, NextTick, TicksEnd,
         MakeMove, SendDecision, SendDone, SendError, CellExit, Leave, Jump
<1>3. SendDone \/ SendError => cellPc \in Out /\ cellPc \in {"done", "error"}
  BY DEF SendDone, SendError, Out
<1>4. /\ SendDone => cellPc = "done" /\ Said({"done"})' /\ Said({"done", "error"})'
      /\ SendError => cellPc = "error" /\ Said({"error"})' /\ Said({"done", "error"})'
      /\ Said({"done"})' => Said({"done"}) \/ SendDone
      /\ Said({"error"})' => Said({"error"}) \/ SendError
      /\ Said({"done", "error"})' => Said({"done", "error"}) \/ SendDone \/ SendError
      /\ Said({"done", "error"}) => Said({"done", "error"})'
  BY SaidBy DEF SendDone, SendError
<1>5. Said({"done"}) \/ Said({"error"}) => Said({"done", "error"})
  BY DEF Said
<1>6. cellPc' \notin Out => ~Said({"done", "error"})'
  BY <1>2, <1>3, <1>4 DEF Farewell, Out, Leaving
<1>7. ASSUME hostPc \in Conversing
      PROVE  /\ cellPc' = "done" \/ Said({"done"})' => Left(ticksSeen)'
             /\ cellPc' = "error" \/ Said({"error"})' => Took({"error"})'
             /\ cellPc' \in Leaving => Said({"done", "error"})' \/ Took(Exits)'
  <2>1. /\ Took({"error"}) => Took({"error"})'
        /\ Took(Exits) => Took(Exits)'
    BY <1>0, <1>1, TookStays
  <2>2. Left(ticksSeen) /\ ticksSeen' = ticksSeen => Left(ticksSeen)'
    BY <1>0, StrategyStays
  <2>3. CASE cellPc \in Out
    <3>0. /\ cellPc' \in Leaving /\ cellPc' # "done" /\ cellPc' # "error"
          /\ ticksSeen' = ticksSeen
      BY <1>2, <2>3 DEF Leaving
    <3>1. SendDone \/ SendError \/ CellExit
      BY <2>3 DEF Out, Runtime, SendReady, ReadStart, EnterStrategy, NextTick, TicksEnd, MakeMove,
         SendDecision
    <3>2. CASE SendDone \/ SendError
      BY <1>4, <1>7, <2>1, <2>2, <3>0, <3>2 DEF Farewell
    <3>3. CASE CellExit /\ ~SendDone /\ ~SendError
      <4>1. cellPc \in Leaving
        BY <3>3 DEF CellExit, Leaving
      <4> QED
        BY <1>4, <1>7, <2>1, <2>2, <3>0, <3>3, <4>1 DEF Farewell
    <3> QED
      BY <3>1, <3>2, <3>3
  <2>4. CASE cellPc \notin Out
    <3>1. ~Said({"done", "error"})'
      BY <1>3, <1>4, <2>4 DEF Farewell
    <3>2. ~Said({"done"})' /\ ~Said({"error"})'
      BY <1>3, <1>4, <1>5, <2>4 DEF Farewell
    <3>3. CASE EnterStrategy \/ MakeMove \/ SendDecision
      <4>1. ASSUME cellPc' \in Out
            PROVE  /\ ticksSeen' = ticksSeen
                   /\ cellPc' = "done" => Left(ticksSeen)
                   /\ cellPc' \in {"error"} => Took({"error"})
                   /\ cellPc' \in Exits => Took(Exits)
        <5>1. /\ ticksSeen' = ticksSeen /\ (cellPc' = "done" => Left(ticksSeen))
              /\ \A ways : cellPc' \in ways => Took(ways)
          BY <3>3, <4>1, GoingIs
        <5> QED
          BY <5>1
      <4>2. cellPc' # "gone"
        BY <3>3, RuntimeGoes DEF Known, Goings, Exits
      <4> QED
        BY <2>1, <2>2, <3>2, <4>1, <4>2 DEF Out, Leaving, Exits
    <3>4. CASE ~EnterStrategy /\ ~MakeMove /\ ~SendDecision
      <4>1. ~TicksEnd /\ (NextTick => cellPc' = "body")
        BY <1>7, NoStopYet, NoEndYet
      <4>2. ReadStart => cellPc' = "opening"
        BY ToldTypes DEF ReadStart, Jump, Known, RuntimeKnows, CellReadsFrame
      <4>3. cellPc' \notin Out
        BY <2>4, <3>4, <4>1, <4>2 DEF Runtime, SendReady, SendDone, SendError, CellExit, Jump, Out
      <4> QED
        BY <3>2, <4>3 DEF Out, Leaving
    <3> QED
      BY <3>3, <3>4
  <2> QED
    BY <2>3, <2>4
<1> QED
  BY <1>0, <1>6, <1>7 DEF Farewell

(* The pipe to the host, when the runtime writes.                            *)
LEMMA Spoken ==
    ASSUME Known, Runtime
    PROVE  /\ fromCell # <<>> => fromCell' # <<>> /\ fromCell'[1] = fromCell[1]
           /\ Answering => Answering'
           /\ fromCell = <<>> /\ ~SendDecision => ~Answering'
           /\ fromCell = <<>> /\ SendDecision => Answering' /\ fromCell'[1] = Decision
<1>1. Len(fromCell) \in Nat /\ (fromCell = <<>> <=> Len(fromCell) = 0)
  BY LengthZero DEF Known
<1>2. ASSUME NEW f \in Speaking, CellWritesFrame(f)
      PROVE  /\ fromCell' # <<>>
             /\ fromCell # <<>> => fromCell'[1] = fromCell[1]
             /\ fromCell = <<>> => fromCell'[1] = f
  <2>1. /\ Len(fromCell') = Len(fromCell) + 1 /\ fromCell' \in Seq(Speaking)
        /\ \A k \in 1..Len(fromCell) : fromCell'[k] = fromCell[k]
        /\ fromCell'[Len(fromCell) + 1] = f
    BY <1>2, SpokenTypes DEF Known
  <2>2. fromCell' # <<>>
    <3>1. Len(fromCell') # 0
      BY <1>1, <2>1
    <3> QED
      BY <3>1, EmptySeq
  <2>3. fromCell # <<>> => 1 \in 1..Len(fromCell)
    BY <1>1
  <2> QED
    BY <1>1, <2>1, <2>2, <2>3
<1>3. CASE SendDecision
  <2>1. CellWritesFrame(Decision) /\ Decision \in Speaking /\ Decision.m = "decision"
    BY <1>3, FramesAreSpoken DEF SendDecision, Known
  <2> QED
    BY <1>2, <1>3, <2>1 DEF Answering
<1>4. CASE \E m \in {"ready", "done", "error"} : CellWritesFrame(Frame(m)) /\ ~SendDecision
  <2>1. PICK m \in {"ready", "done", "error"} : CellWritesFrame(Frame(m))
    BY <1>4
  <2>2. Frame(m) \in Speaking /\ Frame(m).m # "decision"
    BY FramesAreSpoken DEF Known
  <2> QED
    BY <1>2, <1>4, <2>1, <2>2 DEF Answering
<1>5. CASE fromCell' = fromCell /\ ~SendDecision
  BY <1>5 DEF Answering
<1>6. SendReady \/ SendDone \/ SendError => ~SendDecision
  BY DEF SendReady, SendDone, SendError, SendDecision
<1>7. SendReady \/ SendDone \/ SendError =>
         \E m \in {"ready", "done", "error"} : CellWritesFrame(Frame(m))
  BY DEF SendReady, SendDone, SendError
<1>8. ~SendReady /\ ~SendDone /\ ~SendError /\ ~SendDecision => fromCell' = fromCell
  BY DEF Runtime, ReadStart, EnterStrategy, NextTick, TicksEnd, CellReadsEOF, CellReadsFrame,
         MakeMove, CellExit, Leave, CellEndsClose, wireVars
<1> QED
  BY <1>3, <1>4, <1>5, <1>6, <1>7, <1>8

LEMMA TallyRuntime ==
    ASSUME Known, InStep, Conversation, Tally, Runtime,
           UNCHANGED <<gateVars, bookVars, talkVars, accepted>>
    PROVE  Tally'
<1>0. /\ strategy' = strategy /\ hostPc' = hostPc /\ ticksSent' = ticksSent
      /\ ticksSeen \in Nat /\ ticksSent \in Nat
      /\ (fromCell = <<>> <=> Len(fromCell) = 0)
  BY RuntimeLeaves, LengthZero DEF Tally, Known, Path
<1>1. ticksSeen' = ticksSeen => (Abandons(ticksSeen)' <=> Abandons(ticksSeen))
  BY <1>0, StrategyStays
<1>2. ticksSeen' = ticksSeen \/ NextTick
  BY DEF Runtime, SendReady, ReadStart, EnterStrategy, TicksEnd, MakeMove, SendDecision,
         SendDone, SendError, CellExit, Leave, Jump
<1>3. CASE hostPc \in {"opening", "start"}
  BY <1>0, <1>3 DEF Tally
<1>4. CASE hostPc \in {"replay", "send"}
  <2>1. ticksSeen' = ticksSeen
    BY <1>2, <1>4, NoStopYet DEF Conversing
  <2> QED
    BY <1>0, <1>1, <1>4, <2>1 DEF Tally
<1>5. CASE hostPc \notin Conversing
  BY <1>0, <1>5 DEF Tally, Conversing
<1>6. CASE hostPc = "answer"
  <2>0. /\ ticksSent >= 1
        /\ ticksSeen = ticksSent \/ ticksSeen = ticksSent - 1
        /\ Answering => /\ ticksSeen = ticksSent /\ ~Abandons(ticksSeen)
                        /\ fromCell[1].orders = Placed(ticksSent)
        /\ cellPc \in {"body", "nested", "answer"} => ticksSeen = ticksSent
        /\ cellPc \in {"start", "opening", "next"} /\ ~Answering => ticksSeen = ticksSent - 1
        /\ cellPc \in Out /\ ~Answering => (ticksSeen = ticksSent <=> Abandons(ticksSeen))
    BY <1>6 DEF Tally
  <2>1. Placed(ticksSent)' = Placed(ticksSent)
    BY <1>0, StrategyStays
  <2>2. ~TicksEnd
    BY <1>6, NoEndYet DEF Conversing
  <2>3. Asked
    BY <1>6 DEF InStep
  <2>4. fromCell # <<>> /\ ~Answering => ~Answering'
    BY Spoken DEF Answering
  <2>5. CASE NextTick
    <3>1. fromCell = <<>> /\ cellPc' = "body" /\ ticksSeen' = ticksSeen + 1 /\ cellPc = "next"
      BY <1>6, <2>5, NoStopYet DEF Conversing, NextTick
    <3>2. ~Answering /\ ~Answering'
      <4>1. ~SendDecision
        BY <3>1 DEF SendDecision
      <4> QED
        BY <3>1, <4>1, Spoken DEF Answering
    <3>3. ticksSeen' = ticksSent
      BY <1>0, <2>0, <3>1, <3>2
    <3> QED
      BY <1>0, <2>0, <3>1, <3>2, <3>3 DEF Tally, Out
  <2>6. CASE SendDecision
    <3>1. /\ cellPc = "answer" /\ ticksSeen' = ticksSeen /\ cellPc' \in {"next"} \union Out
          /\ fromCell = <<>>
      BY <2>3, <2>6, RuntimeGoes DEF SendDecision, Known, Goings, Exits, Asked, Concluding, Out
    <3>2. Answering' /\ fromCell'[1].orders = queued
      BY <2>6, <3>1, Spoken DEF Decision
    <3>3. queued = Placed(ticksSent) /\ ~Abandons(ticksSeen) /\ ticksSeen = ticksSent
      BY <2>0, <3>1 DEF Known, Path
    <3> QED
      BY <1>0, <1>1, <2>0, <2>1, <3>1, <3>2, <3>3 DEF Tally, Out
  <2>7. CASE ~SendDecision /\ ~NextTick
    <3>1. ticksSeen' = ticksSeen
      BY <1>2, <2>7
    <3>2. Answering' <=> Answering
      BY <2>4, <2>7, Spoken DEF Answering
    <3>3. Answering => fromCell'[1] = fromCell[1]
      BY Spoken DEF Answering
    <3>4. cellPc' \in {"start", "opening", "next"} => cellPc \in {"ready", "start", "opening"}
      <4>1. MakeMove => cellPc' \notin {"start", "opening", "next"}
        BY StrategyIs DEF MakeMove, Known, Goings, Exits
      <4> QED
        BY <2>7, <4>1 DEF Runtime, SendReady, ReadStart, EnterStrategy, TicksEnd, SendDone,
           SendError, CellExit, Leave, Jump, Exits
    <3>5. cellPc # "ready"
      BY <2>3 DEF Asked, Concluding, Out
    <3>6. cellPc' \in {"body", "nested", "answer"} => cellPc = "body"
      <4>1. EnterStrategy => cellPc' \notin {"body", "nested", "answer"}
        BY RuntimeGoes DEF Known, Goings, Exits
      <4> QED
        BY <2>7, <4>1 DEF Runtime, SendReady, ReadStart, TicksEnd, MakeMove, SendDone,
           SendError, CellExit, Leave, Jump, Exits
    <3>7. cellPc' \in Out /\ ~Answering => (ticksSeen = ticksSent <=> Abandons(ticksSeen))
      <4>1. CASE cellPc \in Out
        BY <2>0, <4>1
      <4>2. CASE EnterStrategy
        <5>1. cellPc = "opening" /\ ticksSeen = 0
          BY <4>2 DEF EnterStrategy, Known, Path
        <5> QED
          BY <1>0, <2>0, <5>1 DEF Abandons
      <4>3. CASE MakeMove
        <5>1. /\ cellPc = "body" /\ ticksSeen = ticksSent
              /\ cellPc' \in Out => ~MoveOf(strategy, ticksSeen).answers
          BY <2>0, <4>3 DEF MakeMove, Out
        <5> QED
          BY <1>0, <2>0, <5>1 DEF Abandons
      <4>4. CASE ReadStart
        <5>1. cellPc' # "error"
          BY <4>4, ToldTypes DEF ReadStart, Jump, Known, RuntimeKnows, CellReadsFrame
        <5> QED
          BY <4>4, <5>1 DEF ReadStart, Jump, Out
      <4> QED
        BY <2>2, <2>7, <4>1, <4>2, <4>3, <4>4 DEF Runtime, SendReady, SendDone, SendError,
           CellExit, Jump, Out
    <3> QED
      BY <1>0, <1>1, <2>0, <2>1, <3>1, <3>2, <3>3, <3>4, <3>5, <3>6, <3>7 DEF Tally
  <2> QED
    BY <2>5, <2>6, <2>7
<1> QED
  BY <1>3, <1>4, <1>5, <1>6 DEF Conversing

-----------------------------------------------------------------------------
(* The gate counts.                                                          *)
LEMMA RankOfNone == ASSUME Types PROVE Rank(0) = 0
<1>1. Upto(EventLines, 0) = {}
  <2>1. \A l \in EventLines : ~(l <= 0)
    BY EventLinesAre
  <2> QED
    BY <2>1, Zenon DEF Upto
<1> QED
  BY <1>1, FS_EmptySet DEF Rank, Place

LEMMA RankNext ==
    ASSUME Types, NEW i \in (cursor + 1)..Len(journal), YieldsLine(i)
    PROVE  /\ i \in EventLines /\ i \in Nat /\ cursor < i
           /\ \A l \in EventLines : l <= cursor \/ l >= i
           /\ Rank(i) = Rank(cursor) + 1
<1>1. cursor \in Nat /\ i \in Nat /\ cursor < i /\ i \in 1..Len(journal)
  BY EventLinesAre DEF Types
<1>2. i \in EventLines
  BY <1>1 DEF EventLines, YieldsLine
<1>3. \A l \in EventLines : l <= cursor \/ l >= i
  <2>1. ASSUME NEW l \in EventLines, l \in (cursor + 1)..(i - 1) PROVE FALSE
    <3>1. journal[l].type \in Diagnosed
      BY <2>1 DEF YieldsLine, Reaches, Skipped
    <3>2. journal[l].type \in Replayed
      BY <2>1 DEF EventLines
    <3> QED
      BY <3>1, <3>2 DEF Diagnosed, Replayed, Timed, Untimed
  <2>2. \A l \in EventLines : l \in Nat
    BY EventLinesAre
  <2> QED
    BY <1>1, <2>1, <2>2
<1>4. Upto(EventLines, i) = Upto(EventLines, cursor) \union {i}
  <2>1. \A l \in EventLines : l <= i <=> l <= cursor \/ l = i
    <3>1. \A l \in EventLines : l \in Nat
      BY EventLinesAre
    <3> QED
      BY <1>1, <1>3, <3>1
  <2> QED
    BY <1>2, <2>1 DEF Upto
<1>5. i \notin Upto(EventLines, cursor)
  BY <1>1 DEF Upto
<1>6. IsFiniteSet(Upto(EventLines, cursor))
  BY <1>1, EventLinesAre, PlaceType
<1>7. Rank(i) = Rank(cursor) + 1
  BY <1>4, <1>5, <1>6, FS_AddElement DEF Rank, Place
<1> QED
  BY <1>1, <1>2, <1>3, <1>7

LEMMA RankAtEnd ==
    ASSUME Types, RunsOut
    PROVE  /\ \A l \in EventLines : l <= cursor
           /\ Rank(cursor) = TickCount
<1>1. cursor \in Nat /\ Len(journal) \in Nat /\ IsJournal(journal)
  BY EventLinesAre, JournalsAssumption DEF Types
<1>2. PICK e \in (cursor + 1)..(Len(journal) + 1) :
        Reaches(e) /\ (e <= Len(journal) => journal[e].type = "torn")
  BY DEF RunsOut
<1>3. e <= Len(journal) => e = Len(journal)
  BY <1>1, <1>2 DEF IsJournal
<1>4. ASSUME NEW l \in EventLines PROVE l <= cursor
  <2>1. l \in 1..Len(journal) /\ l \in Nat /\ journal[l].type \in Replayed
    BY EventLinesAre DEF EventLines
  <2>2. l \in (cursor + 1)..(e - 1) => journal[l].type \in Diagnosed
    BY <1>2 DEF Reaches, Skipped
  <2>3. journal[l].type \notin Diagnosed /\ journal[l].type # "torn"
    BY <2>1 DEF Diagnosed, Replayed, Timed, Untimed
  <2>4. l # e
    BY <1>2, <1>3, <2>1, <2>3
  <2> QED
    BY <1>1, <1>2, <1>3, <2>1, <2>2, <2>3, <2>4
<1>5. Upto(EventLines, cursor) = EventLines
  BY <1>4, Zenon DEF Upto
<1> QED
  BY <1>4, <1>5 DEF Rank, Place, TickCount

-----------------------------------------------------------------------------
(* The books.                                                                *)
Execution == [order : Order, at : Times, price : Nat, trade : Nat]

BookTypes == pending \in Seq(Order) /\ fills \in Seq(Execution)

(* What is admitted of a decision.                                           *)
Copies(new, o, n) ==
    /\ new \in Seq(Order) /\ Len(new) = n
    /\ \A k \in 1..n : Is(new[k], cursor, k) /\ new[k].side = o[k].side /\ new[k].size = o[k].size

LEMMA AdmittedAre ==
    ASSUME cursor \in Nat, NEW o \in Seq(MarketOrder), NEW n \in 0..Len(o), NEW sight \in Nat,
           Admitted(o, n)
    PROVE  Copies(Stamp(SubSeq(o, 1, n), sight), o, n)
<1> DEFINE s == SubSeq(o, 1, n)
           new == [k \in 1..n |-> [side |-> o[k].side, size |-> o[k].size,
                                   tick |-> cursor, sight |-> sight, nth |-> k]]
<1>1. n \in Nat /\ Len(o) \in Nat /\ n <= Len(o)
  OBVIOUS
<1>2. Len(s) = n /\ \A k \in 1..n : s[k] = o[k]
  BY <1>1
<1> HIDE DEF s
<1>3. Stamp(s, sight) = new
  BY <1>2 DEF Stamp
<1>4. ASSUME NEW k \in 1..n
      PROVE  /\ new[k] \in Order /\ Is(new[k], cursor, k)
             /\ new[k].side = o[k].side /\ new[k].size = o[k].size
  <2>1. WellFormed(o[k]) /\ o[k] \in MarketOrder
    BY <1>1 DEF Admitted
  <2>2. o[k].side \in Sides /\ o[k].size \in Nat \ {0}
    BY <2>1 DEF WellFormed, Plausible, MarketOrder
  <2>3. /\ new[k] = [side |-> o[k].side, size |-> o[k].size,
                     tick |-> cursor, sight |-> sight, nth |-> k]
        /\ k \in Nat \ {0}
    BY <1>1
  <2> QED
    BY <2>2, <2>3 DEF Order, Is
<1>5. \A k \in 1..n : new[k] \in Order
  BY <1>4
<1>6. new \in [1..n -> Order]
  <2>1. new = [k \in 1..n |-> new[k]]
    OBVIOUS
  <2> QED
    BY <1>5, <2>1
<1> HIDE DEF new
<1>7. new \in Seq(Order) /\ Len(new) = n
  BY <1>1, <1>6
<1> QED
  BY <1>3, <1>4, <1>7 DEF Copies, s

LEMMA JoinedAre ==
    ASSUME BookTypes, NEW new, NEW o, NEW n \in Nat, Copies(new, o, n)
    PROVE  /\ pending \o new \in Seq(Order)
           /\ Len(pending \o new) = Len(pending) + n
           /\ \A k \in 1..Len(pending) : (pending \o new)[k] = pending[k]
           /\ \A k \in 1..n : /\ Is((pending \o new)[Len(pending) + k], cursor, k)
                              /\ (pending \o new)[Len(pending) + k].side = o[k].side
                              /\ (pending \o new)[Len(pending) + k].size = o[k].size
<1>1. pending \in Seq(Order) /\ new \in Seq(Order) /\ Len(new) = n /\ Len(pending) \in Nat
  BY DEF BookTypes, Copies
<1>2. /\ pending \o new \in Seq(Order)
      /\ Len(pending \o new) = Len(pending) + n
      /\ \A k \in 1..(Len(pending) + n) :
            (pending \o new)[k] = IF k <= Len(pending) THEN pending[k] ELSE new[k - Len(pending)]
  BY <1>1, ConcatProperties
<1>3. ASSUME NEW k \in 1..n PROVE (pending \o new)[Len(pending) + k] = new[k]
  <2>1. /\ Len(pending) + k \in 1..(Len(pending) + n) /\ ~(Len(pending) + k <= Len(pending))
        /\ Len(pending) + k - Len(pending) = k
    BY <1>1
  <2> QED
    BY <1>2, <2>1
<1>4. \A k \in 1..Len(pending) : (pending \o new)[k] = pending[k]
  BY <1>1, <1>2
<1> QED
  BY <1>2, <1>3, <1>4 DEF Copies

(* The orders of an answer join the others.                                  *)
Joins ==
    /\ Len(pending') = Len(pending) + Len(Heard.orders)
    /\ \A k \in 1..Len(pending) : pending'[k] = pending[k]
    /\ \A k \in 1..Len(Heard.orders) :
        /\ Is(pending'[Len(pending) + k], cursor, k)
        /\ pending'[Len(pending) + k].side = Heard.orders[k].side
        /\ pending'[Len(pending) + k].size = Heard.orders[k].size

AcceptedAll ==
    /\ hostPc = "answer" /\ hostPc' = "replay"
    /\ HostReads /\ Answering
    /\ Joins /\ pending' \in Seq(Order)
    /\ UNCHANGED <<journal, cursor, fills, ticksSent, exhausted, failure>>

LEMMA AcceptedIs ==
    ASSUME Known, BookTypes, HostReads, AcceptDecision(Heard), UNCHANGED gateVars,
           hostPc = "answer"
    PROVE  /\ pending' \in Seq(Order) /\ UNCHANGED fills
           /\ failure' = "none" => AcceptedAll
<1>1. /\ Heard \in Speaking /\ Heard = fromCell[1] /\ fromCell # <<>>
      /\ Heard.orders \in Seq(MarketOrder) /\ Heard.sight \in Nat /\ cursor \in Nat
  BY HeardTypes DEF Known, Speaking, HostReads, Types
<1>2. PICK n \in 0..Len(Heard.orders) :
        /\ Admitted(Heard.orders, n)
        /\ Submit(Stamp(SubSeq(Heard.orders, 1, n), Heard.sight))
        /\ IF n = Len(Heard.orders) THEN Goto("replay") ELSE Fail("sbx_error")
  BY DEF AcceptDecision
<1> DEFINE new == Stamp(SubSeq(Heard.orders, 1, n), Heard.sight)
<1>3. Copies(new, Heard.orders, n) /\ n \in Nat
  BY <1>1, <1>2, AdmittedAre
<1>4. pending' = pending \o new /\ UNCHANGED fills
  BY <1>2 DEF Submit
<1> HIDE DEF new
<1>5. /\ pending' \in Seq(Order)
      /\ Len(pending') = Len(pending) + n
      /\ \A k \in 1..Len(pending) : pending'[k] = pending[k]
      /\ \A k \in 1..n : /\ Is(pending'[Len(pending) + k], cursor, k)
                         /\ pending'[Len(pending) + k].side = Heard.orders[k].side
                         /\ pending'[Len(pending) + k].size = Heard.orders[k].size
  <2> DEFINE o == Heard.orders
  <2> HIDE DEF o
  <2>1. Copies(new, o, n)
    BY <1>3 DEF o
  <2>2. /\ pending \o new \in Seq(Order)
        /\ Len(pending \o new) = Len(pending) + n
        /\ \A k \in 1..Len(pending) : (pending \o new)[k] = pending[k]
        /\ \A k \in 1..n : /\ Is((pending \o new)[Len(pending) + k], cursor, k)
                           /\ (pending \o new)[Len(pending) + k].side = o[k].side
                           /\ (pending \o new)[Len(pending) + k].size = o[k].size
    BY <1>3, <2>1, JoinedAre
  <2> QED
    BY <1>4, <2>2, Zenon DEF o
<1>6. ASSUME failure' = "none" PROVE AcceptedAll
  <2>1. n = Len(Heard.orders) /\ Goto("replay")
    BY <1>2, <1>6 DEF Fail
  <2>2. Joins
    BY <1>5, <2>1 DEF Joins
  <2>3. Answering
    BY <1>1 DEF AcceptDecision, AnswersTick, Answering
  <2> QED
    BY <1>4, <1>5, <2>1, <2>2, <2>3 DEF AcceptedAll, Goto, gateVars
<1> QED
  BY <1>4, <1>5, <1>6

(* A trade fills all that wait.                                              *)
FilledAt(i) ==
    /\ Len(fills') = Len(fills) + Len(pending)
    /\ \A k \in 1..Len(fills) : fills'[k] = fills[k]
    /\ \A k \in 1..Len(pending) :
        fills'[Len(fills) + k].order = pending[k] /\ fills'[Len(fills) + k].trade = i
    /\ fills' \in Seq(Execution) /\ pending' = <<>>

LEMMA FilledIs ==
    ASSUME BookTypes, NEW at \in Times, NEW price \in Nat, NEW i \in Nat, FillAll(at, price, i)
    PROVE  FilledAt(i)
<1> DEFINE new == [k \in 1..Len(pending) |->
                     [order |-> pending[k], at |-> at, price |-> price, trade |-> i]]
<1>1. \A k \in 1..Len(pending) : new[k] \in Execution
  BY DEF BookTypes, Execution
<1>2. new \in Seq(Execution) /\ Len(new) = Len(pending)
  BY <1>1 DEF BookTypes
<1>3. \A k \in 1..Len(pending) : new[k].order = pending[k] /\ new[k].trade = i
  OBVIOUS
<1>4. fills' = fills \o new /\ pending' = <<>>
  BY DEF FillAll
<1> HIDE DEF new
<1>5. /\ fills \o new \in Seq(Execution)
      /\ Len(fills \o new) = Len(fills) + Len(new)
      /\ \A k \in 1..(Len(fills) + Len(new)) :
            (fills \o new)[k] = IF k <= Len(fills) THEN fills[k] ELSE new[k - Len(fills)]
  BY <1>2, ConcatProperties DEF BookTypes
<1>6. Len(fills) \in Nat /\ Len(pending) \in Nat
  BY DEF BookTypes
<1>7. ASSUME NEW k \in 1..Len(pending) PROVE fills'[Len(fills) + k] = new[k]
  <2>1. Len(fills) + k \in 1..(Len(fills) + Len(new)) /\ ~(Len(fills) + k <= Len(fills))
        /\ Len(fills) + k - Len(fills) = k
    BY <1>2, <1>6
  <2> QED
    BY <1>4, <1>5, <2>1
<1>8. \A k \in 1..Len(fills) : fills'[k] = fills[k]
  BY <1>2, <1>4, <1>5, <1>6
<1> QED
  BY <1>2, <1>3, <1>4, <1>5, <1>7, <1>8 DEF FilledAt

Revealed ==
    /\ hostPc = "replay" /\ hostPc' = "send" /\ fromCell' = fromCell
    /\ \E i \in (cursor + 1)..Len(journal) :
        /\ YieldsLine(i) /\ cursor' = i
        /\ IF journal[i].type = "trade" THEN FilledAt(i) ELSE UNCHANGED <<fills, pending>>
    /\ UNCHANGED <<journal, ticksSent, exhausted>>

LEMMA RevealedIs == ASSUME Known, BookTypes, Reveal PROVE Revealed
<1>1. PICK i \in (cursor + 1)..Len(journal) : AdvanceTo(i) /\ Observe(journal[i], now', i)
  BY DEF Reveal
<1>2. now' \in Times /\ i \in Nat /\ i \in 1..Len(journal)
  BY <1>1, ClockTypes, EventLinesAre DEF Known, Types
<1>3. journal[i].price \in Nat
  <2>1. journal[i] \in Line
    BY <1>2, JournalsAssumption DEF Known, Types, IsJournal
  <2> QED
    BY <2>1 DEF Line
<1>4. IF journal[i].type = "trade" THEN FilledAt(i) ELSE UNCHANGED <<fills, pending>>
  <2>1. ASSUME FillAll(now', journal[i].price, i) PROVE FilledAt(i)
    BY <1>2, <1>3, <2>1, FilledIs
  <2> QED
    BY <1>1, <2>1 DEF Observe, bookVars
<1>5. hostPc = "replay" /\ hostPc' = "send" /\ fromCell' = fromCell /\ UNCHANGED <<ticksSent, exhausted>>
  BY DEF Reveal, Goto, wireVars
<1> QED
  BY <1>1, <1>4, <1>5 DEF Revealed, AdvanceTo

-----------------------------------------------------------------------------
(* The host's steps, when nothing fails.                                     *)
KeepsBooks == UNCHANGED <<journal, cursor, fills, pending>>

Greeted ==
    /\ hostPc = "opening" /\ hostPc' = "start" /\ HostReads /\ Heard.m = "ready"
    /\ KeepsBooks /\ UNCHANGED <<ticksSent, exhausted>>

Started ==
    /\ hostPc = "start" /\ hostPc' = "replay" /\ fromCell' = fromCell
    /\ KeepsBooks /\ UNCHANGED <<ticksSent, exhausted>>

RanOut ==
    /\ hostPc = "replay" /\ hostPc' = "stop" /\ fromCell' = fromCell
    /\ RunsOut /\ exhausted' = TRUE
    /\ KeepsBooks /\ UNCHANGED ticksSent

Ticked ==
    /\ hostPc = "send" /\ hostPc' = "answer" /\ fromCell' = fromCell
    /\ ticksSent' = ticksSent + 1
    /\ KeepsBooks /\ UNCHANGED exhausted

HeardDone ==
    /\ hostPc = "answer" /\ hostPc' = "stop" /\ HostReads /\ Heard.m = "done"
    /\ KeepsBooks /\ UNCHANGED <<ticksSent, exhausted>>

Closing ==
    /\ hostPc \in {"stop", "hangup"} /\ hostPc' \in {"hangup", "done"} /\ fromCell' = fromCell
    /\ KeepsBooks /\ UNCHANGED <<ticksSent, exhausted>>

LEMMA HostKinds ==
    ASSUME Known, BookTypes, HostStep, failure' = "none"
    PROVE  /\ failure = "none"
           /\ UNCHANGED marketVars
           /\ \/ Greeted \/ Started \/ Revealed \/ RanOut \/ Ticked \/ AcceptedAll
              \/ HeardDone \/ Closing
<1>0. UNCHANGED marketVars /\ Host
  BY DEF HostStep
<1>1. CASE Opening
  <2>1. HostReads /\ hostPc = "opening" /\ Heard.m = "ready" /\ Goto("start")
    BY <1>1 DEF Opening, Fail
  <2> QED
    BY <1>0, <1>1, <2>1 DEF Opening, Goto, Greeted, KeepsBooks, gateVars, bookVars
<1>2. CASE SendStart
  BY <1>0, <1>2 DEF SendStart, Say, HostWrites, Goto, Started, KeepsBooks, gateVars, bookVars
<1>3. CASE Reveal
  <2>1. failure = "none"
    BY <1>3 DEF Reveal, Goto
  <2> QED
    BY <1>0, <1>3, <2>1, RevealedIs
<1>4. CASE Exhaust
  BY <1>0, <1>4 DEF Exhaust, RanOut, KeepsBooks, wireVars, gateVars, bookVars
<1>5. CASE SendTick
  BY <1>0, <1>5 DEF SendTick, Say, HostWrites, Ticked, KeepsBooks, gateVars, bookVars
<1>6. CASE ReadAnswer
  <2>1. hostPc = "answer" /\ HostReads /\ UNCHANGED gateVars
        /\ (AcceptDecision(Heard) \/ RejectReply(Heard))
    BY <1>6 DEF ReadAnswer, Fail
  <2>2. CASE AcceptDecision(Heard)
    <3>1. AcceptedAll
      BY <2>1, <2>2, AcceptedIs
    <3> QED
      BY <1>0, <3>1 DEF AcceptedAll
  <2>3. CASE RejectReply(Heard)
    <3>1. Heard.m = "done" /\ Goto("stop") /\ UNCHANGED bookVars
      BY <2>3 DEF RejectReply, Fail
    <3> QED
      BY <1>0, <2>1, <3>1 DEF Goto, HeardDone, KeepsBooks, gateVars, bookVars
  <2> QED
    BY <2>1, <2>2, <2>3
<1>7. CASE SendStop \/ HangUp
  BY <1>0, <1>7 DEF SendStop, Say, HostWrites, HangUp, HostCloses, Goto, Closing, KeepsBooks,
     gateVars, bookVars
<1>8. ~BreakPipe /\ ~RevealUnobservable /\ ~RefuseJournal /\ ~RefuseTick
  BY DEF BreakPipe, RevealUnobservable, RefuseJournal, RefuseTick, Fail
<1> QED
  BY <1>0, <1>1, <1>2, <1>3, <1>4, <1>5, <1>6, <1>7, <1>8 DEF Host

LEMMA InitBooks == Init => BookTypes
BY EmptySeq DEF Init, FeederInit, PortfolioInit, BookTypes

LEMMA NextBooks == Known /\ BookTypes /\ [Next]_vars => BookTypes'
<1> SUFFICES ASSUME Known, BookTypes, [Next]_vars PROVE BookTypes'
  OBVIOUS
<1>1. CASE Reveal
  <2>1. Revealed
    BY <1>1, RevealedIs
  <2>2. <<>> \in Seq(Order)
    BY EmptySeq
  <2> QED
    BY <2>1, <2>2 DEF Revealed, FilledAt, BookTypes
<1>2. CASE ReadAnswer
  <2>1. CASE HostReads /\ AcceptDecision(Heard)
    <3>1. pending' \in Seq(Order) /\ UNCHANGED fills
      BY <1>2, <2>1, AcceptedIs DEF ReadAnswer
    <3> QED
      BY <3>1 DEF BookTypes
  <2>2. CASE UNCHANGED bookVars
    BY <2>2 DEF bookVars, BookTypes
  <2> QED
    BY <1>2, <2>1, <2>2 DEF ReadAnswer, RejectReply
<1>3. CASE UNCHANGED bookVars
  BY <1>3 DEF bookVars, BookTypes
<1>4. HostStep => Reveal \/ ReadAnswer \/ UNCHANGED bookVars
  BY DEF HostStep, Host, BreakPipe, Opening, SendStart, RevealUnobservable, RefuseJournal, Exhaust,
     SendTick, RefuseTick, SendStop, HangUp
<1>5. Bystander \/ GiveUp => UNCHANGED bookVars
  BY GivingUp DEF Bystander, feederVars
<1> QED
  BY <1>1, <1>2, <1>3, <1>4, <1>5, StepKinds

(* What journal and strategy determine does not change.                      *)
LEMMA Determines ==
    ASSUME journal' = journal, strategy' = strategy
    PROVE  /\ EventLines' = EventLines /\ TickCount' = TickCount
           /\ Rank(cursor)' = Rank(cursor')
BY DEF EventLines, TickCount, Rank

-----------------------------------------------------------------------------
(* The conversation, as the host takes part in it.                           *)
HostSteps ==
    /\ UNCHANGED marketVars
    /\ \/ Greeted \/ Started \/ Revealed \/ RanOut \/ Ticked \/ AcceptedAll
       \/ HeardDone \/ Closing

LEMMA HostLeaves ==
    ASSUME HostSteps
    PROVE  UNCHANGED <<strategy, journal, cellPc, ticksSeen>>
BY DEF HostSteps, marketVars, Greeted, Started, Revealed, RanOut, Ticked, AcceptedAll, HeardDone,
       Closing, KeepsBooks

(* What the host hears, while it converses, is no farewell.                  *)
LEMMA SaidHost ==
    ASSUME Known, HostSteps, NEW ms, "ready" \notin ms, "decision" \notin ms
    PROVE  /\ Said(ms)' => Said(ms)
           /\ hostPc' \in Conversing /\ Said(ms) => Said(ms)'
<1>1. CASE HostReads
  <2>1. /\ Len(fromCell) \in Nat \ {0} /\ Len(fromCell') = Len(fromCell) - 1
        /\ \A k \in 1..(Len(fromCell) - 1) : fromCell'[k] = fromCell[k + 1]
        /\ Heard = fromCell[1]
    BY <1>1, HeardTypes DEF Known
  <2>2. ASSUME NEW k \in 1..Len(fromCell'), fromCell'[k].m \in ms
        PROVE  Said(ms)
    <3>1. k + 1 \in 1..Len(fromCell) /\ fromCell[k + 1].m \in ms
      BY <2>1, <2>2
    <3> QED
      BY <3>1 DEF Said
  <2>3. ASSUME hostPc' \in Conversing, NEW k \in 1..Len(fromCell), fromCell[k].m \in ms
        PROVE  Said(ms)'
    <3>1. Heard.m \in {"ready", "decision"}
      BY <2>1, <2>3 DEF HostSteps, Greeted, Started, Revealed, RanOut, Ticked, AcceptedAll,
         HeardDone, Closing, Conversing, Answering
    <3>2. k # 1
      BY <2>1, <2>3, <3>1
    <3>3. k - 1 \in 1..Len(fromCell') /\ fromCell'[k - 1].m \in ms
      <4>1. k - 1 \in 1..(Len(fromCell) - 1) /\ k - 1 + 1 = k
        BY <2>1, <3>2
      <4> QED
        BY <2>1, <2>3, <4>1
    <3> QED
      BY <3>3 DEF Said
  <2> QED
    BY <2>2, <2>3 DEF Said
<1>2. CASE fromCell' = fromCell
  BY <1>2 DEF Said
<1> QED
  BY <1>1, <1>2 DEF HostSteps, Greeted, Started, Revealed, RanOut, Ticked, AcceptedAll,
     HeardDone, Closing

LEMMA FarewellHost ==
    ASSUME Known, Farewell, HostSteps PROVE Farewell'
<1>0. strategy' = strategy /\ cellPc' = cellPc /\ ticksSeen' = ticksSeen /\ ticksSeen \in Nat
  BY HostLeaves DEF Known, Path
<1>1. hostPc' \in Conversing => hostPc \in Conversing
  BY DEF HostSteps, Greeted, Started, Revealed, RanOut, Ticked, AcceptedAll, HeardDone, Closing,
         Conversing
<1>2. /\ Said({"done"})' => Said({"done"})
      /\ Said({"error"})' => Said({"error"})
      /\ Said({"done", "error"})' => Said({"done", "error"})
      /\ hostPc' \in Conversing /\ Said({"done", "error"}) => Said({"done", "error"})'
  BY SaidHost
<1>3. Left(ticksSeen) => Left(ticksSeen)'
  BY <1>0, StrategyStays
<1>4. /\ Took({"error"}) => Took({"error"})'
      /\ Took(Exits) => Took(Exits)'
  BY <1>0, TookStays
<1> QED
  BY <1>0, <1>1, <1>2, <1>3, <1>4 DEF Farewell

LEMMA TallyHost ==
    ASSUME Known, InStep, Tally, HostSteps
    PROVE  Tally'
<1>0. /\ strategy' = strategy /\ cellPc' = cellPc /\ ticksSeen' = ticksSeen
      /\ ticksSeen \in Nat /\ ticksSent \in Nat
  BY HostLeaves DEF Known, Path, Tally
<1>a. Abandons(ticksSeen)' <=> Abandons(ticksSeen)
  BY <1>0, StrategyStays
<1>1. CASE Greeted
  BY <1>0, <1>1 DEF Greeted, Tally
<1>2. CASE Started
  <2>1. ticksSeen = 0 /\ ticksSent = 0 /\ ~Abandons(ticksSeen)
    <3>1. cellPc = "start"
      BY <1>2 DEF Started, InStep
    <3>2. ticksSeen = 0 /\ ticksSent = 0
      BY <1>2, <3>1 DEF Started, Known, Path, Tally
    <3> QED
      BY <3>2 DEF Abandons
  <2> QED
    BY <1>0, <1>a, <1>2, <2>1 DEF Started, Tally
<1>3. CASE Revealed
  BY <1>0, <1>a, <1>3 DEF Revealed, Tally
<1>4. CASE Ticked
  <2>1. ticksSeen = ticksSent /\ ~Abandons(ticksSeen) /\ ticksSent' = ticksSent + 1 /\ AtRest
    BY <1>4 DEF Ticked, Tally, InStep
  <2>2. ~Answering'
    <3>1. fromCell = <<>> \/ Concluding(0)
      BY <2>1 DEF AtRest
    <3>2. Concluding(0) /\ fromCell # <<>> => fromCell[1].m \in {"done", "error"}
      BY LengthZero DEF Concluding, Known
    <3> QED
      BY <1>4, <3>1, <3>2 DEF Ticked, Answering
  <2>3. cellPc \notin {"body", "nested", "answer"}
    BY <2>1 DEF AtRest, Concluding, Out
  <2> QED
    BY <1>0, <1>a, <1>4, <2>1, <2>2, <2>3 DEF Ticked, Tally
<1>5. CASE AcceptedAll
  BY <1>0, <1>a, <1>5 DEF AcceptedAll, Tally
<1>6. CASE RanOut \/ HeardDone \/ Closing
  BY <1>0, <1>6 DEF RanOut, HeardDone, Closing, Tally
<1> QED
  BY <1>1, <1>2, <1>3, <1>4, <1>5, <1>6 DEF HostSteps

(* An end that is reached stays as it is.                                    *)
LEMMA EndsStay ==
    ASSUME journal' = journal, strategy' = strategy, ticksSent' = ticksSent
    PROVE  (Exhausted => Exhausted') /\ (Departed => Departed')
<1>1. TickCount' = TickCount
  BY Determines
<1>2. /\ Abandons(ticksSent)' = Abandons(ticksSent)
      /\ StaysUntil(ticksSent)' = StaysUntil(ticksSent)
  BY StrategyStays
<1>3. ASSUME NEW n
      PROVE  /\ Left(n)' = Left(n) /\ StaysUntil(n)' = StaysUntil(n)
             /\ Abandons(n)' = Abandons(n)
  BY StrategyStays
<1>4. Exhausted => Exhausted'
  BY <1>1, <1>2 DEF Exhausted
<1>5. Departed => Departed'
  BY <1>3 DEF Departed
<1> QED
  BY <1>4, <1>5

LEMMA EndedHost ==
    ASSUME Known, Farewell, Tally, Gating, Ended, HostSteps
    PROVE  Ended'
<1>0. strategy' = strategy /\ journal' = journal /\ ticksSeen \in Nat /\ ticksSent \in Nat
  BY HostLeaves DEF Known, Path, Tally
<1>1. CASE RanOut
  <2>1. ticksSent = TickCount
    BY <1>0, <1>1, RankAtEnd DEF Gating, RanOut, Known
  <2>2. Exhausted
    <3>1. ticksSeen = ticksSent /\ ~Abandons(ticksSeen)
      BY <1>1 DEF RanOut, Tally
    <3> QED
      BY <2>1, <3>1 DEF Known, Path, Exhausted
  <2>3. ticksSent' = ticksSent /\ exhausted'
    BY <1>1 DEF RanOut
  <2> QED
    BY <1>0, <2>2, <2>3, EndsStay DEF Ended
<1>2. CASE HeardDone
  <2>1. ~exhausted /\ ~exhausted' /\ ticksSent' = ticksSent
    BY <1>2 DEF HeardDone, Gating, Conversing
  <2>2. Len(fromCell) \in Nat \ {0} /\ fromCell[1].m = "done"
    BY <1>2, HeardTypes DEF HeardDone, Known
  <2>3. Left(ticksSeen) /\ cellPc \in Out /\ ~Answering
    <3>1. Said({"done"}) /\ Said({"done", "error"})
      <4>1. 1 \in 1..Len(fromCell)
        BY <2>2
      <4> QED
        BY <2>2, <4>1 DEF Said
    <3> QED
      BY <1>2, <2>2, <3>1 DEF Farewell, Answering, Conversing, HeardDone
  <2>4. Departed
    <3>1. /\ ticksSeen \in {ticksSent - 1, ticksSent}
          /\ (ticksSeen = ticksSent <=> Abandons(ticksSeen))
      BY <1>2, <2>3 DEF Tally, HeardDone
    <3> QED
      BY <1>0, <2>3, <3>1 DEF Departed, Known, Path
  <2> QED
    BY <1>0, <2>1, <2>4, EndsStay DEF Ended
<1>3. CASE Closing
  <2>1. hostPc \notin Conversing /\ UNCHANGED <<exhausted, ticksSent>>
    BY <1>3 DEF Closing, Conversing
  <2> QED
    BY <1>0, <2>1, EndsStay DEF Ended
<1>4. CASE Greeted \/ Started \/ Revealed \/ Ticked \/ AcceptedAll
  BY <1>4 DEF Greeted, Started, Revealed, Ticked, AcceptedAll, Ended, Conversing
<1> QED
  BY <1>1, <1>2, <1>3, <1>4 DEF HostSteps

LEMMA GatingHost ==
    ASSUME Known, Tally, Gating, HostSteps
    PROVE  Gating'
<1>0. /\ journal' = journal /\ EventLines' = EventLines /\ Rank(cursor)' = Rank(cursor')
      /\ ticksSent \in Nat
  BY HostLeaves, Determines DEF Tally
<1>1. CASE Greeted
  BY <1>0, <1>1 DEF Greeted, KeepsBooks, Gating, Conversing
<1>2. CASE Started
  BY <1>0, <1>2 DEF Started, KeepsBooks, Gating, Conversing
<1>3. CASE Revealed
  <2>1. PICK i \in (cursor + 1)..Len(journal) : YieldsLine(i) /\ cursor' = i
    BY <1>3 DEF Revealed
  <2>2. i \in EventLines /\ Rank(i) = Rank(cursor) + 1
    BY <2>1, RankNext DEF Known
  <2>3. Rank(cursor') = ticksSent + 1
    BY <1>0, <1>3, <2>1, <2>2 DEF Revealed, Gating
  <2> QED
    BY <1>0, <1>3, <2>1, <2>2, <2>3 DEF Revealed, Gating, Conversing
<1>4. CASE RanOut \/ HeardDone \/ Closing
  BY <1>0, <1>4 DEF RanOut, HeardDone, Closing, KeepsBooks, Gating, Conversing
<1>5. CASE Ticked
  BY <1>0, <1>5 DEF Ticked, KeepsBooks, Gating, Conversing
<1>6. CASE AcceptedAll
  BY <1>0, <1>6 DEF AcceptedAll, Gating, Conversing
<1> QED
  BY <1>1, <1>2, <1>3, <1>4, <1>5, <1>6 DEF HostSteps

-----------------------------------------------------------------------------
(* The books, as the host keeps them.                                        *)
LEMMA QuietOn ==
    ASSUME Types, NEW i \in (cursor + 1)..Len(journal), YieldsLine(i), NEW t \in Nat,
           Quiet(t, cursor)
    PROVE  Quiet(t, i - 1) /\ (journal[i].type # "trade" => Quiet(t, i))
<1>1. /\ i \in Nat /\ cursor \in Nat /\ \A l \in EventLines : l \in Nat
      /\ \A l \in EventLines : l <= cursor \/ l >= i
  BY RankNext, EventLinesAre DEF Types
<1>2. ASSUME NEW l \in EventLines, t < l, l <= i - 1 PROVE journal[l].type # "trade"
  BY <1>1, <1>2 DEF Quiet
<1>3. ASSUME journal[i].type # "trade", NEW l \in EventLines, t < l, l <= i
      PROVE  journal[l].type # "trade"
  <2>1. l <= cursor \/ l = i
    BY <1>1, <1>3
  <2> QED
    BY <1>3, <2>1 DEF Quiet
<1> QED
  BY <1>2, <1>3 DEF Quiet

LEMMA AnsweredHost ==
    ASSUME Known, Gating, HostSteps
    PROVE  /\ strategy' = strategy /\ journal' = journal /\ EventLines' = EventLines
           /\ IF AcceptedAll THEN AnsweredLines' = AnsweredLines \union {cursor} /\ cursor \notin AnsweredLines
                             ELSE AnsweredLines' = AnsweredLines
<1>0. strategy' = strategy /\ journal' = journal /\ EventLines' = EventLines
  BY HostLeaves, Determines
<1>1. /\ \A t : t \in AnsweredLines <=>
            t \in EventLines /\ (t < cursor \/ (t = cursor /\ (hostPc = "replay" \/ exhausted)))
      /\ \A t : t \in AnsweredLines' <=>
            t \in EventLines' /\ (t < cursor' \/ (t = cursor' /\ (hostPc' = "replay" \/ exhausted')))
  BY Zenon DEF AnsweredLines
<1>2. cursor \in Nat /\ \A t \in EventLines : t \in Nat /\ t # 0
  BY EventLinesAre DEF Known, Types
<1>3. CASE AcceptedAll
  <2>1. hostPc = "answer" /\ hostPc' = "replay" /\ cursor' = cursor /\ ~exhausted
        /\ cursor \in EventLines
    BY <1>3 DEF AcceptedAll, Gating, Conversing
  <2>2. cursor \notin AnsweredLines
    BY <1>1, <1>2, <2>1
  <2>3. \A t : t \in AnsweredLines' <=> t \in AnsweredLines \union {cursor}
    BY <1>0, <1>1, <2>1
  <2> QED
    BY <1>0, <1>3, <2>2, <2>3
<1>4. CASE ~AcceptedAll
  <2> SUFFICES \A t \in EventLines :
                  (t < cursor' \/ (t = cursor' /\ (hostPc' = "replay" \/ exhausted'))) <=>
                  (t < cursor \/ (t = cursor /\ (hostPc = "replay" \/ exhausted)))
    <3>1. (\A t : t \in AnsweredLines' <=> t \in AnsweredLines) => AnsweredLines' = AnsweredLines
      OBVIOUS
    <3> QED
      BY <1>0, <1>1, <1>4, <3>1
  <2>1. CASE Greeted \/ Started
    <3>1. cursor = 0 /\ cursor' = 0
      BY <2>1 DEF Greeted, Started, Gating, KeepsBooks
    <3> QED
      BY <1>2, <3>1
  <2>2. CASE Revealed
    <3>1. PICK i \in (cursor + 1)..Len(journal) : YieldsLine(i) /\ cursor' = i
      BY <2>2 DEF Revealed
    <3>2. i \in Nat /\ cursor < i /\ \A l \in EventLines : l <= cursor \/ l >= i
      BY <3>1, RankNext DEF Known
    <3>3. hostPc = "replay" /\ hostPc' = "send" /\ ~exhausted /\ ~exhausted'
      BY <2>2 DEF Revealed, Gating, Conversing
    <3>4. \A t \in EventLines : t < i <=> t <= cursor
      BY <1>2, <3>2
    <3> QED
      BY <1>2, <3>1, <3>3, <3>4
  <2>3. CASE RanOut
    BY <2>3 DEF RanOut, KeepsBooks
  <2>4. CASE Ticked \/ HeardDone \/ Closing
    BY <2>4 DEF Ticked, HeardDone, Closing, KeepsBooks
  <2> QED
    BY <1>4, <2>1, <2>2, <2>3, <2>4 DEF HostSteps
<1> QED
  BY <1>3, <1>4

LEMMA BooksStay ==
    ASSUME journal' = journal, strategy' = strategy, EventLines' = EventLines,
           BooksAre(fills', pending', AnsweredLines', cursor')
    PROVE  Books'
<1>1. FilledIn(fills, AnsweredLines, cursor)'
  BY DEF BooksAre, FilledIn, Placing, Placed, OrdersOf, MoveOf, Rank, Quiet
<1>2. WaitingIn(pending, AnsweredLines, cursor)'
  BY DEF BooksAre, WaitingIn, Placing, Placed, OrdersOf, MoveOf, Rank, Quiet
<1>3. OnceIn(fills, pending)'
  BY DEF BooksAre, OnceIn, Is
<1>4. NoneMissingIn(fills, pending, AnsweredLines)'
  BY DEF BooksAre, NoneMissingIn, Placed, OrdersOf, MoveOf, Rank, Is
<1> QED
  BY <1>1, <1>2, <1>3, <1>4 DEF Books, BooksAre

LEMMA TradeBooks ==
    ASSUME Known, BookTypes, Books, NEW i \in (cursor + 1)..Len(journal), YieldsLine(i),
           journal[i].type = "trade", FilledAt(i)
    PROVE  BooksAre(fills', pending', AnsweredLines, i)
<1>1. /\ Len(fills) \in Nat /\ Len(pending) \in Nat /\ Len(fills') = Len(fills) + Len(pending)
      /\ pending' = <<>> /\ Len(pending') = 0
  BY EmptySeq DEF FilledAt, BookTypes
<1>2. /\ i \in EventLines /\ i \in Nat /\ cursor \in Nat /\ cursor < i
      /\ \A t \in AnsweredLines : t \in Nat /\ t <= cursor
  BY RankNext, EventLinesAre DEF Known, Types, AnsweredLines
<1>3. ASSUME NEW k \in 1..Len(fills')
      PROVE  \/ k \in 1..Len(fills) /\ fills'[k] = fills[k]
             \/ \E l \in 1..Len(pending) :
                   k = Len(fills) + l /\ fills'[k].order = pending[l] /\ fills'[k].trade = i
  <2>1. CASE k <= Len(fills)
    BY <1>1, <2>1 DEF FilledAt
  <2>2. CASE ~(k <= Len(fills))
    <3>1. k - Len(fills) \in 1..Len(pending) /\ k = Len(fills) + (k - Len(fills))
      BY <1>1, <2>2
    <3> QED
      BY <3>1 DEF FilledAt
  <2> QED
    BY <2>1, <2>2
<1>4. FilledIn(fills', AnsweredLines, i)
  <2> SUFFICES ASSUME NEW k \in 1..Len(fills')
               PROVE  /\ fills'[k].order.tick \in AnsweredLines /\ Placing(fills'[k].order)
                      /\ fills'[k].trade \in EventLines /\ journal[fills'[k].trade].type = "trade"
                      /\ fills'[k].order.tick < fills'[k].trade /\ fills'[k].trade <= i
                      /\ Quiet(fills'[k].order.tick, fills'[k].trade - 1)
    BY DEF FilledIn
  <2>1. CASE k \in 1..Len(fills) /\ fills'[k] = fills[k]
    <3>1. /\ fills[k].order.tick \in AnsweredLines /\ Placing(fills[k].order)
          /\ fills[k].trade \in EventLines /\ journal[fills[k].trade].type = "trade"
          /\ fills[k].order.tick < fills[k].trade /\ fills[k].trade <= cursor
          /\ Quiet(fills[k].order.tick, fills[k].trade - 1)
      BY <2>1 DEF Books, BooksAre, FilledIn
    <3>2. fills[k].trade <= i
      <4>1. fills[k].trade \in Nat
        BY <3>1, EventLinesAre DEF Known
      <4> QED
        BY <1>2, <3>1, <4>1
    <3> QED
      BY <2>1, <3>1, <3>2
  <2>2. CASE \E l \in 1..Len(pending) : fills'[k].order = pending[l] /\ fills'[k].trade = i
    <3>1. PICK l \in 1..Len(pending) : fills'[k].order = pending[l] /\ fills'[k].trade = i
      BY <2>2
    <3>2. pending[l].tick \in AnsweredLines /\ Placing(pending[l]) /\ Quiet(pending[l].tick, cursor)
      BY DEF Books, BooksAre, WaitingIn
    <3>3. pending[l].tick \in Nat /\ pending[l].tick < i
      BY <1>2, <3>2
    <3>4. Quiet(pending[l].tick, i - 1)
      BY <3>2, <3>3, QuietOn DEF Known
    <3> QED
      BY <1>2, <3>1, <3>2, <3>3, <3>4
  <2> QED
    BY <1>3, <2>1, <2>2
<1>5. WaitingIn(pending', AnsweredLines, i)
  BY <1>1 DEF WaitingIn
<1>6. OnceIn(fills', pending')
  <2>1. ASSUME NEW k \in 1..Len(fills'), NEW l \in 1..Len(fills'),
               Is(fills'[k].order, fills'[l].order.tick, fills'[l].order.nth)
        PROVE  k = l
    <3>1. /\ \A m, n \in 1..Len(fills) :
                Is(fills[m].order, fills[n].order.tick, fills[n].order.nth) => m = n
          /\ \A m, n \in 1..Len(pending) : Is(pending[m], pending[n].tick, pending[n].nth) => m = n
          /\ \A m \in 1..Len(fills), n \in 1..Len(pending) :
                ~Is(fills[m].order, pending[n].tick, pending[n].nth)
      BY DEF Books, BooksAre, OnceIn
    <3>2. \/ k \in 1..Len(fills) /\ fills'[k] = fills[k]
          \/ \E n \in 1..Len(pending) : k = Len(fills) + n /\ fills'[k].order = pending[n]
      BY <1>3
    <3>3. \/ l \in 1..Len(fills) /\ fills'[l] = fills[l]
          \/ \E n \in 1..Len(pending) : l = Len(fills) + n /\ fills'[l].order = pending[n]
      BY <1>3
    <3>4. \A o, p : Is(o, p.tick, p.nth) => Is(p, o.tick, o.nth)
      BY DEF Is
    <3> QED
      BY <2>1, <3>1, <3>2, <3>3, <3>4
  <2> QED
    BY <1>1, <2>1 DEF OnceIn
<1>7. NoneMissingIn(fills', pending', AnsweredLines)
  <2> SUFFICES ASSUME NEW t \in AnsweredLines, NEW n \in 1..Len(Placed(Rank(t)))
               PROVE  \E k \in 1..Len(fills') : Is(fills'[k].order, t, n)
    BY DEF NoneMissingIn
  <2>1. CASE \E k \in 1..Len(fills) : Is(fills[k].order, t, n)
    <3>1. PICK k \in 1..Len(fills) : Is(fills[k].order, t, n)
      BY <2>1
    <3>2. k \in 1..Len(fills') /\ fills'[k] = fills[k]
      BY <1>1 DEF FilledAt
    <3> QED
      BY <3>1, <3>2
  <2>2. CASE \E k \in 1..Len(pending) : Is(pending[k], t, n)
    <3>1. PICK k \in 1..Len(pending) : Is(pending[k], t, n)
      BY <2>2
    <3>2. Len(fills) + k \in 1..Len(fills') /\ fills'[Len(fills) + k].order = pending[k]
      BY <1>1 DEF FilledAt
    <3> QED
      BY <3>1, <3>2
  <2> QED
    BY <2>1, <2>2 DEF Books, BooksAre, NoneMissingIn
<1> QED
  BY <1>4, <1>5, <1>6, <1>7 DEF BooksAre

LEMMA NoTradeBooks ==
    ASSUME Known, Books, NEW i \in (cursor + 1)..Len(journal), YieldsLine(i),
           journal[i].type # "trade"
    PROVE  BooksAre(fills, pending, AnsweredLines, i)
<1>1. /\ i \in Nat /\ cursor \in Nat /\ cursor < i
      /\ \A t \in AnsweredLines : t \in Nat
  BY RankNext, EventLinesAre DEF Known, Types, AnsweredLines
<1>2. FilledIn(fills, AnsweredLines, i)
  <2>1. \A l \in EventLines : l <= cursor => l <= i
    BY <1>1, EventLinesAre DEF Known
  <2> QED
    BY <2>1 DEF Books, BooksAre, FilledIn
<1>3. WaitingIn(pending, AnsweredLines, i)
  <2>1. \A t \in AnsweredLines : Quiet(t, cursor) => Quiet(t, i)
    BY <1>1, QuietOn DEF Known
  <2> QED
    BY <2>1 DEF Books, BooksAre, WaitingIn
<1> QED
  BY <1>2, <1>3 DEF Books, BooksAre

LEMMA RevealedBooks ==
    ASSUME Known, BookTypes, Gating, Books, HostSteps, Revealed
    PROVE  Books'
<1>1. /\ strategy' = strategy /\ journal' = journal /\ EventLines' = EventLines
      /\ AnsweredLines' = AnsweredLines
  <2>1. ~AcceptedAll
    BY DEF Revealed, AcceptedAll
  <2> QED
    BY <2>1, AnsweredHost
<1>2. PICK i \in (cursor + 1)..Len(journal) :
        /\ YieldsLine(i) /\ cursor' = i
        /\ IF journal[i].type = "trade" THEN FilledAt(i) ELSE UNCHANGED <<fills, pending>>
  BY DEF Revealed
<1>3. CASE journal[i].type = "trade"
  BY <1>1, <1>2, <1>3, TradeBooks, BooksStay
<1>4. CASE journal[i].type # "trade"
  BY <1>1, <1>2, <1>4, NoTradeBooks, BooksStay
<1> QED
  BY <1>3, <1>4

LEMMA AcceptedBooks ==
    ASSUME Known, BookTypes, Tally, Gating, Books, HostSteps, AcceptedAll
    PROVE  Books'
<1>1. /\ strategy' = strategy /\ journal' = journal /\ EventLines' = EventLines
      /\ AnsweredLines' = AnsweredLines \union {cursor} /\ cursor \notin AnsweredLines
      /\ cursor' = cursor /\ fills' = fills
  BY AnsweredHost DEF AcceptedAll
<1>2. /\ cursor \in Nat /\ ticksSent \in Nat /\ Rank(cursor) = ticksSent
      /\ Len(fills) \in Nat /\ Len(pending) \in Nat
  <2>1. hostPc = "answer" /\ ticksSent \in Nat /\ cursor \in Nat
    BY DEF AcceptedAll, Tally, Known, Types
  <2>2. Rank(cursor) = ticksSent
    BY <2>1 DEF Gating
  <2> QED
    BY <2>1, <2>2 DEF BookTypes
<1>3. Heard = fromCell[1] /\ Heard.orders = Placed(Rank(cursor))
  BY <1>2, HeardTypes DEF AcceptedAll, Tally, Known
<1> DEFINE orders == Placed(Rank(cursor))
<1>4. /\ Len(orders) \in Nat /\ Len(pending') = Len(pending) + Len(orders)
      /\ \A k \in 1..Len(pending) : pending'[k] = pending[k]
      /\ \A k \in 1..Len(orders) :
            /\ Is(pending'[Len(pending) + k], cursor, k)
            /\ pending'[Len(pending) + k].side = orders[k].side
            /\ pending'[Len(pending) + k].size = orders[k].size
  BY <1>3, PlacedIs DEF AcceptedAll, Joins, Known
<1> HIDE DEF orders
<1>5. ASSUME NEW k \in 1..Len(pending')
      PROVE  \/ k \in 1..Len(pending) /\ pending'[k] = pending[k]
             \/ \E n \in 1..Len(orders) :
                   /\ k = Len(pending) + n /\ Is(pending'[k], cursor, n)
                   /\ pending'[k].side = orders[n].side /\ pending'[k].size = orders[n].size
  <2>1. CASE k <= Len(pending)
    BY <1>2, <1>4, <2>1
  <2>2. CASE ~(k <= Len(pending))
    <3>1. k - Len(pending) \in 1..Len(orders) /\ k = Len(pending) + (k - Len(pending))
      BY <1>2, <1>4, <2>2
    <3> QED
      BY <1>4, <3>1
  <2> QED
    BY <2>1, <2>2
<1>6. FilledIn(fills', AnsweredLines', cursor')
  BY <1>1 DEF Books, BooksAre, FilledIn
<1>7. WaitingIn(pending', AnsweredLines', cursor')
  <2> SUFFICES ASSUME NEW k \in 1..Len(pending')
               PROVE  /\ pending'[k].tick \in AnsweredLines' /\ Placing(pending'[k])
                      /\ Quiet(pending'[k].tick, cursor')
    BY DEF WaitingIn
  <2>1. CASE k \in 1..Len(pending) /\ pending'[k] = pending[k]
    BY <1>1, <2>1 DEF Books, BooksAre, WaitingIn
  <2>2. CASE \E n \in 1..Len(orders) :
                /\ Is(pending'[k], cursor, n)
                /\ pending'[k].side = orders[n].side /\ pending'[k].size = orders[n].size
    <3>1. Placing(pending'[k]) /\ pending'[k].tick = cursor
      BY <2>2 DEF Placing, Is, orders
    <3>2. Quiet(cursor, cursor)
      <4>1. \A l \in EventLines : ~(cursor < l /\ l <= cursor)
        BY <1>2, EventLinesAre DEF Known
      <4> QED
        BY <4>1 DEF Quiet
    <3> QED
      BY <1>1, <3>1, <3>2
  <2> QED
    BY <1>5, <2>1, <2>2
<1>8. OnceIn(fills', pending')
  <2>1. /\ \A k \in 1..Len(fills) : fills[k].order.tick # cursor
        /\ \A k \in 1..Len(pending) : pending[k].tick # cursor
    BY <1>1 DEF Books, BooksAre, FilledIn, WaitingIn
  <2>2. /\ \A m, n \in 1..Len(pending) : Is(pending[m], pending[n].tick, pending[n].nth) => m = n
        /\ \A m \in 1..Len(fills), n \in 1..Len(pending) :
              ~Is(fills[m].order, pending[n].tick, pending[n].nth)
        /\ \A m, n \in 1..Len(fills) :
              Is(fills[m].order, fills[n].order.tick, fills[n].order.nth) => m = n
    BY DEF Books, BooksAre, OnceIn
  <2>3. ASSUME NEW k \in 1..Len(pending'), NEW l \in 1..Len(pending'),
               Is(pending'[k], pending'[l].tick, pending'[l].nth)
        PROVE  k = l
    <3>1. \/ k \in 1..Len(pending) /\ pending'[k] = pending[k]
          \/ \E n \in 1..Len(orders) : k = Len(pending) + n /\ Is(pending'[k], cursor, n)
      BY <1>5
    <3>2. \/ l \in 1..Len(pending) /\ pending'[l] = pending[l]
          \/ \E n \in 1..Len(orders) : l = Len(pending) + n /\ Is(pending'[l], cursor, n)
      BY <1>5
    <3> QED
      BY <2>1, <2>2, <2>3, <3>1, <3>2 DEF Is
  <2>4. ASSUME NEW k \in 1..Len(fills), NEW l \in 1..Len(pending')
        PROVE  ~Is(fills[k].order, pending'[l].tick, pending'[l].nth)
    <3>1. \/ l \in 1..Len(pending) /\ pending'[l] = pending[l]
          \/ \E n \in 1..Len(orders) : Is(pending'[l], cursor, n)
      BY <1>5
    <3> QED
      BY <2>1, <2>2, <3>1 DEF Is
  <2> QED
    BY <1>1, <2>2, <2>3, <2>4 DEF OnceIn
<1>9. NoneMissingIn(fills', pending', AnsweredLines')
  <2> SUFFICES ASSUME NEW t \in AnsweredLines', NEW n \in 1..Len(Placed(Rank(t)))
               PROVE  \/ \E k \in 1..Len(fills') : Is(fills'[k].order, t, n)
                      \/ \E k \in 1..Len(pending') : Is(pending'[k], t, n)
    BY DEF NoneMissingIn
  <2>1. CASE t = cursor
    <3>1. n \in 1..Len(orders)
      BY <2>1 DEF orders
    <3>2. Len(pending) + n \in 1..Len(pending')
      BY <1>2, <1>4, <3>1
    <3> QED
      BY <1>4, <2>1, <3>1, <3>2
  <2>2. CASE t \in AnsweredLines
    <3>1. \/ \E k \in 1..Len(fills) : Is(fills[k].order, t, n)
          \/ \E k \in 1..Len(pending) : Is(pending[k], t, n)
      BY <2>2 DEF Books, BooksAre, NoneMissingIn
    <3>2. \A k \in 1..Len(pending) : k \in 1..Len(pending') /\ pending'[k] = pending[k]
      BY <1>2, <1>4
    <3> QED
      BY <1>1, <3>1, <3>2
  <2> QED
    BY <1>1, <2>1, <2>2
<1> QED
  BY <1>1, <1>6, <1>7, <1>8, <1>9, BooksStay DEF BooksAre

LEMMA BooksHost ==
    ASSUME Known, BookTypes, Tally, Gating, Books, HostSteps
    PROVE  Books'
<1>1. CASE ~AcceptedAll /\ ~Revealed
  <2>1. UNCHANGED <<cursor, fills, pending>>
    BY <1>1 DEF HostSteps, Greeted, Started, RanOut, Ticked, HeardDone, Closing, KeepsBooks
  <2>2. BooksAre(fills', pending', AnsweredLines', cursor')
    BY <1>1, <2>1, AnsweredHost DEF Books
  <2> QED
    BY <2>2, AnsweredHost, BooksStay
<1> QED
  BY <1>1, RevealedBooks, AcceptedBooks

-----------------------------------------------------------------------------
(* While nothing fails, all of it holds.                                     *)
LEMMA RuntimeIsUndisturbed ==
    ASSUME Known, Conversation, Determined, Undisturbed',
           Runtime \/ Killed,
           UNCHANGED <<gateVars, bookVars, talkVars, accepted>>
    PROVE  Determined'
<1>1. Runtime /\ Undisturbed /\ InStep
  <2>1. Runtime
    BY DEF Killed, Leave, Undisturbed
  <2>2. cellPc # "gone"
    BY <2>1 DEF Runtime, SendReady, ReadStart, EnterStrategy, NextTick, TicksEnd,
       MakeMove, SendDecision, SendDone, SendError, CellExit
  <2> QED
    BY <2>1, <2>2 DEF Undisturbed, Conversation, talkVars
<1>2. UNCHANGED <<strategy, journal, cursor, now, fills, pending, hostPc, ticksSent, exhausted,
                  failure>>
  BY <1>1, RuntimeLeaves
<1>3. Farewell' /\ Tally'
  BY <1>1, FarewellStep, TallyRuntime DEF Determined
<1>4. Ended'
  BY <1>1, <1>2, EndsStay DEF Determined, Ended
<1>5. EventLines' = EventLines
  BY <1>2, Determines
<1>6. Gating'
  BY <1>1, <1>2, <1>5 DEF Determined, Gating, Rank
<1>7. Books'
  <2>1. AnsweredLines' = AnsweredLines
    BY <1>2, <1>5 DEF AnsweredLines
  <2> QED
    BY <1>1, <1>2, <1>5, <2>1, BooksStay DEF Determined, Books
<1> QED
  BY <1>3, <1>4, <1>6, <1>7 DEF Determined

LEMMA InitDetermined == Init => Determined
<1> SUFFICES ASSUME Init PROVE Determined
  OBVIOUS
<1>1. /\ cellPc = "ready" /\ ticksSeen = 0 /\ hostPc = "opening" /\ ticksSent = 0
      /\ exhausted = FALSE /\ cursor = 0 /\ Types
      /\ Len(fromCell) = 0 /\ Len(fills) = 0 /\ Len(pending) = 0
  BY InitKnown, EmptySeq DEF Init, FeederInit, WireInit, GateInit, PortfolioInit, MarketInit, Known
<1>2. \A ms : ~Said(ms)
  BY <1>1 DEF Said
<1>3. Farewell /\ Tally
  BY <1>1, <1>2 DEF Farewell, Tally, Leaving
<1>4. Ended
  BY <1>1 DEF Ended, Conversing
<1>5. Gating
  BY <1>1, RankOfNone DEF Gating, Conversing
<1>6. Books
  <2>1. \A t \in EventLines : t \in Nat /\ t # 0
    BY <1>1, EventLinesAre
  <2>2. \A t : t \notin AnsweredLines
    BY <1>1, <2>1 DEF AnsweredLines
  <2>3. FilledIn(fills, AnsweredLines, cursor) /\ WaitingIn(pending, AnsweredLines, cursor)
    BY <1>1 DEF FilledIn, WaitingIn
  <2>4. OnceIn(fills, pending) /\ NoneMissingIn(fills, pending, AnsweredLines)
    BY <1>1, <2>2 DEF OnceIn, NoneMissingIn
  <2> QED
    BY <2>3, <2>4 DEF Books, BooksAre
<1> QED
  BY <1>3, <1>4, <1>5, <1>6 DEF Determined

(* What neither host nor runtime does.                                       *)
Idle ==
    UNCHANGED <<strategy, journal, cursor, fills, pending, hostPc, ticksSent, exhausted,
                failure, exitStatus, cellPc, ticksSeen, fromCell>>

LEMMA IdleIs == GiveUp \/ Bystander => Idle
BY GivingUp DEF Bystander, Idle, feederVars, marketVars, wireVars, gateVars, bookVars, talkVars

LEMMA IdleDetermined ==
    ASSUME Known, Determined, Idle, Undisturbed'
    PROVE  Determined'
<1>1. Farewell /\ Tally /\ Ended /\ Gating /\ Books
  BY DEF Idle, Determined, Undisturbed
<1>2. /\ strategy' = strategy /\ ticksSeen' = ticksSeen /\ ticksSeen \in Nat
      /\ ticksSent' = ticksSent
  BY DEF Idle, Known, Path
<1>3. Farewell'
  <2>1. \A ms : Said(ms)' <=> Said(ms)
    BY DEF Said, Idle
  <2>2. Left(ticksSeen)' <=> Left(ticksSeen)
    BY <1>2, StrategyStays
  <2>3. /\ Took({"error"}) => Took({"error"})'
        /\ Took(Exits) => Took(Exits)'
    BY <1>2, TookStays
  <2> QED
    BY <1>1, <2>1, <2>2, <2>3 DEF Farewell, Idle
<1>4. Tally'
  <2>1. /\ Abandons(ticksSeen)' <=> Abandons(ticksSeen)
        /\ Placed(ticksSent)' = Placed(ticksSent)
    BY <1>2, StrategyStays
  <2>2. Answering' <=> Answering
    BY DEF Answering, Idle
  <2> QED
    BY <1>1, <2>1, <2>2 DEF Tally, Idle
<1>5. Ended'
  BY <1>1, EndsStay DEF Ended, Idle
<1>6. EventLines' = EventLines
  BY Determines DEF Idle
<1>7. Gating'
  BY <1>1, <1>6 DEF Gating, Rank, Idle
<1>8. Books'
  <2>1. AnsweredLines' = AnsweredLines
    BY <1>6 DEF AnsweredLines, Idle
  <2> QED
    BY <1>1, <1>6, <2>1, BooksStay DEF Books, Idle
<1> QED
  BY <1>3, <1>4, <1>5, <1>7, <1>8 DEF Determined

LEMMA NextDetermined ==
    Known /\ BookTypes /\ Conversation /\ Determined /\ [Next]_vars => Determined'
<1> SUFFICES ASSUME Known, BookTypes, Conversation, Determined, [Next]_vars, Undisturbed'
             PROVE  Determined'
  BY DEF Determined
<1>1. CASE HostStep
  <2>1. HostSteps /\ failure = "none"
    BY <1>1, HostKinds DEF Undisturbed, HostSteps
  <2>2. Undisturbed
    BY <1>1, <2>1, HostStays DEF Undisturbed
  <2>3. InStep
    BY <2>2 DEF Undisturbed, Conversation
  <2>4. Farewell /\ Tally /\ Ended /\ Gating /\ Books
    BY <2>2 DEF Determined
  <2>5. Farewell' /\ Tally' /\ Ended' /\ Gating' /\ Books'
    BY <2>1, <2>3, <2>4, FarewellHost, TallyHost, EndedHost, GatingHost, BooksHost
  <2> QED
    BY <2>5 DEF Determined
<1>2. CASE /\ Runtime \/ Killed
           /\ UNCHANGED <<gateVars, bookVars, talkVars, accepted>>
  BY <1>2, RuntimeIsUndisturbed
<1>3. CASE GiveUp \/ Bystander
  BY <1>3, IdleIs, IdleDetermined
<1> QED
  BY <1>1, <1>2, <1>3, StepKinds

-----------------------------------------------------------------------------
(* What the host holds against a run.                                        *)
LEMMA AccusationStays ==
    ASSUME Known, AccusedForCause, exitStatus # "killed",
           UNCHANGED <<strategy, journal, cursor, ticksSent, failure>>,
           ticksSeen' \in {ticksSeen, ticksSeen + 1}
    PROVE  AccusedForCause'
<1>1. Placed(ticksSent)' = Placed(ticksSent)
  BY StrategyStays
<1>2. /\ Took(Exits) => Took(Exits)'
      /\ Took({"error"}) => Took({"error"})'
  BY TookStays DEF Known, Path
<1>3. Refuses => Refuses'
  BY DEF Refuses, Reaches, Skipped
<1> QED
  BY <1>1, <1>2, <1>3 DEF AccusedForCause

LEMMA AnswerIsHeld ==
    ASSUME Known, InStep, Farewell, Tally, ReadAnswer, HostStep,
           failure = "none", failure' # "none"
    PROVE  \/ failure' = "stopped_answering" /\ Took(Exits)
           \/ failure' = "cell_error" /\ Took({"error"})
           \/ failure' = "protocol_error" /\ Len(Placed(ticksSent)) > MaxOrders
           \/ /\ failure' = "sbx_error"
              /\ \E n \in 1..Len(Placed(ticksSent)) : ~WellFormed(Placed(ticksSent)[n])
<1>1. hostPc = "answer" /\ hostPc \in Conversing /\ Asked
  BY DEF ReadAnswer, InStep, Conversing
<1>2. CASE HostReadsEOF /\ Fail("stopped_answering")
  <2>1. fromCell = <<>> /\ cellPc = "gone"
    BY <1>2 DEF HostReadsEOF, Known, RuntimeKnows
  <2>2. ~Said({"done", "error"})
    <3>1. Len(fromCell) = 0
      BY <2>1, EmptySeq
    <3> QED
      BY <3>1 DEF Said
  <2> QED
    BY <1>1, <1>2, <2>1, <2>2 DEF Farewell, Leaving, Fail
<1>3. CASE HostReads /\ (AcceptDecision(Heard) \/ RejectReply(Heard))
  <2>1. /\ Heard = fromCell[1] /\ Len(fromCell) \in Nat \ {0} /\ fromCell # <<>>
        /\ Heard.orders \in Seq(MarketOrder) /\ Len(Heard.orders) \in Nat
    BY <1>3, HeardTypes DEF Known, HostReads, Speaking
  <2>2. Heard.m = "decision" => Heard.orders = Placed(ticksSent)
    BY <1>1, <2>1 DEF Tally, Answering
  <2>3. CASE AcceptDecision(Heard)
    <3>1. PICK n \in 0..Len(Heard.orders) :
            /\ Admitted(Heard.orders, n)
            /\ IF n = Len(Heard.orders) THEN Goto("replay") ELSE Fail("sbx_error")
      BY <2>3 DEF AcceptDecision
    <3>2. n # Len(Heard.orders) /\ failure' = "sbx_error"
      BY <3>1 DEF Goto, Fail
    <3>3. n + 1 \in 1..Len(Heard.orders) /\ ~WellFormed(Heard.orders[n + 1])
      BY <2>1, <3>1, <3>2 DEF Admitted
    <3>4. Heard.orders = Placed(ticksSent)
      BY <2>2, <2>3 DEF AcceptDecision, AnswersTick
    <3> QED
      BY <3>2, <3>3, <3>4
  <2>4. CASE RejectReply(Heard)
    <3>1. CASE Heard.m = "error" /\ Fail("cell_error")
      <4>1. Said({"error"})
        <5>1. 1 \in 1..Len(fromCell)
          BY <2>1
        <5> QED
          BY <2>1, <3>1, <5>1 DEF Said
      <4> QED
        BY <1>1, <3>1, <4>1 DEF Farewell, Fail
    <3>2. CASE /\ Heard.m \notin {"done", "error"} /\ Fail("protocol_error")
               /\ AnswersTick(Heard) => Len(Heard.orders) > MaxOrders
      <4>1. fromCell[1].m = "decision" /\ fromCell[1].now = now
        BY <1>1, <2>1, <3>2 DEF Asked, Concluding
      <4> QED
        BY <2>1, <2>2, <3>2, <4>1 DEF AnswersTick, Fail
    <3>3. ~(Heard.m = "done")
      BY <2>4 DEF RejectReply, Goto
    <3> QED
      BY <2>4, <3>1, <3>2, <3>3 DEF RejectReply
  <2> QED
    BY <1>3, <2>3, <2>4
<1> QED
  BY <1>2, <1>3 DEF ReadAnswer

LEMMA HostAccuses ==
    ASSUME Known, Conversation, Determined, HostStep,
           exitStatus # "killed", failure = "none", failure' # "none"
    PROVE  AccusedForCause'
<1>1. InStep /\ Farewell /\ Tally
  BY DEF Conversation, Determined, Undisturbed
<1>2. UNCHANGED <<strategy, ticksSeen>> /\ ticksSeen \in Nat
  BY HostStays DEF Known, Path
<1>3. CASE ReadAnswer
  <2>1. ticksSent' = ticksSent
    BY <1>3 DEF ReadAnswer, AcceptDecision, RejectReply, Goto, Fail
  <2>2. Placed(ticksSent)' = Placed(ticksSent)
    BY <1>2, <2>1, StrategyStays
  <2>3. /\ Took(Exits) => Took(Exits)'
        /\ Took({"error"}) => Took({"error"})'
    BY <1>2, TookStays
  <2> QED
    BY <1>1, <1>3, <2>2, <2>3, AnswerIsHeld DEF AccusedForCause
<1>4. CASE RevealUnobservable
  <2>1. PICK i \in (cursor + 1)..Len(journal) :
          /\ cursor' = i /\ journal' = journal /\ Unobservable(journal[i])
          /\ failure' = "sbx_error"
    BY <1>4 DEF RevealUnobservable, AdvanceTo, Fail
  <2>2. cursor' > 0 /\ Unobservable(journal[cursor])'
    BY <2>1 DEF Known, Types, Unobservable
  <2> QED
    BY <2>1, <2>2 DEF AccusedForCause
<1>5. CASE RefuseJournal
  <2>1. Refuses' /\ failure' = "sbx_error"
    BY <1>5 DEF RefuseJournal, Refuses, Reaches, Skipped, Fail, gateVars
  <2> QED
    BY <2>1 DEF AccusedForCause
<1>6. CASE RefuseTick
  BY <1>6 DEF RefuseTick, HostRefusesFrame, TooLong, Fail, gateVars, AccusedForCause
<1>7. CASE BreakPipe
  BY <1>7 DEF BreakPipe, Fail, AccusedForCause
<1>8. ~Opening
  BY <1>1, OpeningInStep
<1>9. ~SendStart /\ ~Reveal /\ ~Exhaust /\ ~SendTick /\ ~SendStop /\ ~HangUp
  BY DEF SendStart, Reveal, Exhaust, SendTick, SendStop, HangUp, Goto
<1> QED
  BY <1>3, <1>4, <1>5, <1>6, <1>7, <1>8, <1>9 DEF HostStep, Host

LEMMA NextAccused ==
    Known /\ Conversation /\ Determined /\ AccusedForCause /\ [Next]_vars => AccusedForCause'
<1> SUFFICES ASSUME Known, Conversation, Determined, AccusedForCause, [Next]_vars,
                    exitStatus' # "killed"
             PROVE  AccusedForCause'
  BY DEF AccusedForCause
<1>1. CASE HostStep
  <2>1. exitStatus # "killed" /\ UNCHANGED <<strategy, ticksSeen>>
    BY <1>1, HostStays
  <2>2. CASE failure' = "none"
    BY <2>2 DEF AccusedForCause
  <2>3. CASE failure' # "none" /\ failure = "none"
    BY <1>1, <2>1, <2>3, HostAccuses
  <2>4. CASE failure # "none"
    <3>1. hostPc \in {"hangup", "done"}
      BY <2>4 DEF Conversation
    <3>2. HangUp
      BY <1>1, <3>1 DEF HostStep, Host, BreakPipe, Opening, SendStart, Reveal, RevealUnobservable,
         RefuseJournal, Exhaust, SendTick, RefuseTick, ReadAnswer, SendStop
    <3>3. UNCHANGED <<journal, cursor, ticksSent, failure>>
      BY <3>2 DEF HangUp, Goto, gateVars
    <3> QED
      BY <2>1, <3>3, AccusationStays
  <2> QED
    BY <2>2, <2>3, <2>4
<1>2. CASE /\ Runtime \/ Killed
           /\ UNCHANGED <<gateVars, bookVars, talkVars, accepted>>
  <2>1. Runtime
    BY <1>2 DEF Killed, Leave
  <2>2. UNCHANGED <<strategy, journal, cursor, ticksSent, failure>>
    BY <1>2, <2>1, RuntimeLeaves
  <2>3. ticksSeen' \in {ticksSeen, ticksSeen + 1}
    BY <2>1 DEF Runtime, SendReady, ReadStart, EnterStrategy, NextTick, TicksEnd, MakeMove,
       SendDecision, SendDone, SendError, CellExit, Leave, Jump
  <2>4. exitStatus # "killed"
    <3>1. cellPc # "gone"
      BY <2>1 DEF Runtime, SendReady, ReadStart, EnterStrategy, NextTick, TicksEnd,
         MakeMove, SendDecision, SendDone, SendError, CellExit
    <3> QED
      BY <3>1 DEF Conversation
  <2> QED
    BY <2>2, <2>3, <2>4, AccusationStays
<1>3. CASE GiveUp \/ Bystander
  BY <1>3, IdleIs, AccusationStays DEF Idle
<1> QED
  BY <1>1, <1>2, <1>3, StepKinds

(* Whatever the strategy and whenever the scheduler lets host and runtime    *)
(* run: a failure that is held against a run nobody killed has its cause in  *)
(* what the strategy did or in the journal.  (runtime.ticks' finally clause; *)
(* runner.py 155-224)                                                        *)
THEOREM AccusedOnlyForCause == Spec => []AccusedForCause
<1>1. Init => AccusedForCause
  BY DEF Init, FeederInit, AccusedForCause
<1> QED
  BY <1>1, InitKnown, NextKnown, InitBooks, NextBooks, InitConversation, NextConversation,
     InitDetermined, NextDetermined, NextAccused, PTL DEF Spec

-----------------------------------------------------------------------------
(* How the runs with a result ended, but for those whose talker was left     *)
(* running.                                                                  *)
LEMMA NextConcluded == Concluded /\ [Next]_vars => Concluded'
<1> SUFFICES ASSUME Concluded, [Next]_vars PROVE Concluded'
  OBVIOUS
<1>1. CASE HostStep
  <2>1. hostPc # "done" /\ UNCHANGED <<outcome, outlasted, cellPc, exitStatus>>
    BY <1>1 DEF HostStep, marketVars, Host, BreakPipe, Opening, SendStart, Reveal,
       RevealUnobservable, RefuseJournal, Exhaust, SendTick, RefuseTick, ReadAnswer, SendStop,
       HangUp
  <2> QED
    BY <2>1 DEF Concluded, RanOutcomes
<1>2. CASE CellStep \/ Kill
  <2>1. cellPc # "gone" /\ outcome' = outcome
    BY <1>2 DEF CellStep, Kill, Runtime, Killed, SendReady, ReadStart, EnterStrategy, NextTick,
       TicksEnd, MakeMove, SendDecision, SendDone, SendError, CellExit
  <2> QED
    BY <2>1 DEF Concluded, RanOutcomes
<1>3. CASE GiveUp
  <2>1. outcome' = outcome /\ cellPc' = "gone" /\ outlasted'
    BY <1>3, GivingUp DEF GiveUp
  <2> QED
    BY <2>1 DEF Concluded
<1>4. CASE Conclude
  <2>1. UNCHANGED <<exitStatus, failure, exhausted, hostPc, cellPc, outlasted>>
    BY <1>4 DEF Conclude, feederVars, talkVars, marketVars
  <2> QED
    BY <1>4, <2>1 DEF Conclude, Concluded, Verdict, CellOutcome, RanOutcomes
<1>5. CASE UNCHANGED vars
  BY <1>5 DEF vars, feederVars, talkVars, marketVars, Concluded
<1> QED
  BY <1>1, <1>2, <1>3, <1>4, <1>5 DEF Next, Recorded

AtTheEnd ==
    /\ Known /\ BookTypes /\ hostPc = "done"
    /\ outcome = IF exhausted THEN "completed" ELSE "stopped_early"
    /\ Ended /\ Gating /\ Tally /\ Books

LEMMA EndIs ==
    ASSUME Known, BookTypes, Determined, Concluded, outcome \in RanOutcomes, ~outlasted
    PROVE  AtTheEnd
<1>1. /\ hostPc = "done" /\ exitStatus = "0" /\ failure = "none"
      /\ outcome = IF exhausted THEN "completed" ELSE "stopped_early"
  BY Zenon DEF Concluded, RanOutcomes
<1>2. Undisturbed
  BY <1>1 DEF Undisturbed
<1> QED
  BY <1>1, <1>2 DEF AtTheEnd, Determined

LEMMA LastTickIs ==
    ASSUME Types
    PROVE  /\ strategy.opening = "done" => LastTick = 0
           /\ \A n \in 1..(TickCount + 1) :
                 strategy.opening # "done" /\ StaysUntil(n) /\ (n <= TickCount => Stops(n))
                    => LastTick = n
<1>1. strategy.opening = "done" => LastTick = 0
  BY DEF LastTick
<1>2. ASSUME NEW n \in 1..(TickCount + 1), strategy.opening # "done", StaysUntil(n),
             n <= TickCount => Stops(n)
      PROVE  LastTick = n
  <2>1. LastTick = CHOOSE k \in 1..(TickCount + 1) :
                      (k <= TickCount => Stops(k)) /\ (\A l \in 1..(k - 1) : ~Stops(l))
    BY <1>2 DEF LastTick, Stops
  <2>2. ASSUME NEW k \in 1..(TickCount + 1), k <= TickCount => Stops(k),
               \A l \in 1..(k - 1) : ~Stops(l)
        PROVE  k = n
    <3>1. TickCount \in Nat
      BY EventLinesAre
    <3>2. ~(k < n)
      BY <1>2, <2>2, <3>1 DEF StaysUntil
    <3>3. ~(n < k)
      BY <1>2, <2>2, <3>1
    <3> QED
      BY <3>1, <3>2, <3>3
  <2>3. \A l \in 1..(n - 1) : ~Stops(l)
    BY <1>2 DEF StaysUntil
  <2> QED
    BY <1>2, <2>1, <2>2, <2>3
<1> QED
  BY <1>1, <1>2

LEMMA LastLineIs ==
    ASSUME AtTheEnd
    PROVE  /\ cursor \in EventLines \union {0} /\ ticksSent \in 0..TickCount /\ TickCount \in Nat
           /\ Rank(cursor) = ticksSent
           /\ ticksSent >= 1 => cursor \in EventLines /\ LineOf(ticksSent) = cursor
<1>1. cursor \in EventLines \union {0} /\ Rank(cursor) = ticksSent /\ ticksSent \in Nat
      /\ TickCount \in Nat
  <2>1. ticksSent \in Nat /\ TickCount \in Nat
    BY EventLinesAre DEF AtTheEnd, Tally, Known
  <2> QED
    BY <2>1 DEF AtTheEnd, Gating
<1>2. cursor \in EventLines => ticksSent \in 1..TickCount /\ LineOf(ticksSent) = cursor
  BY <1>1, RanksAre, LineOfRank DEF AtTheEnd, Known
<1>3. cursor = 0 => ticksSent = 0
  BY <1>1, RankOfNone DEF AtTheEnd, Known
<1> QED
  BY <1>1, <1>2, <1>3

LEMMA ExhaustedEnd ==
    ASSUME AtTheEnd, exhausted
    PROVE  ExpectedOutcome = "completed" /\ ExpectedTicks = ticksSent
<1>1. /\ ticksSent = TickCount /\ StaysUntil(ticksSent) /\ ~Abandons(ticksSent)
      /\ ticksSent >= 1 => strategy.opening = "next"
      /\ TickCount \in Nat
  BY LastLineIs DEF AtTheEnd, Ended, Exhausted, Conversing
<1>2. LastTick \in Nat /\ ~(LastTick < TickCount)
      /\ (strategy.opening = "next" /\ LastTick \in 1..TickCount =>
            LastTick = TickCount /\ Stops(TickCount))
  <2>1. CASE strategy.opening = "done"
    <3>1. LastTick = 0 /\ TickCount = 0
      BY <1>1, <2>1, LastTickIs DEF AtTheEnd, Known
    <3> QED
      BY <2>1, <3>1
  <2>2. CASE strategy.opening # "done" /\ TickCount >= 1 /\ Stops(TickCount)
    <3>1. LastTick = TickCount
      BY <1>1, <2>2, LastTickIs DEF AtTheEnd, Known
    <3> QED
      BY <1>1, <2>2, <3>1
  <2>3. CASE strategy.opening # "done" /\ ~(TickCount >= 1 /\ Stops(TickCount))
    <3>1. StaysUntil(TickCount + 1)
      <4>1. \A l \in 1..(TickCount + 1 - 1) : l \in 1..(TickCount - 1) \/ l = TickCount
        BY <1>1
      <4> QED
        BY <1>1, <2>3, <4>1 DEF StaysUntil
    <3>2. LastTick = TickCount + 1
      BY <1>1, <2>3, <3>1, LastTickIs DEF AtTheEnd, Known
    <3> QED
      BY <1>1, <3>2
  <2> QED
    BY <2>1, <2>2, <2>3
<1>3. ~Abandoned
  <2>1. ASSUME Abandoned PROVE FALSE
    <3>1. LastTick = TickCount /\ TickCount >= 1 /\ ~MoveOf(strategy, LastTick).answers
      BY <1>1, <1>2, <2>1 DEF Abandoned
    <3> QED
      BY <1>1, <3>1 DEF Abandons
  <2> QED
    BY <2>1
<1> QED
  BY <1>1, <1>2, <1>3 DEF ExpectedOutcome, ExpectedTicks

LEMMA DepartedEnd ==
    ASSUME AtTheEnd, ~exhausted
    PROVE  ExpectedOutcome = "stopped_early" /\ ExpectedTicks = ticksSent
<1>1. /\ ticksSent \in 0..TickCount /\ TickCount \in Nat
  BY LastLineIs
<1>2. PICK n \in {ticksSent - 1, ticksSent} :
        n \in Nat /\ Left(n) /\ StaysUntil(n) /\ (n = ticksSent <=> Abandons(n))
  BY DEF AtTheEnd, Ended, Departed, Conversing
<1>3. CASE strategy.opening = "done" /\ n = 0
  <2>1. LastTick = 0 /\ ticksSent = 1 /\ ~Abandoned
    <3>1. ~Abandons(n)
      BY <1>3 DEF Abandons
    <3> QED
      BY <1>1, <1>2, <1>3, <3>1, LastTickIs DEF AtTheEnd, Known, Abandoned
  <2> QED
    BY <1>1, <2>1 DEF ExpectedOutcome, ExpectedTicks
<1>4. CASE strategy.opening = "next" /\ n >= 1 /\ Stops(n)
  <2>1. n \in 1..TickCount
    BY <1>1, <1>2, <1>4
  <2>2. LastTick = n
    BY <1>1, <1>2, <1>4, <2>1, LastTickIs DEF AtTheEnd, Known
  <2>3. Abandoned <=> Abandons(n)
    BY <2>1, <2>2 DEF Abandoned, Abandons
  <2>4. CASE Abandons(n)
    BY <1>1, <1>2, <2>2, <2>3, <2>4 DEF ExpectedOutcome, ExpectedTicks
  <2>5. CASE ~Abandons(n)
    <3>1. n = ticksSent - 1
      BY <1>2, <2>5
    <3> QED
      BY <1>1, <2>1, <2>2, <2>3, <2>5, <3>1 DEF ExpectedOutcome, ExpectedTicks
  <2> QED
    BY <2>4, <2>5
<1> QED
  BY <1>2, <1>3, <1>4 DEF Left

LEMMA OutcomeIs ==
    ASSUME AtTheEnd
    PROVE  outcome = ExpectedOutcome /\ ticksSent = ExpectedTicks
BY ExhaustedEnd, DepartedEnd DEF AtTheEnd

(* The ticks that were answered are those that were to be.                   *)
LEMMA AnsweredAtTheEnd ==
    ASSUME AtTheEnd, NEW t \in EventLines
    PROVE  t \in AnsweredLines <=> Answered(Rank(t))
<1>1. t \in Nat /\ Rank(t) \in 1..TickCount /\ cursor \in Nat /\ TickCount \in Nat
      /\ ticksSent \in 0..TickCount /\ t # 0
  BY LastLineIs, RanksAre, EventLinesAre DEF AtTheEnd, Known, Types
<1>2. t \in AnsweredLines <=> t < cursor \/ (t = cursor /\ exhausted)
  BY DEF AnsweredLines, AtTheEnd
<1>3. (t < cursor <=> Rank(t) < ticksSent) /\ (t = cursor <=> Rank(t) = ticksSent)
  <2>1. CASE cursor \in EventLines
    BY <2>1, LastLineIs, RanksAre DEF AtTheEnd, Known
  <2>2. CASE cursor = 0
    <3>1. ticksSent = 0
      BY <2>2, LastLineIs, RankOfNone DEF AtTheEnd, Known
    <3> QED
      BY <1>1, <2>2, <3>1
  <2> QED
    BY <2>1, <2>2, LastLineIs
<1>4. exhausted => ticksSent = TickCount
  BY DEF AtTheEnd, Ended, Exhausted, Conversing
<1>5. exhausted <=> ExpectedOutcome = "completed"
  BY OutcomeIs DEF AtTheEnd
<1> QED
  BY <1>1, <1>2, <1>3, <1>4, <1>5, OutcomeIs DEF Answered

(* The fills of a run, and those it was to have.                             *)
FilledBy(k) == FillOf(fills[k].order.tick, fills[k].order.nth, fills[k].trade, fills[k].order)

Candidate(f) ==
    \E k \in 1..TickCount : \E n \in 1..Len(Placed(k)) : \E i \in EventLines :
        Answered(k) /\ f = FillOf(LineOf(k), n, i, Placed(k)[n])

Matched(f) ==
    /\ journal[f.trade].type = "trade"
    /\ f.tick < f.trade /\ PrecedingTrade(f.trade) <= f.tick
    /\ f.trade <= LineOf(ExpectedTicks)

LEMMA ExpectedFillsAre ==
    ASSUME NEW f
    PROVE  f \in ExpectedFills <=> Candidate(f) /\ Matched(f)
<1> DEFINE Of(k) == {FillOf(LineOf(k), n, i, Placed(k)[n]) :
                        n \in 1..Len(Placed(k)), i \in EventLines}
           All == UNION {Of(k) : k \in {l \in 1..TickCount : Answered(l)}}
<1>1. f \in All <=> \E k \in 1..TickCount : Answered(k) /\ f \in Of(k)
  <2> HIDE DEF Of
  <2> QED
    BY Zenon
<1>2. \A k : f \in Of(k) <=> \E n \in 1..Len(Placed(k)) : \E i \in EventLines :
                               f = FillOf(LineOf(k), n, i, Placed(k)[n])
  OBVIOUS
<1>3. f \in All <=> Candidate(f)
  <2> HIDE DEF Of, All
  <2> QED
    BY <1>1, <1>2 DEF Candidate
<1>4. ExpectedFills = {g \in All : Matched(g)}
  BY DEF ExpectedFills, Matched
<1> HIDE DEF Of, All
<1> QED
  BY <1>3, <1>4

LEMMA FillsAreExpected ==
    ASSUME AtTheEnd, NEW k \in 1..Len(fills)
    PROVE  FilledBy(k) \in ExpectedFills
<1> DEFINE o == fills[k].order
           t == o.tick
           n == o.nth
           i == fills[k].trade
<1>1. /\ t \in AnsweredLines /\ Placing(o)
      /\ i \in EventLines /\ journal[i].type = "trade"
      /\ t < i /\ i <= cursor /\ Quiet(t, i - 1)
  BY DEF AtTheEnd, Books, BooksAre, FilledIn
<1>2. FilledBy(k) = [tick |-> t, nth |-> n, trade |-> i, side |-> o.side, size |-> o.size]
  BY DEF FilledBy, FillOf
<1>3. /\ n \in 1..Len(Placed(Rank(t)))
      /\ o.side = Placed(Rank(t))[n].side /\ o.size = Placed(Rank(t))[n].size
  BY <1>1 DEF Placing
<1> HIDE DEF o, t, n, i
<1>4. t \in EventLines /\ t \in Nat /\ i \in Nat /\ i # 0 /\ cursor \in Nat
  BY <1>1, EventLinesAre DEF AnsweredLines, AtTheEnd, Known, Types
<1>5. Rank(t) \in 1..TickCount /\ LineOf(Rank(t)) = t
  BY <1>4, RanksAre, LineOfRank DEF AtTheEnd, Known
<1>6. Answered(Rank(t))
  BY <1>1, <1>4, AnsweredAtTheEnd
<1>7. Candidate(FilledBy(k))
  <2>1. FilledBy(k) = FillOf(LineOf(Rank(t)), n, i, Placed(Rank(t))[n])
    BY <1>2, <1>3, <1>5 DEF FillOf
  <2> QED
    BY <1>1, <1>3, <1>5, <1>6, <2>1 DEF Candidate
<1>8. PrecedingTrade(i) <= t
  BY <1>1, <1>4, QuietIs DEF AtTheEnd, Known
<1>9. i <= LineOf(ExpectedTicks)
  <2>1. cursor \in EventLines /\ ticksSent >= 1
    <3>1. cursor \in EventLines
      BY <1>1, <1>4, LastLineIs
    <3> QED
      BY <3>1, LastLineIs, RanksAre DEF AtTheEnd, Known
  <2> QED
    BY <1>1, <2>1, LastLineIs, OutcomeIs
<1>10. Matched(FilledBy(k))
  BY <1>1, <1>2, <1>8, <1>9 DEF Matched
<1> QED
  BY <1>7, <1>10, ExpectedFillsAre

LEMMA ExpectedAreFills ==
    ASSUME AtTheEnd, NEW f \in ExpectedFills
    PROVE  \E k \in 1..Len(fills) : f = FilledBy(k)
<1>0. Candidate(f) /\ Matched(f)
  BY ExpectedFillsAre
<1>1. PICK m \in 1..TickCount : \E n \in 1..Len(Placed(m)) : \E i \in EventLines :
        Answered(m) /\ f = FillOf(LineOf(m), n, i, Placed(m)[n])
  BY <1>0 DEF Candidate
<1>2. PICK n \in 1..Len(Placed(m)), i \in EventLines :
        Answered(m) /\ f = FillOf(LineOf(m), n, i, Placed(m)[n])
  BY <1>1
<1> DEFINE t == LineOf(m)
<1>3. t \in EventLines /\ Rank(t) = m
  BY LineOfIs DEF AtTheEnd, Known
<1>4. f = [tick |-> t, nth |-> n, trade |-> i,
           side |-> Placed(m)[n].side, size |-> Placed(m)[n].size]
  BY <1>2 DEF FillOf
<1> HIDE DEF t
<1>5. /\ journal[i].type = "trade"
      /\ t < i /\ PrecedingTrade(i) <= t /\ i <= LineOf(ExpectedTicks)
  BY <1>0, <1>4 DEF Matched
<1>6. t \in Nat /\ i \in Nat /\ TickCount \in Nat /\ cursor \in Nat
  BY <1>3, EventLinesAre DEF AtTheEnd, Known, Types
<1>7. i <= cursor
  <2>1. CASE ticksSent >= 1
    BY <1>5, <2>1, LastLineIs, OutcomeIs
  <2>2. CASE ticksSent = 0
    <3>1. exhausted
      <4>1. ~(m < ExpectedTicks)
        BY <2>2, OutcomeIs, LastLineIs
      <4> QED
        BY <1>2, <4>1, OutcomeIs DEF Answered, AtTheEnd
    <3>2. TickCount = 0
      BY <2>2, <3>1 DEF AtTheEnd, Ended, Exhausted, Conversing
    <3> QED
      BY <3>2
  <2> QED
    BY <2>1, <2>2, LastLineIs
<1>8. t \in AnsweredLines /\ n \in 1..Len(Placed(Rank(t)))
  BY <1>2, <1>3, AnsweredAtTheEnd
<1>9. Quiet(t, i - 1)
  BY <1>5, <1>6, QuietIs DEF AtTheEnd, Known
<1>10. \A k \in 1..Len(pending) : ~Is(pending[k], t, n)
  <2>1. \A k \in 1..Len(pending) : Quiet(pending[k].tick, cursor)
    BY DEF AtTheEnd, Books, BooksAre, WaitingIn
  <2>2. ~Quiet(t, cursor)
    BY <1>5, <1>6, <1>7 DEF Quiet
  <2> QED
    BY <2>1, <2>2 DEF Is
<1>11. PICK k \in 1..Len(fills) : Is(fills[k].order, t, n)
  BY <1>8, <1>10 DEF AtTheEnd, Books, BooksAre, NoneMissingIn
<1>12. /\ fills[k].order.tick = t /\ fills[k].order.nth = n
       /\ fills[k].order.side = Placed(m)[n].side
       /\ fills[k].order.size = Placed(m)[n].size
       /\ fills[k].trade \in EventLines /\ journal[fills[k].trade].type = "trade"
       /\ t < fills[k].trade /\ Quiet(t, fills[k].trade - 1)
  BY <1>3, <1>11 DEF AtTheEnd, Books, BooksAre, FilledIn, Placing, Is
<1>13. fills[k].trade = i
  <2>1. fills[k].trade \in Nat
    BY <1>12, EventLinesAre DEF AtTheEnd, Known
  <2>2. ~(fills[k].trade <= i - 1)
    BY <1>9, <1>12 DEF Quiet
  <2>3. ~(i <= fills[k].trade - 1)
    BY <1>5, <1>12 DEF Quiet
  <2> QED
    BY <1>6, <2>1, <2>2, <2>3
<1> QED
  BY <1>4, <1>12, <1>13 DEF FilledBy, FillOf

LEMMA FillsAreCounted ==
    ASSUME AtTheEnd
    PROVE  Len(fills) = Cardinality(ActualFills)
<1> DEFINE f == [k \in 1..Len(fills) |-> FilledBy(k)]
<1>1. Len(fills) \in Nat
  BY DEF AtTheEnd, BookTypes
<1>2. ActualFills = {FilledBy(k) : k \in 1..Len(fills)}
  BY DEF ActualFills, FilledBy
<1>3. f \in Surjection(1..Len(fills), ActualFills)
  BY <1>2 DEF Surjection
<1>4. f \in Injection(1..Len(fills), ActualFills)
  <2>1. ASSUME NEW k \in 1..Len(fills), NEW l \in 1..Len(fills), f[k] = f[l] PROVE k = l
    <3>1. Is(fills[k].order, fills[l].order.tick, fills[l].order.nth)
      BY <2>1 DEF FilledBy, FillOf, Is
    <3> QED
      BY <3>1 DEF AtTheEnd, Books, BooksAre, OnceIn
  <2> QED
    BY <1>2, <2>1 DEF Injection, IsInjective
<1>5. IsFiniteSet(1..Len(fills)) /\ Cardinality(1..Len(fills)) = Len(fills)
  <2>1. 1 \in Int /\ Len(fills) \in Int /\ (1 > Len(fills) => Len(fills) = 0)
        /\ Len(fills) - 1 + 1 = Len(fills)
    BY <1>1
  <2> QED
    BY <1>1, <2>1, FS_Interval
<1> QED
  BY <1>3, <1>4, <1>5, FS_Surjection

LEMMA ResultIsReproducible ==
    ASSUME AtTheEnd
    PROVE  RanReproducibly
<1>1. ActualFills = {FilledBy(k) : k \in 1..Len(fills)}
  BY DEF ActualFills, FilledBy
<1>2. ActualFills = ExpectedFills
  BY <1>1, FillsAreExpected, ExpectedAreFills
<1> QED
  BY <1>2, OutcomeIs, FillsAreCounted DEF RanReproducibly

(* Whatever the interleaving of host, runtime and watchdog: a run that has a *)
(* result, and whose conversation was waited for to its end, has the         *)
(* outcome, the ticks and the fills that its strategy and its journal alone  *)
(* determine, every order of an answered tick filled once, at the first      *)
(* trade after it.  (README "same inputs, same result"; runner.py 258-298)   *)
THEOREM RunsAreReproducible == Spec => []RanReproducibly
<1>1. Init => Concluded
  BY DEF Init, Concluded, RanOutcomes
<1>2. Known /\ BookTypes /\ Determined /\ Concluded => RanReproducibly
  <2>1. (outcome \in RanOutcomes /\ ~outlasted) \/ RanReproducibly
    BY DEF RanReproducibly
  <2> QED
    BY <2>1, EndIs, ResultIsReproducible
<1> QED
  BY <1>1, <1>2, InitKnown, NextKnown, InitBooks, NextBooks, InitConversation, NextConversation,
     InitDetermined, NextDetermined, NextConcluded, PTL DEF Spec

=============================================================================
