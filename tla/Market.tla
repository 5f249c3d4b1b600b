------------------------------- MODULE Market -------------------------------
(***************************************************************************)
(* The cell's half of the conversation when the strategy leaves the wire    *)
(* alone: `runtime.main`, the generator `Market.ticks`, and a strategy that *)
(* is nothing but the moves it makes at the ticks it is shown.              *)
(*                                                                          *)
(* A strategy places the orders `early` before it asks for a tick, and then *)
(* goes where `opening` says.  At its k-th tick it makes moves[k]: it       *)
(* places orders, any number of them, and goes where `then` says:           *)
(*   "next"            on to the next tick;                                 *)
(*   "done", "error"   it returns, or it raises;                            *)
(*   "exit0", "exit1"  the process ends without a word: os._exit, or an     *)
(*                     exception whose text does not fit in a frame.        *)
(* Leaving the loop's body closes the generator, and the finally clause of  *)
(* `ticks` answers the tick.  A move that does not answer leaves it         *)
(* unanswered: something else keeps the generator alive, or the decision is *)
(* over MAX_FRAME_BYTES and encode_frame raises in the finally clause,      *)
(* which the strategy may or may not catch.  After its last move a strategy *)
(* holds.                                                                   *)
(*                                                                          *)
(* An order is one Market.order lets through.  The size 0 stands for those  *)
(* the host's `plausible_decimal` refuses nevertheless: too many places, or *)
(* too many digits.                                                         *)
(***************************************************************************)
EXTENDS Wire

CONSTANT
    Strategies

Exits  == {"exit0", "exit1"}
Goings == {"next", "done", "error"} \union Exits

MarketOrder == [side : {"BUY", "SELL"}, size : Nat]

Moves    == [places : Seq(MarketOrder), answers : BOOLEAN, then : Goings]
Strategy == [early : Seq(MarketOrder), opening : Goings, moves : Seq(Moves)]

ASSUME StrategiesAssumption == Strategies \subseteq Strategy

VARIABLES
    strategy,
    cellPc,
    exitStatus,     \* "running", then "0", "1" or "killed"
    ticksSeen,      \* ticks the strategy was shown
    cellNow,        \* market.now
    cellLine,       \* history: the journal line of that tick
    queued,         \* market._orders
    leaving         \* what follows the answer being written

marketVars ==
    <<strategy, cellPc, exitStatus, ticksSeen, cellNow, cellLine, queued, leaving>>

CellPcs == {"ready",     \* writing `ready`
            "start",     \* reading `start`
            "opening",   \* entering the strategy
            "next",      \* ticks() is reading the next frame
            "body",      \* the strategy has a tick
            "nested",    \* an inner ticks() reads while a tick is unanswered:
                         \* it waits for a frame no host will send
            "answer",    \* the finally clause is writing the decision
            "done",      \* the strategy returned; writing `done`
            "error",     \* it raised; writing `error`
            "exit0", "exit1",
            "gone"}

MarketInit ==
    /\ strategy \in Strategies
    /\ cellPc = "ready"
    /\ exitStatus = "running"
    /\ ticksSeen = 0
    /\ cellNow = 0
    /\ cellLine = 0
    /\ queued = <<>>
    /\ leaving = "next"

-----------------------------------------------------------------------------
Jump(pc) ==
    /\ cellPc' = pc
    /\ UNCHANGED <<strategy, exitStatus, ticksSeen, cellNow, cellLine, queued, leaving>>

Frame(m) ==
    [m |-> m, now |-> 0, orders |-> <<>>, sight |-> 0]

Decision ==
    [m |-> "decision", now |-> cellNow, orders |-> queued, sight |-> cellLine]

SendReady ==
    /\ cellPc = "ready"
    /\ CellWritesFrame(Frame("ready"))
    /\ Jump("start")

(* Anything but a `start` is answered with an error frame and exit 1.        *)
ReadStart ==
    /\ cellPc = "start"
    /\ CellReadsFrame
    /\ Jump(IF Told.m = "start" THEN "opening" ELSE "error")

EnterStrategy ==
    /\ cellPc = "opening"
    /\ cellPc' = strategy.opening
    /\ queued' = strategy.early
    /\ UNCHANGED <<strategy, exitStatus, ticksSeen, cellNow, cellLine, leaving, wireVars>>

(* Faulty NextTick: the last frame counts as a tick.                         *)
NextTickCountsStop ==
    /\ cellPc = "next"
    /\ CellReadsFrame
    /\ cellPc' = IF Told.m = "tick" THEN "body" ELSE "done"
    /\ ticksSeen' = ticksSeen + 1
    /\ cellNow' = Told.now
    /\ cellLine' = Told.line
    /\ UNCHANGED <<strategy, exitStatus, queued, leaving>>

(* ticks(): a tick to yield, or the end of the iteration.  A frame that is   *)
(* neither raises StrategyError.                                             *)
NextTick ==
    /\ cellPc = "next"
    /\ CellReadsFrame
    /\ IF Told.m = "tick"
       THEN /\ cellPc' = "body"
            /\ ticksSeen' = ticksSeen + 1
            /\ cellNow' = Told.now
            /\ cellLine' = Told.line
            /\ UNCHANGED <<strategy, exitStatus, queued, leaving>>
       ELSE Jump(IF Told.m = "stop" THEN "done" ELSE "error")

TicksEnd ==
    /\ cellPc = "next"
    /\ CellReadsEOF
    /\ Jump("done")

Hold == [places |-> <<>>, answers |-> TRUE, then |-> "next"]

(* What the strategy s does at its k-th tick.                                *)
MoveOf(s, k) == IF k \in 1..Len(s.moves) THEN s.moves[k] ELSE Hold

(* The body of the loop, and the end of the generator that it brings about.  *)
(* Asking for a tick with another unanswered is asking an inner ticks().     *)
MakeMove ==
    /\ cellPc = "body"
    /\ LET move == MoveOf(strategy, ticksSeen) IN
        /\ queued' = queued \o move.places
        /\ leaving' = move.then
        /\ cellPc' = IF move.answers THEN "answer"
                     ELSE IF move.then = "next" THEN "nested" ELSE move.then
    /\ UNCHANGED <<strategy, exitStatus, ticksSeen, cellNow, cellLine, wireVars>>

(* Faulty SendDecision: orders already sent are sent again.                  *)
SendDecisionAgain ==
    /\ cellPc = "answer"
    /\ CellWritesFrame(Decision)
    /\ cellPc' = leaving
    /\ UNCHANGED <<strategy, exitStatus, ticksSeen, cellNow, cellLine, queued, leaving>>

SendDecision ==
    /\ cellPc = "answer"
    /\ CellWritesFrame(Decision)
    /\ cellPc' = leaving
    /\ queued' = <<>>
    /\ UNCHANGED <<strategy, exitStatus, ticksSeen, cellNow, cellLine, leaving>>

SendDone ==
    /\ cellPc = "done"
    /\ CellWritesFrame(Frame("done"))
    /\ Jump("exit0")

(* The exception is raised again, and SystemExit(0) is one.                  *)
SendError ==
    /\ cellPc = "error"
    /\ CellWritesFrame(Frame("error"))
    /\ \E status \in Exits : Jump(status)

(* The interpreter ends and the kernel closes its pipes.                     *)
Leave(status) ==
    /\ cellPc' = "gone"
    /\ exitStatus' = status
    /\ CellEndsClose
    /\ UNCHANGED <<strategy, ticksSeen, cellNow, cellLine, queued, leaving>>

CellExit ==
    \/ cellPc = "exit0" /\ Leave("0")
    \/ cellPc = "exit1" /\ Leave("1")

Killed ==
    /\ cellPc # "gone"
    /\ Leave("killed")

Runtime ==
    \/ SendReady \/ ReadStart \/ EnterStrategy \/ NextTick \/ TicksEnd
    \/ MakeMove \/ SendDecision \/ SendDone \/ SendError \/ CellExit

=============================================================================
