-------------------------- MODULE UntrustedSession --------------------------
(***************************************************************************)
(* A conversation between the host's Feeder and a cell that may do anything *)
(* its two pipes allow: the strategy shares its process with the runtime    *)
(* and can write any frame at any time, guess the clock, answer twice or    *)
(* ahead of time, ignore what it is sent, close either pipe, or die between *)
(* any two steps.  Death also stands for the watchdog's kill.               *)
(*                                                                          *)
(* The host's promises are the ones of TimeGate.                            *)
(***************************************************************************)
EXTENDS Feeder, FiniteSets

CONSTANT
    CellFrames      \* what a cell may write

ASSUME CellFramesAssumption ==
    CellFrames \subseteq [m : STRING, now : Int, orders : Seq(RawOrder)]

VARIABLES
    sight           \* the last journal line whose tick the cell has read

vars == <<feederVars, sight>>

Init ==
    /\ FeederInit
    /\ sight = 0

-----------------------------------------------------------------------------
(* A decision is remembered with what the cell had seen when it wrote it.    *)
Witnessed(frame) ==
    [m |-> frame.m, now |-> frame.now, orders |-> frame.orders,
     sight |-> IF frame.m = "decision" THEN sight ELSE 0]

hostVars == <<gateVars, bookVars, talkVars, accepted>>

CellSpeaks ==
    /\ \E frame \in CellFrames : CellWritesFrame(Witnessed(frame))
    /\ UNCHANGED <<hostVars, sight>>

CellListens ==
    /\ CellReadsFrame
    /\ sight' = IF Told.m = "tick" THEN Told.line ELSE sight
    /\ UNCHANGED hostVars

CellGoesDeaf ==
    /\ cellReads
    /\ cellReads' = FALSE
    /\ toCell' = <<>>
    /\ UNCHANGED <<fromCell, hostEnd, cellWrites, hostVars, sight>>

CellGoesMute ==
    /\ cellWrites
    /\ cellWrites' = FALSE
    /\ UNCHANGED <<toCell, fromCell, hostEnd, cellReads, hostVars, sight>>

CellDies ==
    /\ cellReads \/ cellWrites
    /\ CellEndsClose
    /\ UNCHANGED <<hostVars, sight>>

Cell == CellSpeaks \/ CellListens \/ CellGoesDeaf \/ CellGoesMute \/ CellDies

(* The cell's first process is gone by then, but others may hold its ends of *)
(* the pipes, so nothing is asked of those.                                  *)
TalkerLeft == CloseStreams /\ UNCHANGED sight

Over ==
    /\ hostPc = "done"
    /\ ~cellReads /\ ~cellWrites
    /\ UNCHANGED vars

Next == (Host /\ UNCHANGED sight) \/ Cell \/ TalkerLeft \/ Over

Steps == Init /\ [][Next]_vars

(* The host's thread is scheduled, and the watchdog leaves no cell alive     *)
(* past its deadline.  Nothing else is fair: a cell may stop anywhere.       *)
Spec ==
    /\ Steps
    /\ WF_vars(Host /\ UNCHANGED sight)
    /\ WF_vars(CellDies)

-----------------------------------------------------------------------------
TypeOK ==
    /\ WireTypeOK
    /\ GateTypeOK
    /\ BookTypeOK
    /\ TalkTypeOK
    /\ sight \in Nat

(* No order is ever filled at a trade its author could have seen: the trade  *)
(* comes after the tick the order answers, and after everything the cell had *)
(* read from its pipe when it wrote the order, even for answers written      *)
(* ahead of their tick.  (README "no look-ahead"; runner.py 180-209)         *)
NoLookAhead ==
    \A k \in 1..Len(fills) :
        LET fill == fills[k] IN
            /\ fill.trade > fill.order.tick
            /\ fill.order.tick >= fill.order.sight

(* Why NoLookAhead is inductive: nothing in flight, neither a tick, nor an   *)
(* answer, nor what the cell has read, nor a waiting order, is ahead of the  *)
(* gate.                                                                     *)
NothingAhead ==
    /\ sight <= cursor
    /\ \A k \in 1..Len(toCell) : toCell[k].line <= cursor
    /\ \A k \in 1..Len(fromCell) : fromCell[k].sight <= cursor
    /\ \A k \in 1..Len(pending) :
        pending[k].sight <= pending[k].tick /\ pending[k].tick <= cursor

(* An order fills at the first trade after its decision, never at a later    *)
(* one of the strategy's choosing: no trade lies between the two, and none   *)
(* has been revealed while the order was still waiting.                      *)
(* (portfolio.observe, called before every tick is sent)                     *)
IsTrade(i) == journal[i].type = "trade" /\ Plausible(journal[i].price)

NextTradeFills ==
    /\ \A k \in 1..Len(fills) :
        /\ IsTrade(fills[k].trade)
        /\ fills[k].price = journal[fills[k].trade].price
        /\ \A i \in (fills[k].order.tick + 1)..(fills[k].trade - 1) : ~IsTrade(i)
    /\ \A k \in 1..Len(pending) :
        \A i \in (pending[k].tick + 1)..cursor : ~IsTrade(i)

(* Every order submit() was given is either filled or waiting, exactly once  *)
(* and in the order it was submitted, however the conversation ended.        *)
OrdersAccounted ==
    /\ Len(accepted) = Len(fills) + Len(pending)
    /\ \A k \in 1..Len(fills) : fills[k].order = accepted[k]
    /\ \A k \in 1..Len(pending) : pending[k] = accepted[Len(fills) + k]

(* Fills are dated by the replay clock: never before the decision that       *)
(* caused them, never before an earlier fill, never after what the clock     *)
(* reads, even when exchange stamps run backwards.  (portfolio.observe's     *)
(* docstring)                                                                *)
Stamps(i) ==
    {Epoch} \union {journal[k].stamp : k \in {l \in 1..i : journal[l].type \in Timed}}

IsClockAt(i, t) == t \in Stamps(i) /\ \A s \in Stamps(i) : s <= t

FillsNotBackdated ==
    /\ IsClockAt(cursor, now)
    /\ \A k \in 1..Len(fills) :
        /\ IsClockAt(fills[k].trade, fills[k].at)
        /\ \A s \in Stamps(fills[k].order.tick) : s <= fills[k].at
        /\ \A l \in 1..k : fills[l].at <= fills[k].at

(* A run that claims to have exhausted its journal showed the cell every     *)
(* event of it and had an answer to each one: ticks and decisions agree.     *)
Shown(i) == journal[i].type \in Replayed

ExhaustedMeansWhole ==
    exhausted =>
        /\ ticksSent = Cardinality({i \in 1..Len(journal) : Shown(i)})
        /\ \A i \in 1..Len(journal) : journal[i].type # "refused"
        /\ failure \in {"none", "broken_pipe"}

(* The host's half comes to its end and hangs up, whatever the cell does,    *)
(* because the watchdog ends the cell.                                       *)
HostFinishes == <>(hostPc = "done")

-----------------------------------------------------------------------------
(* The refinement of TimeGate.                                               *)
Phase ==
    CASE hostPc \in {"opening", "start", "replay"} -> "free"
      [] hostPc \in {"send", "answer"}             -> "awaiting"
      [] OTHER                                     -> "closed"

Waiting == [k \in 1..Len(pending) |-> pending[k].tick]

Filled == [k \in 1..Len(fills) |->
              [tick |-> fills[k].order.tick, trade |-> fills[k].trade]]

Gated == INSTANCE TimeGate WITH
    Events  <- Replayed,
    phase   <- Phase,
    waiting <- Waiting,
    filled  <- Filled

(* The host implements the time gate.                                        *)
ImplementsTimeGate == Gated!Spec

=============================================================================
