------------------------------- MODULE Session -------------------------------
(***************************************************************************)
(* One run: the host's Feeder and the cell's runtime over two pipes, the    *)
(* watchdog that may end the cell between any two steps, and the outcome    *)
(* `runner.execute` derives from all three.                                 *)
(***************************************************************************)
EXTENDS Feeder, Market, FiniteSets

VARIABLES
    outlasted,      \* the talker was still running when _execute stopped waiting
    outcome         \* "none" until execute() has built the record

vars == <<feederVars, marketVars, outlasted, outcome>>

Init ==
    /\ FeederInit
    /\ MarketInit
    /\ outlasted = FALSE
    /\ outcome = "none"

RanOutcomes == {"completed", "stopped_early"}

-----------------------------------------------------------------------------
HostStep == Host /\ UNCHANGED <<marketVars, outlasted, outcome>>

CellStep ==
    /\ Runtime
    /\ UNCHANGED <<gateVars, bookVars, talkVars, accepted, outlasted, outcome>>

(* The watchdog's kill: out of time, or out of memory.                       *)
Kill ==
    /\ Killed
    /\ UNCHANGED <<gateVars, bookVars, talkVars, accepted, outlasted, outcome>>

(* The end of cell._execute, when the join has timed out.                    *)
GiveUp ==
    /\ cellPc = "gone"
    /\ ~outlasted
    /\ CloseStreams
    /\ outlasted' = TRUE
    /\ UNCHANGED <<marketVars, outcome>>

(* cell._classify, for a conversation that raised nothing.                   *)
CellOutcome ==
    CASE exitStatus = "killed" -> "stopped_by_host"
      [] exitStatus = "0"      -> "completed"
      [] OTHER                 -> "failed"

(* What execute() makes of the report and of the Feeder as it stands.        *)
Verdict ==
    IF CellOutcome # "completed" THEN CellOutcome
    ELSE IF failure # "none" THEN "failed"
    ELSE IF exhausted THEN "completed" ELSE "stopped_early"

(* Faulty Conclude: the conversation is not waited for at all.               *)
ConcludeEarly ==
    /\ outcome = "none"
    /\ cellPc = "gone"
    /\ outcome' = Verdict
    /\ UNCHANGED <<feederVars, marketVars, outlasted>>

(* execute(), after cell.run has returned: the talker has finished, or is    *)
(* not waited for any longer and may be anywhere.                            *)
Conclude ==
    /\ outcome = "none"
    /\ cellPc = "gone"
    /\ hostPc = "done" \/ outlasted
    /\ outcome' = Verdict
    /\ UNCHANGED <<feederVars, marketVars, outlasted>>

Recorded ==
    /\ outcome # "none"
    /\ UNCHANGED vars

Next == HostStep \/ CellStep \/ Kill \/ GiveUp \/ Conclude \/ Recorded

(* Threads and processes are scheduled.  The watchdog owes nobody a kill but *)
(* a cell that is deadlocked with the host, which lives to its deadline.     *)
Fairness ==
    /\ WF_vars(HostStep) /\ WF_vars(CellStep) /\ WF_vars(Conclude)
    /\ WF_vars(Kill /\ cellPc = "nested")

Spec == Init /\ [][Next]_vars /\ Fairness

-----------------------------------------------------------------------------
TypeOK ==
    /\ WireTypeOK
    /\ GateTypeOK
    /\ BookTypeOK
    /\ TalkTypeOK
    /\ cellPc \in CellPcs
    /\ exitStatus \in {"running", "0", "1", "killed"}
    /\ ticksSeen \in 0..ticksSent
    /\ queued \in Seq(MarketOrder)
    /\ outlasted \in BOOLEAN
    /\ outcome \in RanOutcomes \union {"none", "failed", "stopped_by_host"}

-----------------------------------------------------------------------------
(* What the strategy and the journal alone determine.                        *)

EventLines == {i \in 1..Len(journal) : journal[i].type \in Replayed}

(* The journal line of the k-th tick.                                        *)
LineOf(k) ==
    CHOOSE i \in EventLines : Cardinality({l \in EventLines : l <= i}) = k

TickCount == Cardinality(EventLines)

Goes(k) == MoveOf(strategy, k).then

(* The orders in the answer of the strategy s to its k-th tick: those placed *)
(* before the first tick go out with the first answer.                       *)
OrdersOf(s, k) == (IF k = 1 THEN s.early ELSE <<>>) \o MoveOf(s, k).places

Placed(k) == OrdersOf(strategy, k)

(* The tick at which the strategy returns; beyond the journal if it never    *)
(* does.                                                                     *)
LastTick ==
    IF strategy.opening = "done" THEN 0
    ELSE CHOOSE k \in 1..(TickCount + 1) :
            /\ k <= TickCount => Goes(k) = "done"
            /\ \A l \in 1..(k - 1) : Goes(l) # "done"

Abandoned ==
    /\ LastTick \in 1..TickCount
    /\ ~MoveOf(strategy, LastTick).answers

(* A strategy that leaves at its k-th tick has one more tick sent to it, the *)
(* one that is answered with `done`, unless there is none left, or it left   *)
(* without answering.                                                        *)
ExpectedTicks ==
    IF Abandoned THEN LastTick
    ELSE IF LastTick < TickCount THEN LastTick + 1 ELSE TickCount

ExpectedOutcome ==
    IF LastTick < TickCount \/ Abandoned THEN "stopped_early" ELSE "completed"

(* The ticks whose orders fill at line i: those since the trade before it.   *)
PrecedingTrade(i) ==
    LET before == {l \in EventLines : l < i /\ journal[l].type = "trade"}
    IN  IF before = {} THEN 0 ELSE CHOOSE l \in before : \A o \in before : o <= l

Answered(k) == k < ExpectedTicks \/ ExpectedOutcome = "completed"

(* A fill: the line of the order's tick, its place in the decision, the line *)
(* of the trade.                                                             *)
FillOf(tick, nth, trade, order) ==
    [tick |-> tick, nth |-> nth, trade |-> trade, side |-> order.side, size |-> order.size]

ExpectedFills ==
    {f \in UNION {{FillOf(LineOf(k), n, i, Placed(k)[n]) :
                       n \in 1..Len(Placed(k)), i \in EventLines} :
                  k \in {l \in 1..TickCount : Answered(l)}} :
        /\ journal[f.trade].type = "trade"
        /\ f.tick < f.trade /\ PrecedingTrade(f.trade) <= f.tick
        /\ f.trade <= LineOf(ExpectedTicks)}

ActualFills ==
    {FillOf(fills[k].order.tick, fills[k].order.nth, fills[k].trade, fills[k].order) :
        k \in 1..Len(fills)}

(* A result is a function of the strategy and the journal: outcome, ticks    *)
(* and fills of a run that has a result_hash are the same in every           *)
(* interleaving of host, cell and watchdog, unless _execute stopped waiting  *)
(* for the talker.  (README "same inputs, same result"; runner.py 258-298)   *)
RanReproducibly ==
    outcome \in RanOutcomes /\ ~outlasted =>
        /\ outcome = ExpectedOutcome
        /\ ticksSent = ExpectedTicks
        /\ Len(fills) = Cardinality(ActualFills)
        /\ ActualFills = ExpectedFills

(* Has the strategy taken this way out, at a tick it was shown or before?    *)
Took(ways) ==
    \/ strategy.opening \in ways
    \/ \E k \in 1..ticksSeen : Goes(k) \in ways

(* What the host holds against a run in which nobody killed the cell is what *)
(* the strategy or the journal did, never the runtime's doing nor the        *)
(* scheduler's: it calls a decision over the limit a protocol error, a       *)
(* cell silent that left without a word, an order or a line refused that it  *)
(* cannot use, and a tick too long that is.  (runtime.ticks' finally clause; *)
(* runner.py 155-224)                                                        *)
AccusedForCause ==
    exitStatus # "killed" =>
        /\ failure # "never_spoke"
        /\ failure = "protocol_error" => Len(Placed(ticksSent)) > MaxOrders
        /\ failure = "stopped_answering" => Took(Exits)
        /\ failure = "cell_error" => Took({"error"})
        /\ failure = "frame_too_long" => journal[cursor].long
        /\ failure = "sbx_error" =>
              \/ Refuses
              \/ cursor > 0 /\ Unobservable(journal[cursor])
              \/ \E n \in 1..Len(Placed(ticksSent)) : ~WellFormed(Placed(ticksSent)[n])

(* A strategy that chose to return is not a failed invocation: only its      *)
(* orders or the journal can have failed the run.                            *)
(* (RunResult.succeeded, runner.py 86-92)                                    *)
Returned == exitStatus = "0" /\ ~Took({"error"} \union Exits)

EarlyReturnIsNotFailure ==
    outcome = "failed" /\ ~outlasted /\ Returned =>
        failure \in {"protocol_error", "sbx_error", "frame_too_long"}

(* Every run is concluded; all but those whose strategy waits for a tick     *)
(* with another unanswered, without the watchdog.                            *)
RunEnds == <>(outcome # "none")

(* The conversation with the real runtime is one of those UntrustedSession   *)
(* allows, so everything shown there holds here.                             *)
Speech ==
    {[m |-> m, now |-> t, orders |-> o] :
        m \in {"ready", "decision", "done", "error"},
        t \in {Epoch} \union UNION {{j[i].stamp : i \in DOMAIN j} : j \in Journals},
        o \in {<<>>} \union
              UNION {{OrdersOf(s, k) : k \in 1..(Len(s.moves) + 1)} : s \in Strategies}}

Untrusted == INSTANCE UntrustedSession WITH CellFrames <- Speech, sight <- cellLine

HonestIsUntrusted == Untrusted!Steps

=============================================================================
