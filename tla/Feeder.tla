------------------------------- MODULE Feeder -------------------------------
(***************************************************************************)
(* `runner.Feeder`: the host half of the conversation, run by the talker    *)
(* thread of `cell._execute`.  One tick goes out, one answer comes back.    *)
(***************************************************************************)
EXTENDS Wire, Gate, Portfolio

CONSTANT
    MaxOrders       \* MAX_ORDERS_PER_DECISION

ASSUME MaxOrdersAssumption == MaxOrders \in Nat

VARIABLES
    hostPc,         \* where _converse stands
    ticksSent,      \* ticks_sent
    exhausted,
    failure,
    accepted        \* history: every order submit() was given

talkVars == <<hostPc, ticksSent, exhausted, failure>>
feederVars == <<wireVars, gateVars, bookVars, talkVars, accepted>>

HostPcs == {"opening",   \* reading the cell's first frame
            "start",     \* writing `start`
            "replay",    \* asking the generator for the next tick
            "send",      \* writing that tick
            "answer",    \* reading the answer to it
            "stop",      \* writing `stop`
            "hangup",    \* talk() has returned; _talk closes the cell's stdin
            "done"}

Failures == {"none", "never_spoke", "cell_error", "protocol_error",
             "frame_too_long", "stopped_answering", "sbx_error", "broken_pipe"}

FeederInit ==
    /\ WireInit
    /\ GateInit
    /\ PortfolioInit
    /\ hostPc = "opening"
    /\ ticksSent = 0
    /\ exhausted = FALSE
    /\ failure = "none"
    /\ accepted = <<>>

-----------------------------------------------------------------------------
Goto(pc) ==
    /\ hostPc' = pc
    /\ UNCHANGED <<ticksSent, exhausted, failure>>

Fail(why) ==
    /\ hostPc' = "hangup"
    /\ failure' = why
    /\ UNCHANGED <<ticksSent, exhausted>>

(* The frames of the two directions.  `now` and `line` mean something on a   *)
(* tick only, `now`, `orders` and `sight` on a decision only.                *)
RawOrder  == [side : STRING, size : Nat]
HostFrame == [m : {"start", "tick", "stop"}, now : Int, line : Nat]
CellFrame == [m : STRING, now : Int, orders : Seq(RawOrder), sight : Nat]

(* Only a tick can be.                                                       *)
TooLong == hostPc = "send" /\ journal[cursor].long

Say(m) == HostWrites([m |-> m, now |-> now, line |-> cursor], TooLong)

(* Any write to a cell that is gone, any use of a stream that is closed.     *)
BreakPipe ==
    /\ \/ hostPc \in {"start", "send", "stop"} /\ HostWriteBreaks(TooLong)
       \/ hostPc \in {"opening", "answer"} /\ HostReadBreaks
    /\ Fail("broken_pipe")
    /\ UNCHANGED <<gateVars, bookVars, accepted>>

Opening ==
    /\ hostPc = "opening"
    /\ \/ /\ HostReadsEOF
          /\ Fail("never_spoke")
       \/ /\ HostReads
          /\ CASE Heard.m = "ready" -> Goto("start")
               [] Heard.m = "error" -> Fail("cell_error")
               [] OTHER             -> Fail("protocol_error")
    /\ UNCHANGED <<gateVars, bookVars, accepted>>

SendStart ==
    /\ hostPc = "start"
    /\ Say("start")
    /\ Goto("replay")
    /\ UNCHANGED <<gateVars, bookVars, accepted>>

-----------------------------------------------------------------------------
(* The generator yields, and the portfolio sees the event before the         *)
(* strategy does.                                                            *)
Reveal ==
    /\ hostPc = "replay"
    /\ \E i \in (cursor + 1)..Len(journal) :
        /\ AdvanceTo(i)
        /\ Observe(journal[i], now', i)
        /\ Goto("send")
    /\ UNCHANGED <<wireVars, accepted>>

(* The generator yields a trade whose price the portfolio refuses.           *)
RevealUnobservable ==
    /\ hostPc = "replay"
    /\ \E i \in (cursor + 1)..Len(journal) :
        /\ AdvanceTo(i)
        /\ Unobservable(journal[i])
        /\ Fail("sbx_error")
    /\ UNCHANGED <<wireVars, bookVars, accepted>>

RefuseJournal ==
    /\ hostPc = "replay"
    /\ Refuses
    /\ Fail("sbx_error")
    /\ UNCHANGED <<wireVars, gateVars, bookVars, accepted>>

(* The for-loop's else.                                                      *)
Exhaust ==
    /\ hostPc = "replay"
    /\ RunsOut
    /\ exhausted' = TRUE
    /\ hostPc' = "stop"
    /\ UNCHANGED <<ticksSent, failure, wireVars, gateVars, bookVars, accepted>>

SendTick ==
    /\ hostPc = "send"
    /\ Say("tick")
    /\ ticksSent' = ticksSent + 1
    /\ hostPc' = "answer"
    /\ UNCHANGED <<exhausted, failure, gateVars, bookVars, accepted>>

RefuseTick ==
    /\ hostPc = "send"
    /\ HostRefusesFrame(TooLong)
    /\ Fail("frame_too_long")
    /\ UNCHANGED <<gateVars, bookVars, accepted>>

-----------------------------------------------------------------------------
(* The answer to the tick on the wire.                                       *)

AnswersTick(reply) == reply.m = "decision" /\ reply.now = now

Stamp(orders, sight) ==
    [k \in 1..Len(orders) |-> [side |-> orders[k].side, size |-> orders[k].size,
                               tick |-> cursor, sight |-> sight, nth |-> k]]

(* Faulty Admitted: sides and sizes are not looked at.                       *)
AdmittedUnparsed(orders, n) == n = Len(orders)

(* Orders are submitted one by one until one does not parse: n of them.      *)
Admitted(orders, n) ==
    /\ n \in 0..Len(orders)
    /\ \A k \in 1..n : WellFormed(orders[k])
    /\ n < Len(orders) => ~WellFormed(orders[n + 1])

AcceptDecision(reply) ==
    /\ AnswersTick(reply)
    /\ Len(reply.orders) <= MaxOrders
    /\ \E n \in 0..Len(reply.orders) :
        /\ Admitted(reply.orders, n)
        /\ LET admitted == Stamp(SubSeq(reply.orders, 1, n), reply.sight)
           IN  /\ Submit(admitted)
               /\ accepted' = accepted \o admitted
        /\ IF n = Len(reply.orders) THEN Goto("replay") ELSE Fail("sbx_error")

RejectReply(reply) ==
    /\ CASE reply.m = "done"  -> Goto("stop")
         [] reply.m = "error" -> Fail("cell_error")
         [] OTHER ->
              /\ AnswersTick(reply) => Len(reply.orders) > MaxOrders
              /\ Fail("protocol_error")
    /\ UNCHANGED <<bookVars, accepted>>

ReadAnswer ==
    /\ hostPc = "answer"
    /\ \/ /\ HostReadsEOF
          /\ Fail("stopped_answering")
          /\ UNCHANGED <<bookVars, accepted>>
       \/ /\ HostReads
          /\ AcceptDecision(Heard) \/ RejectReply(Heard)
    /\ UNCHANGED gateVars

-----------------------------------------------------------------------------
SendStop ==
    /\ hostPc = "stop"
    /\ Say("stop")
    /\ Goto("hangup")
    /\ UNCHANGED <<gateVars, bookVars, accepted>>

(* Faulty HangUp: the cell's stdin stays open.                               *)
HangUpSilently ==
    /\ hostPc = "hangup"
    /\ Goto("done")
    /\ UNCHANGED <<wireVars, gateVars, bookVars, accepted>>

HangUp ==
    /\ hostPc = "hangup"
    /\ HostCloses
    /\ Goto("done")
    /\ UNCHANGED <<gateVars, bookVars, accepted>>

Host ==
    \/ BreakPipe \/ Opening \/ SendStart
    \/ Reveal \/ RevealUnobservable \/ RefuseJournal \/ Exhaust
    \/ SendTick \/ RefuseTick \/ ReadAnswer \/ SendStop \/ HangUp

(* The cell is gone and the talker has outlived the join's five seconds:     *)
(* _execute closes the streams it may still be using, and goes on without it.*)
CloseStreams ==
    /\ hostPc # "done"
    /\ HostCloses
    /\ UNCHANGED <<gateVars, bookVars, talkVars, accepted>>

-----------------------------------------------------------------------------
(* The types of the host's state, part by part.                              *)
WireTypeOK ==
    /\ toCell \in Seq(HostFrame) /\ Len(toCell) <= PipeFrames
    /\ fromCell \in Seq(CellFrame) /\ Len(fromCell) <= PipeFrames
    /\ hostEnd \in {"open", "closed"}
    /\ cellReads \in BOOLEAN
    /\ cellWrites \in BOOLEAN

GateTypeOK ==
    /\ IsJournal(journal)
    /\ cursor \in 0..Len(journal)
    /\ now \in Int

BookTypeOK ==
    /\ lastPrice \in Nat
    /\ pending \in Seq(Order)
    /\ fills \in Seq(Fill)
    /\ accepted \in Seq(Order)

TalkTypeOK ==
    /\ hostPc \in HostPcs
    /\ ticksSent \in Nat
    /\ exhausted \in BOOLEAN
    /\ failure \in Failures

=============================================================================
