------------------------------ MODULE TimeGate ------------------------------
(***************************************************************************)
(* What the time gate promises, whatever runs in the cell.  Events of the   *)
(* journal are revealed one at a time and in order, each is answered before *)
(* the next is revealed, and an order answered at one event is filled at    *)
(* the next trade revealed after it, before anybody sees that trade.        *)
(*                                                                          *)
(* The one loop of `Feeder._converse` is the code that keeps the promise.   *)
(***************************************************************************)
EXTENDS Integers, Sequences

CONSTANTS
    Events,         \* the line types a strategy is shown
    Journals,       \* the journals a run may be given
    MaxOrders       \* orders one answer may carry

VARIABLES
    journal,
    cursor,         \* the event revealed last, 0 before the first
    phase,          \* "free" to reveal, "awaiting" an answer, or "closed"
    waiting,        \* for every order not filled yet, the event it answers
    filled          \* for every fill, the event answered and the trade hit

vars == <<journal, cursor, phase, waiting, filled>>

Init ==
    /\ journal \in Journals
    /\ cursor = 0
    /\ phase = "free"
    /\ waiting = <<>>
    /\ filled = <<>>

FilledAt(trade) ==
    filled \o [k \in 1..Len(waiting) |-> [tick |-> waiting[k], trade |-> trade]]

(* The next event is revealed.  No event is passed over.                     *)
Reveal(i) ==
    /\ phase = "free"
    /\ phase' = "awaiting"
    /\ journal[i].type \in Events
    /\ \A k \in (cursor + 1)..(i - 1) : journal[k].type \notin Events
    /\ cursor' = i
    /\ IF journal[i].type = "trade"
       THEN waiting' = <<>> /\ filled' = FilledAt(i)
       ELSE UNCHANGED <<waiting, filled>>
    /\ UNCHANGED journal

(* The event on the wire is answered with n orders, perhaps for the last     *)
(* time.                                                                     *)
Answer(n) ==
    /\ phase = "awaiting"
    /\ phase' \in {"free", "closed"}
    /\ waiting' = waiting \o [k \in 1..n |-> cursor]
    /\ UNCHANGED <<journal, cursor, filled>>

(* The conversation ends, with or without consuming a last line that is      *)
(* never shown.                                                              *)
Close ==
    /\ phase # "closed"
    /\ phase' = "closed"
    /\ cursor' \in cursor..Len(journal)
    /\ UNCHANGED <<journal, waiting, filled>>

Next ==
    \/ \E i \in (cursor + 1)..Len(journal) : Reveal(i)
    \/ \E n \in 0..MaxOrders : Answer(n)
    \/ Close

Spec == Init /\ [][Next]_vars

=============================================================================
