------------------------------ MODULE Portfolio ------------------------------
(***************************************************************************)
(* `portfolio.Portfolio`: position, cash and fills of one run, and the      *)
(* orders waiting for the next trade.                                       *)
(*                                                                          *)
(* An order carries three history fields the code does not keep: `tick`,    *)
(* the journal line on the wire when the host accepted it, `nth`, its place *)
(* in the decision, and `sight`, the last journal line the cell had read    *)
(* when it sent it.  A fill carries `trade`, the journal line it was        *)
(* executed at.  No action reads them.                                      *)
(***************************************************************************)
EXTENDS Integers, Sequences, SequencesExt

VARIABLES
    position,
    cash,
    lastPrice,      \* 0 stands for None
    fills,
    pending         \* _pending

bookVars == <<position, cash, lastPrice, fills, pending>>

Sides == {"BUY", "SELL"}
Order == [side : Sides, size : Nat \ {0}, tick : Nat, sight : Nat, nth : Nat \ {0}]
Fill  == [order : Order, at : Int, price : Nat \ {0}, trade : Nat]

PortfolioInit ==
    /\ position = 0
    /\ cash = 0
    /\ lastPrice = 0
    /\ fills = <<>>
    /\ pending = <<>>

(* plausible_decimal: positive; the digit bounds are part of what 0 stands   *)
(* for.                                                                      *)
Plausible(quantity) == quantity > 0

(* parse_order: is this wire order one?                                      *)
WellFormed(raw) == raw.side \in Sides /\ Plausible(raw.size)

Signed(order) == IF order.side = "BUY" THEN order.size ELSE -order.size

(* Faulty Net: a sale counts as a purchase.                                  *)
NetUnsigned(orders) == FoldLeft(LAMBDA sum, order : sum + order.size, 0, orders)

Net(orders) == FoldLeft(LAMBDA sum, order : sum + Signed(order), 0, orders)

-----------------------------------------------------------------------------
(* Faulty Submit: fill at the last price seen.                               *)
SubmitAtOnce(orders) ==
    IF lastPrice = 0
    THEN pending' = pending \o orders /\ UNCHANGED <<position, cash, lastPrice, fills>>
    ELSE /\ fills' = fills \o [k \in 1..Len(orders) |->
                                 [order |-> orders[k], at |-> 0, price |-> lastPrice,
                                  trade |-> orders[k].tick]]
         /\ UNCHANGED <<position, cash, lastPrice, pending>>

(* Queue orders, in sequence, against the next trade.                        *)
Submit(orders) ==
    /\ pending' = pending \o orders
    /\ UNCHANGED <<position, cash, lastPrice, fills>>

(* Faulty FillAll: the orders are not taken off the queue.                   *)
FillAllKeeping(at, price, trade) ==
    /\ fills' = fills \o [k \in 1..Len(pending) |->
                             [order |-> pending[k], at |-> at,
                              price |-> price, trade |-> trade]]
    /\ UNCHANGED pending
    /\ position' = position + Net(pending)
    /\ cash' = cash - Net(pending) * price

(* _fill, for every waiting order in turn.                                   *)
FillAll(at, price, trade) ==
    /\ fills' = fills \o [k \in 1..Len(pending) |->
                             [order |-> pending[k], at |-> at,
                              price |-> price, trade |-> trade]]
    /\ pending' = <<>>
    /\ position' = position + Net(pending)
    /\ cash' = cash - Net(pending) * price

(* observe raises on a trade whose price is not plausible, before it changes *)
(* anything.                                                                 *)
Unobservable(event) == event.type = "trade" /\ ~Plausible(event.price)

(* Faulty Observe: fill at the price of the trade before.                    *)
ObserveStale(event, at, line) ==
    /\ ~Unobservable(event)
    /\ IF event.type = "trade"
       THEN /\ lastPrice' = event.price
            /\ FillAll(at, IF lastPrice = 0 THEN event.price ELSE lastPrice, line)
       ELSE UNCHANGED bookVars

(* Show the portfolio the event of line `line` at replay time `at`.          *)
Observe(event, at, line) ==
    /\ ~Unobservable(event)
    /\ IF event.type = "trade"
       THEN /\ lastPrice' = event.price
            /\ FillAll(at, event.price, line)
       ELSE UNCHANGED bookVars

=============================================================================
