------------------------------ MODULE MCSession ------------------------------
(***************************************************************************)
(* Session on journals of up to five lines and strategies of up to three    *)
(* moves: every way to leave after any two ordinary ticks.                  *)
(***************************************************************************)
EXTENDS Session

trade(stamp, price) ==
    [type |-> "trade", stamp |-> stamp, price |-> price, long |-> FALSE]

other(type) == [type |-> type, stamp |-> 0, price |-> 0, long |-> FALSE]

MCJournals == {
    <<>>,
    <<trade(2, 2), other("gap"), trade(1, 3), other("raw"), trade(3, 2)>>,
    <<other("disconnect"), trade(1, 2), other("blank"), trade(2, 3), other("torn")>>,
    <<trade(1, 2), [trade(2, 3) EXCEPT !.long = TRUE], trade(3, 2)>>,
    <<trade(1, 2), trade(2, 0), trade(3, 2)>>,
    <<trade(1, 2), other("refused"), trade(3, 2)>> }

buy     == [side |-> "BUY", size |-> 1]
sell    == [side |-> "SELL", size |-> 2]
useless == [side |-> "BUY", size |-> 0]

goes(then)    == [Hold EXCEPT !.then = then]
leaves(then)  == [Hold EXCEPT !.then = then, !.answers = FALSE]
places(orders) == [Hold EXCEPT !.places = orders]

Ordinary == {Hold, places(<<buy>>), places(<<sell, buy>>)}

Parting == Ordinary \union
    {places(<<buy, buy, sell>>), places(<<buy, useless>>),
     [goes("done") EXCEPT !.places = <<sell>>]} \union
    {goes(then) : then \in {"error"} \union Exits} \union
    {leaves(then) : then \in {"next", "done", "error", "exit0"}}

Plays == {<<>>} \union {Append(first, last) : first \in SeqOf(Ordinary, 2), last \in Parting}

MCStrategies ==
    {[early |-> <<>>, opening |-> "next", moves |-> moves] : moves \in Plays} \union
    {[early |-> <<sell>>, opening |-> "next", moves |-> <<move>>] : move \in Parting} \union
    {[early |-> <<buy>>, opening |-> then, moves |-> <<>>] : then \in Goings}

=============================================================================
