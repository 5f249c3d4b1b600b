------------------------- MODULE MCUntrustedSession -------------------------
(***************************************************************************)
(* UntrustedSession on short journals against a cell with a small           *)
(* vocabulary: every frame kind, the right tick and wrong ones, no order,   *)
(* one, one too many, and one that does not parse after one that does.      *)
(***************************************************************************)
EXTENDS UntrustedSession

trade(stamp, price) ==
    [type |-> "trade", stamp |-> stamp, price |-> price, long |-> FALSE]

other(type) == [type |-> type, stamp |-> 0, price |-> 0, long |-> FALSE]

early == trade(1, 2)
late  == trade(2, 3)
huge  == [late EXCEPT !.long = TRUE]

MCJournals == {
    <<late, early, late>>,                           \* stamps run backwards
    <<other("disconnect"), early, other("raw"), other("torn")>>,
    <<early, other("blank"), trade(2, 0)>>,          \* a price of no use
    <<other("gap"), huge>>,                          \* a tick over the limit
    <<other("gap"), other("refused"), late>> }

buy  == [side |-> "BUY", size |-> 1]
sell == [side |-> "SELL", size |-> 2]
bad  == [side |-> "BUY", size |-> 0]

decision(t, orders) == [m |-> "decision", now |-> t, orders |-> orders]

say(m) == [m |-> m, now |-> 0, orders |-> <<>>]

MCCellFrames ==
    {say("ready"), say("done"), say("error"), say("malformed"),
     decision(0, <<buy>>), decision(1, <<buy, bad>>),
     decision(2, <<sell, buy>>), decision(2, <<buy, buy, buy>>)}

=============================================================================
