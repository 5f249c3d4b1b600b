------------------------------ MODULE MCReplay ------------------------------
(* Decimals for Replay: 1 and 1.0, equal and not the same; 99.9, whose       *)
(* products have more digits than three; 0 and 0.05, implausible here; and   *)
(* 10, once as 10 and once as 1E+1, which are written alike.                 *)
EXTENDS Replay

MCSizes  == {Decimal(FALSE, 1, 0), Decimal(FALSE, 10, -1), Decimal(FALSE, 999, -1), Zero,
             Decimal(FALSE, 5, -2)}
MCPrices == {Decimal(FALSE, 11, -1), Decimal(FALSE, 1, 1), Decimal(FALSE, 10, 0)}
=============================================================================
