------------------------------- MODULE Replay -------------------------------
(***************************************************************************)
(* What a run records of its book and how `sbx verify` compares a second    *)
(* execution with it: decimal arithmetic that rounds (`portfolio`), one     *)
(* text per decimal (`canonical`), one hash per result (`runner.execute`)   *)
(* and the first field that differs (`verify.first_divergence`).            *)
(*                                                                          *)
(* Which orders may be filled when is Portfolio's and TimeGate's subject;   *)
(* here a tick is a trade that fills the orders waiting for it, at most one.*)
(* The second execution may do anything: a strategy that is not a function  *)
(* of its inputs is what verify is for.  Code, data and seed are the same   *)
(* in both, as verify passes them; Sbx has the store that may change.       *)
(***************************************************************************)
EXTENDS Decimals, Sequences

CONSTANTS
    Sizes, Prices,      \* what orders and journals hold, plausible or not
    MaxTicks            \* bound: ticks of one execution

ASSUME InputAssumption == Sizes \subseteq DecimalType /\ Prices \subseteq DecimalType

VARIABLES
    phase,
    book,       \* Portfolio of the execution in progress, and its ticks_sent
    outcome,    \* of the execution in progress or ended
    first,      \* the recorded execution: its book and its hash
    verdict,
    divergence

vars == <<phase, book, outcome, first, verdict, divergence>>

RAN_OUTCOMES == {"completed", "stopped_early"}
Nothing   == [field |-> "none"]             \* Python's None, as a divergence,
NoHash    == Nothing                        \* as a hash
NoDecimal == Zero                           \* and as a last price

EmptyBook == [position |-> Zero, cash |-> Zero, lastPrice |-> NoDecimal,
              fills |-> <<>>, ticks |-> 0]

Init ==
    /\ phase = "running"
    /\ book = EmptyBook
    /\ outcome = "none"
    /\ first = [book |-> EmptyBook, hash |-> NoHash]
    /\ verdict = "none"
    /\ divergence = Nothing

-----------------------------------------------------------------------------
(* _fill, at the trade the tick reveals.                                     *)
Filled(b, side, size, price) ==
    LET signed == IF side = "BUY" THEN size ELSE Negated(size)
    IN  [b EXCEPT !.position = Plus(@, signed),
                  !.cash = Minus(@, Times(signed, price)),
                  !.fills = Append(@, [at |-> b.ticks, side |-> side,
                                       size |-> size, price |-> price])]

Revealed(b, price) == [b EXCEPT !.lastPrice = price, !.ticks = @ + 1]

Pnl(b) == IF b.lastPrice = NoDecimal THEN b.cash
          ELSE Plus(b.cash, Times(b.position, b.lastPrice))

(* A trade with nothing waiting, and one with an order waiting.              *)
Trade(price) == book' = Revealed(book, price)
TradeFilling(side, size, price) ==
    book' = Revealed(Filled(book, side, size, price), price)

Tick ==
    /\ phase \in {"running", "replaying"}
    /\ book.ticks < MaxTicks
    /\ \E price \in Prices :
         /\ Plausible(price)
         /\ \/ Trade(price)
            \/ \E side \in {"BUY", "SELL"}, size \in Sizes :
                 Plausible(size) /\ TradeFilling(side, size, price)
    /\ UNCHANGED <<phase, outcome, first, verdict, divergence>>

Ended == IF phase = "running" THEN "recorded" ELSE "replayed"

(* The execution ends by itself, or the host ends it: "failed" stands for    *)
(* every outcome without a result.                                           *)
End ==
    /\ phase \in {"running", "replaying"}
    /\ outcome' \in RAN_OUTCOMES \cup {"failed"}
    /\ phase' = Ended
    /\ UNCHANGED <<book, first, verdict, divergence>>

(* An order or a price that is not a plausible decimal fails the run.        *)
Implausible ==
    /\ phase \in {"running", "replaying"}
    /\ \E d \in Sizes \cup Prices : ~Plausible(d)
    /\ outcome' = "failed"
    /\ phase' = Ended
    /\ UNCHANGED <<book, first, verdict, divergence>>

-----------------------------------------------------------------------------
(* encode, then decode: decimals come back as their texts.                   *)
Recorded(b) ==
    [position |-> Text(b.position),
     pnl |-> Text(Pnl(b)),
     fills |-> [i \in 1..Len(b.fills) |->
                  [at |-> b.fills[i].at, side |-> b.fills[i].side,
                   size |-> Text(b.fills[i].size), price |-> Text(b.fills[i].price)]],
     ticks |-> b.ticks]

(* Faulty ResultHash: the totals stand for the fills.                        *)
ResultHashOfTotals(b, how) ==
    IF how \in RAN_OUTCOMES THEN [Recorded(b) EXCEPT !.fills = <<>>] ELSE NoHash

(* hash_object; a hash is what was hashed.                                   *)
ResultHash(b, how) == IF how \in RAN_OUTCOMES THEN Recorded(b) ELSE NoHash

Common(was, now) == 1..Smaller(Len(was.fills), Len(now.fills))

FillFields == <<"at", "side", "size", "price">>

(* The fields of a fill that differ, as <<fill, place in FillFields>>.       *)
DifferingFills(was, now) ==
    {p \in Common(was, now) \X (1..4) :
       was.fills[p[1]][FillFields[p[2]]] # now.fills[p[1]][FillFields[p[2]]]}

Before(p, q) == p[1] < q[1] \/ (p[1] = q[1] /\ p[2] =< q[2])

(* Faulty first_divergence: fills one execution has and the other has not    *)
(* are not looked for.                                                       *)
first_divergence_common(was, now) ==
    LET differing == DifferingFills(was, now)
        p == CHOOSE q \in differing : \A o \in differing : Before(q, o)
    IN  CASE was.position # now.position -> [field |-> "position"]
          [] was.position = now.position /\ was.pnl # now.pnl -> [field |-> "pnl"]
          [] OTHER -> IF differing # {}
                      THEN [field |-> FillFields[p[2]], fill |-> p[1]]
                      ELSE Nothing

first_divergence(was, now) ==
    LET differing == DifferingFills(was, now)
        p == CHOOSE q \in differing : \A o \in differing : Before(q, o)
    IN  IF was.position # now.position THEN [field |-> "position"]
        ELSE IF was.pnl # now.pnl THEN [field |-> "pnl"]
        ELSE IF differing # {} THEN [field |-> FillFields[p[2]], fill |-> p[1]]
        ELSE IF Len(was.fills) # Len(now.fills) THEN [field |-> "fills"]
        ELSE Nothing

(* verify, up to its call of execute.  A run without a result hash has       *)
(* nothing to reproduce.                                                     *)
Verify ==
    /\ phase = "recorded"
    /\ ResultHash(book, outcome) # NoHash
    /\ first' = [book |-> book, hash |-> ResultHash(book, outcome)]
    /\ book' = EmptyBook
    /\ outcome' = "none"
    /\ phase' = "replaying"
    /\ UNCHANGED <<verdict, divergence>>

(* verify, from there on.                                                    *)
Judge ==
    /\ phase = "replayed"
    /\ IF ResultHash(book, outcome) = first.hash
       THEN verdict' = "REPRODUCED" /\ divergence' = Nothing
       ELSE /\ verdict' = "DIVERGED"
            /\ divergence' = first_divergence(Recorded(first.book), Recorded(book))
    /\ phase' = "judged"
    /\ UNCHANGED <<book, outcome, first>>

Next == Tick \/ End \/ Implausible \/ Verify \/ Judge

Spec == Init /\ [][Next]_vars

-----------------------------------------------------------------------------
(* The book as plain arithmetic has it: position in units of 10^-s, cash in  *)
(* units of 10^-(s + t), where no size has more than s places and no price   *)
(* more than t.                                                              *)
Covers(b, s, t) ==
    /\ \A i \in DOMAIN b.fills : b.fills[i].size.exp >= -s /\ b.fills[i].price.exp >= -t
    /\ b.lastPrice.exp >= -t

Sign(side) == IF side = "BUY" THEN 1 ELSE -1
Abs(n)     == IF n < 0 THEN -n ELSE n

SumOf(terms) ==
    LET sum[k \in 0..Len(terms)] == IF k = 0 THEN 0 ELSE sum[k - 1] + terms[k]
    IN  sum[Len(terms)]

Size(f, s)     == Units(f.size, s)
Cost(f, s, t)  == Units(f.size, s) * Units(f.price, t)

ExactPosition(b, s) == SumOf([i \in DOMAIN b.fills |-> Sign(b.fills[i].side) * Size(b.fills[i], s)])
ExactCash(b, s, t)  == -SumOf([i \in DOMAIN b.fills |-> Sign(b.fills[i].side) * Cost(b.fills[i], s, t)])
Volume(b, s)        == SumOf([i \in DOMAIN b.fills |-> Size(b.fills[i], s)])
Turnover(b, s, t)   == SumOf([i \in DOMAIN b.fills |-> Cost(b.fills[i], s, t)])
Mark(b, s, t)       == ExactPosition(b, s) * Units(b.lastPrice, t)

FitsPrecision(b, s, t) ==
    /\ Volume(b, s) < Pow10[PREC]
    /\ Turnover(b, s, t) + Abs(Mark(b, s, t)) < Pow10[PREC]

Scales(b) == {0} \cup {Larger(-b.fills[i].size.exp, 0) : i \in DOMAIN b.fills}

(* While what was traded, counted in a unit that divides every size and      *)
(* price, has no more digits than the arithmetic keeps, nothing is rounded:  *)
(* position, cash and PnL are the exact sums over the fills, and the         *)
(* position's text shows as many places as the finest size filled            *)
(* (`canonical`: trailing zeros are exchange precision, and data).           *)
(* portfolio._fill, Portfolio.pnl.                                           *)
ExactWithinPrecision ==
    \A s, t \in 0..MAX_DECIMAL_PLACES :
      Covers(book, s, t) /\ FitsPrecision(book, s, t) =>
        /\ Units(book.position, s) = ExactPosition(book, s)
        /\ Units(book.cash, s + t) = ExactCash(book, s, t)
        /\ Units(Pnl(book), s + t) = ExactCash(book, s, t) + Mark(book, s, t)
        /\ \A p \in Scales(book) : p =< Text(book.position).places
        /\ Text(book.position).places \in Scales(book)

Unrounded(b) ==
    \E s, t \in 0..MAX_DECIMAL_PLACES : Covers(b, s, t) /\ FitsPrecision(b, s, t)

(* In a unit fine enough for every product of a size and a price.            *)
Value(d) == Units(d, 2 * MAX_DECIMAL_PLACES)

(* Cash and the last price are not recorded, and hashes are of texts, which  *)
(* 1E+1 and 10 share: all the same a reproduced run had the recorded one's   *)
(* position and cash, however both were rounded; and its last price too,     *)
(* unless it ended flat or something was rounded away.                       *)
(* runner.execute's result_hash, verify.                                     *)
ReproducedBooksAgree ==
    verdict = "REPRODUCED" =>
      /\ Value(book.position) = Value(first.book.position)
      /\ Value(book.cash) = Value(first.book.cash)
      /\ Unrounded(book) /\ Unrounded(first.book) /\ Value(book.position) # 0 =>
            Value(book.lastPrice) = Value(first.book.lastPrice)

(* `verify`: "the first field that differs is named".  The field a divergence*)
(* names differs and every field looked at before it agrees; and when none   *)
(* is named, every fill and both totals agree: what differs is how many ticks*)
(* were seen, or the replay had no result to hash.  verify.first_divergence. *)
DivergenceIsFirst ==
    verdict = "DIVERGED" =>
      LET was == Recorded(first.book)
          now == Recorded(book)
          d   == divergence
          totalsAgree == was.position = now.position /\ was.pnl = now.pnl
          agreeTo(n)  == \A i \in 1..n : was.fills[i] = now.fills[i]
      IN  /\ d.field = "position" => was.position # now.position
          /\ d.field = "pnl" => was.position = now.position /\ was.pnl # now.pnl
          /\ "fill" \in DOMAIN d =>
                /\ totalsAgree /\ agreeTo(d.fill - 1)
                /\ was.fills[d.fill][d.field] # now.fills[d.fill][d.field]
          /\ d.field = "fills" =>
                /\ totalsAgree /\ Len(was.fills) # Len(now.fills)
                /\ agreeTo(Smaller(Len(was.fills), Len(now.fills)))
          /\ d = Nothing =>
                /\ totalsAgree /\ was.fills = now.fills
                /\ was.ticks # now.ticks \/ outcome \notin RAN_OUTCOMES
=============================================================================
