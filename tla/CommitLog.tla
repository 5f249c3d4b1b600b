------------------------------ MODULE CommitLog ------------------------------
(***************************************************************************)
(* What the ledger promises to whoever appends to it: an append-only log.   *)
(* Records are committed at the end and never change place or content.  A   *)
(* commit that has been promised (append() has made it durable) is never    *)
(* lost; one that has not been may be, with everything after it.            *)
(***************************************************************************)
EXTENDS Naturals, Sequences

CONSTANT
    Records

VARIABLES
    log,            \* the committed records, in append order
    promised        \* how many of them are durable

vars == <<log, promised>>

Init ==
    /\ log = <<>>
    /\ promised = 0

Commit(record) ==
    /\ log' = Append(log, record)
    /\ UNCHANGED promised

Promise ==
    /\ promised' \in promised..Len(log)
    /\ UNCHANGED log

Lose ==
    /\ \E kept \in promised..Len(log) :
        /\ log' = SubSeq(log, 1, kept)
        /\ promised' \in promised..kept

Next == Promise \/ Lose \/ \E record \in Records : Commit(record)

Spec == Init /\ [][Next]_vars

=============================================================================
