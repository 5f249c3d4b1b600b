-------------------------------- MODULE Gate --------------------------------
(***************************************************************************)
(* `gate.replay` over `runner.journal_records`: a sealed journal, read line *)
(* by line, becomes ticks on a clock that only moves forward.               *)
(*                                                                          *)
(* A line is [type, stamp, price, long].  Besides the record types of       *)
(* gate.py a line can be                                                    *)
(*   "blank"    a line of white space, skipped by journal_records;          *)
(*   "refused"  a line at which journal_records or replay raises SbxError:  *)
(*              not canonical JSON, not an object, an unknown or non-string *)
(*              type, a timed record whose instant is missing, unparseable  *)
(*              or without a timezone;                                      *)
(*   "torn"     a final line with no newline, where the journal ends.       *)
(* An instant is a number; 0 is EPOCH.  `price` matters on trades only, and *)
(* 0 stands for every price `plausible_decimal` refuses.  `long` says that  *)
(* the tick made of the line is over MAX_FRAME_BYTES.                       *)
(***************************************************************************)
EXTENDS Integers, Sequences

CONSTANT
    Journals        \* the journals a run may be given

Epoch     == 0
Timed     == {"trade", "book_update"}
Untimed   == {"gap", "disconnect"}
Replayed  == Timed \union Untimed
Diagnosed == {"raw", "error", "blank"}
LineTypes == Replayed \union Diagnosed \union {"refused", "torn"}

Line == [type : LineTypes, stamp : Int, price : Nat, long : BOOLEAN]

(* Only the last line of a file can lack its newline.                        *)
IsJournal(j) ==
    /\ j \in Seq(Line)
    /\ \A i \in 1..Len(j) : j[i].type = "torn" => i = Len(j)

ASSUME JournalsAssumption == \A j \in Journals : IsJournal(j)

VARIABLES
    journal,        \* the sealed journal of this run
    cursor,         \* the last line the generator consumed
    now             \* the replay clock (now_moment, now_text)

gateVars == <<journal, cursor, now>>

GateInit ==
    /\ journal \in Journals
    /\ cursor = 0
    /\ now = Epoch

-----------------------------------------------------------------------------
(* Faulty Skipped: untimed events are dropped.                               *)
SkippedUntimed(i) == journal[i].type \in Diagnosed \union Untimed

Skipped(i) == journal[i].type \in Diagnosed

(* Everything between the cursor and i is skipped over.                      *)
Reaches(i) == \A k \in (cursor + 1)..(i - 1) : Skipped(k)

(* The next request to the generator yields the tick of line i.              *)
YieldsLine(i) ==
    /\ i \in (cursor + 1)..Len(journal)
    /\ Reaches(i)
    /\ journal[i].type \in Replayed

(* The next request to the generator raises.                                 *)
Refuses ==
    \E i \in (cursor + 1)..Len(journal) :
        Reaches(i) /\ journal[i].type = "refused"

(* Faulty RunsOut: a line that cannot be replayed ends the journal.          *)
RunsOutAtRefusal ==
    \E i \in (cursor + 1)..(Len(journal) + 1) :
        /\ Reaches(i)
        /\ i <= Len(journal) => journal[i].type \in {"torn", "refused"}

(* The next request to the generator ends the iteration.                     *)
RunsOut ==
    \E i \in (cursor + 1)..(Len(journal) + 1) :
        /\ Reaches(i)
        /\ i <= Len(journal) => journal[i].type = "torn"

(* Faulty ClockAt: the clock follows every stamp.                            *)
StampAt(i) == IF journal[i].type \in Timed THEN journal[i].stamp ELSE now

(* What the clock reads at line i.                                           *)
ClockAt(i) ==
    IF journal[i].type \in Timed /\ journal[i].stamp > now
    THEN journal[i].stamp
    ELSE now

AdvanceTo(i) ==
    /\ YieldsLine(i)
    /\ cursor' = i
    /\ now' = ClockAt(i)
    /\ UNCHANGED journal

=============================================================================
