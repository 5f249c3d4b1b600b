------------------------------ MODULE Cell_proofs ------------------------------
(***************************************************************************)
(* Proofs about Cell, for every capture cap, every pipe, any amount of      *)
(* output, with and without grandchildren and interrupts.                   *)
(***************************************************************************)
EXTENDS Cell, TLAPS

-----------------------------------------------------------------------------
(* The smaller of two numbers.                                               *)
LEMMA MinOfTwo ==
    ASSUME NEW a \in Nat, NEW b \in Nat
    PROVE  Min({a, b}) = IF a <= b THEN a ELSE b
<1> DEFINE m == IF a <= b THEN a ELSE b
<1>1. m \in {a, b} /\ \A y \in {a, b} : m <= y
  OBVIOUS
<1>2. \A x \in {a, b} : (\A y \in {a, b} : x <= y) => x = m
  OBVIOUS
<1> QED
  BY <1>1, <1>2 DEF Min

(* A capture never holds more than its cap, and empties the pipe.            *)
LEMMA CaptureTypes ==
    ASSUME TypeOK, Capture
    PROVE  /\ errPipe' \in 0..PipeChunks
           /\ kept' \in 0..MaxCapture
           /\ truncated' \in BOOLEAN
<1>1. kept + errPipe \in Nat /\ kept + errPipe >= 0
  BY PipeAssumption, CaptureAssumption DEF TypeOK
<1>2. kept' = IF MaxCapture <= kept + errPipe THEN MaxCapture ELSE kept + errPipe
  BY <1>1, CaptureAssumption, MinOfTwo DEF Capture
<1> QED
  BY <1>1, <1>2, CaptureAssumption, PipeAssumption DEF Capture, TypeOK

LEMMA OutcomeTypes ==
    ASSUME TypeOK
    PROVE  Outcome \in Outcomes
BY DEF TypeOK, Outcome, Outcomes, Verdict, Verdicts, Endings

-----------------------------------------------------------------------------
(* Type correctness.                                                         *)

LEMMA InitTypeOK == Init => TypeOK
<1> SUFFICES ASSUME Init PROVE TypeOK
  OBVIOUS
<1>1. /\ held \in BOOLEAN /\ doomed \in BOOLEAN /\ refused \in BOOLEAN
      /\ failures \in BOOLEAN /\ outlasted \in BOOLEAN
  BY WorldAssumption, Zenon DEF Init
<1>2. late \in BOOLEAN /\ graceOver \in BOOLEAN
  BY Zenon DEF Init
<1>3. truncated \in BOOLEAN /\ interrupted \in BOOLEAN
  BY Zenon DEF Init
<1>4. /\ wrote \in 0..MaxWrites /\ errPipe \in 0..PipeChunks
      /\ kept \in 0..MaxCapture
  BY CaptureAssumption, PipeAssumption DEF Init
<1>5. /\ cell \in {"running", "zombie", "reaped"}
      /\ ending \in Endings \union {"none"}
      /\ talker \in {"computing", "blocked", "ended"}
      /\ pc \in Pcs
      /\ status \in Endings \union {"none"} /\ killed \in Verdicts \union {"none"}
      /\ report \in Outcomes \union {"none", "raised"}
  BY DEF Init, Pcs, Loop
<1> QED
  BY <1>1, <1>2, <1>3, <1>4, <1>5, Zenon DEF TypeOK

LEMMA CellTypeOK ==
    ASSUME TypeOK, TheCell \/ Talker \/ Clock
    PROVE  TypeOK'
<1> USE CaptureAssumption, PipeAssumption DEF TypeOK, cellVars, talkVars, clockVars, keptVars
<1>1. CASE CellPrints
  BY <1>1 DEF CellPrints
<1>2. CASE CellEnds
  BY <1>2 DEF CellEnds, Ends, Endings
<1>3. CASE CellDies
  BY <1>3 DEF CellDies, Ends, Endings
<1>4. CASE CellAnswers
  BY <1>4 DEF CellAnswers
<1>5. CASE GrandchildEnds
  <2>1. held' \in BOOLEAN
    BY <1>5, Zenon DEF GrandchildEnds
  <2>2. UNCHANGED <<cell, ending, doomed, refused, wrote, errPipe, talkVars, pc, status, killed,
                    clockVars, keptVars, interrupted, report>>
    BY <1>5 DEF GrandchildEnds
  <2> QED
    BY <2>1, <2>2
<1>6. CASE Talker
  BY <1>6 DEF Talker, TalkerBlocks, PipeBreaks, TalkerEnds
<1>7. CASE DeadlinePasses
  BY <1>7 DEF DeadlinePasses
<1>8. CASE GracePasses
  BY <1>8 DEF GracePasses
<1> QED
  BY <1>1, <1>2, <1>3, <1>4, <1>5, <1>6, <1>7, <1>8 DEF TheCell, Clock

LEMMA WatchdogTypeOK ==
    ASSUME TypeOK, Watchdog \/ Interrupt
    PROVE  TypeOK'
<1>0. Signal => doomed' \in BOOLEAN /\ refused' \in BOOLEAN
  BY Zenon DEF TypeOK, Signal
<1> USE DEF TypeOK, Goto, Pcs, Loop, cellVars, talkVars, clockVars, keptVars
<1>1. CASE Poll
  BY <1>1, CaptureTypes DEF Poll, Capture
<1>2. CASE Wait4
  BY <1>2 DEF Wait4
<1>3. CASE NoteStatus
  BY <1>3 DEF NoteStatus
<1>4. CASE Decide
  <2>1. graceOver' \in BOOLEAN
    BY <1>4, Zenon DEF Decide, Sentence
  <2>2. pc' \in Pcs /\ killed' \in Verdicts \union {"none"}
    BY <1>4 DEF Decide, Sentence, Verdicts
  <2>3. UNCHANGED <<cellVars, talkVars, status, late, keptVars, interrupted, report>>
    BY <1>4 DEF Decide
  <2> QED
    BY <2>1, <2>2, <2>3
<1>5. CASE Measure
  <2>1. graceOver' \in BOOLEAN
    BY <1>5, Zenon DEF Measure, Sentence
  <2>2. pc' \in Pcs /\ killed' \in Verdicts \union {"none"}
    BY <1>5 DEF Measure, Sentence, Verdicts
  <2>3. UNCHANGED <<cellVars, talkVars, status, late, keptVars, interrupted, report>>
    BY <1>5 DEF Measure
  <2> QED
    BY <2>1, <2>2, <2>3
<1>6. CASE Kill
  BY <1>0, <1>6 DEF Kill, Signal
<1>7. CASE Drain
  BY <1>7, CaptureTypes DEF Drain, Capture
<1>8. CASE Join
  BY <1>8 DEF Join
<1>9. CASE Close
  BY <1>9 DEF Close
<1>10. CASE LastKill
  BY <1>0, <1>10 DEF LastKill, Signal
<1>11. CASE LastWait
  BY <1>11 DEF LastWait
<1>12. CASE Report
  BY <1>12, OutcomeTypes DEF Report
<1>13. CASE Interrupt
  BY <1>13 DEF Interrupt
<1> QED
  BY <1>1, <1>2, <1>3, <1>4, <1>5, <1>6, <1>7, <1>8, <1>9, <1>10, <1>11, <1>12, <1>13
     DEF Watchdog

LEMMA NextTypeOK == TypeOK /\ [Next]_vars => TypeOK'
<1> SUFFICES ASSUME TypeOK, [Next]_vars PROVE TypeOK'
  OBVIOUS
<1>1. CASE Over \/ UNCHANGED vars
  BY <1>1 DEF Over, vars, cellVars, talkVars, clockVars, keptVars, TypeOK
<1> QED
  BY <1>1, CellTypeOK, WatchdogTypeOK DEF Next

(* The watchdog's state keeps its types, whatever the cap, the pipe and the  *)
(* amount the cell prints: in particular a capture never outgrows its cap.   *)
THEOREM TypeCorrect == Spec => []TypeOK
BY InitTypeOK, NextTypeOK, PTL DEF Spec

-----------------------------------------------------------------------------
(* What a report rests on, in terms of what WatchdogKnows keeps.             *)
ReportRests ==
    /\ report # "none" => pc = "returned"
    /\ report \in {"completed", "cpu_exhausted", "failed"} => killed = "none" /\ ~interrupted
    /\ report = "completed" => status = "exit0" /\ (failures => outlasted)
    /\ report = "cpu_exhausted" => status = "SIGXCPU"
    /\ report = "failed" => status = "exit1" \/ (status = "exit0" /\ failures)
    /\ report = "timed_out" => killed = "timed_out"
    /\ report = "killed" => killed = "abandoned" \/ status \in {"SIGKILL", "signal"}

IInv == TypeOK /\ WatchdogKnows /\ ReportRests

LEMMA InitIInv == Init => IInv
<1>1. Init => WatchdogKnows
  BY DEF Init, WatchdogKnows, Loop, Unwound, Joined
<1>2. Init => ReportRests
  BY DEF Init, ReportRests
<1> QED
  BY <1>1, <1>2, InitTypeOK DEF IInv

LEMMA CellKnows ==
    ASSUME IInv, TheCell \/ Talker \/ Clock
    PROVE  WatchdogKnows' /\ ReportRests'
<1> USE DEF IInv, TypeOK, WatchdogKnows, ReportRests, Unwound, Joined,
            cellVars, talkVars, clockVars, keptVars
<1>1. CASE CellPrints
  BY <1>1 DEF CellPrints
<1>2. CASE CellEnds
  BY <1>2 DEF CellEnds, Ends, Endings
<1>3. CASE CellDies
  BY <1>3 DEF CellDies, Ends, Endings
<1>4. CASE CellAnswers
  BY <1>4 DEF CellAnswers
<1>5. CASE GrandchildEnds
  BY <1>5 DEF GrandchildEnds
<1>6. CASE Talker
  BY <1>6 DEF Talker, TalkerBlocks, PipeBreaks, TalkerEnds
<1>7. CASE Clock
  BY <1>7 DEF Clock, DeadlinePasses, GracePasses
<1> QED
  BY <1>1, <1>2, <1>3, <1>4, <1>5, <1>6, <1>7 DEF TheCell

(* The four ways out of a decision.                                          *)
LEMMA Decisions ==
    ASSUME Decide
    PROVE  \/ graceOver /\ pc' = "drain" /\ killed' = "abandoned" /\ UNCHANGED graceOver
           \/ killed # "none" /\ pc' = "kill" /\ UNCHANGED <<killed, graceOver>>
           \/ killed = "none" /\ late /\ pc' = "kill" /\ killed' = "timed_out"
           \/ pc' \in {"poll", "measure"} /\ UNCHANGED <<killed, graceOver>>
BY Zenon DEF Decide, Goto, Sentence

(* The order of _classify: an exit status speaks only where no verdict does. *)
LEMMA OutcomeRests ==
    ASSUME TypeOK
    PROVE  /\ Outcome \in {"completed", "cpu_exhausted", "failed"} => killed = "none"
           /\ Outcome = "completed" => status = "exit0" /\ ~failures
           /\ Outcome = "cpu_exhausted" => status = "SIGXCPU"
           /\ Outcome = "failed" => status = "exit1" \/ (status = "exit0" /\ failures)
           /\ Outcome = "timed_out" => killed = "timed_out"
           /\ Outcome = "killed" =>
                 killed = "abandoned" \/ status \in {"none", "SIGKILL", "signal"}
<1>1. CASE killed # "none"
  <2>1. Outcome = Verdict
    BY <1>1 DEF Outcome
  <2>2. killed \in Verdicts
    BY <1>1 DEF TypeOK
  <2> QED
    BY <1>1, <2>1, <2>2 DEF Verdict, Verdicts
<1>2. CASE killed = "none" /\ status \in {"SIGXCPU", "none", "SIGKILL", "signal"}
  <2>1. Outcome = IF status = "SIGXCPU" THEN "cpu_exhausted" ELSE "killed"
    BY <1>2 DEF Outcome
  <2> QED
    BY <1>2, <2>1
<1>3. CASE killed = "none" /\ status \in {"exit0", "exit1"}
  <2>1. Outcome = IF status = "exit0" /\ ~failures THEN "completed" ELSE "failed"
    <3>1. CASE status = "exit0" /\ ~failures
      BY <1>3, <3>1 DEF Outcome
    <3>2. CASE status = "exit0" /\ failures
      BY <1>3, <3>2 DEF Outcome
    <3>3. CASE status = "exit1"
      BY <1>3, <3>3 DEF Outcome
    <3> QED
      BY <1>3, <3>1, <3>2, <3>3
  <2> QED
    BY <1>3, <2>1
<1> QED
  BY <1>1, <1>2, <1>3 DEF TypeOK, Endings

LEMMA WatchdogKeepsKnowing ==
    ASSUME IInv, Watchdog \/ Interrupt
    PROVE  WatchdogKnows' /\ ReportRests'
<1> USE DEF IInv, TypeOK, WatchdogKnows, ReportRests, Unwound, Joined,
            Goto, Loop, cellVars, talkVars, clockVars, keptVars
<1>1. CASE Poll
  BY <1>1 DEF Poll, Capture
<1>2. CASE Wait4
  BY <1>2 DEF Wait4
<1>3. CASE NoteStatus
  BY <1>3 DEF NoteStatus
<1>4. CASE Decide
  <2>1. pc = "decide"
    BY <1>4 DEF Decide
  <2>2. UNCHANGED <<cell, ending, doomed, refused, talkVars, status, late, interrupted, report>>
    BY <1>4 DEF Decide
  <2>3. CASE graceOver /\ pc' = "drain" /\ killed' = "abandoned" /\ UNCHANGED graceOver
    <3>1. graceOver'
      BY <2>3, Zenon
    <3> QED
      BY <2>1, <2>2, <2>3, <3>1
  <2>4. CASE killed # "none" /\ pc' = "kill" /\ UNCHANGED <<killed, graceOver>>
    BY <2>1, <2>2, <2>4
  <2>5. CASE killed = "none" /\ late /\ pc' = "kill" /\ killed' = "timed_out"
    BY <2>1, <2>2, <2>5
  <2>6. CASE pc' \in {"poll", "measure"} /\ UNCHANGED <<killed, graceOver>>
    BY <2>1, <2>2, <2>6
  <2> QED
    <3> HIDE DEF IInv, TypeOK, WatchdogKnows, ReportRests
    <3> QED
      BY <1>4, Decisions, <2>3, <2>4, <2>5, <2>6, Zenon
<1>5. CASE Measure
  BY <1>5 DEF Measure, Sentence
<1>6. CASE Kill
  <2>1. pc = "kill" /\ pc' = "poll"
    BY <1>6 DEF Kill
  <2>2. UNCHANGED <<cell, ending, talkVars, status, killed, late, graceOver, interrupted, report>>
    BY <1>6 DEF Kill, Signal
  <2>3. \/ (doomed' <=> doomed \/ cell = "running") /\ ~refused'
        \/ refused' /\ (doomed' <=> doomed)
    BY <1>6, Zenon DEF Kill, Signal
  <2>4. killed # "none"
    BY <2>1
  <2> QED
    BY <2>1, <2>2, <2>3, <2>4
<1>7. CASE Drain
  BY <1>7 DEF Drain, Capture
<1>8. CASE Join
  BY <1>8 DEF Join
<1>9. CASE Close
  BY <1>9 DEF Close
<1>10. CASE LastKill
  <2>1. pc = "last_kill" /\ pc' = "last_wait"
    BY <1>10 DEF LastKill
  <2>2. UNCHANGED <<cell, ending, talkVars, status, killed, late, graceOver, interrupted, report>>
    BY <1>10 DEF LastKill, Signal
  <2>3. \/ (doomed' <=> doomed \/ cell = "running") /\ ~refused'
        \/ refused' /\ (doomed' <=> doomed)
    BY <1>10, Zenon DEF LastKill, Signal
  <2> QED
    BY <2>1, <2>2, <2>3
<1>11. CASE LastWait
  <2>1. pc = "last_wait" /\ pc' = "report"
    BY <1>11 DEF LastWait
  <2>2. UNCHANGED <<ending, doomed, refused, talkVars, killed, late, graceOver, interrupted, report>>
    BY <1>11 DEF LastWait
  <2>3. CASE cell = "zombie" /\ cell' = "reaped" /\ status' = ending
    BY <2>1, <2>2, <2>3
  <2>4. CASE UNCHANGED <<cell, status>>
    BY <2>1, <2>2, <2>4
  <2> QED
    BY <1>11, <2>3, <2>4 DEF LastWait
<1>12. CASE Report
  <2>1. /\ pc = "report" /\ pc' = "returned"
        /\ UNCHANGED <<cell, ending, doomed, refused, talkVars, status, killed, late, graceOver, interrupted>>
    BY <1>12 DEF Report
  <2>2. WatchdogKnows'
    BY <2>1
  <2>3. CASE interrupted /\ report' = "raised"
    BY <2>1, <2>2, <2>3
  <2>4. CASE ~interrupted /\ report' = Outcome
    BY <2>1, <2>2, <2>4, OutcomeRests
  <2>5. report' = IF interrupted THEN "raised" ELSE Outcome
    BY <1>12 DEF Report
  <2> QED
    <3> HIDE DEF IInv, TypeOK, WatchdogKnows, ReportRests
    <3> QED
      BY <2>3, <2>4, <2>5, Zenon
<1>13. CASE Interrupt
  BY <1>13 DEF Interrupt
<1> QED
  BY <1>1, <1>2, <1>3, <1>4, <1>5, <1>6, <1>7, <1>8, <1>9, <1>10, <1>11, <1>12, <1>13
     DEF Watchdog
LEMMA NextIInv == IInv /\ [Next]_vars => IInv'
<1> SUFFICES ASSUME IInv, [Next]_vars PROVE IInv'
  OBVIOUS
<1>1. TypeOK'
  BY NextTypeOK DEF IInv
<1>2. CASE Over \/ UNCHANGED vars
  <2>1. UNCHANGED vars
    BY <1>2 DEF Over
  <2> QED
    BY <1>1, <2>1 DEF vars, cellVars, talkVars, clockVars, keptVars,
                      IInv, WatchdogKnows, ReportRests, Unwound, Joined
<1> QED
  BY <1>1, <1>2, CellKnows, WatchdogKeepsKnowing DEF Next, IInv

LEMMA AlwaysKnows == Spec => []IInv
BY InitIInv, NextIInv, PTL DEF Spec

(* WatchdogKnows holds at every step of the watchdog.                        *)
THEOREM WatchdogAlwaysKnows == Spec => []WatchdogKnows
<1>1. IInv => WatchdogKnows
  BY DEF IInv
<1> QED
  BY <1>1, AlwaysKnows, PTL

(* The watchdog signals nobody but its own child, unless an exception cut it *)
(* short between wait4 and the assignment of its result.                     *)
THEOREM SignalsNobodyElse == Spec => []SignalsOnlyItsChild
<1>1. IInv => SignalsOnlyItsChild
  BY DEF IInv, WatchdogKnows, SignalsOnlyItsChild, Loop
<1> QED
  BY <1>1, AlwaysKnows, PTL

(* Once _execute has returned, a cell that is alive has SIGKILL pending, or  *)
(* the last one sent to it was refused by the kernel.                        *)
THEOREM LeavesNothingAlive == Spec => []NothingLeftAlive
<1>1. IInv => NothingLeftAlive
  BY DEF IInv, WatchdogKnows, NothingLeftAlive, Unwound, Joined
<1> QED
  BY <1>1, AlwaysKnows, PTL

(* Every report is true of how the cell ended.                               *)
THEOREM ReportsAreTrue == Spec => []ReportIsTrue
<1>1. ASSUME IInv PROVE ReportIsTrue
  <2> USE <1>1 DEF IInv, WatchdogKnows, ReportRests
  <2>1. report = "completed" =>
            ending = "exit0" /\ ~doomed /\ killed = "none" /\ (failures => outlasted)
    OBVIOUS
  <2>2. report = "cpu_exhausted" => ending = "SIGXCPU" /\ ~doomed
    OBVIOUS
  <2>3. report = "timed_out" => late
    OBVIOUS
  <2>4. report = "killed" => ending \in {"SIGKILL", "signal"} \/ graceOver
    OBVIOUS
  <2>5. report = "failed" => ending = "exit1" \/ (ending = "exit0" /\ failures)
    OBVIOUS
  <2> QED
    BY <2>1, <2>2, <2>3, <2>4, <2>5 DEF ReportIsTrue
<1> QED
  BY <1>1, AlwaysKnows, PTL

-----------------------------------------------------------------------------
(* Why a capture is honest: at any moment it holds, up to its cap, what has  *)
(* been written and is not in the pipe any more; and once the loop is left   *)
(* and the pipe drained, only a cell that was given up on can refill it.     *)

CaptureKnows ==
    /\ errPipe <= wrote
    /\ kept = IF MaxCapture <= wrote - errPipe THEN MaxCapture ELSE wrote - errPipe
    /\ truncated <=> wrote - errPipe > MaxCapture
    /\ pc \notin Loop \union {"drain"} /\ ~interrupted => errPipe = 0 \/ killed = "abandoned"

LEMMA InitCapture == Init => CaptureKnows
  BY CaptureAssumption DEF Init, CaptureKnows, Loop

(* Emptying the pipe keeps what is known of the capture.                     *)
LEMMA CaptureKeeps ==
    ASSUME TypeOK, CaptureKnows, Capture
    PROVE  /\ errPipe' = 0 /\ wrote' = wrote /\ cell' = cell /\ doomed' = doomed
           /\ kept' = IF MaxCapture <= wrote THEN MaxCapture ELSE wrote
           /\ truncated' <=> wrote > MaxCapture
<1>1. /\ wrote \in Nat /\ errPipe \in Nat /\ kept \in Nat /\ MaxCapture \in Nat
      /\ kept + errPipe \in Nat
  BY CaptureAssumption, PipeAssumption DEF TypeOK
<1>2. kept' = IF MaxCapture <= kept + errPipe THEN MaxCapture ELSE kept + errPipe
  BY <1>1, MinOfTwo DEF Capture
<1>3. kept' = IF MaxCapture <= wrote THEN MaxCapture ELSE wrote
  BY <1>1, <1>2 DEF CaptureKnows
<1>4. (truncated \/ kept + errPipe > MaxCapture) <=> wrote > MaxCapture
  BY <1>1 DEF CaptureKnows
<1>5. truncated' = (truncated \/ kept + errPipe > MaxCapture)
  BY DEF Capture
<1> QED
  BY <1>3, <1>4, <1>5 DEF Capture

LEMMA WorldKeepsCapture ==
    ASSUME IInv, CaptureKnows, TheCell \/ Talker \/ Clock
    PROVE  CaptureKnows'
<1> USE DEF CaptureKnows, cellVars, talkVars, clockVars, keptVars
<1>1. CASE CellPrints
  <2>1. wrote \in Nat /\ errPipe \in Nat /\ cell = "running"
    BY <1>1, CaptureAssumption, PipeAssumption DEF CellPrints, IInv, TypeOK
  <2>2. wrote' - errPipe' = wrote - errPipe /\ errPipe' <= wrote'
    BY <1>1, <2>1 DEF CellPrints
  <2>3. pc \in Loop \/ interrupted \/ killed = "abandoned"
    BY <2>1 DEF IInv, WatchdogKnows
  <2> QED
    BY <1>1, <2>1, <2>2, <2>3 DEF CellPrints, Loop
<1>2. CASE CellEnds \/ CellDies
  BY <1>2 DEF CellEnds, CellDies, Ends
<1>3. CASE CellAnswers
  BY <1>3 DEF CellAnswers
<1>4. CASE GrandchildEnds
  BY <1>4 DEF GrandchildEnds
<1>5. CASE Talker
  BY <1>5 DEF Talker, TalkerBlocks, PipeBreaks, TalkerEnds
<1>6. CASE Clock
  BY <1>6 DEF Clock, DeadlinePasses, GracePasses
<1> QED
  BY <1>1, <1>2, <1>3, <1>4, <1>5, <1>6 DEF TheCell

LEMMA WatchdogKeepsCapture ==
    ASSUME IInv, CaptureKnows, Watchdog \/ Interrupt
    PROVE  CaptureKnows'
<1>0. wrote \in Nat /\ errPipe \in Nat /\ TypeOK
  BY CaptureAssumption, PipeAssumption DEF IInv, TypeOK
<1> USE DEF CaptureKnows, Goto, Loop, cellVars, talkVars, clockVars, keptVars
<1>1. CASE Poll
  BY <1>0, <1>1, CaptureKeeps DEF Poll
<1>2. CASE Wait4
  BY <1>2 DEF Wait4
<1>3. CASE NoteStatus
  BY <1>3 DEF NoteStatus
<1>4. CASE Decide
  BY <1>4 DEF Decide, Sentence
<1>5. CASE Measure
  BY <1>5 DEF Measure, Sentence
<1>6. CASE Kill
  BY <1>6 DEF Kill, Signal
<1>7. CASE Drain
  BY <1>0, <1>7, CaptureKeeps DEF Drain
<1>8. CASE Join
  BY <1>8 DEF Join
<1>9. CASE Close
  BY <1>9 DEF Close
<1>10. CASE LastKill
  BY <1>10 DEF LastKill, Signal
<1>11. CASE LastWait
  BY <1>11 DEF LastWait
<1>12. CASE Report
  BY <1>12 DEF Report
<1>13. CASE Interrupt
  BY <1>13 DEF Interrupt
<1> QED
  BY <1>1, <1>2, <1>3, <1>4, <1>5, <1>6, <1>7, <1>8, <1>9, <1>10, <1>11, <1>12, <1>13
     DEF Watchdog

LEMMA NextCapture == IInv /\ CaptureKnows /\ [Next]_vars => CaptureKnows'
<1> SUFFICES ASSUME IInv, CaptureKnows, [Next]_vars PROVE CaptureKnows'
  OBVIOUS
<1>1. CASE Over \/ UNCHANGED vars
  BY <1>1 DEF Over, vars, cellVars, talkVars, clockVars, keptVars, CaptureKnows
<1> QED
  BY <1>1, WorldKeepsCapture, WatchdogKeepsCapture DEF Next

(* For every cap, pipe and amount of output, the report's capture is all the *)
(* cell wrote, or its first MaxCapture chunks and marked so; only a cell     *)
(* that was given up on may have written more that nobody read.              *)
THEOREM CapturesAreHonest == Spec => []CaptureIsHonest
<1>1. IInv /\ CaptureKnows => CaptureIsHonest
  <2> SUFFICES ASSUME IInv, CaptureKnows, pc = "returned", ~interrupted
               PROVE  /\ kept = Min({MaxCapture, wrote - errPipe})
                      /\ truncated <=> wrote - errPipe > MaxCapture
                      /\ errPipe = 0 \/ killed = "abandoned"
    BY DEF CaptureIsHonest
  <2>1. errPipe = 0 \/ killed = "abandoned"
    BY DEF CaptureKnows, Loop
  <2>2. wrote \in Nat /\ errPipe \in Nat
    BY CaptureAssumption, PipeAssumption DEF IInv, TypeOK
  <2>3. wrote - errPipe \in Nat
    BY <2>2 DEF CaptureKnows
  <2>4. Min({MaxCapture, wrote - errPipe})
            = IF MaxCapture <= wrote - errPipe THEN MaxCapture ELSE wrote - errPipe
    BY <2>3, CaptureAssumption, MinOfTwo
  <2> QED
    BY <2>1, <2>4 DEF CaptureKnows
<1> QED
  BY <1>1, InitCapture, NextCapture, AlwaysKnows, PTL DEF Spec

=============================================================================
