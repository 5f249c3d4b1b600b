--------------------------------- MODULE Cell ---------------------------------
(***************************************************************************)
(* `cell._execute`: the watchdog that runs one cell to its end, the talker  *)
(* thread that holds the conversation meanwhile, and the report they leave. *)
(*                                                                          *)
(* Time is what may have passed: a deadline is a flag that becomes true at  *)
(* any moment after the clock behind it was started.  The conversation is   *)
(* Session's; here it is a thread that is computing, in a pipe, or at its   *)
(* end.                                                                     *)
(***************************************************************************)
EXTENDS Integers, FiniteSetsExt

CONSTANTS
    MaxCapture,     \* _MAX_CAPTURE_BYTES, in chunks
    PipeChunks,     \* what the stderr pipe holds
    MaxWrites,      \* bound: chunks the cell writes to stderr
    Grandchildren,  \* may a descendant of the cell hold its pipes open?
    Interrupts,     \* may an exception unwind the watchdog's loop?
    KillsRefused    \* may the kernel refuse the host's SIGKILL?

ASSUME CaptureAssumption == MaxCapture \in Nat /\ MaxWrites \in Nat
ASSUME PipeAssumption == PipeChunks \in Nat \ {0}
ASSUME WorldAssumption == /\ Grandchildren \subseteq BOOLEAN
                          /\ Interrupts \in BOOLEAN /\ KillsRefused \in BOOLEAN

VARIABLES
    cell,           \* "running", "zombie" until it is reaped, "reaped"
    ending,         \* how it ended, which is what its wait status says
    doomed,         \* SIGKILL is pending
    refused,        \* history: the last SIGKILL sent was refused
    held,           \* a grandchild holds the cell's ends of the pipes
    wrote,          \* history: chunks written to stderr
    errPipe,        \* those nobody has read yet
    talker,         \* "computing", "blocked" in a pipe, "ended"
    failures,       \* has _talk recorded a failure?
    outlasted,      \* history: the talker outlived the join
    pc,             \* where the watchdog stands
    status,         \* the wait status it has collected
    killed,         \* its verdict
    late,           \* wall_seconds have passed
    graceOver,      \* _KILL_GRACE_SECONDS have passed since the verdict
    kept,           \* chunks captured
    truncated,
    interrupted,    \* is an exception unwinding?
    report          \* "none", the outcome reported, or "raised"

cellVars  == <<cell, ending, doomed, refused, held, wrote, errPipe>>
talkVars  == <<talker, failures, outlasted>>
clockVars == <<late, graceOver>>
keptVars  == <<kept, truncated>>
vars == <<cellVars, talkVars, pc, status, killed, clockVars, keptVars, interrupted, report>>

Endings  == {"exit0", "exit1", "SIGXCPU", "SIGKILL", "signal"}
Verdicts == {"timed_out", "memory_exhausted", "abandoned"}
Outcomes == {"completed", "failed", "cpu_exhausted", "memory_exhausted", "timed_out", "killed"}

Loop == {"poll", "wait4", "note", "decide", "measure", "kill"}
Pcs  == Loop \union {"drain", "join", "close", "last_kill", "last_wait", "report", "returned"}

Init ==
    /\ cell = "running" /\ ending = "none" /\ doomed = FALSE /\ refused = FALSE
    /\ held \in Grandchildren
    /\ wrote = 0 /\ errPipe = 0
    /\ talker = "computing" /\ failures = FALSE /\ outlasted = FALSE
    /\ pc = "poll"
    /\ status = "none" /\ killed = "none"
    /\ late = FALSE /\ graceOver = FALSE
    /\ kept = 0 /\ truncated = FALSE
    /\ interrupted = FALSE
    /\ report = "none"

Goto(from, to) == pc = from /\ pc' = to

-----------------------------------------------------------------------------
(* The cell.  A process with SIGKILL pending runs no code of its own, but it *)
(* may already have been exiting.  One whose kill was refused lives on, and  *)
(* prints for as long as the host has its end of the pipe.                   *)

Unwound == pc \in {"last_kill", "last_wait", "report", "returned"}

CellPrints ==
    /\ cell = "running" /\ ~doomed /\ ~Unwound
    /\ wrote < MaxWrites /\ errPipe < PipeChunks
    /\ wrote' = wrote + 1 /\ errPipe' = errPipe + 1
    /\ UNCHANGED <<cell, ending, doomed, refused, held, talkVars, pc, status, killed,
                   clockVars, keptVars, interrupted, report>>

Ends(how) ==
    /\ cell = "running"
    /\ cell' = "zombie" /\ ending' = how
    /\ UNCHANGED <<doomed, refused, held, wrote, errPipe, talkVars, pc, status, killed,
                   clockVars, keptVars, interrupted, report>>

CellEnds == \E how \in Endings \ {"SIGKILL"} : Ends(how)
CellDies == doomed /\ Ends("SIGKILL")

GrandchildEnds ==
    /\ held /\ held' = FALSE
    /\ UNCHANGED <<cell, ending, doomed, refused, wrote, errPipe, talkVars, pc, status, killed,
                   clockVars, keptVars, interrupted, report>>

(* Somebody still has the other ends of the wire.                            *)
WireHeld == cell = "running" \/ held

-----------------------------------------------------------------------------
(* The talker thread.                                                        *)

TalkerBlocks ==
    /\ talker = "computing" /\ WireHeld
    /\ ~Unwound
    /\ talker' = "blocked"
    /\ UNCHANGED <<cellVars, failures, outlasted, pc, status, killed, clockVars, keptVars,
                   interrupted, report>>

(* The cell reads or answers.                                                *)
CellAnswers ==
    /\ talker = "blocked" /\ cell = "running" /\ ~doomed
    /\ talker' = "computing"
    /\ UNCHANGED <<cellVars, failures, outlasted, pc, status, killed, clockVars, keptVars,
                   interrupted, report>>

PipeBreaks ==
    /\ talker = "blocked" /\ ~WireHeld
    /\ talker' = "computing"
    /\ UNCHANGED <<cellVars, failures, outlasted, pc, status, killed, clockVars, keptVars,
                   interrupted, report>>

(* _talk: whatever escapes the dialogue is recorded.                         *)
TalkerEnds ==
    /\ talker = "computing"
    /\ talker' = "ended"
    /\ failures' \in BOOLEAN
    /\ UNCHANGED <<cellVars, outlasted, pc, status, killed, clockVars, keptVars,
                   interrupted, report>>

-----------------------------------------------------------------------------
(* The watchdog's loop.                                                      *)

(* Faulty Capture: no cap.                                                   *)
CaptureAll ==
    /\ errPipe' = 0
    /\ kept' = kept + errPipe
    /\ UNCHANGED <<truncated, cell, ending, doomed, refused, held, wrote>>

(* _Capture.add of everything in the pipe.                                   *)
Capture ==
    /\ errPipe' = 0
    /\ kept' = Min({MaxCapture, kept + errPipe})
    /\ truncated' = (truncated \/ kept + errPipe > MaxCapture)
    /\ UNCHANGED <<cell, ending, doomed, refused, held, wrote>>

(* Faulty Poll: a full capture is not read for any more.                     *)
PollUntilFull ==
    /\ Goto("poll", "wait4")
    /\ IF kept < MaxCapture THEN Capture ELSE UNCHANGED <<cellVars, keptVars>>
    /\ UNCHANGED <<talkVars, status, killed, clockVars, interrupted, report>>

Poll ==
    /\ Goto("poll", "wait4")
    /\ Capture
    /\ UNCHANGED <<talkVars, status, killed, clockVars, interrupted, report>>

Wait4 ==
    /\ Goto("wait4", IF cell = "zombie" THEN "note" ELSE "decide")
    /\ cell' = IF cell = "zombie" THEN "reaped" ELSE cell
    /\ UNCHANGED <<ending, doomed, refused, held, wrote, errPipe, talkVars, status, killed,
                   clockVars, keptVars, interrupted, report>>

(* Faulty NoteStatus: the status is dropped.                                 *)
NoteNothing ==
    /\ Goto("note", "drain")
    /\ UNCHANGED <<cellVars, talkVars, status, killed, clockVars, keptVars, interrupted,
                   report>>

NoteStatus ==
    /\ Goto("note", "drain")
    /\ status' = ending
    /\ UNCHANGED <<cellVars, talkVars, killed, clockVars, keptVars, interrupted, report>>

Sentence(verdict) ==
    /\ killed' = verdict
    /\ graceOver' = FALSE

(* Faulty Decide: the deadline is not looked at.                             *)
DecideTimeless ==
    /\ \/ /\ killed = "none"
          /\ pc = "decide" /\ pc' \in {"poll", "measure"}
       \/ /\ killed # "none"
          /\ Goto("decide", "kill")
    /\ UNCHANGED <<cellVars, talkVars, status, killed, clockVars, keptVars, interrupted,
                   report>>

Decide ==
    /\ \/ /\ killed # "none" /\ graceOver
          /\ Goto("decide", "drain")
          /\ killed' = "abandoned"
          /\ UNCHANGED graceOver
       \/ /\ killed # "none" /\ ~graceOver
          /\ Goto("decide", "kill")
          /\ UNCHANGED <<killed, graceOver>>
       \/ /\ killed = "none" /\ late
          /\ Goto("decide", "kill")
          /\ Sentence("timed_out")
       \/ /\ killed = "none" /\ ~late
          /\ pc = "decide" /\ pc' \in {"poll", "measure"}
          /\ UNCHANGED <<killed, graceOver>>
    /\ UNCHANGED <<cellVars, talkVars, status, late, keptVars, interrupted, report>>

(* ps: only a running cell has a resident size worth a kill.                 *)
Measure ==
    /\ \/ /\ Goto("measure", "kill")
          /\ cell = "running"
          /\ Sentence("memory_exhausted")
       \/ /\ Goto("measure", "poll")
          /\ UNCHANGED <<killed, graceOver>>
    /\ UNCHANGED <<cellVars, talkVars, status, late, keptVars, interrupted, report>>

(* _kill_group.  A refusal is passed over in silence.                        *)
Signal ==
    /\ \/ doomed' = (doomed \/ cell = "running") /\ refused' = FALSE
       \/ KillsRefused /\ refused' = TRUE /\ UNCHANGED doomed
    /\ UNCHANGED <<cell, ending, held, wrote, errPipe>>

Kill ==
    /\ Goto("kill", "poll")
    /\ Signal
    /\ UNCHANGED <<talkVars, status, killed, clockVars, keptVars, interrupted, report>>

(* Faulty Drain: nobody reads once the cell is gone.                         *)
DrainNothing ==
    /\ Goto("drain", "join")
    /\ UNCHANGED <<cellVars, talkVars, status, killed, clockVars, keptVars, interrupted,
                   report>>

Drain ==
    /\ Goto("drain", "join")
    /\ Capture
    /\ UNCHANGED <<talkVars, status, killed, clockVars, interrupted, report>>

-----------------------------------------------------------------------------
(* The finally clause.                                                       *)

Interrupt ==
    /\ Interrupts
    /\ pc \in Loop \union {"drain"}
    /\ pc' = "join"
    /\ interrupted' = TRUE
    /\ UNCHANGED <<cellVars, talkVars, status, killed, clockVars, keptVars, report>>

(* The join ends with the talker, or five seconds later.                     *)
Join ==
    /\ Goto("join", "close")
    /\ outlasted' = (talker # "ended")
    /\ UNCHANGED <<cellVars, talker, failures, status, killed, clockVars, keptVars,
                   interrupted, report>>

(* Faulty Close: a cell not collected is not followed up.                    *)
CloseAndLeave ==
    /\ talker # "blocked"
    /\ Goto("close", "report")
    /\ UNCHANGED <<cellVars, talkVars, status, killed, clockVars, keptVars, interrupted,
                   report>>

(* Faulty Close: a cell already collected is killed for good measure.        *)
CloseAndKill ==
    /\ talker # "blocked"
    /\ Goto("close", "last_kill")
    /\ UNCHANGED <<cellVars, talkVars, status, killed, clockVars, keptVars, interrupted,
                   report>>

(* Closing a buffered stream waits for the thread that is inside it.         *)
Close ==
    /\ talker # "blocked"
    /\ Goto("close", IF status = "none" THEN "last_kill" ELSE "report")
    /\ UNCHANGED <<cellVars, talkVars, status, killed, clockVars, keptVars, interrupted,
                   report>>

LastKill ==
    /\ Goto("last_kill", "last_wait")
    /\ Signal
    /\ UNCHANGED <<talkVars, status, killed, clockVars, keptVars, interrupted, report>>

(* _reap_briefly: collect it, or give up.                                    *)
LastWait ==
    /\ Goto("last_wait", "report")
    /\ \/ /\ cell = "zombie"
          /\ cell' = "reaped" /\ status' = ending
       \/ UNCHANGED <<cell, status>>
    /\ UNCHANGED <<ending, doomed, refused, held, wrote, errPipe, talkVars, killed, clockVars,
                   keptVars, interrupted, report>>

(* _report and _classify.                                                    *)
Verdict == IF killed = "abandoned" THEN "killed" ELSE killed

(* Faulty Outcome: the exit status is looked at first.                       *)
OutcomeByStatus ==
    IF status = "exit0" /\ ~failures THEN "completed"
    ELSE IF killed # "none" THEN Verdict
    ELSE CASE status = "SIGXCPU"                        -> "cpu_exhausted"
           [] status \in {"none", "SIGKILL", "signal"} -> "killed"
           [] status \in {"exit0", "exit1"}            -> "failed"

Outcome ==
    IF killed # "none" THEN Verdict
    ELSE CASE status = "SIGXCPU"                        -> "cpu_exhausted"
           [] status \in {"none", "SIGKILL", "signal"} -> "killed"
           [] status = "exit0" /\ ~failures            -> "completed"
           [] status = "exit1" \/ (status = "exit0" /\ failures) -> "failed"

Report ==
    /\ Goto("report", "returned")
    /\ report' = IF interrupted THEN "raised" ELSE Outcome
    /\ UNCHANGED <<cellVars, talkVars, status, killed, clockVars, keptVars, interrupted>>

-----------------------------------------------------------------------------
DeadlinePasses ==
    /\ ~late /\ late' = TRUE
    /\ UNCHANGED <<cellVars, talkVars, pc, status, killed, graceOver, keptVars, interrupted,
                   report>>

GracePasses ==
    /\ killed # "none" /\ ~graceOver /\ graceOver' = TRUE
    /\ UNCHANGED <<cellVars, talkVars, pc, status, killed, late, keptVars, interrupted,
                   report>>

Talker   == TalkerBlocks \/ PipeBreaks \/ TalkerEnds
Watchdog == \/ Poll \/ Wait4 \/ NoteStatus \/ Decide \/ Measure \/ Kill \/ Drain
            \/ Join \/ Close \/ LastKill \/ LastWait \/ Report
Clock    == DeadlinePasses \/ GracePasses
TheCell  == CellPrints \/ CellEnds \/ CellDies \/ CellAnswers \/ GrandchildEnds

Over ==
    /\ pc = "returned"
    /\ UNCHANGED vars

Next == TheCell \/ Talker \/ Watchdog \/ Interrupt \/ Clock \/ Over

(* The host's threads run.  The cell owes nobody a step, not even its death. *)
(* wall_seconds may be as long as anyone likes, so the deadline need not be  *)
(* reached; the grace is five seconds, and those pass.                       *)
Spec ==
    /\ Init /\ [][Next]_vars
    /\ WF_vars(Watchdog) /\ WF_vars(Talker) /\ WF_vars(GracePasses)

(* A cell that was sent SIGKILL dies.                                        *)
MortalSpec == Spec /\ WF_vars(CellDies)

(* And a stream's lock, released again and again, is obtained at last.       *)
FairLockSpec == MortalSpec /\ SF_vars(Close)

-----------------------------------------------------------------------------
TypeOK ==
    /\ cell \in {"running", "zombie", "reaped"}
    /\ ending \in Endings \union {"none"}
    /\ doomed \in BOOLEAN /\ refused \in BOOLEAN /\ held \in BOOLEAN
    /\ wrote \in 0..MaxWrites /\ errPipe \in 0..PipeChunks
    /\ talker \in {"computing", "blocked", "ended"} /\ failures \in BOOLEAN
    /\ outlasted \in BOOLEAN
    /\ pc \in Pcs
    /\ status \in Endings \union {"none"} /\ killed \in Verdicts \union {"none"}
    /\ late \in BOOLEAN /\ graceOver \in BOOLEAN
    /\ kept \in 0..MaxCapture /\ truncated \in BOOLEAN
    /\ interrupted \in BOOLEAN
    /\ report \in Outcomes \union {"none", "raised"}

(* The watchdog signals its own child only: once a process is reaped its pid *)
(* may be anyone's.  An exception between wait4 and the assignment of its    *)
(* result is the exception.  (cell.py 423-426, 462, 475-480)                 *)
SignalsOnlyItsChild ==
    pc \in {"kill", "last_kill"} => cell # "reaped" \/ interrupted

(* The report tells the truth about the end of the cell and of the           *)
(* conversation: "completed" is only for a cell that exited 0 with nobody    *)
(* having signalled it and a dialogue that had not failed, a limit is only   *)
(* blamed when it was reached, and a kernel signal is not taken for ours.    *)
(* A dialogue that outlived the join may fail after the report.              *)
(* (_classify's order; cell.py 468; exit, verdict and dialogue racing)       *)
ReportIsTrue ==
    /\ report = "completed" => ending = "exit0" /\ ~doomed /\ killed = "none"
    /\ report = "completed" /\ failures => outlasted
    /\ report = "cpu_exhausted" => ending = "SIGXCPU" /\ ~doomed
    /\ report = "timed_out" => late
    /\ report = "killed" => ending \in {"SIGKILL", "signal"} \/ graceOver
    /\ report = "failed" => ending = "exit1" \/ (ending = "exit0" /\ failures)

(* No live cell is left behind, whichever way _execute returns: it is dead,  *)
(* SIGKILL is on its way, or the last attempt to send one was made and was   *)
(* refused.  (cell.py 475-480)                                               *)
NothingLeftAlive == pc = "returned" => cell # "running" \/ doomed \/ refused

(* Why those three are inductive: what the watchdog knows at each of its     *)
(* steps, and of the thread it has joined or given up.  It waits only for a  *)
(* cell it has not collected; it leaves the loop with a status, with a cell  *)
(* it gave up on, or unwinding; and unless it is unwinding it sends no       *)
(* signal without a verdict to report.                                       *)
Joined == pc = "close" \/ Unwound

WatchdogKnows ==
    /\ ending = "none" <=> cell = "running"
    /\ status # "none" => cell = "reaped" /\ status = ending
    /\ pc \in Loop => status = "none" /\ ~interrupted
    /\ pc = "note" => cell = "reaped"
    /\ pc = "kill" => killed # "none"
    /\ cell = "reaped" => status # "none" \/ interrupted \/ pc = "note"
    /\ pc \notin Loop /\ status = "none" => interrupted \/ killed = "abandoned"
    /\ doomed => killed # "none" \/ interrupted
    /\ pc \in {"last_kill", "last_wait"} => status = "none"
    /\ Unwound /\ pc # "last_kill" => cell # "running" \/ doomed \/ refused
    /\ killed = "timed_out" => late
    /\ killed = "abandoned" => graceOver /\ pc \notin Loop
    /\ failures => talker = "ended"
    /\ Joined /\ talker # "ended" => outlasted

(* What the cell printed is captured up to the cap, and a capture that is    *)
(* not whole says so, although the last chunks are read after the cell is    *)
(* gone.  Only a cell that was given up on may have printed more, unread.    *)
(* (_Capture, _drain)                                                        *)
CaptureIsHonest ==
    pc = "returned" /\ ~interrupted =>
        /\ kept = Min({MaxCapture, wrote - errPipe})
        /\ truncated <=> wrote - errPipe > MaxCapture
        /\ errPipe = 0 \/ killed = "abandoned"

(* A cell that prints more than anybody wants to keep still gets on: a full  *)
(* pipe is drained for as long as the cell lives and is not given up on,     *)
(* however far off its deadline is.  (_Capture's docstring)                  *)
FullPipeIsDrained ==
    errPipe = PipeChunks ~>
        \/ errPipe < PipeChunks \/ cell # "running" \/ doomed
        \/ killed = "abandoned" \/ interrupted

(* Once the cell has ended or its deadline has passed, _execute returns.     *)
(* (cell.py 433-435, 476-478)                                                *)
HostReturns == late \/ cell # "running" ~> pc = "returned"

(* It does when nothing unwinds its loop, no kill is refused and no          *)
(* grandchild holds a pipe forever: no cell, silent, printing or asleep, can *)
(* keep the host.                                                            *)
UnhinderedHostReturns == []~interrupted /\ []~refused /\ <>[]~held => HostReturns

=============================================================================
