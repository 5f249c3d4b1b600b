----------------------------- MODULE Confinement -----------------------------
(***************************************************************************)
(* `cell.run` around `_execute`: the private directory, the sandbox profile *)
(* and the resource caps a cell is started with (`cell.py`, `sandbox.py`,   *)
(* `limits.py`), over several runs of one host process.  The watchdog that  *)
(* runs inside is Cell's; here a cell burns CPU time until it ends.         *)
(***************************************************************************)
EXTENDS Integers, FiniteSets

CONSTANTS
    Platforms,      \* subset of {"darwin", "other"}
    Resources,      \* what apply_rlimits caps, "CPU" among them
    Cap,            \* the field of Limits for each of them
    Inherited,      \* the limits the host process may itself have
    Privileges,     \* subset of BOOLEAN: may the host raise a hard limit?
    MaxRuns         \* bound: runs of one host process

Pair == [soft : Nat, hard : Nat]

ASSUME PlatformAssumption  == Platforms \subseteq {"darwin", "other"}
ASSUME ResourceAssumption  == "CPU" \in Resources /\ Cap \in [Resources -> Nat \ {0}]
ASSUME InheritedAssumption ==
          /\ Inherited \subseteq [Resources -> Pair]
          /\ \A limits \in Inherited : \A r \in Resources : limits[r].soft =< limits[r].hard
ASSUME WorldAssumption     == Privileges \subseteq BOOLEAN /\ MaxRuns \in Nat

VARIABLES
    platform, inherited, privileged,    \* the world the host was started in
    probed,         \* sandbox.available's cache: "unasked", "yes" or "no"
    pc,             \* where run() stands
    disk,           \* the files it has made: "workdir" and "profile"
    profilePath,    \* has it a profile to unlink?
    wrapped,        \* is sandbox-exec in the command?
    child,          \* "none", "running", or how it ended
    evades,         \* does the strategy ignore SIGXCPU, or lower its own limits?
    barred,         \* has it made its directory one that cannot be removed?
    caps,           \* the limits of the child
    cpu,            \* CPU time it has used
    report,         \* what the last run returned
    astray,         \* history: an exception fell where no finally clause guards
    runs

worldVars == <<platform, inherited, privileged>>
fileVars  == <<disk, profilePath>>
childVars == <<child, evades, barred, caps, cpu>>
vars == <<worldVars, probed, pc, fileVars, wrapped, childVars, report, astray, runs>>

NoReport == [outcome |-> "none", containment |-> {}]

Init ==
    /\ platform \in Platforms /\ inherited \in Inherited /\ privileged \in Privileges
    /\ probed = "unasked"
    /\ pc = "idle"
    /\ disk = {} /\ profilePath = FALSE /\ wrapped = FALSE
    /\ child = "none" /\ evades = FALSE /\ barred = FALSE
    /\ caps = inherited /\ cpu = 0
    /\ report = NoReport /\ astray = FALSE
    /\ runs = 0

Goto(from, to) == pc = from /\ pc' = to

-----------------------------------------------------------------------------
(* sandbox.py.                                                               *)

(* A probe of sandbox-exec: it may fail, or take too long, at any time.      *)
Probes == IF platform = "darwin" THEN {"yes", "no"} ELSE {"no"}

(* Faulty Available: no lru_cache.                                           *)
AvailableNow(answer) == answer \in Probes /\ probed' = answer

Available(answer) ==
    /\ answer \in (IF probed = "unasked" THEN Probes ELSE {probed})
    /\ probed' = answer

Base == {"rlimits", "watchdog"}
Mechanisms(answer) == IF answer = "yes" THEN Base \union {"network", "filesystem"} ELSE Base

-----------------------------------------------------------------------------
(* limits.py.                                                                *)

(* Faulty Requested: no second of headroom.                                  *)
RequestedFlat(r) == [soft |-> Cap[r], hard |-> Cap[r]]
Requested(r) == [soft |-> Cap[r], hard |-> IF r = "CPU" THEN Cap[r] + 1 ELSE Cap[r]]

(* setrlimit, and the refusal that is swallowed: only the privileged raise a *)
(* hard limit.                                                               *)
Accepts(r) == privileged \/ Requested(r).hard =< inherited[r].hard

(* Faulty apply_rlimits: a refusal ends the function.                        *)
apply_rlimits_all ==
    IF \A r \in Resources : Accepts(r) THEN [r \in Resources |-> Requested(r)] ELSE inherited

apply_rlimits ==
    [r \in Resources |-> IF Accepts(r) THEN Requested(r) ELSE inherited[r]]

-----------------------------------------------------------------------------
(* run().  Whatever raises inside its try goes to the finally clause.        *)

Call ==
    /\ Goto("idle", "mkdtemp")
    /\ runs < MaxRuns /\ runs' = runs + 1
    /\ disk' = {} /\ child' = "none" /\ report' = NoReport /\ astray' = FALSE
    /\ evades' = FALSE /\ barred' = FALSE
    /\ UNCHANGED <<worldVars, probed, profilePath, wrapped, caps, cpu>>

Mkdtemp ==
    /\ Goto("mkdtemp", "try")
    /\ disk' = {"workdir"} /\ profilePath' = FALSE
    /\ UNCHANGED <<worldVars, probed, wrapped, childVars, report, astray, runs>>

(* The strategy and the attachments are copied, or one of them cannot be.    *)
CopyFiles ==
    /\ pc = "try" /\ pc' \in {"ask", "unlink"}
    /\ UNCHANGED <<worldVars, probed, fileVars, wrapped, childVars, report, astray, runs>>

AskForProfile ==
    /\ \E answer \in {"yes", "no"} :
          /\ Available(answer)
          /\ Goto("ask", IF answer = "yes" THEN "mkstemp" ELSE "wrap")
    /\ UNCHANGED <<worldVars, fileVars, wrapped, childVars, report, astray, runs>>

Mkstemp ==
    /\ Goto("mkstemp", "name")
    /\ disk' = disk \union {"profile"}
    /\ UNCHANGED <<worldVars, probed, profilePath, wrapped, childVars, report, astray, runs>>

NameProfile ==
    /\ Goto("name", "write")
    /\ profilePath' = TRUE
    /\ UNCHANGED <<worldVars, probed, disk, wrapped, childVars, report, astray, runs>>

WriteProfile ==
    /\ pc = "write" /\ pc' \in {"wrap", "unlink"}
    /\ UNCHANGED <<worldVars, probed, fileVars, wrapped, childVars, report, astray, runs>>

Wrap ==
    /\ Goto("wrap", "popen")
    /\ \/ /\ profilePath
          /\ \E answer \in {"yes", "no"} : Available(answer) /\ wrapped' = (answer = "yes")
       \/ /\ ~profilePath
          /\ wrapped' = FALSE /\ UNCHANGED probed
    /\ UNCHANGED <<worldVars, fileVars, childVars, report, astray, runs>>

(* Between fork and exec the child takes its caps.  What the strategy will   *)
(* do to evade the first of its two CPU limits, or to its own directory (it  *)
(* may deny access to it, or leave a process writing there), is its choice.  *)
Popen ==
    \/ /\ Goto("popen", "start")
       /\ child' = "running" /\ caps' = apply_rlimits /\ cpu' = 0
       /\ evades' \in BOOLEAN /\ barred' \in BOOLEAN
       /\ UNCHANGED <<worldVars, probed, fileVars, wrapped, report, astray, runs>>
    \/ /\ Goto("popen", "unlink")
       /\ UNCHANGED <<worldVars, probed, fileVars, wrapped, childVars, report, astray, runs>>

(* The selector and the talker.  The watchdog's try begins after them: a     *)
(* thread that cannot be started leaves a cell nobody watches.               *)
StartTalker ==
    /\ \/ Goto("start", "execute") /\ UNCHANGED astray
       \/ Goto("start", "unlink") /\ astray' = TRUE
    /\ UNCHANGED <<worldVars, probed, fileVars, wrapped, childVars, report, runs>>

-----------------------------------------------------------------------------
(* The child, and the kernel's account of it: SIGXCPU at the soft limit,     *)
(* SIGKILL at the hard one.                                                  *)

Burn ==
    /\ child = "running"
    /\ cpu < caps["CPU"].hard
    /\ cpu' = cpu + 1
    /\ child' = IF cpu' = caps["CPU"].hard THEN "SIGKILL"
                ELSE IF cpu' >= caps["CPU"].soft /\ ~evades THEN "SIGXCPU"
                ELSE "running"
    /\ UNCHANGED <<worldVars, probed, pc, fileVars, wrapped, evades, barred, caps, report,
                   astray, runs>>

(* On its own, or by a signal: one it sent itself, an abort, a fault, the    *)
(* kernel short of memory.  A sandbox-exec that cannot apply its profile     *)
(* fails without running the strategy.                                       *)
Ends ==
    /\ child = "running"
    /\ child' \in {"completed", "failed", "signal", "SIGXCPU"}
    /\ UNCHANGED <<worldVars, probed, pc, fileVars, wrapped, evades, barred, caps, cpu, report,
                   astray, runs>>

(* Past the deadline, or over its memory: its verdict also stands over a     *)
(* cell that died before it was collected.  Or the kill never lands.         *)
WatchdogKills ==
    /\ pc = "execute" /\ child \notin {"none", "abandoned"}
    /\ child' \in {"timed_out"} \union (IF child = "running" THEN {"abandoned"} ELSE {})
    /\ UNCHANGED <<worldVars, probed, pc, fileVars, wrapped, evades, barred, caps, cpu, report,
                   astray, runs>>

(* _classify and _report.                                                    *)
Outcome ==
    CASE child = "SIGXCPU"                           -> "cpu_exhausted"
      [] child \in {"SIGKILL", "signal", "abandoned"} -> "killed"
      [] OTHER                                       -> child

Report ==
    /\ Goto("execute", "unlink")
    /\ child # "running"
    /\ \E answer \in {"yes", "no"} :
          /\ Available(answer)
          /\ report' = [outcome |-> Outcome, containment |-> Mechanisms(answer)]
    /\ UNCHANGED <<worldVars, fileVars, wrapped, childVars, astray, runs>>

-----------------------------------------------------------------------------
Alive == child \in {"running", "abandoned"}

(* Faulty Unlink: only a run that has a report cleans up after its profile.  *)
UnlinkOnReport ==
    /\ Goto("unlink", "rmtree")
    /\ disk' = IF profilePath /\ report # NoReport THEN disk \ {"profile"} ELSE disk
    /\ UNCHANGED <<worldVars, probed, profilePath, wrapped, childVars, report, astray, runs>>

Unlink ==
    /\ Goto("unlink", "rmtree")
    /\ disk' = IF profilePath THEN disk \ {"profile"} ELSE disk
    /\ UNCHANGED <<worldVars, probed, profilePath, wrapped, childVars, report, astray, runs>>

(* Errors are ignored: a cell that is still alive may write behind it, and   *)
(* one that is dead may have barred the way.                                 *)
Rmtree ==
    /\ Goto("rmtree", "idle")
    /\ disk' \in {disk \ {"workdir"}} \union (IF Alive \/ barred THEN {disk} ELSE {})
    /\ UNCHANGED <<worldVars, probed, profilePath, wrapped, childVars, report, astray, runs>>

(* An exception nobody in run() raises, Ctrl-C.  Inside a try the finally    *)
(* clauses do their work, that of the watchdog included; astray are those    *)
(* before a try, inside a finally, or between mkstemp and its assignment.    *)
Interrupt ==
    /\ \/ /\ pc \notin {"idle", "mkdtemp", "unlink", "rmtree"}
          /\ pc' = "unlink"
          /\ astray' = (astray \/ pc \in {"name", "start"})
          /\ child' \in (IF pc = "execute" /\ child = "running" THEN {"killed", "abandoned"}
                         ELSE {child})
       \/ /\ pc \in {"mkdtemp", "try", "unlink", "rmtree"}
          /\ pc' = "idle"
          /\ astray' = (astray \/ pc # "mkdtemp")
          /\ UNCHANGED child
    /\ UNCHANGED <<worldVars, probed, fileVars, wrapped, evades, barred, caps, cpu, report,
                   runs>>

-----------------------------------------------------------------------------
Prepare == Call \/ Mkdtemp \/ CopyFiles \/ AskForProfile \/ Mkstemp \/ NameProfile
           \/ WriteProfile \/ Wrap
Execute == Popen \/ StartTalker \/ Burn \/ Ends \/ WatchdogKills \/ Report
CleanUp == Unlink \/ Rmtree

Next == Prepare \/ Execute \/ CleanUp \/ Interrupt

Spec == Init /\ [][Next]_vars

-----------------------------------------------------------------------------
TypeOK ==
    /\ platform \in Platforms /\ inherited \in Inherited /\ privileged \in Privileges
    /\ probed \in {"unasked", "yes", "no"}
    /\ pc \in {"idle", "mkdtemp", "try", "ask", "mkstemp", "name", "write", "wrap", "popen",
              "start", "execute", "unlink", "rmtree"}
    /\ disk \subseteq {"workdir", "profile"} /\ profilePath \in BOOLEAN
    /\ wrapped \in BOOLEAN
    /\ child \in {"none", "running", "completed", "failed", "timed_out", "killed",
                 "abandoned", "SIGXCPU", "SIGKILL", "signal"}
    /\ evades \in BOOLEAN /\ barred \in BOOLEAN /\ caps \in [Resources -> Pair] /\ cpu \in Nat
    /\ astray \in BOOLEAN /\ runs \in Nat

(* A report names network and filesystem exactly if the strategy ran behind  *)
(* the profile: sandbox-exec is asked for three times in a run, and fails    *)
(* when it likes (sandbox.py:76, "the containment actually in force").       *)
ContainmentIsHonest ==
    report # NoReport =>
        report.containment = Mechanisms(IF wrapped THEN "yes" ELSE "no")

(* A cell runs under caps no looser than Limits asks for, whichever of them  *)
(* the kernel refused (limits.py:45), and never uses more than the one       *)
(* second of CPU time it is given beyond them.                               *)
CapsHold ==
    child # "none" =>
        /\ \A r \in Resources : caps[r].soft =< Cap[r] /\ caps[r].hard =< Requested(r).hard
        /\ cpu =< Cap["CPU"] + 1

(* A strategy that used up its CPU time is not reported as an anonymous kill *)
(* (limits.py:54): unless it evaded the first of its limits, it outlived its *)
(* kill, or the host was itself started under a limit that leaves no         *)
(* headroom.                                                                 *)
OverrunIsNamed ==
    report.outcome = "killed" /\ cpu >= Cap["CPU"] =>
        \/ child = "abandoned" \/ evades
        \/ ~privileged /\ inherited["CPU"].hard =< Cap["CPU"]

(* When run() has returned or raised, what it made is gone and its cell is   *)
(* dead (cell.py:366): unless the cell outlived SIGKILL and may still be     *)
(* writing, the strategy barred its own directory, which is then all that is *)
(* left, or the exception fell where no finally clause guards.               *)
NothingLeftBehind ==
    pc = "idle" /\ ~astray =>
        /\ child # "running"
        /\ Alive \/ disk = {} \/ (barred /\ disk = {"workdir"})

=============================================================================
