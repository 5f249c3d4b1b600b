-------------------------- MODULE Confinement_proofs --------------------------
(***************************************************************************)
(* Proofs about Confinement, for every set of caps, every limits the host   *)
(* may have inherited and any number of runs.                               *)
(***************************************************************************)
EXTENDS Confinement, TLAPS

Pcs == {"idle", "mkdtemp", "try", "ask", "mkstemp", "name", "write", "wrap", "popen",
        "start", "execute", "unlink", "rmtree"}

(* What the process knows of its probe, at each step of a run.               *)
Asked ==
    /\ pc \in Pcs
    /\ wrapped \in BOOLEAN /\ profilePath \in BOOLEAN
    /\ probed \in {"unasked", "yes", "no"}
    /\ pc \in {"mkstemp", "name", "write"} => probed = "yes"
    /\ pc \in {"try", "ask", "mkstemp", "name"} => ~profilePath
    /\ pc = "write" => profilePath
    /\ pc = "wrap" => probed # "unasked" /\ (profilePath <=> probed = "yes")
    /\ pc \in {"popen", "start", "execute"} =>
          probed # "unasked" /\ (wrapped <=> probed = "yes")
    /\ pc \notin {"idle", "unlink", "rmtree"} => report = NoReport
    /\ ContainmentIsHonest

(* The child's caps are those apply_rlimits left it with.                    *)
Capped ==
    /\ inherited \in Inherited /\ privileged \in BOOLEAN
    /\ child # "none" => caps = apply_rlimits /\ cpu \in Nat /\ cpu =< caps["CPU"].hard

(* What is on disk, as long as no exception fell outside a try.              *)
Tidy ==
    /\ pc \in Pcs
    /\ disk \subseteq {"workdir", "profile"}
    /\ ~astray =>
          /\ child = "running" => pc \in {"start", "execute"}
          /\ "profile" \in disk =>
                pc = "name" \/ (profilePath /\ pc \in {"write", "wrap", "popen", "start",
                                                      "execute", "unlink"})
          /\ pc = "mkdtemp" => disk = {}
          /\ pc = "rmtree" => "profile" \notin disk
          /\ pc = "idle" /\ ~Alive => disk = {} \/ (barred /\ disk = {"workdir"})

-----------------------------------------------------------------------------
LEMMA AskedInit == Init => Asked
  BY DEF Init, Asked, Pcs, ContainmentIsHonest

LEMMA AskedNext == ASSUME Asked, [Next]_vars PROVE Asked'
  <1> USE DEF Asked, Pcs, ContainmentIsHonest, Goto, worldVars, fileVars, childVars
  <1>1. CASE Call
    BY <1>1 DEF Call
  <1>2. CASE Mkdtemp
    BY <1>2 DEF Mkdtemp
  <1>3. CASE CopyFiles
    BY <1>3 DEF CopyFiles
  <1>4. CASE AskForProfile
    BY <1>4 DEF AskForProfile, Available, Probes
  <1>5. CASE Mkstemp
    BY <1>5 DEF Mkstemp
  <1>6. CASE NameProfile
    BY <1>6 DEF NameProfile
  <1>7. CASE WriteProfile
    BY <1>7 DEF WriteProfile
  <1>8. CASE Wrap
    BY <1>8 DEF Wrap, Available
  <1>9. CASE Popen
    BY <1>9 DEF Popen
  <1>10. CASE StartTalker
    BY <1>10 DEF StartTalker
  <1>11. CASE Burn
    BY <1>11 DEF Burn
  <1>12. CASE Ends
    BY <1>12 DEF Ends
  <1>13. CASE Report
    BY <1>13 DEF Report, Available, Mechanisms
  <1>18. CASE WatchdogKills
    BY <1>18 DEF WatchdogKills
  <1>14. CASE Unlink
    BY <1>14 DEF Unlink
  <1>15. CASE Rmtree
    BY <1>15 DEF Rmtree
  <1>16. CASE Interrupt
    BY <1>16 DEF Interrupt
  <1>17. CASE UNCHANGED vars
    BY <1>17 DEF vars
  <1> QED BY <1>1, <1>2, <1>3, <1>4, <1>5, <1>6, <1>7, <1>8, <1>9, <1>10, <1>11, <1>12,
             <1>13, <1>14, <1>15, <1>16, <1>17, <1>18 DEF Next, Prepare, Execute, CleanUp

(* A report names the mechanisms its strategy ran behind, however often the  *)
(* probe of sandbox-exec would change its answer (sandbox.py:76).            *)
THEOREM ContainmentAlwaysHonest == Spec => []ContainmentIsHonest
  <1>1. Asked => ContainmentIsHonest
    BY DEF Asked
  <1> QED BY <1>1, AskedInit, AskedNext, PTL DEF Spec

-----------------------------------------------------------------------------
(* What apply_rlimits leaves in force: what was asked for, or what was there *)
(* and already tighter.                                                      *)
LEMMA CapsNeverLooser ==
    ASSUME Capped
    PROVE  /\ apply_rlimits \in [Resources -> Pair]
           /\ \A r \in Resources : /\ apply_rlimits[r].soft =< Cap[r]
                                   /\ apply_rlimits[r].hard =< Requested(r).hard
  <1>1. inherited \in [Resources -> Pair]
        /\ \A r \in Resources : inherited[r].soft =< inherited[r].hard
    BY InheritedAssumption DEF Capped
  <1>2. ASSUME NEW r \in Resources
        PROVE  /\ Requested(r) \in Pair /\ inherited[r] \in Pair
               /\ Requested(r).soft =< Cap[r] /\ Requested(r).hard =< Requested(r).hard
               /\ ~Accepts(r) => /\ inherited[r].soft =< Cap[r]
                                 /\ inherited[r].hard =< Requested(r).hard
    <2>1. Cap[r] \in Nat /\ Cap[r] + 1 \in Nat
      BY ResourceAssumption
    <2>2. inherited[r] \in Pair
      BY <1>1
    <2>3. inherited[r].soft \in Nat /\ inherited[r].hard \in Nat
          /\ inherited[r].soft =< inherited[r].hard
      BY <1>1, <2>2 DEF Pair
    <2>4. Requested(r).soft = Cap[r] /\ Requested(r).hard \in {Cap[r], Cap[r] + 1}
          /\ Requested(r) \in Pair
      BY <2>1 DEF Requested, Pair
    <2>5. ~Accepts(r) => inherited[r].hard < Requested(r).hard
      BY <2>1, <2>3, <2>4 DEF Accepts
    <2> QED BY <2>1, <2>2, <2>3, <2>4, <2>5
  <1> QED BY <1>2 DEF apply_rlimits

LEMMA CappedInit == Init => Capped
  BY WorldAssumption DEF Init, Capped

LEMMA CappedNext == ASSUME Capped, [Next]_vars PROVE Capped'
  <1>1. UNCHANGED <<inherited, privileged>>
    BY DEF Next, Prepare, Execute, CleanUp, Call, Mkdtemp, CopyFiles, AskForProfile, Mkstemp,
           NameProfile, WriteProfile, Wrap, Popen, StartTalker, Burn, Ends, WatchdogKills,
           Report, Unlink, Rmtree, Interrupt, vars, worldVars
  <1>2. apply_rlimits' = apply_rlimits
    BY <1>1 DEF apply_rlimits, Accepts
  <1>3. CASE Call
    BY <1>1, <1>3 DEF Call, Capped
  <1>4. CASE Popen
    <2>1. apply_rlimits["CPU"].hard \in Nat
      BY CapsNeverLooser, ResourceAssumption DEF Pair
    <2>2. 0 =< apply_rlimits["CPU"].hard
      BY <2>1
    <2> QED BY <1>1, <1>2, <1>4, <2>2 DEF Popen, Capped, childVars
  <1>5. CASE Burn
    <2>1. caps = apply_rlimits /\ cpu \in Nat /\ cpu < caps["CPU"].hard
      BY <1>5 DEF Burn, Capped
    <2>2. caps["CPU"].hard \in Nat
      BY <2>1, CapsNeverLooser, ResourceAssumption DEF Pair
    <2>3. cpu' \in Nat /\ cpu' =< caps["CPU"].hard
      BY <1>5, <2>1, <2>2 DEF Burn
    <2> QED BY <1>1, <1>2, <1>5, <2>1, <2>3 DEF Burn, Capped
  <1>6. CASE Ends \/ WatchdogKills
    <2>1. UNCHANGED <<caps, cpu>>
      BY <1>6 DEF Ends, WatchdogKills
    <2>2. child # "none"
      BY <1>6 DEF Ends, WatchdogKills
    <2> QED BY <1>1, <1>2, <2>1, <2>2 DEF Capped
  <1>7. CASE Interrupt
    <2>1. UNCHANGED <<caps, cpu>> /\ (child = "none" => child' = "none")
      BY <1>7 DEF Interrupt
    <2> QED BY <1>1, <1>2, <2>1 DEF Capped
  <1>8. CASE UNCHANGED childVars
    BY <1>1, <1>2, <1>8 DEF Capped, childVars
  <1>9. Call \/ Popen \/ Burn \/ Ends \/ WatchdogKills \/ Interrupt \/ UNCHANGED childVars
    BY DEF Next, Prepare, Execute, CleanUp, Mkdtemp, CopyFiles, AskForProfile, Mkstemp,
           NameProfile, WriteProfile, Wrap, StartTalker, Report, Unlink, Rmtree, vars
  <1> QED BY <1>3, <1>4, <1>5, <1>6, <1>7, <1>8, <1>9

(* Whatever limits the host was started under and whichever setrlimit calls  *)
(* the kernel refused, a cell's caps are no looser than Limits asks for, and *)
(* so is the CPU time it uses (limits.py:45).                                *)
THEOREM CapsAlwaysHold == Spec => []CapsHold
  <1>1. Capped => CapsHold
    <2> SUFFICES ASSUME Capped, child # "none" PROVE CapsHold
      BY DEF CapsHold
    <2>1. caps = apply_rlimits /\ cpu \in Nat /\ cpu =< caps["CPU"].hard
      BY DEF Capped
    <2>2. \A r \in Resources : caps[r].soft =< Cap[r] /\ caps[r].hard =< Requested(r).hard
      BY <2>1, CapsNeverLooser
    <2>3. Requested("CPU").hard = Cap["CPU"] + 1 /\ Cap["CPU"] \in Nat
      BY ResourceAssumption DEF Requested
    <2>4. caps["CPU"].hard \in Nat
      BY <2>1, CapsNeverLooser, ResourceAssumption DEF Pair
    <2>5. caps["CPU"].hard =< Cap["CPU"] + 1
      BY <2>2, <2>3, ResourceAssumption
    <2>6. cpu =< Cap["CPU"] + 1
      BY <2>1, <2>3, <2>4, <2>5
    <2> QED BY <2>2, <2>6 DEF CapsHold
  <1> QED BY <1>1, CappedInit, CappedNext, PTL DEF Spec

-----------------------------------------------------------------------------
LEMMA TidyInit == Init => Tidy
  BY DEF Init, Tidy, Pcs

LEMMA TidyNext == ASSUME Tidy, Asked, [Next]_vars PROVE Tidy'
  <1> USE DEF Tidy, Pcs, Goto, Alive, worldVars, fileVars, childVars
  <1>1. CASE Call
    BY <1>1 DEF Call
  <1>2. CASE Mkdtemp
    BY <1>2 DEF Mkdtemp
  <1>3. CASE CopyFiles
    BY <1>3 DEF CopyFiles
  <1>4. CASE AskForProfile
    BY <1>4 DEF AskForProfile
  <1>5. CASE Mkstemp
    BY <1>5 DEF Mkstemp
  <1>6. CASE NameProfile
    BY <1>6 DEF NameProfile
  <1>7. CASE WriteProfile
    BY <1>7 DEF WriteProfile
  <1>8. CASE Wrap
    BY <1>8 DEF Wrap
  <1>9. CASE Popen
    BY <1>9 DEF Popen
  <1>10. CASE StartTalker
    BY <1>10 DEF StartTalker
  <1>11. CASE Burn
    BY <1>11 DEF Burn
  <1>12. CASE Ends
    BY <1>12 DEF Ends
  <1>13. CASE Report
    BY <1>13 DEF Report
  <1>18. CASE WatchdogKills
    BY <1>18 DEF WatchdogKills
  <1>14. CASE Unlink
    BY <1>14 DEF Unlink
  <1>15. CASE Rmtree
    BY <1>15 DEF Rmtree
  <1>16. CASE Interrupt
    <2>1. CASE pc \notin {"idle", "mkdtemp", "unlink", "rmtree"} /\ pc' = "unlink"
      BY <1>16, <2>1 DEF Interrupt
    <2>2. CASE pc \in {"mkdtemp", "try", "unlink", "rmtree"} /\ pc' = "idle"
      BY <1>16, <2>2 DEF Interrupt
    <2> QED BY <1>16, <2>1, <2>2 DEF Interrupt
  <1>17. CASE UNCHANGED vars
    BY <1>17 DEF vars
  <1> QED BY <1>1, <1>2, <1>3, <1>4, <1>5, <1>6, <1>7, <1>8, <1>9, <1>10, <1>11, <1>12,
             <1>13, <1>14, <1>15, <1>16, <1>17, <1>18 DEF Next, Prepare, Execute, CleanUp

(* A run that returned or raised has left neither file nor cell, unless the  *)
(* cell outlived SIGKILL, the strategy barred its own directory, or an       *)
(* exception fell outside the try (cell.py:366).                             *)
THEOREM LeavesNothingBehind == Spec => []NothingLeftBehind
  <1>1. Tidy => NothingLeftBehind
    BY DEF Tidy, NothingLeftBehind
  <1> QED BY <1>1, AskedInit, AskedNext, TidyInit, TidyNext, PTL DEF Spec

-----------------------------------------------------------------------------
(* How a cell that overran its CPU time ended, and what is said of it.       *)
Overrun == evades \/ (~privileged /\ inherited["CPU"].hard =< Cap["CPU"])

Named ==
    /\ child = "running" /\ ~evades => cpu = 0 \/ cpu < caps["CPU"].soft
    /\ child = "signal" /\ ~evades => cpu < Cap["CPU"]
    /\ child = "SIGKILL" => Overrun
    /\ child = "killed" => pc \in {"idle", "unlink", "rmtree"}
    /\ report # NoReport => child # "running"
    /\ report.outcome = "killed" /\ cpu >= Cap["CPU"] => child = "abandoned" \/ Overrun

LEMMA NamedInit == Init => Named
  BY DEF Init, Named, NoReport

LEMMA NamedNext == ASSUME Capped, Asked, Named, [Next]_vars PROVE Named'
  <1>1. UNCHANGED <<inherited, privileged>>
    BY DEF Next, Prepare, Execute, CleanUp, Call, Mkdtemp, CopyFiles, AskForProfile, Mkstemp,
           NameProfile, WriteProfile, Wrap, Popen, StartTalker, Burn, Ends, WatchdogKills,
           Report, Unlink, Rmtree, Interrupt, vars, worldVars
  <1>2. CASE Call
    BY <1>2 DEF Call, Named, NoReport, Overrun
  <1>3. CASE Popen
    <2>1. pc = "popen" /\ report = NoReport /\ UNCHANGED report
      BY <1>3 DEF Popen, Goto, Asked
    <2>2. CASE child' = "running" /\ cpu' = 0
      BY <1>3, <2>1, <2>2 DEF Named, NoReport
    <2>3. CASE UNCHANGED childVars
      <3>1. child # "killed" /\ report.outcome = "none"
        BY <2>1 DEF Named, NoReport
      <3> QED BY <1>1, <2>1, <2>3, <3>1 DEF Named, Overrun, childVars
    <2> QED BY <1>3, <2>2, <2>3 DEF Popen
  <1>4. CASE Burn
    <2>1. /\ child = "running" /\ report = NoReport
          /\ cpu' = cpu + 1 /\ UNCHANGED <<report, caps, evades, pc>>
          /\ child' = IF cpu' = caps["CPU"].hard THEN "SIGKILL"
                      ELSE IF cpu' >= caps["CPU"].soft /\ ~evades THEN "SIGXCPU"
                      ELSE "running"
      BY <1>4 DEF Burn, Named
    <2>2. caps = apply_rlimits /\ cpu \in Nat
      BY <2>1 DEF Capped
    <2>3. /\ caps["CPU"].soft \in Nat /\ caps["CPU"].hard \in Nat
          /\ inherited["CPU"].hard \in Nat /\ Cap["CPU"] \in Nat \ {0}
      BY <2>2, CapsNeverLooser, ResourceAssumption, InheritedAssumption DEF Pair, Capped
    <2>4. Overrun' = Overrun
      BY <1>1, <2>1 DEF Overrun
    <2>5. ASSUME cpu' = caps["CPU"].hard, ~evades, Accepts("CPU") PROVE FALSE
      <3>1. caps["CPU"].soft = Cap["CPU"] /\ caps["CPU"].hard = Cap["CPU"] + 1
        BY <2>2, <2>5, ResourceAssumption DEF apply_rlimits, Requested
      <3>2. cpu = Cap["CPU"]
        BY <2>1, <2>2, <2>3, <2>5, <3>1
      <3>3. cpu = 0 \/ cpu < caps["CPU"].soft
        BY <2>1, <2>5 DEF Named
      <3> QED BY <2>2, <2>3, <3>1, <3>2, <3>3
    <2>6. ~Accepts("CPU") => ~privileged /\ inherited["CPU"].hard =< Cap["CPU"]
      <3>1. Requested("CPU").hard = Cap["CPU"] + 1
        BY DEF Requested
      <3> QED BY <2>3, <3>1 DEF Accepts
    <2>7. child' = "SIGKILL" => Overrun'
      BY <2>1, <2>4, <2>5, <2>6 DEF Overrun
    <2>8. child' = "running" /\ ~evades => cpu' < caps["CPU"].soft
      BY <2>1, <2>2, <2>3
    <2>9. child' # "killed" /\ report' = NoReport /\ report'.outcome # "killed"
      BY <2>1 DEF NoReport
    <2> QED BY <2>1, <2>7, <2>8, <2>9 DEF Named
  <1>5. CASE Ends
    <2>1. /\ child = "running" /\ report = NoReport /\ report.outcome = "none"
          /\ child' \in {"completed", "failed", "signal", "SIGXCPU"}
          /\ UNCHANGED <<report, evades, caps, cpu, pc>>
      BY <1>5 DEF Ends, Named, NoReport
    <2>2. /\ caps["CPU"].soft \in Nat /\ Cap["CPU"] \in Nat \ {0} /\ cpu \in Nat
          /\ caps["CPU"].soft =< Cap["CPU"]
      BY <2>1, CapsNeverLooser, ResourceAssumption DEF Pair, Capped
    <2>3. ~evades => cpu = 0 \/ cpu < caps["CPU"].soft
      BY <2>1 DEF Named
    <2>4. ~evades => cpu < Cap["CPU"]
      BY <2>2, <2>3
    <2> QED BY <2>1, <2>4 DEF Named, NoReport
  <1>10. CASE WatchdogKills
    <2>1. /\ pc = "execute" /\ report = NoReport /\ report.outcome = "none"
          /\ child' \in {"timed_out", "abandoned"}
          /\ UNCHANGED <<report, evades, caps, cpu, pc>>
      BY <1>10 DEF WatchdogKills, Asked, NoReport
    <2> QED BY <2>1 DEF Named, NoReport
  <1>6. CASE Report
    <2>1. /\ child # "running" /\ child # "killed" /\ UNCHANGED childVars
          /\ report'.outcome = Outcome
      BY <1>6 DEF Report, Named, Goto
    <2>2. Overrun' = Overrun
      BY <1>1, <2>1 DEF Overrun, childVars
    <2>3. child = "signal" => cpu \in Nat /\ Cap["CPU"] \in Nat
      <3>1. child = "signal" => caps = apply_rlimits /\ cpu \in Nat
        BY DEF Capped
      <3> QED BY <3>1, ResourceAssumption
    <2>4. child = "signal" => evades \/ ~(cpu >= Cap["CPU"])
      BY <2>3 DEF Named
    <2>5. Outcome = "killed" => child \in {"SIGKILL", "signal", "abandoned"}
      BY <2>1 DEF Outcome
    <2>6. child = "SIGKILL" => Overrun
      BY DEF Named
    <2>7. evades => Overrun
      BY DEF Overrun
    <2>8. report'.outcome = "killed" /\ cpu >= Cap["CPU"] => child = "abandoned" \/ Overrun
      BY <2>1, <2>4, <2>5, <2>6, <2>7
    <2> QED BY <2>1, <2>2, <2>8 DEF Named, childVars
  <1>7. CASE Interrupt
    <2>1. UNCHANGED <<report, evades, caps, cpu>> /\ Overrun' = Overrun
      BY <1>1, <1>7 DEF Interrupt, Overrun
    <2>2. CASE UNCHANGED child
      BY <1>7, <2>1, <2>2 DEF Interrupt, Named
    <2>3. CASE pc = "execute" /\ child = "running" /\ child' \in {"killed", "abandoned"}
      <3>1. report = NoReport /\ report.outcome = "none"
        BY <2>3 DEF Asked, NoReport
      <3>2. pc' = "unlink"
        BY <1>7, <2>3 DEF Interrupt
      <3> QED BY <2>1, <2>3, <3>1, <3>2 DEF Named
    <2> QED BY <1>7, <2>2, <2>3 DEF Interrupt
  <1>8. CASE UNCHANGED <<childVars, report>>
    <2>1. Overrun' = Overrun
      BY <1>1, <1>8 DEF Overrun, childVars
    <2>2. child = "killed" => pc' \in {"idle", "unlink", "rmtree"}
      <3> HAVE child = "killed"
      <3>1. pc \in {"idle", "unlink", "rmtree"}
        BY DEF Named
      <3> QED BY <1>8, <3>1
              DEF Next, Prepare, Execute, CleanUp, Call, Mkdtemp, CopyFiles, AskForProfile,
                  Mkstemp, NameProfile, WriteProfile, Wrap, Popen, StartTalker, Burn, Ends,
                  WatchdogKills, Report, Unlink, Rmtree, Interrupt, vars, childVars, Goto
    <2> QED BY <1>8, <2>1, <2>2 DEF Named, childVars
  <1>9. \/ Call \/ Popen \/ Burn \/ Ends \/ WatchdogKills \/ Report \/ Interrupt
        \/ UNCHANGED <<childVars, report>>
    BY DEF Next, Prepare, Execute, CleanUp, Mkdtemp, CopyFiles, AskForProfile, Mkstemp,
           NameProfile, WriteProfile, Wrap, StartTalker, Unlink, Rmtree, vars
  <1> QED BY <1>2, <1>3, <1>4, <1>5, <1>6, <1>7, <1>8, <1>9, <1>10

(* A cell that used up its CPU time is not reported as an anonymous kill,    *)
(* unless its strategy evaded the first limit, its kill never landed, or the *)
(* host's own limit left no headroom (limits.py:54).                         *)
THEOREM OverrunsAreNamed == Spec => []OverrunIsNamed
  <1>1. Named => OverrunIsNamed
    BY DEF Named, OverrunIsNamed, Overrun
  <1> QED BY <1>1, AskedInit, AskedNext, CappedInit, CappedNext, NamedInit, NamedNext, PTL
          DEF Spec

=============================================================================
