--------------------------------- MODULE Sbx ---------------------------------
(***************************************************************************)
(* The verbs of the command line (`commands.py`, `runner.execute`,          *)
(* `verify.verify`) over one store and one ledger, run by any number of     *)
(* processes at once.  An append to the ledger is atomic here: Ledger shows *)
(* that it is.  An execution is the function of code and data that Session  *)
(* shows it to be, unless the host stops it.                                *)
(***************************************************************************)
EXTENDS Store, FiniteSets, FiniteSetsExt

CONSTANTS
    MaxEntries,     \* bound: ledger entries
    MaxMishaps,     \* bound: crashes, stopped cells, datasets tampered with or
                    \* deleted, and sources edited while sbx is reading them
    NoResult        \* None

ASSUME NoResultAssumption == NoResult \notin {"TAMPERED", "DIVERGED", "REPRODUCED"}

VARIABLES
    ledger,         \* the committed entries
    sealed,         \* history: digests of the journals a seal has reported to
                    \* its user, each under its own name
    touched,        \* history: digests whose dataset was changed or deleted
    mishaps,        \* mishaps so far
    orphaned        \* history: datasets whose creator crashed, or found them
                    \* gone or renamed, before it had recorded them

history == <<sealed, touched, mishaps, orphaned>>
vars == <<storeVars, pc, job, ledger, history>>

NoJob == [verifying |-> FALSE, bytes |-> NoResult, data |-> NoResult,
          sha256 |-> NoResult,          \* what the manifest of data says
          code |-> NoResult, kept |-> NoResult, result |-> NoResult,
          run_id |-> 0, recorded |-> NoResult, verdict |-> NoResult,
          shifted |-> FALSE,            \* history: changed since verify's check
          seen |-> <<>>, owed |-> {},   \* ls: hash -> digest; history: sealed before
          missing |-> {}, altered |-> {}]

Init ==
    /\ StoreInit
    /\ pc = [p \in Procs |-> "idle"]
    /\ job = [p \in Procs |-> NoJob]
    /\ ledger = <<>>
    /\ sealed = {}
    /\ touched = {}
    /\ mishaps = 0
    /\ orphaned = {}

(* The places of the runs in the ledger, and the datasets recorded in it.    *)
RunLines   == {k \in DOMAIN ledger : ledger[k].kind = "run"}
Registered == {ledger[k].sha256 : k \in DOMAIN ledger \ RunLines}

Quietly == UNCHANGED <<ledger, history>>
Finish(p) == pc' = [pc EXCEPT ![p] = "idle"] /\ job' = [job EXCEPT ![p] = NoJob]

Mishap == mishaps < MaxMishaps /\ mishaps' = mishaps + 1

(* It has created a dataset and not recorded it yet.                         *)
Recording(p) == pc[p] \in {"seal_load", "register"}

Unrecorded == {job[p].data : p \in {q \in Procs : Recording(q)}}

(* Bound: a verb with something to record waits for room, before it executes *)
(* or has loaded what it is to record.                                       *)
HasRoom == Len(ledger) < MaxEntries

-----------------------------------------------------------------------------
(* sbx seal                                                                  *)

SealStep(p) ==
    /\ \/ (SealMeasure(p) \/ SealHash(p) \/ SealPublish(p)) /\ UNCHANGED orphaned
       \/ /\ HasRoom
          /\ SealLoad(p)
          /\ orphaned' = IF \/ job[p].data \notin DOMAIN datasets
                            \/ datasets[job[p].data].sha256 # job[p].data
                         THEN orphaned \union {job[p].data} ELSE orphaned
    /\ UNCHANGED <<ledger, sealed, touched, mishaps>>

(* ledger.append of a dataset this call created.                             *)
Register(p) ==
    /\ pc[p] = "register"
    /\ HasRoom
    /\ ledger' = Append(ledger, [kind |-> "dataset", sha256 |-> job[p].sha256])
    /\ sealed' = sealed \union ({job[p].data} \intersect {job[p].sha256})
    /\ Finish(p)
    /\ UNCHANGED <<storeVars, touched, mishaps, orphaned>>

(* Somebody else created it: nothing to record.                              *)
SealAgain(p) ==
    /\ pc[p] = "seal_again"
    /\ sealed' = IF /\ job[p].data \in DOMAIN datasets
                    /\ datasets[job[p].data].sha256 = job[p].data
                 THEN sealed \union {job[p].data} ELSE sealed
    /\ Finish(p)
    /\ UNCHANGED <<storeVars, ledger, touched, mishaps, orphaned>>

-----------------------------------------------------------------------------
(* sbx run                                                                   *)

(* resolve: by the hash in the manifest, which must be nobody else's.        *)
RunResolve(p) ==
    /\ Step(p, "idle", "keep_hash")
    /\ \E digest \in DOMAIN datasets :
        LET sha256 == datasets[digest].sha256 IN
            /\ \A other \in DOMAIN datasets : datasets[other].sha256 = sha256 => other = digest
            /\ job' = [job EXCEPT ![p] = [job[p] EXCEPT !.data = digest, !.sha256 = sha256]]
    /\ UNCHANGED storeVars /\ Quietly

KeepStep(p) ==
    /\ KeepHash(p) \/ KeepCopy(p)
    /\ Quietly

(* cell.run: the kept code is copied into the cell, the data streamed to it. *)
(* The result names what was asked for, by the hash in the manifest, and is  *)
(* what was really there.  There is none if the host stops the cell, or      *)
(* fails for want of the dataset.                                            *)
Execute(p) ==
    /\ Step(p, "execute", IF job[p].verifying THEN "compare" ELSE "mint")
    /\ job[p].verifying \/ HasRoom
    /\ \/ /\ job[p].data \in DOMAIN datasets
          /\ Let(p, "result", <<job[p].kept, job[p].sha256,
                                code[job[p].kept], datasets[job[p].data].data>>)
          /\ UNCHANGED mishaps
       \/ /\ IF job[p].data \in DOMAIN datasets THEN Mishap ELSE UNCHANGED mishaps
          /\ Let(p, "result", NoResult)
    /\ UNCHANGED <<storeVars, ledger, sealed, touched, orphaned>>

(* next_run_id(): a query, made before the append and outside its lock.      *)
Mint(p) ==
    /\ Step(p, "mint", "record")
    /\ Let(p, "run_id", Cardinality(RunLines) + 1)
    /\ UNCHANGED storeVars /\ Quietly

Record(p) ==
    /\ pc[p] = "record"
    /\ HasRoom
    /\ ledger' = Append(ledger,
                    [kind |-> "run", run_id |-> job[p].run_id, data |-> job[p].sha256,
                     code |-> job[p].kept, result |-> job[p].result])
    /\ Finish(p)
    /\ UNCHANGED <<storeVars, history>>

-----------------------------------------------------------------------------
(* sbx verify                                                                *)

(* find_run: the first record with that id.                                  *)
FirstWithId(id) == ledger[Min({k \in RunLines : ledger[k].run_id = id})]

(* A run with no result is refused, and so is a dataset that is gone.        *)
VerifyFind(p) ==
    /\ Step(p, "idle", "verify_data")
    /\ \E id \in {ledger[k].run_id : k \in RunLines} :
        LET run == FirstWithId(id) IN
            /\ run.result # NoResult
            /\ run.data \in DOMAIN datasets
            /\ job' = [job EXCEPT ![p] = [NoJob EXCEPT
                            !.verifying = TRUE, !.run_id = id, !.data = run.data,
                            !.sha256 = datasets[run.data].sha256,
                            !.code = run.code, !.recorded = run.result]]
    /\ UNCHANGED storeVars /\ Quietly

VerifyData(p) ==
    /\ pc[p] = "verify_data"
    /\ IF Intact(job[p].data, job[p].sha256)
       THEN Step(p, "verify_data", "keep_hash") /\ UNCHANGED job
       ELSE Step(p, "verify_data", "told") /\ Let(p, "verdict", "TAMPERED")
    /\ UNCHANGED storeVars /\ Quietly

(* str(None) is no result_hash either.                                       *)
Compare(p) ==
    /\ Step(p, "compare", "told")
    /\ Let(p, "verdict",
           IF job[p].result = job[p].recorded THEN "REPRODUCED" ELSE "DIVERGED")
    /\ UNCHANGED storeVars /\ Quietly

Told(p) ==
    /\ pc[p] = "told"
    /\ Finish(p)
    /\ UNCHANGED storeVars /\ Quietly

-----------------------------------------------------------------------------
(* sbx ls                                                                    *)

(* The sets of datasets on_disk may be: under each hash that a manifest      *)
(* gives, one that gives it, the last by name.                               *)
OnDisk ==
    LET hashes == {datasets[d].sha256 : d \in DOMAIN datasets}
    IN  {f \in [hashes -> DOMAIN datasets] : \A h \in hashes : datasets[f[h]].sha256 = h}

(* store.all_datasets: one that goes between being found in the directory    *)
(* and being loaded ends the listing there, which changes nothing.           *)
LsDisk(p) ==
    /\ Step(p, "idle", "ls_print")
    /\ \E on_disk \in OnDisk :
          job' = [job EXCEPT ![p] = [NoJob EXCEPT !.seen = on_disk,
                                                 !.owed = sealed \ (orphaned \union Unrecorded)]]
    /\ UNCHANGED storeVars /\ Quietly

Altered(p) == {h \in DOMAIN job[p].seen : ~Intact(job[p].seen[h], h)}

(* Faulty LsPrint: only what is on disk is shown.                            *)
LsPrintDiskOnly(p) ==
    /\ Step(p, "ls_print", "told")
    /\ job' = [job EXCEPT ![p].altered = Altered(p)]
    /\ UNCHANGED storeVars /\ Quietly

(* The datasets of the ledger that were not on disk are MISSING, those on    *)
(* disk are hashed again.                                                    *)
LsPrint(p) ==
    /\ Step(p, "ls_print", "told")
    /\ job' = [job EXCEPT ![p].missing = Registered \ DOMAIN job[p].seen,
                          ![p].altered = Altered(p)]
    /\ UNCHANGED storeVars /\ Quietly

-----------------------------------------------------------------------------
(* The rest of the world.                                                    *)

Crash(p) ==
    /\ pc[p] # "idle"
    /\ Mishap
    /\ orphaned' = IF Recording(p) THEN orphaned \union {job[p].data} ELSE orphaned
    /\ Finish(p)
    /\ UNCHANGED <<storeVars, ledger, sealed, touched>>

EditJournal ==
    /\ IF \E p \in Procs : pc[p] \in {"seal_hash", "seal_publish"}
       THEN Mishap ELSE UNCHANGED mishaps
    /\ journalFile' \in Journals \ {journalFile}
    /\ UNCHANGED <<strategyFile, datasets, code, raced, pc, job,
                   ledger, sealed, touched, orphaned>>

EditStrategy ==
    /\ IF \E p \in Procs : pc[p] = "keep_copy" THEN Mishap ELSE UNCHANGED mishaps
    /\ strategyFile' \in Strategies \ {strategyFile}
    /\ UNCHANGED <<journalFile, datasets, code, raced, pc, job,
                   ledger, sealed, touched, orphaned>>

Touch(digest) ==
    /\ Mishap
    /\ touched' = touched \union {digest}
    /\ UNCHANGED <<journalFile, strategyFile, code, raced, pc, ledger, sealed, orphaned>>

Delete ==
    \E digest \in DOMAIN datasets :
        /\ datasets' = [d \in DOMAIN datasets \ {digest} |-> datasets[d]]
        /\ Touch(digest)
        /\ UNCHANGED job

(* Between a verify's check of the dataset and the replay on it.             *)
Replaying(p) == job[p].verifying /\ pc[p] \in {"keep_hash", "keep_copy", "execute"}

Tamper ==
    \E digest \in DOMAIN datasets, data \in Journals :
        /\ data # datasets[digest].data
        /\ datasets' = [datasets EXCEPT ![digest].data = data]
        /\ job' = [p \in Procs |->
                     IF Replaying(p) /\ job[p].data = digest
                     THEN [job[p] EXCEPT !.shifted = TRUE] ELSE job[p]]
        /\ Touch(digest)

(* The hash in the manifest; an edit of both files is two steps.             *)
TamperManifest ==
    \E digest \in DOMAIN datasets, sha256 \in Journals :
        /\ sha256 # datasets[digest].sha256
        /\ datasets' = [datasets EXCEPT ![digest].sha256 = sha256]
        /\ Touch(digest)
        /\ UNCHANGED job

Verb(p) ==
    \/ SealStep(p) \/ Register(p) \/ SealAgain(p)
    \/ RunResolve(p) \/ KeepStep(p) \/ Execute(p) \/ Mint(p) \/ Record(p)
    \/ VerifyFind(p) \/ VerifyData(p) \/ Compare(p) \/ Told(p)
    \/ LsDisk(p) \/ LsPrint(p)

Next ==
    \/ \E p \in Procs : Verb(p) \/ Crash(p)
    \/ EditJournal \/ EditStrategy \/ Delete \/ Tamper \/ TamperManifest

Spec == Init /\ [][Next]_vars

-----------------------------------------------------------------------------
(* The directory name is the hash of the contents, and the manifest's size   *)
(* and hash theirs, of every dataset nobody touched and every strategy,      *)
(* whoever crashed in mid-copy, unless the source was edited between being   *)
(* hashed and being copied: seal and keep_code read it twice.  (store.py 3-5)*)
KeptUnderTheirHashes ==
    /\ \A digest \in DOMAIN datasets \ touched :
          /\ datasets[digest].sha256 = digest
          /\ digest \notin raced => datasets[digest] = Manifested(digest, digest, digest)
    /\ \A digest \in DOMAIN code \ raced : code[digest] = digest

(* What a user was told is sealed never stops being listed: it is in the     *)
(* ledger, where `ls` finds it MISSING whatever becomes of the disk, or its  *)
(* creator is about to record it.  The one way out is that the creator       *)
(* crashes, or finds it gone or its manifest rewritten, between the rename   *)
(* and the append; no race between sealers is one.  (commands.py 57, 82-87)  *)
RegisteredUnlessOrphaned ==
    sealed \subseteq Registered \union Unrecorded \union orphaned

(* `ls` against everything that happens while it reads: it shows all that    *)
(* was sealed and recorded before it began, and calls MISSING or TAMPERED    *)
(* nothing of that which was left alone.  (One sealed meanwhile may be called*)
(* MISSING while it is there: the disk is read first.  A manifest rewritten  *)
(* to another's hash may be shown in its place.)  (commands.ls)              *)
ListingIsTrue ==
    \A p \in Procs : pc[p] = "told" =>
        /\ job[p].owed \subseteq DOMAIN job[p].seen \union job[p].missing
        /\ job[p].missing \intersect job[p].owed \subseteq touched
        /\ \A h \in job[p].altered : job[p].seen[h] \in touched \union raced

(* A run is never called diverged, nor its dataset tampered with, without a  *)
(* cause outside the strategy: the dataset was changed before the check, or  *)
(* before the recorded run, or between the check and the replay; a source    *)
(* was edited while it was being kept; or the host stopped the replay, which *)
(* has no result to compare.  Edits, re-sealing, other runs and crashes in   *)
(* between are no causes.  A dataset changed together with its manifest      *)
(* passes the check and is called diverged: the check asks the manifest, not *)
(* the record.  (verify.verify, verify.py 14-16, store.py 64, runner.py 272) *)
BlameHasACause ==
    \A p \in Procs :
        /\ job[p].verdict = "TAMPERED" => job[p].data \in touched \union raced
        /\ job[p].verdict = "DIVERGED" =>
              \/ job[p].result = NoResult
              \/ job[p].recorded[4] # job[p].recorded[2]
              \/ {job[p].code, job[p].data} \intersect raced # {}
              \/ job[p].shifted
              \/ job[p].sha256 # job[p].data /\ job[p].data \in touched

(* A result that reproduces is the result of the code and the data its       *)
(* record names, never one obtained from a dataset somebody had changed, be  *)
(* it with its manifest, unless it is changed back for the check and changed *)
(* again before the replay, or the record's code or data was published from  *)
(* a source that was being edited.  (verify.verify)                          *)
ReproducedIsGenuine ==
    \A p \in Procs :
        job[p].verdict = "REPRODUCED" =>
            /\ job[p].code \in raced \/ job[p].recorded[3] = job[p].recorded[1]
            /\ \/ job[p].data \in raced \/ job[p].shifted
               \/ job[p].recorded[4] = job[p].recorded[2]

(* A run id names one record.  (verify.find_run, verify.py 54-59)            *)
RunIdsUnique ==
    \A k, l \in RunLines : ledger[k].run_id = ledger[l].run_id => k = l

=============================================================================
