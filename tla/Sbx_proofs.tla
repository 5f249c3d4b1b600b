----------------------------- MODULE Sbx_proofs -----------------------------
(***************************************************************************)
(* Proofs about Sbx, for every number of processes, journals, strategies,   *)
(* ledger entries and mishaps.                                              *)
(***************************************************************************)
EXTENDS Sbx, SequenceTheorems, NaturalsInduction, WellFoundedInduction, TLAPS

(* The local variables of a verb.                                            *)
Fields == {"verifying", "bytes", "data", "sha256", "code", "kept", "result", "run_id", "recorded",
           "verdict", "shifted", "seen", "owed", "missing", "altered"}

(* The shapes the other invariants are read in.                              *)
Shapes ==
    /\ DOMAIN pc = Procs /\ DOMAIN job = Procs
    /\ \A p \in Procs : DOMAIN job[p] = Fields
    /\ \E S : ledger \in Seq(S)

LEMMA IdleFields == DOMAIN NoJob = Fields
  BY DEF NoJob, Fields

(* Assigning one local variable leaves the others, and other processes, be.  *)
LEMMA LetAssigns ==
    ASSUME Shapes, NEW p \in Procs, NEW name \in Fields, NEW value, Let(p, name, value)
    PROVE  /\ DOMAIN job' = Procs /\ \A q \in Procs : DOMAIN job'[q] = Fields
           /\ job'[p][name] = value
           /\ \A field \in Fields \ {name} : job'[p][field] = job[p][field]
           /\ \A q \in Procs \ {p} : job'[q] = job[q]
  <1>1. DOMAIN job = Procs /\ DOMAIN job[p] = Fields
    BY DEF Shapes
  <1>2. job' = [job EXCEPT ![p] = [job[p] EXCEPT ![name] = value]]
    BY DEF Let
  <1>3. job'[p] = [job[p] EXCEPT ![name] = value] /\ DOMAIN job' = Procs
        /\ \A q \in Procs \ {p} : job'[q] = job[q]
    BY <1>1, <1>2
  <1>4. DOMAIN job'[p] = Fields
    BY <1>1, <1>3
  <1>5. \A q \in Procs : DOMAIN job'[q] = Fields
    BY <1>3, <1>4 DEF Shapes
  <1>6. job'[p][name] = value
        /\ \A field \in Fields \ {name} : job'[p][field] = job[p][field]
    BY <1>1, <1>3
  <1> QED
    BY <1>3, <1>5, <1>6

(* So does a step of one process's counter.                                  *)
LEMMA StepMoves ==
    ASSUME Shapes, NEW p \in Procs, NEW from, NEW to, Step(p, from, to)
    PROVE  /\ pc[p] = from /\ pc'[p] = to /\ DOMAIN pc' = Procs
           /\ \A q \in Procs \ {p} : pc'[q] = pc[q]
  BY DEF Shapes, Step

LEMMA FinishIdles ==
    ASSUME Shapes, NEW p \in Procs, Finish(p)
    PROVE  /\ pc'[p] = "idle" /\ job'[p] = NoJob
           /\ DOMAIN pc' = Procs /\ DOMAIN job' = Procs
           /\ \A q \in Procs : DOMAIN job'[q] = Fields
           /\ \A q \in Procs \ {p} : pc'[q] = pc[q] /\ job'[q] = job[q]
  BY IdleFields DEF Shapes, Finish

(* The locals with which verify goes on, and ls.                             *)
Sought(id) ==
    [NoJob EXCEPT !.verifying = TRUE, !.run_id = id, !.data = FirstWithId(id).data,
                  !.sha256 = datasets[FirstWithId(id).data].sha256,
                  !.code = FirstWithId(id).code, !.recorded = FirstWithId(id).result]

Listing(on_disk) ==
    [NoJob EXCEPT !.seen = on_disk, !.owed = sealed \ (orphaned \union Unrecorded)]

(* A sequence with one more entry at its end.                                *)
LEMMA AppendGrows ==
    ASSUME NEW entry, \E S : ledger \in Seq(S), ledger' = Append(ledger, entry)
    PROVE  /\ \E S : ledger' \in Seq(S)
           /\ DOMAIN ledger \subseteq 1..Len(ledger)
           /\ Len(ledger) \in Nat /\ DOMAIN ledger = 1..Len(ledger)
           /\ DOMAIN ledger' = 1..(Len(ledger) + 1)
           /\ \A k \in DOMAIN ledger : ledger'[k] = ledger[k]
           /\ ledger'[Len(ledger) + 1] = entry
  <1>1. PICK S : ledger \in Seq(S)
    OBVIOUS
  <1> DEFINE T == S \union {entry}
  <1>2. ledger \in Seq(T)
    BY <1>1, SeqMonotonic
  <1>3. entry \in T
    OBVIOUS
  <1> HIDE DEF T
  <1>4. ledger' \in Seq(T) /\ Len(ledger') = Len(ledger) + 1
    BY <1>2, <1>3, AppendProperties
  <1>5. ledger'[Len(ledger) + 1] = entry
        /\ \A k \in 1..Len(ledger) : ledger'[k] = ledger[k]
    BY <1>2, <1>3, AppendProperties
  <1>6. Len(ledger) \in Nat /\ DOMAIN ledger = 1..Len(ledger)
        /\ DOMAIN ledger' = 1..(Len(ledger) + 1)
    BY <1>2, <1>4
  <1> QED
    BY <1>4, <1>5, <1>6

LEMMA VerbShapes ==
    ASSUME Shapes, NEW p \in Procs, Verb(p)
    PROVE  Shapes'
  <1> USE DEF Quietly, history, storeVars
  <1>1. \E S : ledger' \in Seq(S)
    <2>1. CASE Register(p)
      <3>1. \E entry : ledger' = Append(ledger, entry)
        BY <2>1 DEF Register
      <3> QED
        BY <3>1, AppendGrows DEF Shapes
    <2>2. CASE Record(p)
      <3>1. \E entry : ledger' = Append(ledger, entry)
        BY <2>2 DEF Record
      <3> QED
        BY <3>1, AppendGrows DEF Shapes
    <2>3. CASE ~Register(p) /\ ~Record(p)
      <3>1. ledger' = ledger
        BY <2>3 DEF Verb, SealStep, SealAgain, RunResolve, KeepStep, Execute, Mint,
                    VerifyFind, VerifyData, Compare, Told, LsDisk, LsPrint
      <3> QED
        BY <3>1, Zenon DEF Shapes
    <2> QED
      BY <2>1, <2>2, <2>3
  <1>2. DOMAIN pc' = Procs
    BY DEF Shapes, Verb, Step, Finish, Register, Record, SealStep, SealMeasure, SealHash,
           SealPublish, SealLoad, SealAgain, RunResolve, KeepStep, KeepHash, KeepCopy,
           Execute, Mint, VerifyFind, VerifyData, Compare, Told, LsDisk, LsPrint
  <1>3. DOMAIN job' = Procs /\ \A q \in Procs : DOMAIN job'[q] = Fields
    <2>1. CASE \/ SealMeasure(p) \/ SealHash(p) \/ SealLoad(p) \/ KeepHash(p)
               \/ Execute(p) \/ Mint(p) \/ Compare(p) \/ VerifyData(p)
      <3>1. \/ UNCHANGED job
            \/ \E name \in Fields : \E value : Let(p, name, value)
        <4> USE DEF Fields
        <4>1. CASE SealMeasure(p)  BY <4>1 DEF SealMeasure
        <4>2. CASE SealHash(p)  BY <4>2 DEF SealHash
        <4>3. CASE SealLoad(p)  BY <4>3 DEF SealLoad
        <4>4. CASE KeepHash(p)  BY <4>4 DEF KeepHash
        <4>5. CASE Execute(p)  BY <4>5 DEF Execute
        <4>6. CASE Mint(p)  BY <4>6 DEF Mint
        <4>7. CASE Compare(p)  BY <4>7 DEF Compare
        <4>8. CASE VerifyData(p)  BY <4>8 DEF VerifyData
        <4> QED
          BY <2>1, <4>1, <4>2, <4>3, <4>4, <4>5, <4>6, <4>7, <4>8
      <3> QED
        BY <3>1, LetAssigns DEF Shapes
    <2>2. CASE SealPublish(p) \/ KeepCopy(p)
      BY <2>2 DEF Shapes, SealPublish, KeepCopy
    <2>3. CASE Register(p) \/ SealAgain(p) \/ Record(p) \/ Told(p)
      BY <2>3, FinishIdles DEF Register, SealAgain, Record, Told
    <2>4. CASE VerifyFind(p)
      <3>1. PICK id : job' = [job EXCEPT ![p] = Sought(id)]
        BY <2>4 DEF VerifyFind, Sought
      <3>2. DOMAIN Sought(id) = Fields
        BY IdleFields DEF Sought
      <3> QED
        BY <3>1, <3>2 DEF Shapes
    <2>5. CASE LsDisk(p)
      <3>1. PICK on_disk : job' = [job EXCEPT ![p] = Listing(on_disk)]
        BY <2>5 DEF LsDisk, Listing
      <3>2. DOMAIN Listing(on_disk) = Fields
        BY IdleFields DEF Listing
      <3> QED
        BY <3>1, <3>2 DEF Shapes
    <2>6. CASE LsPrint(p)
      <3>1. PICK m, a : job' = [job EXCEPT ![p] = [job[p] EXCEPT !.missing = m, !.altered = a]]
        BY <2>6 DEF LsPrint
      <3> QED
        BY <3>1 DEF Shapes
    <2>7. CASE RunResolve(p)
      <3>1. PICK d, h : job' = [job EXCEPT ![p] = [job[p] EXCEPT !.data = d, !.sha256 = h]]
        BY <2>7 DEF RunResolve
      <3> QED
        BY <3>1 DEF Shapes
    <2> QED
      BY <2>1, <2>2, <2>3, <2>4, <2>5, <2>6, <2>7 DEF Verb, SealStep, KeepStep
  <1> QED
    BY <1>1, <1>2, <1>3 DEF Shapes

LEMMA InitShapes == Init => Shapes
  <1> SUFFICES ASSUME Init PROVE Shapes
    OBVIOUS
  <1>1. \E S : ledger \in Seq(S)
    <2>1. <<>> \in Seq({})
      OBVIOUS
    <2> QED
      BY <2>1 DEF Init
  <1> QED
    BY <1>1, IdleFields DEF Init, Shapes

LEMMA NextShapes == Shapes /\ [Next]_vars => Shapes'
  <1> SUFFICES ASSUME Shapes, [Next]_vars PROVE Shapes'
    OBVIOUS
  <1>1. ASSUME NEW p \in Procs, Verb(p) PROVE Shapes'
    BY <1>1, VerbShapes
  <1>2. ASSUME NEW p \in Procs, Crash(p) PROVE Shapes'
    <2>1. ledger' = ledger
      BY <1>2 DEF Crash
    <2> QED
      BY <1>2, <2>1, FinishIdles DEF Crash, Shapes
  <1>3. CASE Tamper
    <2>1. UNCHANGED <<pc, ledger>> /\ DOMAIN job' = Procs
      BY <1>3 DEF Tamper, Touch
    <2>2. \A p \in Procs : job'[p] = job[p] \/ job'[p] = [job[p] EXCEPT !.shifted = TRUE]
      BY <1>3 DEF Tamper
    <2> QED
      BY <2>1, <2>2 DEF Shapes
  <1>4. CASE EditJournal \/ EditStrategy \/ Delete \/ TamperManifest \/ UNCHANGED vars
    <2>1. UNCHANGED <<pc, job, ledger>>
      BY <1>4 DEF EditJournal, EditStrategy, Delete, TamperManifest, Touch, vars
    <2> QED
      BY <2>1 DEF Shapes
  <1> QED
    BY <1>1, <1>2, <1>3, <1>4 DEF Next

-----------------------------------------------------------------------------
(* What is published in the store.                                           *)
LEMMA InitKept == Init => KeptUnderTheirHashes
  BY DEF Init, StoreInit, KeptUnderTheirHashes

(* Somebody edits the files of one dataset.                                  *)
LEMMA TamperTouches ==
    ASSUME Tamper \/ TamperManifest
    PROVE  \E digest \in DOMAIN datasets : \E value :
              /\ datasets' = [datasets EXCEPT ![digest] = value]
              /\ touched' = touched \union {digest}
              /\ UNCHANGED <<code, raced, pc, ledger, sealed, orphaned>>
              /\ TamperManifest => value.data = datasets[digest].data /\ UNCHANGED job
  <1>1. CASE Tamper /\ ~TamperManifest
    <2>1. PICK digest \in DOMAIN datasets, data \in Journals :
              datasets' = [datasets EXCEPT ![digest] = [datasets[digest] EXCEPT !.data = data]]
              /\ Touch(digest)
      BY <1>1 DEF Tamper
    <2> QED
      BY <1>1, <2>1 DEF Touch
  <1>2. CASE TamperManifest
    <2>1. PICK digest \in DOMAIN datasets, sha256 \in Journals :
              /\ datasets' = [datasets EXCEPT ![digest] =
                                [datasets[digest] EXCEPT !.sha256 = sha256]]
              /\ Touch(digest) /\ UNCHANGED job
      BY <1>2 DEF TamperManifest
    <2>2. [datasets[digest] EXCEPT !.sha256 = sha256].data = datasets[digest].data
      OBVIOUS
    <2> QED
      BY <2>1, <2>2 DEF Touch
  <1> QED
    BY <1>1, <1>2

(* The only steps that publish, change or delete what is in the store.       *)
LEMMA StoreChanges ==
    ASSUME [Next]_vars
    PROVE  \/ /\ UNCHANGED <<datasets, code>>
              /\ touched \subseteq touched' /\ raced \subseteq raced'
           \/ \E p \in Procs : SealPublish(p) /\ UNCHANGED touched
           \/ \E p \in Procs : KeepCopy(p) /\ UNCHANGED touched
           \/ Delete
           \/ Tamper \/ TamperManifest
  <1> USE DEF Quietly, storeVars, history
  <1>1. ASSUME NEW p \in Procs, Verb(p), ~SealPublish(p), ~KeepCopy(p)
        PROVE  UNCHANGED <<datasets, code, touched, raced>>
    BY <1>1 DEF Verb, SealStep, SealMeasure, SealHash, SealLoad, Register, SealAgain,
                RunResolve, KeepStep, KeepHash, Execute, Mint, Record, VerifyFind,
                VerifyData, Compare, Told, LsDisk, LsPrint
  <1>2. ASSUME NEW p \in Procs, Crash(p)
        PROVE  UNCHANGED <<datasets, code, touched, raced>>
    BY <1>2 DEF Crash
  <1>3. CASE EditJournal \/ EditStrategy \/ UNCHANGED vars
    BY <1>3 DEF EditJournal, EditStrategy, vars
  <1>4. ASSUME NEW p \in Procs, Verb(p), SealPublish(p) PROVE UNCHANGED touched
    BY <1>4 DEF Verb, SealPublish, SealStep, Step, KeepStep, KeepHash, KeepCopy, RunResolve,
                Execute, Mint, Record, Register, SealAgain, VerifyFind, VerifyData, Compare,
                Told, LsDisk, LsPrint
  <1>5. ASSUME NEW p \in Procs, Verb(p), KeepCopy(p) PROVE UNCHANGED touched
    BY <1>5 DEF Verb, KeepCopy, SealStep, Step, KeepStep, KeepHash, RunResolve,
                Execute, Mint, Record, Register, SealAgain, VerifyFind, VerifyData, Compare,
                Told, LsDisk, LsPrint
  <1> QED
    BY <1>1, <1>2, <1>3, <1>4, <1>5 DEF Next

(* What KeptUnderTheirHashes says of one dataset that nobody touched.        *)
TrueName(d) ==
    /\ datasets[d].sha256 = d
    /\ d \notin raced => datasets[d] = Manifested(d, d, d)

LEMMA NextKept == KeptUnderTheirHashes /\ [Next]_vars => KeptUnderTheirHashes'
  <1> SUFFICES ASSUME KeptUnderTheirHashes, [Next]_vars PROVE KeptUnderTheirHashes'
    OBVIOUS
  <1> USE DEF KeptUnderTheirHashes, TrueName
  <1>1. CASE UNCHANGED <<datasets, code>> /\ touched \subseteq touched' /\ raced \subseteq raced'
    BY <1>1
  <1>2. ASSUME NEW p \in Procs, SealPublish(p), UNCHANGED touched PROVE KeptUnderTheirHashes'
    <2>1. CASE job[p].data \in DOMAIN datasets
      BY <1>2, <2>1 DEF SealPublish
    <2>2. CASE job[p].data \notin DOMAIN datasets
      <3> DEFINE new == Manifested(job[p].bytes, job[p].data, journalFile)
      <3>1. datasets' = Extend(datasets, job[p].data, new) /\ code' = code
            /\ raced' = IF {job[p].bytes, journalFile} = {job[p].data} THEN raced
                        ELSE raced \union {job[p].data}
        BY <1>2, <2>2 DEF SealPublish
      <3>2. /\ new.sha256 = job[p].data
            /\ job[p].data \notin raced' =>
                  new = Manifested(job[p].data, job[p].data, job[p].data)
        BY <3>1 DEF Manifested
      <3> HIDE DEF new
      <3>3. ASSUME NEW d \in DOMAIN datasets' \ touched' PROVE TrueName(d)'
        <4>1. CASE d = job[p].data
          BY <3>1, <3>2, <3>3, <4>1 DEF Extend
        <4>2. CASE d # job[p].data
          <5>1. d \in DOMAIN datasets /\ datasets'[d] = datasets[d] /\ raced \subseteq raced'
            BY <3>1, <3>3, <4>2 DEF Extend
          <5> QED
            BY <1>2, <3>3, <5>1
        <4> QED
          BY <4>1, <4>2
      <3>4. \A d \in DOMAIN code' \ raced' : code'[d] = d
        BY <3>1
      <3> QED
        BY <3>3, <3>4
    <2> QED
      BY <2>1, <2>2
  <1>3. ASSUME NEW p \in Procs, KeepCopy(p), UNCHANGED touched PROVE KeptUnderTheirHashes'
    <2>1. code' = Extend(code, job[p].kept, Source(p)) /\ datasets' = datasets
          /\ raced' = IF Source(p) = job[p].kept THEN raced ELSE raced \union {job[p].kept}
      BY <1>3 DEF KeepCopy
    <2>2. ASSUME NEW d \in DOMAIN code' \ raced' PROVE code'[d] = d
      <3>1. CASE d = job[p].kept
        BY <2>1, <2>2, <3>1 DEF Extend
      <3>2. CASE d # job[p].kept
        <4>1. d \in DOMAIN code /\ code'[d] = code[d]
          BY <2>1, <2>2, <3>2 DEF Extend
        <4> QED
          BY <2>1, <2>2, <4>1
      <3> QED
        BY <3>1, <3>2
    <2>3. \A d \in DOMAIN datasets' \ touched' : TrueName(d)'
      BY <1>3, <2>1
    <2> QED
      BY <2>2, <2>3
  <1>4. CASE Delete
    BY <1>4 DEF Delete, Touch
  <1>5. CASE Tamper \/ TamperManifest
    <2>1. PICK digest \in DOMAIN datasets : \E value :
              /\ datasets' = [datasets EXCEPT ![digest] = value]
              /\ touched' = touched \union {digest}
              /\ UNCHANGED <<code, raced>>
      BY <1>5, TamperTouches
    <2> QED
      BY <2>1
  <1> QED
    BY <1>1, <1>2, <1>3, <1>4, <1>5, StoreChanges

(* However many seal and keep at once, and wherever they crash, a dataset or *)
(* a strategy that is in the store is what its name says, unless somebody    *)
(* touched it or its source was edited under the copy.  (store.py 3-5)       *)
THEOREM NamesAreHashes == Spec => []KeptUnderTheirHashes
  BY InitKept, NextKept, PTL DEF Spec

-----------------------------------------------------------------------------
(* A verb is one process's business.                                         *)
LEMMA OthersStay ==
    ASSUME Shapes, NEW p \in Procs, Verb(p)
    PROVE  \A q \in Procs \ {p} : pc'[q] = pc[q] /\ job'[q] = job[q]
  <1>1. \E to : pc' = [pc EXCEPT ![p] = to]
    BY DEF Verb, Step, Finish, Register, Record, SealStep, SealMeasure, SealHash,
           SealPublish, SealLoad, SealAgain, RunResolve, KeepStep, KeepHash, KeepCopy,
           Execute, Mint, VerifyFind, VerifyData, Compare, Told, LsDisk, LsPrint
  <1>2. \/ UNCHANGED job
        \/ \E to : job' = [job EXCEPT ![p] = to]
        \/ \E name, value : job' = [job EXCEPT ![p][name] = value]
    <2> USE DEF Let
    <2>1. CASE \/ SealMeasure(p) \/ SealHash(p) \/ SealPublish(p) \/ SealLoad(p)
      BY <2>1 DEF SealMeasure, SealHash, SealPublish, SealLoad
    <2>2. CASE RunResolve(p) \/ KeepHash(p) \/ KeepCopy(p) \/ Mint(p)
      BY <2>2 DEF RunResolve, KeepHash, KeepCopy, Mint
    <2>3. CASE Execute(p) \/ Compare(p) \/ VerifyData(p)
      BY <2>3 DEF Execute, Compare, VerifyData
    <2>4. CASE Register(p) \/ SealAgain(p) \/ Record(p) \/ Told(p)
      BY <2>4 DEF Register, SealAgain, Record, Told, Finish
    <2>5. CASE VerifyFind(p)
      BY <2>5 DEF VerifyFind
    <2>6. CASE LsDisk(p)
      BY <2>6 DEF LsDisk
    <2>7. CASE LsPrint(p)
      BY <2>7 DEF LsPrint
    <2> QED
      BY <2>1, <2>2, <2>3, <2>4, <2>5, <2>6, <2>7 DEF Verb, SealStep, KeepStep
  <1>3. \A q \in Procs \ {p} : pc'[q] = pc[q]
    BY <1>1 DEF Shapes
  <1>4. \A q \in Procs \ {p} : job'[q] = job[q]
    BY <1>2 DEF Shapes
  <1> QED
    BY <1>3, <1>4

(* Why RegisteredUnlessOrphaned is inductive: what is on disk is recorded,   *)
(* about to be, or orphaned too, and may therefore be deleted; and what is   *)
(* about to be recorded is recorded under its own name unless orphaned.      *)
Known == Registered \union Unrecorded \union orphaned

OwnName(p) == pc[p] = "register" => job[p].sha256 = job[p].data \/ job[p].data \in orphaned

Accounted ==
    /\ DOMAIN datasets \subseteq Known
    /\ sealed \subseteq Known
    /\ \A p \in Procs : OwnName(p)

LEMMA InitAccounted == Init => Accounted
  BY DEF Init, StoreInit, Accounted, OwnName

LEMMA RegisteredGrows ==
    ASSUME Shapes, ledger' = ledger \/ \E entry : ledger' = Append(ledger, entry)
    PROVE  Registered \subseteq Registered'
  <1>1. CASE ledger' = ledger
    BY <1>1 DEF Registered, RunLines
  <1>2. ASSUME NEW entry, ledger' = Append(ledger, entry)
        PROVE  Registered \subseteq Registered'
    <2>1. DOMAIN ledger \subseteq DOMAIN ledger' /\ \A k \in DOMAIN ledger : ledger'[k] = ledger[k]
      BY <1>2, AppendGrows DEF Shapes
    <2> QED
      BY <2>1 DEF Registered, RunLines
  <1> QED
    BY <1>1, <1>2

LEMMA VerbLedger ==
    ASSUME NEW p \in Procs, Verb(p)
    PROVE  \/ ledger' = ledger
           \/ Record(p) /\ \E entry : entry.kind = "run" /\ ledger' = Append(ledger, entry)
           \/ /\ Register(p)
              /\ ledger' = Append(ledger, [kind |-> "dataset", sha256 |-> job[p].sha256])
  <1> USE DEF Quietly, history
  <1>1. CASE Record(p)
    BY <1>1 DEF Record
  <1>2. CASE Register(p)
    BY <1>2 DEF Register
  <1>3. CASE ~Register(p) /\ ~Record(p)
    BY <1>3 DEF Verb, SealStep, SealAgain, RunResolve, KeepStep, Execute, Mint,
                VerifyFind, VerifyData, Compare, Told, LsDisk, LsPrint
  <1> QED
    BY <1>1, <1>2, <1>3

(* A step of somebody who has nothing to record loses nothing from view.     *)
LEMMA KnownStays ==
    ASSUME Shapes, NEW p \in Procs, Verb(p) \/ Crash(p)
    PROVE  /\ Registered \union orphaned \subseteq Known'
           /\ \A q \in Procs \ {p} : Recording(q) => job[q].data \in Known'
           /\ Recording(p)' => job'[p].data \in Known'
  <1>1. Registered \subseteq Registered'
    <2>1. CASE Verb(p)
      BY <2>1, VerbLedger, RegisteredGrows
    <2>2. CASE Crash(p)
      BY <2>2, RegisteredGrows DEF Crash
    <2> QED
      BY <2>1, <2>2
  <1>2. orphaned \subseteq orphaned'
    BY DEF Verb, Crash, Register, Record, SealStep, SealAgain, RunResolve, KeepStep,
           Execute, Mint, VerifyFind, VerifyData, Compare, Told, LsDisk, LsPrint, Quietly,
           history
  <1>3. \A q \in Procs \ {p} : pc'[q] = pc[q] /\ job'[q] = job[q]
    BY OthersStay, FinishIdles DEF Crash
  <1>4. \A q \in Procs \ {p} : Recording(q) => job[q].data \in Unrecorded'
    BY <1>3 DEF Recording, Unrecorded
  <1>5. Recording(p)' => job'[p].data \in Unrecorded'
    BY DEF Recording, Unrecorded
  <1> QED
    BY <1>1, <1>2, <1>4, <1>5 DEF Known

LEMMA VerbAccounted ==
    ASSUME Shapes, Accounted, NEW p \in Procs, Verb(p) \/ Crash(p)
    PROVE  Accounted'
  <1> USE DEF Quietly, storeVars, history
  <1>0. /\ Registered \union orphaned \subseteq Known'
        /\ \A q \in Procs \ {p} : Recording(q) => job[q].data \in Known'
        /\ Recording(p)' => job'[p].data \in Known'
    BY KnownStays
  <1>1. Recording(p) => job[p].data \in Known'
    <2>1. CASE SealLoad(p) /\ SealStep(p)
      <3>1. CASE job[p].data \in DOMAIN datasets
        <4>1. pc'[p] = "register" /\ Let(p, "sha256", datasets[job[p].data].sha256)
          BY <2>1, <3>1, StepMoves DEF SealLoad
        <4>2. job'[p].data = job[p].data
          BY <4>1, LetAssigns DEF Fields
        <4> QED
          BY <1>0, <4>1, <4>2 DEF Recording
      <3>2. CASE job[p].data \notin DOMAIN datasets
        <4>1. pc[p] = "seal_load"
          BY <2>1, StepMoves DEF SealLoad
        <4>2. job[p].data \in orphaned'
          BY <2>1, <3>2, <4>1 DEF SealStep, SealMeasure, SealHash, SealPublish, Step
        <4> QED
          BY <4>2 DEF Known
      <3> QED
        BY <3>1, <3>2
    <2>2. CASE Register(p)
      <3> DEFINE entry == [kind |-> "dataset", sha256 |-> job[p].sha256]
      <3>1. ledger' = Append(ledger, entry)
        BY <2>2 DEF Register
      <3>2. /\ Len(ledger) + 1 \in DOMAIN ledger'
            /\ ledger'[Len(ledger) + 1] = entry
        BY <3>1, AppendGrows DEF Shapes
      <3>3. job[p].sha256 \in Registered'
        BY <3>2 DEF Registered, RunLines
      <3>4. job[p].sha256 = job[p].data \/ job[p].data \in orphaned
        BY <2>2 DEF Accounted, OwnName, Register
      <3> QED
        BY <1>0, <3>3, <3>4 DEF Known
    <2>3. CASE Crash(p)
      BY <2>3 DEF Crash, Known
    <2>4. CASE Verb(p) /\ ~Register(p) /\ ~(SealLoad(p) /\ SealStep(p))
      <3>1. ~Recording(p)
        BY <2>4 DEF Recording, Verb, Step, SealStep, SealMeasure, SealHash, SealPublish,
                    SealAgain, RunResolve, KeepStep, KeepHash, KeepCopy, Execute, Mint,
                    Record, VerifyFind, VerifyData, Compare, Told, LsDisk, LsPrint
      <3> QED
        BY <3>1
    <2> QED
      BY <2>1, <2>2, <2>3, <2>4
  <1>2. Known \subseteq Known'
    BY <1>0, <1>1 DEF Known, Unrecorded
  <1>3. DOMAIN datasets' \subseteq Known'
    <2>1. CASE SealPublish(p)
      <3>1. CASE job[p].data \in DOMAIN datasets
        BY <1>2, <2>1, <3>1 DEF SealPublish, Accounted
      <3>2. CASE job[p].data \notin DOMAIN datasets
        <4>1. pc'[p] = "seal_load" /\ job' = job
          BY <2>1, <3>2, StepMoves DEF SealPublish
        <4>2. job[p].data \in Known'
          BY <1>0, <4>1 DEF Recording
        <4>3. DOMAIN datasets' = DOMAIN datasets \union {job[p].data}
          BY <2>1, <3>2 DEF SealPublish, Extend
        <4> QED
          BY <1>2, <4>2, <4>3 DEF Accounted
      <3> QED
        BY <3>1, <3>2
    <2>2. CASE ~SealPublish(p)
      <3>1. datasets' = datasets
        BY <2>2 DEF Verb, Crash, SealStep, SealMeasure, SealHash, SealLoad, Register,
                    SealAgain, RunResolve, KeepStep, KeepHash, KeepCopy, Execute, Mint,
                    Record, VerifyFind, VerifyData, Compare, Told, LsDisk, LsPrint
      <3> QED
        BY <1>2, <3>1 DEF Accounted
    <2> QED
      BY <2>1, <2>2
  <1>4. sealed' \subseteq Known'
    <2>1. CASE Register(p)
      BY <1>1, <1>2, <2>1 DEF Register, Recording, Accounted
    <2>2. CASE SealAgain(p)
      BY <1>2, <2>2 DEF SealAgain, Accounted
    <2>3. CASE ~Register(p) /\ ~SealAgain(p)
      <3>1. sealed' = sealed
        BY <2>3 DEF Verb, Crash, SealStep, RunResolve, KeepStep, Execute, Mint, Record,
                    VerifyFind, VerifyData, Compare, Told, LsDisk, LsPrint
      <3> QED
        BY <1>2, <3>1 DEF Accounted
    <2> QED
      BY <2>1, <2>2, <2>3
  <1>5. ASSUME NEW q \in Procs PROVE OwnName(q)'
    <2>0. orphaned \subseteq orphaned'
      BY DEF Verb, Crash, Register, Record, SealStep, SealAgain, RunResolve, KeepStep,
             Execute, Mint, VerifyFind, VerifyData, Compare, Told, LsDisk, LsPrint
    <2>1. CASE q # p
      <3>1. pc'[q] = pc[q] /\ job'[q] = job[q]
        BY <2>1, OthersStay, FinishIdles DEF Crash
      <3> QED
        BY <2>0, <3>1 DEF Accounted, OwnName
    <2>2. CASE q = p /\ SealLoad(p) /\ SealStep(p) /\ job[p].data \in DOMAIN datasets
      <3>1. pc[p] = "seal_load" /\ Let(p, "sha256", datasets[job[p].data].sha256)
        BY <2>2 DEF SealLoad, Step
      <3>2. job'[p].data = job[p].data /\ job'[p].sha256 = datasets[job[p].data].sha256
        BY <3>1, LetAssigns DEF Fields
      <3>3. \/ datasets[job[p].data].sha256 = job[p].data
            \/ job[p].data \in orphaned'
        BY <2>2, <3>1 DEF SealStep, SealMeasure, SealHash, SealPublish, Step
      <3> QED
        BY <2>2, <3>2, <3>3 DEF OwnName
    <2>3. CASE q = p /\ ~(SealLoad(p) /\ SealStep(p) /\ job[p].data \in DOMAIN datasets)
      <3>1. pc'[p] # "register"
        BY <2>3 DEF Verb, Crash, Finish, Step, SealStep, SealMeasure, SealHash, SealPublish,
                    SealLoad, Register, SealAgain, RunResolve, KeepStep, KeepHash, KeepCopy,
                    Execute, Mint, Record, VerifyFind, VerifyData, Compare, Told, LsDisk,
                    LsPrint, Shapes
      <3> QED
        BY <2>3, <3>1 DEF OwnName
    <2> QED
      BY <2>1, <2>2, <2>3
  <1> QED
    BY <1>3, <1>4, <1>5 DEF Accounted

LEMMA NextAccounted == Shapes /\ Accounted /\ [Next]_vars => Accounted'
  <1> SUFFICES ASSUME Shapes, Accounted, [Next]_vars PROVE Accounted'
    OBVIOUS
  <1>1. ASSUME NEW p \in Procs, Verb(p) \/ Crash(p) PROVE Accounted'
    BY <1>1, VerbAccounted
  <1>2. CASE \/ EditJournal \/ EditStrategy \/ Delete \/ Tamper \/ TamperManifest
             \/ UNCHANGED vars
    <2>1. UNCHANGED <<pc, ledger, sealed, orphaned>> /\ DOMAIN datasets' \subseteq DOMAIN datasets
      <3>1. CASE Tamper \/ TamperManifest
        BY <3>1, TamperTouches
      <3>2. CASE ~(Tamper \/ TamperManifest)
        BY <1>2, <3>2 DEF EditJournal, EditStrategy, Delete, Touch, vars, storeVars, history
      <3> QED
        BY <3>1, <3>2
    <2>2. \A p \in Procs : job'[p].data = job[p].data /\ job'[p].sha256 = job[p].sha256
      <3>1. CASE Tamper
        <4>1. \A p \in Procs : job'[p] = job[p] \/ job'[p] = [job[p] EXCEPT !.shifted = TRUE]
          BY <3>1 DEF Tamper
        <4> QED
          BY <4>1 DEF Shapes, Fields
      <3>2. CASE ~Tamper
        BY <1>2, <3>2 DEF EditJournal, EditStrategy, Delete, TamperManifest, Touch, vars
      <3> QED
        BY <3>1, <3>2
    <2>3. Known' = Known
      BY <2>1, <2>2 DEF Known, Registered, RunLines, Unrecorded, Recording
    <2>4. \A p \in Procs : OwnName(p)'
      BY <2>1, <2>2 DEF Accounted, OwnName
    <2> QED
      BY <2>1, <2>3, <2>4 DEF Accounted
  <1> QED
    BY <1>1, <1>2 DEF Next

(* What a user was told is sealed stays in view, whoever seals it at once    *)
(* and whatever is deleted, unless its creator crashes, or finds it gone or  *)
(* its manifest rewritten, before recording it.                              *)
(* (commands.py 57, 82-87)                                                   *)
THEOREM NothingSealedIsLost == Spec => []RegisteredUnlessOrphaned
  <1>1. Accounted => RegisteredUnlessOrphaned
    BY DEF Accounted, Known, RegisteredUnlessOrphaned
  <1> QED
    BY <1>1, InitShapes, NextShapes, InitAccounted, NextAccounted, PTL DEF Spec

-----------------------------------------------------------------------------
(* Why verdicts have their causes: a result names what it was obtained for,  *)
(* and was obtained from what bears that name unless its source was edited.  *)
Faithful(result, kept, sha256) ==
    result # NoResult =>
        /\ result = <<kept, sha256, result[3], result[4]>>
        /\ kept \in raced \/ result[3] = kept

Recorded(entry) == entry.code \in DOMAIN code /\ Faithful(entry.result, entry.code, entry.data)

RecordsFaithful == \A k \in RunLines : Recorded(ledger[k])

(* What a process knows at each step of run and verify.                      *)
NoVerify == {"idle", "seal_hash", "seal_publish", "seal_load", "seal_again", "register",
             "ls_print"}
Before   == NoVerify \union {"verify_data", "keep_hash", "keep_copy", "execute"}

Undecided(p) ==
    /\ pc[p] \in NoVerify => ~job[p].verifying
    /\ pc[p] \in Before => job[p].result = NoResult
    /\ pc[p] # "told" => job[p].verdict = NoResult
    /\ pc[p] \in {"verify_data", "compare"} => job[p].verifying

Executed(p) ==
    /\ Faithful(job[p].result, job[p].kept, job[p].sha256)
    /\ pc[p] \in {"execute", "mint", "record"} => job[p].kept \in DOMAIN code

Remembered(p) ==
    job[p].verifying =>
        /\ job[p].recorded # NoResult
        /\ Faithful(job[p].recorded, job[p].code, job[p].data)
        /\ job[p].code \in DOMAIN code

SameCode(p) ==
    job[p].verifying /\ pc[p] \in {"keep_copy", "execute", "compare"} =>
        job[p].code \in raced \/ job[p].kept = job[p].code

Excused(p) == job[p].data \in raced \/ job[p].shifted \/ job[p].sha256 # job[p].data

(* A manifest that gives another hash than its directory's name was edited.  *)
Named(p) == job[p].verifying => job[p].sha256 = job[p].data \/ job[p].data \in touched

SameData(p) ==
    /\ pc[p] = "verify_data" => job[p].data \in DOMAIN datasets \union touched
    /\ Replaying(p) /\ job[p].data \in DOMAIN datasets =>
          Excused(p) \/ datasets[job[p].data].data = job[p].data
    /\ job[p].verifying /\ pc[p] = "compare" /\ job[p].result # NoResult =>
          Excused(p) \/ job[p].result[4] = job[p].data

Judged(p) ==
    /\ job[p].verdict = "TAMPERED" => job[p].data \in touched \union raced
    /\ job[p].verdict = "DIVERGED" =>
          \/ job[p].result = NoResult
          \/ job[p].recorded[4] # job[p].recorded[2]
          \/ {job[p].code, job[p].data} \intersect raced # {}
          \/ job[p].shifted
          \/ job[p].sha256 # job[p].data /\ job[p].data \in touched
    /\ job[p].verdict = "REPRODUCED" =>
          /\ job[p].code \in raced \/ job[p].recorded[3] = job[p].recorded[1]
          /\ \/ job[p].data \in raced \/ job[p].shifted
             \/ job[p].recorded[4] = job[p].recorded[2]

Knows(p) ==
    /\ Undecided(p) /\ Executed(p) /\ Remembered(p) /\ Named(p)
    /\ SameCode(p) /\ SameData(p) /\ Judged(p)

(* What everybody may rely on: names are spoiled for good, and what is there *)
(* under a sound name stays what it is unless it is tampered with.           *)
WorldGoesOn ==
    /\ raced \subseteq raced' /\ touched \subseteq touched'
    /\ DOMAIN code \subseteq DOMAIN code'
    /\ DOMAIN datasets \subseteq DOMAIN datasets' \union touched'

SoundStaySound ==
    \A d \in DOMAIN datasets' \ raced' :
        \/ d \in DOMAIN datasets /\ datasets'[d].data = datasets[d].data
        \/ datasets'[d].data = d

LEMMA NextGoesOn ==
    ASSUME [Next]_vars
    PROVE  WorldGoesOn /\ (~Tamper => SoundStaySound)
  <1> USE DEF WorldGoesOn, SoundStaySound
  <1>1. CASE UNCHANGED <<datasets, code>> /\ touched \subseteq touched' /\ raced \subseteq raced'
    BY <1>1
  <1>2. ASSUME NEW p \in Procs, SealPublish(p), UNCHANGED touched
        PROVE  WorldGoesOn /\ SoundStaySound
    <2>1. CASE job[p].data \in DOMAIN datasets
      BY <1>2, <2>1 DEF SealPublish
    <2>2. CASE job[p].data \notin DOMAIN datasets
      <3> DEFINE new == Manifested(job[p].bytes, job[p].data, journalFile)
      <3>1. datasets' = Extend(datasets, job[p].data, new) /\ code' = code
            /\ raced' = IF {job[p].bytes, journalFile} = {job[p].data} THEN raced
                        ELSE raced \union {job[p].data}
        BY <1>2, <2>2 DEF SealPublish
      <3>2. job[p].data \notin raced' => new.data = job[p].data
        BY <3>1 DEF Manifested
      <3> HIDE DEF new
      <3> QED
        BY <1>2, <3>1, <3>2 DEF Extend
    <2> QED
      BY <2>1, <2>2
  <1>3. ASSUME NEW p \in Procs, KeepCopy(p), UNCHANGED touched
        PROVE  WorldGoesOn /\ SoundStaySound
    BY <1>3 DEF KeepCopy, Extend
  <1>4. CASE Delete
    BY <1>4 DEF Delete, Touch
  <1>5. CASE Tamper \/ TamperManifest
    <2>1. PICK digest \in DOMAIN datasets : \E value :
              /\ datasets' = [datasets EXCEPT ![digest] = value]
              /\ touched' = touched \union {digest}
              /\ UNCHANGED <<code, raced>>
              /\ TamperManifest => value.data = datasets[digest].data
      BY <1>5, TamperTouches
    <2>2. WorldGoesOn
      BY <2>1
    <2>3. TamperManifest => SoundStaySound
      BY <2>1
    <2> QED
      BY <1>5, <2>2, <2>3
  <1> QED
    BY <1>1, <1>2, <1>3, <1>4, <1>5, StoreChanges

(* Who does nothing knows what it knew.                                      *)
LEMMA BystanderKnows ==
    ASSUME NEW p \in Procs, Knows(p), WorldGoesOn, SoundStaySound,
           pc'[p] = pc[p], job'[p] = job[p]
    PROVE  Knows(p)'
  <1> USE DEF WorldGoesOn, Faithful, Excused
  <1>1. Undecided(p)' /\ SameCode(p)' /\ Judged(p)'
    BY DEF Knows, Undecided, SameCode, Judged
  <1>2. Executed(p)' /\ Remembered(p)' /\ Named(p)'
    BY DEF Knows, Executed, Remembered, Named
  <1>3. SameData(p)'
    BY DEF Knows, SameData, Replaying, SoundStaySound
  <1> QED
    BY <1>1, <1>2, <1>3 DEF Knows

LEMMA TamperKnows ==
    ASSUME Shapes, NEW p \in Procs, Knows(p), WorldGoesOn, Tamper
    PROVE  Knows(p)'
  <1>1. PICK digest \in DOMAIN datasets, data \in Journals :
            /\ datasets' = [datasets EXCEPT ![digest] = [datasets[digest] EXCEPT !.data = data]]
            /\ job' = [q \in Procs |-> IF Replaying(q) /\ job[q].data = digest
                                       THEN [job[q] EXCEPT !.shifted = TRUE] ELSE job[q]]
            /\ UNCHANGED <<pc, ledger>>
    BY DEF Tamper, Touch
  <1>2. \A field \in Fields \ {"shifted"} : job'[p][field] = job[p][field]
    BY <1>1 DEF Shapes
  <1>3. /\ job'[p].verifying = job[p].verifying /\ job'[p].data = job[p].data
        /\ job'[p].code = job[p].code /\ job'[p].kept = job[p].kept
        /\ job'[p].result = job[p].result /\ job'[p].recorded = job[p].recorded
        /\ job'[p].verdict = job[p].verdict /\ job'[p].sha256 = job[p].sha256
    BY <1>2 DEF Fields
  <1>4. job[p].shifted => job'[p].shifted
    BY <1>1 DEF Shapes, Fields
  <1>5. Replaying(p) /\ job[p].data = digest => job'[p].shifted
    BY <1>1 DEF Shapes, Fields
  <1> USE DEF WorldGoesOn, Faithful, Excused
  <1>6. Undecided(p)' /\ SameCode(p)' /\ Judged(p)'
    BY <1>1, <1>3, <1>4 DEF Knows, Undecided, SameCode, Judged
  <1>7. Executed(p)' /\ Remembered(p)' /\ Named(p)'
    BY <1>1, <1>3 DEF Knows, Executed, Remembered, Named
  <1>8. SameData(p)'
    BY <1>1, <1>3, <1>4, <1>5 DEF Knows, SameData, Replaying
  <1> QED
    BY <1>6, <1>7, <1>8 DEF Knows

(* A process without a result and a verdict has nothing to know.             *)
LEMMA IdleKnows ==
    ASSUME NEW p \in Procs, pc'[p] \in {"idle", "ls_print", "told"},
           ~job'[p].verifying, job'[p].result = NoResult, job'[p].verdict = NoResult
    PROVE  Knows(p)'
  BY NoResultAssumption
     DEF Knows, Undecided, Executed, Remembered, Named, SameCode, SameData, Judged,
         Faithful, Replaying

(* The store's part in seal and run; nothing that verify goes by changes.    *)
LEMMA SealKnows ==
    ASSUME Shapes, NEW p \in Procs, Knows(p), WorldGoesOn, [Next]_vars,
           \/ SealMeasure(p) \/ SealHash(p) \/ SealPublish(p) \/ SealLoad(p) \/ RunResolve(p)
    PROVE  Knows(p)'
  <1>1. /\ pc[p] \in NoVerify /\ pc'[p] \in NoVerify \union {"keep_hash"}
    BY StepMoves DEF SealMeasure, SealHash, SealPublish, SealLoad, RunResolve, NoVerify
  <1>2. \A field \in Fields \ {"data", "bytes", "sha256"} : job'[p][field] = job[p][field]
    <2>1. CASE UNCHANGED job
      BY <2>1
    <2>2. CASE \E name \in {"data", "bytes", "sha256"} : \E value : Let(p, name, value)
      <3>1. PICK name \in {"data", "bytes", "sha256"} : \E value : Let(p, name, value)
        BY <2>2
      <3>2. name \in Fields
        BY <3>1 DEF Fields
      <3>3. \A field \in Fields \ {name} : job'[p][field] = job[p][field]
        BY <3>1, <3>2, LetAssigns
      <3> QED
        BY <3>1, <3>3
    <2>3. CASE RunResolve(p)
      <3>1. PICK d, h : job' = [job EXCEPT ![p] = [job[p] EXCEPT !.data = d, !.sha256 = h]]
        BY <2>3 DEF RunResolve
      <3> QED
        BY <3>1 DEF Shapes
    <2>4. \/ UNCHANGED job
          \/ \E name \in {"data", "bytes", "sha256"} : \E value : Let(p, name, value)
          \/ RunResolve(p)
      BY DEF SealMeasure, SealHash, SealPublish, SealLoad
    <2> QED
      BY <2>1, <2>2, <2>3, <2>4
  <1>3. /\ job'[p].verifying = job[p].verifying /\ job'[p].result = job[p].result
        /\ job'[p].verdict = job[p].verdict
    BY <1>2 DEF Fields
  <1>4. ~job[p].verifying /\ job[p].result = NoResult /\ job[p].verdict = NoResult
    BY <1>1 DEF Knows, Undecided, NoVerify, Before
  <1>5. ~job'[p].verifying /\ job'[p].result = NoResult /\ job'[p].verdict = NoResult
    BY <1>3, <1>4
  <1> QED
    BY <1>1, <1>5, NoResultAssumption
       DEF Knows, Undecided, Executed, Remembered, Named, SameCode, SameData, Judged,
           Faithful, Replaying, NoVerify, Before

LEMMA KeepHashKnows ==
    ASSUME Shapes, KeptUnderTheirHashes, NEW p \in Procs, Knows(p), WorldGoesOn,
           SoundStaySound, KeepHash(p)
    PROVE  Knows(p)'
  <1>1. /\ pc[p] = "keep_hash" /\ Let(p, "kept", Source(p)) /\ UNCHANGED storeVars
        /\ pc'[p] = IF Source(p) \in DOMAIN code THEN "execute" ELSE "keep_copy"
    BY DEF KeepHash, Shapes
  <1>2. /\ job'[p].kept = Source(p)
        /\ \A field \in Fields \ {"kept"} : job'[p][field] = job[p][field]
    BY <1>1, LetAssigns DEF Fields
  <1>3. /\ job'[p].verifying = job[p].verifying /\ job'[p].data = job[p].data
        /\ job'[p].code = job[p].code /\ job'[p].shifted = job[p].shifted
        /\ job'[p].result = job[p].result /\ job'[p].recorded = job[p].recorded
        /\ job'[p].verdict = job[p].verdict /\ job'[p].sha256 = job[p].sha256
    BY <1>2 DEF Fields
  <1>4. UNCHANGED <<datasets, code, raced>>
    BY <1>1 DEF storeVars
  <1>5. job[p].result = NoResult /\ job[p].verdict = NoResult
    BY <1>1 DEF Knows, Undecided, Before
  <1> USE DEF Faithful, Excused
  <1>6. Undecided(p)' /\ Judged(p)'
    BY <1>1, <1>3, <1>5, NoResultAssumption DEF Undecided, Judged, NoVerify, Before
  <1>7. Executed(p)'
    BY <1>1, <1>2, <1>3, <1>4, <1>5 DEF Executed
  <1>8. Remembered(p)' /\ Named(p)'
    BY <1>3, <1>4 DEF Knows, Remembered, Named, WorldGoesOn
  <1>9. SameCode(p)'
    BY <1>2, <1>3, <1>4 DEF Knows, Remembered, SameCode, KeptUnderTheirHashes, Source
  <1>10. SameData(p)'
    BY <1>1, <1>3, <1>4 DEF Knows, SameData, Replaying
  <1> QED
    BY <1>6, <1>7, <1>8, <1>9, <1>10 DEF Knows

LEMMA KeepCopyKnows ==
    ASSUME Shapes, NEW p \in Procs, Knows(p), WorldGoesOn, KeepCopy(p)
    PROVE  Knows(p)'
  <1>1. /\ pc[p] = "keep_copy" /\ pc'[p] = "execute" /\ job' = job /\ datasets' = datasets
        /\ job[p].kept \in DOMAIN code'
    BY StepMoves DEF KeepCopy, Extend
  <1>2. job[p].result = NoResult /\ job[p].verdict = NoResult
    BY <1>1 DEF Knows, Undecided, Before
  <1> USE DEF Faithful, Excused, WorldGoesOn
  <1>3. Undecided(p)' /\ Judged(p)'
    BY <1>1, <1>2, NoResultAssumption DEF Undecided, Judged, NoVerify, Before
  <1>4. Executed(p)'
    BY <1>1, <1>2 DEF Executed
  <1>5. Remembered(p)' /\ Named(p)' /\ SameCode(p)'
    BY <1>1 DEF Knows, Remembered, Named, SameCode
  <1>6. SameData(p)'
    BY <1>1 DEF Knows, SameData, Replaying
  <1> QED
    BY <1>3, <1>4, <1>5, <1>6 DEF Knows

LEMMA ExecuteKnows ==
    ASSUME Shapes, KeptUnderTheirHashes, NEW p \in Procs, Knows(p), Execute(p)
    PROVE  Knows(p)'
  <1>1. /\ pc[p] = "execute" /\ pc'[p] = IF job[p].verifying THEN "compare" ELSE "mint"
        /\ UNCHANGED <<datasets, code, raced, touched>>
    BY StepMoves DEF Execute, storeVars
  <1>2. PICK value :
            /\ Let(p, "result", value)
            /\ \/ value = NoResult
               \/ /\ job[p].data \in DOMAIN datasets
                  /\ value = <<job[p].kept, job[p].sha256, code[job[p].kept],
                               datasets[job[p].data].data>>
    BY DEF Execute
  <1>3. /\ job'[p].result = value
        /\ \A field \in Fields \ {"result"} : job'[p][field] = job[p][field]
    BY <1>2, LetAssigns DEF Fields
  <1>4. /\ job'[p].verifying = job[p].verifying /\ job'[p].data = job[p].data
        /\ job'[p].code = job[p].code /\ job'[p].shifted = job[p].shifted
        /\ job'[p].kept = job[p].kept /\ job'[p].recorded = job[p].recorded
        /\ job'[p].verdict = job[p].verdict /\ job'[p].sha256 = job[p].sha256
    BY <1>3 DEF Fields
  <1>5. job[p].verdict = NoResult
    BY <1>1 DEF Knows, Undecided, Before
  <1>6. value # NoResult =>
            /\ value = <<job[p].kept, job[p].sha256, value[3], value[4]>>
            /\ value[3] = code[job[p].kept] /\ value[4] = datasets[job[p].data].data
            /\ job[p].data \in DOMAIN datasets
    BY <1>2
  <1>7. job[p].kept \in raced \/ code[job[p].kept] = job[p].kept
    BY <1>1 DEF Knows, Executed, KeptUnderTheirHashes
  <1> USE DEF Faithful, Excused
  <1>8. Undecided(p)' /\ Judged(p)'
    BY <1>1, <1>4, <1>5, NoResultAssumption DEF Undecided, Judged, NoVerify, Before
  <1>9. Executed(p)'
    BY <1>1, <1>3, <1>4, <1>6, <1>7 DEF Knows, Executed
  <1>10. Remembered(p)' /\ Named(p)' /\ SameCode(p)'
    BY <1>1, <1>4 DEF Knows, Remembered, Named, SameCode
  <1>11. SameData(p)'
    BY <1>1, <1>3, <1>4, <1>6 DEF Knows, SameData, Replaying
  <1> QED
    BY <1>8, <1>9, <1>10, <1>11 DEF Knows

LEMMA MintKnows ==
    ASSUME Shapes, NEW p \in Procs, Knows(p), Mint(p)
    PROVE  Knows(p)'
  <1>1. pc[p] = "mint" /\ pc'[p] = "record" /\ UNCHANGED <<datasets, code, raced, touched>>
    BY StepMoves DEF Mint, storeVars, Quietly, history
  <1>2. \A field \in Fields \ {"run_id"} : job'[p][field] = job[p][field]
    BY LetAssigns DEF Mint, Fields
  <1>3. /\ job'[p].verifying = job[p].verifying /\ job'[p].data = job[p].data
        /\ job'[p].code = job[p].code /\ job'[p].shifted = job[p].shifted
        /\ job'[p].kept = job[p].kept /\ job'[p].recorded = job[p].recorded
        /\ job'[p].verdict = job[p].verdict /\ job'[p].result = job[p].result
        /\ job'[p].sha256 = job[p].sha256
    BY <1>2 DEF Fields
  <1> USE DEF Faithful, Excused
  <1>4. Undecided(p)' /\ Judged(p)'
    BY <1>1, <1>3 DEF Knows, Undecided, Judged, NoVerify, Before
  <1>5. Executed(p)'
    BY <1>1, <1>3 DEF Knows, Executed
  <1>6. Remembered(p)' /\ Named(p)' /\ SameCode(p)' /\ SameData(p)'
    BY <1>1, <1>3 DEF Knows, Remembered, Named, SameCode, SameData, Replaying
  <1> QED
    BY <1>4, <1>5, <1>6 DEF Knows

(* find_run finds one of the records.                                        *)
LEMMA FoundIsRecorded ==
    ASSUME Shapes, NEW id \in {ledger[k].run_id : k \in RunLines}
    PROVE  \E k \in RunLines : FirstWithId(id) = ledger[k]
  <1> DEFINE T == {k \in RunLines : ledger[k].run_id = id}
  <1>1. T # {} /\ T \subseteq Nat
    BY DEF RunLines, Shapes
  <1>2. \E x \in T : \A y \in T : ~ (<<y, x>> \in OpToRel(<, Nat))
    BY <1>1, NatLessThanWellFounded, WFMin
  <1>3. \E x \in T : \A y \in T : x <= y
    <2>1. PICK x \in T : \A y \in T : ~ (<<y, x>> \in OpToRel(<, Nat))
      BY <1>2
    <2>2. ASSUME NEW y \in T PROVE x <= y
      <3>1. x \in Nat /\ y \in Nat
        BY <1>1, <2>1, <2>2
      <3>2. ~ (y < x)
        BY <2>1, <3>1 DEF OpToRel
      <3> QED
        BY <3>1, <3>2
    <2> QED
      BY <2>1, <2>2
  <1>4. Min(T) \in T
    BY <1>3 DEF Min
  <1> QED
    BY <1>4 DEF FirstWithId

LEMMA VerifyFindKnows ==
    ASSUME Shapes, KeptUnderTheirHashes, RecordsFaithful, NEW p \in Procs, VerifyFind(p)
    PROVE  Knows(p)'
  <1>1. pc'[p] = "verify_data" /\ UNCHANGED <<datasets, code, raced, touched>>
    BY StepMoves DEF VerifyFind, storeVars, Quietly, history
  <1>2. PICK id \in {ledger[k].run_id : k \in RunLines} :
            /\ FirstWithId(id).result # NoResult /\ FirstWithId(id).data \in DOMAIN datasets
            /\ job' = [job EXCEPT ![p] = Sought(id)]
    BY DEF VerifyFind, Sought
  <1>3. PICK k \in RunLines : FirstWithId(id) = ledger[k]
    BY FoundIsRecorded
  <1>4. job'[p] = Sought(id)
    BY <1>2 DEF Shapes
  <1>5. /\ job'[p].data = ledger[k].data /\ job'[p].code = ledger[k].code
        /\ job'[p].recorded = ledger[k].result /\ job'[p].result = NoResult
        /\ job'[p].verdict = NoResult /\ job'[p].sha256 = datasets[ledger[k].data].sha256
        /\ job'[p].verifying
    BY <1>3, <1>4 DEF Sought, NoJob
  <1>6. /\ ledger[k].result # NoResult /\ ledger[k].data \in DOMAIN datasets
        /\ ledger[k].code \in DOMAIN code
        /\ Faithful(ledger[k].result, ledger[k].code, ledger[k].data)
    BY <1>2, <1>3 DEF RecordsFaithful, Recorded
  <1>7. Undecided(p)' /\ Judged(p)'
    BY <1>1, <1>5, NoResultAssumption DEF Undecided, Judged, NoVerify, Before
  <1>8. Remembered(p)' /\ Named(p)'
    BY <1>1, <1>5, <1>6 DEF Remembered, Named, Faithful, KeptUnderTheirHashes
  <1>9. Executed(p)' /\ SameCode(p)' /\ SameData(p)'
    BY <1>1, <1>5, <1>6 DEF Executed, SameCode, SameData, Replaying, Faithful
  <1> QED
    BY <1>7, <1>8, <1>9 DEF Knows

LEMMA VerifyDataKnows ==
    ASSUME Shapes, KeptUnderTheirHashes, NEW p \in Procs, Knows(p), VerifyData(p)
    PROVE  Knows(p)'
  <1>1. pc[p] = "verify_data" /\ UNCHANGED <<datasets, code, raced, touched>>
    BY DEF VerifyData, storeVars, Quietly, history
  <1>2. job[p].result = NoResult /\ job[p].verdict = NoResult
    BY <1>1 DEF Knows, Undecided, Before
  <1> USE DEF Faithful, Excused
  <1>3. CASE Intact(job[p].data, job[p].sha256)
    <2>1. pc'[p] = "keep_hash" /\ job' = job
      BY <1>3, StepMoves DEF VerifyData
    <2>2. Undecided(p)' /\ Judged(p)'
      BY <1>2, <2>1, NoResultAssumption DEF Undecided, Judged, NoVerify, Before
    <2>3. Executed(p)' /\ Remembered(p)' /\ Named(p)' /\ SameCode(p)'
      BY <1>1, <2>1 DEF Knows, Executed, Remembered, Named, SameCode
    <2>4. SameData(p)'
      BY <1>1, <1>2, <1>3, <2>1 DEF SameData, Intact
    <2> QED
      BY <2>2, <2>3, <2>4 DEF Knows
  <1>4. CASE ~Intact(job[p].data, job[p].sha256)
    <2>1. pc'[p] = "told" /\ Let(p, "verdict", "TAMPERED")
      BY <1>4, StepMoves DEF VerifyData
    <2>2. /\ job'[p].verdict = "TAMPERED"
          /\ \A field \in Fields \ {"verdict"} : job'[p][field] = job[p][field]
      BY <2>1, LetAssigns DEF Fields
    <2>3. /\ job'[p].verifying = job[p].verifying /\ job'[p].data = job[p].data
          /\ job'[p].code = job[p].code /\ job'[p].shifted = job[p].shifted
          /\ job'[p].kept = job[p].kept /\ job'[p].recorded = job[p].recorded
          /\ job'[p].result = job[p].result /\ job'[p].sha256 = job[p].sha256
      BY <2>2 DEF Fields
    <2>4. job[p].data \in touched \union raced
      <3>1. job[p].verifying /\ job[p].data \in DOMAIN datasets \union touched
        BY <1>1 DEF Knows, Undecided, SameData
      <3>2. job[p].sha256 = job[p].data \/ job[p].data \in touched
        BY <3>1 DEF Knows, Named
      <3>3. ASSUME job[p].data \notin touched \union raced
            PROVE  datasets[job[p].data].data = job[p].data
        BY <3>1, <3>3 DEF KeptUnderTheirHashes, Manifested
      <3> QED
        BY <1>4, <3>1, <3>2, <3>3 DEF Intact
    <2>5. Undecided(p)' /\ Judged(p)'
      BY <1>1, <2>1, <2>2, <2>3, <2>4 DEF Undecided, Judged, NoVerify, Before
    <2>6. Executed(p)' /\ Remembered(p)' /\ Named(p)'
      BY <1>1, <2>1, <2>3 DEF Knows, Executed, Remembered, Named
    <2>7. SameCode(p)' /\ SameData(p)'
      BY <2>1, <2>3 DEF SameCode, SameData, Replaying
    <2> QED
      BY <2>5, <2>6, <2>7 DEF Knows
  <1> QED
    BY <1>3, <1>4

LEMMA CompareKnows ==
    ASSUME Shapes, NEW p \in Procs, Knows(p), Compare(p)
    PROVE  Knows(p)'
  <1>1. /\ pc[p] = "compare" /\ pc'[p] = "told" /\ UNCHANGED <<datasets, code, raced, touched>>
    BY StepMoves DEF Compare, storeVars, Quietly, history
  <1>2. /\ job'[p].verdict = IF job[p].result = job[p].recorded
                             THEN "REPRODUCED" ELSE "DIVERGED"
        /\ \A field \in Fields \ {"verdict"} : job'[p][field] = job[p][field]
    BY LetAssigns DEF Compare, Fields
  <1>3. /\ job'[p].verifying = job[p].verifying /\ job'[p].data = job[p].data
        /\ job'[p].code = job[p].code /\ job'[p].shifted = job[p].shifted
        /\ job'[p].kept = job[p].kept /\ job'[p].recorded = job[p].recorded
        /\ job'[p].result = job[p].result /\ job'[p].sha256 = job[p].sha256
    BY <1>2 DEF Fields
  <1> USE DEF Faithful
  <1>4. Undecided(p)'
    BY <1>1 DEF Undecided, NoVerify, Before
  <1>5. Executed(p)' /\ Remembered(p)' /\ Named(p)'
    BY <1>1, <1>3 DEF Knows, Executed, Remembered, Named
  <1>6. SameCode(p)' /\ SameData(p)'
    BY <1>1, <1>3 DEF SameCode, SameData, Replaying
  <1>7. job[p].verifying
    BY <1>1 DEF Knows, Undecided
  <1>8. /\ job[p].recorded = <<job[p].code, job[p].data, job[p].recorded[3],
                             job[p].recorded[4]>>
        /\ job[p].code \in raced \/ job[p].recorded[3] = job[p].code
    BY <1>7 DEF Knows, Remembered
  <1>9. job[p].result # NoResult =>
          /\ job[p].result = <<job[p].kept, job[p].sha256, job[p].result[3], job[p].result[4]>>
          /\ job[p].kept \in raced \/ job[p].result[3] = job[p].kept
    BY DEF Knows, Executed
  <1>10. job[p].code \in raced \/ job[p].kept = job[p].code
    BY <1>1, <1>7 DEF Knows, SameCode
  <1>11. job[p].result # NoResult => Excused(p) \/ job[p].result[4] = job[p].data
    BY <1>1, <1>7 DEF Knows, SameData
  <1>12. job[p].recorded # NoResult
    BY <1>7 DEF Knows, Remembered
  <1>13. job[p].recorded[1] = job[p].code /\ job[p].recorded[2] = job[p].data
    BY <1>8
  <1>14. Judged(p)'
    <2>1. CASE job[p].result = job[p].recorded
      <3>1. job[p].sha256 = job[p].data
        BY <1>9, <1>12, <1>13, <2>1
      <3>2. /\ job[p].code \in raced \/ job[p].recorded[3] = job[p].recorded[1]
            /\ \/ job[p].data \in raced \/ job[p].shifted
               \/ job[p].recorded[4] = job[p].recorded[2]
        BY <1>8, <1>11, <1>12, <1>13, <2>1, <3>1 DEF Excused
      <3> QED
        BY <1>1, <1>2, <1>3, <2>1, <3>2 DEF Judged
    <2>2. CASE job[p].result # job[p].recorded
      <3>1. \/ job[p].result = NoResult
            \/ job[p].recorded[4] # job[p].recorded[2]
            \/ job[p].code \in raced \/ Excused(p)
        <4> SUFFICES ASSUME job[p].result # NoResult, job[p].recorded[4] = job[p].data,
                            job[p].code \notin raced, ~Excused(p)
                     PROVE  job[p].result = job[p].recorded
          BY <1>13, <2>2
        <4>1. job[p].sha256 = job[p].data
          BY DEF Excused
        <4> QED
          BY <1>8, <1>9, <1>10, <1>11, <4>1
      <3>2. job[p].sha256 = job[p].data \/ job[p].data \in touched
        BY <1>7 DEF Knows, Named
      <3>3. \/ job[p].result = NoResult
            \/ job[p].recorded[4] # job[p].recorded[2]
            \/ {job[p].code, job[p].data} \intersect raced # {}
            \/ job[p].shifted
            \/ job[p].sha256 # job[p].data /\ job[p].data \in touched
        BY <3>1, <3>2 DEF Excused
      <3> QED
        BY <1>1, <1>2, <1>3, <2>2, <3>3 DEF Judged
    <2> QED
      BY <2>1, <2>2
  <1> QED
    BY <1>4, <1>5, <1>6, <1>14 DEF Knows

LEMMA ListKnows ==
    ASSUME Shapes, NEW p \in Procs, Knows(p), LsDisk(p) \/ LsPrint(p)
    PROVE  Knows(p)'
  <1>1. CASE LsDisk(p)
    <2>1. pc'[p] = "ls_print"
      BY <1>1, StepMoves DEF LsDisk
    <2>2. \E on_disk : job'[p] = Listing(on_disk)
      BY <1>1 DEF LsDisk, Listing, Shapes
    <2>3. ~job'[p].verifying /\ job'[p].result = NoResult /\ job'[p].verdict = NoResult
      BY <2>2 DEF Listing, NoJob
    <2> QED
      BY <2>1, <2>3, IdleKnows
  <1>2. CASE LsPrint(p)
    <2>1. pc[p] = "ls_print" /\ pc'[p] = "told"
      BY <1>2, StepMoves DEF LsPrint
    <2>2. PICK m, a : job' = [job EXCEPT ![p] = [job[p] EXCEPT !.missing = m, !.altered = a]]
      BY <1>2 DEF LsPrint
    <2>3. /\ job'[p].verifying = job[p].verifying /\ job'[p].result = job[p].result
          /\ job'[p].verdict = job[p].verdict
      BY <2>2 DEF Shapes, Fields
    <2>4. ~job[p].verifying /\ job[p].result = NoResult /\ job[p].verdict = NoResult
      BY <2>1 DEF Knows, Undecided, NoVerify, Before
    <2>5. ~job'[p].verifying /\ job'[p].result = NoResult /\ job'[p].verdict = NoResult
      BY <2>3, <2>4
    <2> QED
      BY <2>1, <2>5, IdleKnows
  <1> QED
    BY <1>1, <1>2

LEMMA FinishKnows ==
    ASSUME Shapes, NEW p \in Procs, Finish(p)
    PROVE  Knows(p)'
  <1>1. pc'[p] = "idle" /\ job'[p] = NoJob
    BY FinishIdles
  <1>2. ~job'[p].verifying /\ job'[p].result = NoResult /\ job'[p].verdict = NoResult
    BY <1>1 DEF NoJob
  <1> QED
    BY <1>1, <1>2, IdleKnows

LEMMA NextKnows ==
    ASSUME Shapes, KeptUnderTheirHashes, RecordsFaithful, \A q \in Procs : Knows(q),
           [Next]_vars, NEW p \in Procs
    PROVE  Knows(p)'
  <1>1. Knows(p) /\ WorldGoesOn /\ (~Tamper => SoundStaySound)
    BY NextGoesOn
  <1>2. CASE Tamper
    BY <1>1, <1>2, TamperKnows
  <1>3. ASSUME SoundStaySound, Verb(p) PROVE Knows(p)'
    <2>1. CASE SealMeasure(p) \/ SealHash(p) \/ SealPublish(p) \/ SealLoad(p) \/ RunResolve(p)
      BY <1>1, <2>1, SealKnows
    <2>2. CASE KeepHash(p)
      BY <1>1, <1>3, <2>2, KeepHashKnows
    <2>3. CASE KeepCopy(p)
      BY <1>1, <2>3, KeepCopyKnows
    <2>4. CASE Execute(p)
      BY <1>1, <2>4, ExecuteKnows
    <2>5. CASE Mint(p)
      BY <1>1, <2>5, MintKnows
    <2>6. CASE VerifyFind(p)
      BY <2>6, VerifyFindKnows
    <2>7. CASE VerifyData(p)
      BY <1>1, <2>7, VerifyDataKnows
    <2>8. CASE Compare(p)
      BY <1>1, <2>8, CompareKnows
    <2>9. CASE LsDisk(p) \/ LsPrint(p)
      BY <1>1, <2>9, ListKnows
    <2>10. CASE Register(p) \/ SealAgain(p) \/ Record(p) \/ Told(p)
      BY <2>10, FinishKnows DEF Register, SealAgain, Record, Told
    <2> QED
      BY <1>3, <2>1, <2>2, <2>3, <2>4, <2>5, <2>6, <2>7, <2>8, <2>9, <2>10
         DEF Verb, SealStep, KeepStep
  <1>4. CASE Crash(p)
    BY <1>4, FinishKnows DEF Crash
  <1>5. ASSUME SoundStaySound, NEW q \in Procs \ {p}, Verb(q) \/ Crash(q) PROVE Knows(p)'
    <2>1. pc'[p] = pc[p] /\ job'[p] = job[p]
      BY <1>5, OthersStay, FinishIdles DEF Crash
    <2> QED
      BY <1>1, <1>5, <2>1, BystanderKnows
  <1>6. ASSUME SoundStaySound,
               EditJournal \/ EditStrategy \/ Delete \/ TamperManifest \/ UNCHANGED vars
        PROVE  Knows(p)'
    <2>1. UNCHANGED <<pc, job>>
      BY <1>6 DEF EditJournal, EditStrategy, Delete, TamperManifest, Touch, vars
    <2> QED
      BY <1>1, <1>6, <2>1, BystanderKnows
  <1> QED
    BY <1>1, <1>2, <1>3, <1>4, <1>5, <1>6 DEF Next

LEMMA NextRecords ==
    ASSUME Shapes, RecordsFaithful, \A q \in Procs : Knows(q), [Next]_vars
    PROVE  RecordsFaithful'
  <1>1. WorldGoesOn
    BY NextGoesOn
  <1>0. ASSUME NEW entry, Recorded(entry) PROVE Recorded(entry)'
    BY <1>0, <1>1 DEF Recorded, Faithful, WorldGoesOn
  <1>2. CASE ledger' = ledger
    <2>1. \A k \in RunLines : Recorded(ledger[k])'
      BY <1>0, <1>1, <1>2 DEF RecordsFaithful, Recorded, Faithful, WorldGoesOn
    <2> QED
      BY <1>2, <2>1 DEF RecordsFaithful, RunLines
  <1>3. ASSUME NEW entry, ledger' = Append(ledger, entry),
               entry.kind = "run" => Recorded(entry)
        PROVE  RecordsFaithful'
    <2>1. /\ Len(ledger) \in Nat /\ DOMAIN ledger = 1..Len(ledger)
          /\ DOMAIN ledger' = 1..(Len(ledger) + 1)
          /\ \A k \in DOMAIN ledger : ledger'[k] = ledger[k]
          /\ ledger'[Len(ledger) + 1] = entry
      BY <1>3, AppendGrows DEF Shapes
    <2>2. ASSUME NEW k \in RunLines' PROVE Recorded(ledger[k])'
      <3>0. k \in DOMAIN ledger' /\ ledger'[k].kind = "run"
        BY <2>2 DEF RunLines
      <3>1. CASE k \in DOMAIN ledger
        <4>1. Recorded(ledger[k]) /\ ledger'[k] = ledger[k]
          BY <2>1, <3>0, <3>1 DEF RecordsFaithful, RunLines
        <4> QED
          BY <1>1, <4>1 DEF Recorded, Faithful, WorldGoesOn
      <3>2. CASE k = Len(ledger) + 1
        <4>1. Recorded(entry) /\ ledger'[k] = entry
          BY <1>3, <2>1, <3>0, <3>2
        <4> QED
          BY <1>1, <4>1 DEF Recorded, Faithful, WorldGoesOn
      <3> QED
        BY <2>1, <3>0, <3>1, <3>2
    <2> QED
      BY <2>2 DEF RecordsFaithful
  <1>4. ASSUME NEW p \in Procs, Record(p) PROVE RecordsFaithful'
    <2> DEFINE entry == [kind |-> "run", run_id |-> job[p].run_id, data |-> job[p].sha256,
                         code |-> job[p].kept, result |-> job[p].result]
    <2>1. pc[p] = "record" /\ ledger' = Append(ledger, entry)
      BY <1>4 DEF Record
    <2>2. job[p].kept \in DOMAIN code /\ Faithful(job[p].result, job[p].kept, job[p].sha256)
      BY <2>1 DEF Knows, Executed
    <2>3. entry.code = job[p].kept /\ entry.result = job[p].result /\ entry.data = job[p].sha256
      OBVIOUS
    <2>4. Recorded(entry)
      BY <2>2, <2>3 DEF Recorded
    <2> HIDE DEF entry
    <2> QED
      BY <1>3, <2>1, <2>4
  <1>5. ASSUME NEW p \in Procs, Register(p) PROVE RecordsFaithful'
    <2> DEFINE entry == [kind |-> "dataset", sha256 |-> job[p].sha256]
    <2>1. ledger' = Append(ledger, entry) /\ entry.kind # "run"
      BY <1>5 DEF Register
    <2> HIDE DEF entry
    <2> QED
      BY <1>3, <2>1
  <1>6. ASSUME NEW p \in Procs, Verb(p) PROVE RecordsFaithful'
    BY <1>2, <1>4, <1>5, <1>6, VerbLedger
  <1>7. ASSUME NEW p \in Procs, Crash(p) PROVE ledger' = ledger
    BY <1>7 DEF Crash
  <1>8. CASE \/ EditJournal \/ EditStrategy \/ Delete \/ Tamper \/ TamperManifest
             \/ UNCHANGED vars
    BY <1>2, <1>8 DEF EditJournal, EditStrategy, Delete, Tamper, TamperManifest, Touch, vars
  <1> QED
    BY <1>2, <1>6, <1>7, <1>8 DEF Next

Inv ==
    /\ Shapes /\ KeptUnderTheirHashes
    /\ RecordsFaithful /\ \A p \in Procs : Knows(p)

LEMMA InitInv == Init => Inv
  <1> SUFFICES ASSUME Init PROVE Inv
    OBVIOUS
  <1>1. RecordsFaithful
    BY DEF Init, RecordsFaithful, RunLines
  <1>2. ASSUME NEW p \in Procs PROVE Knows(p)
    <2>1. pc[p] = "idle" /\ job[p] = NoJob
      BY DEF Init
    <2>2. ~job[p].verifying /\ job[p].result = NoResult /\ job[p].verdict = NoResult
      BY <2>1 DEF NoJob
    <2> QED
      BY <2>1, <2>2, NoResultAssumption
         DEF Knows, Undecided, Executed, Remembered, Named, SameCode, SameData, Judged,
             Faithful, Replaying
  <1> QED
    BY <1>1, <1>2, InitShapes, InitKept DEF Inv

LEMMA NextInv == Inv /\ [Next]_vars => Inv'
  <1> SUFFICES ASSUME Inv, [Next]_vars PROVE Inv'
    OBVIOUS
  <1>1. Shapes' /\ KeptUnderTheirHashes'
    BY NextShapes, NextKept DEF Inv
  <1>2. RecordsFaithful'
    BY NextRecords DEF Inv
  <1>3. ASSUME NEW p \in Procs PROVE Knows(p)'
    BY NextKnows DEF Inv
  <1> QED
    BY <1>1, <1>2, <1>3 DEF Inv

(* The records are faithful and every verb knows what it goes by: what the   *)
(* two theorems below are read from.                                         *)
THEOREM InvHolds == Spec => []Inv
  BY InitInv, NextInv, PTL DEF Spec

(* verify blames nobody without a cause, however many verbs run at once and  *)
(* wherever they are stopped.  (verify.py 87-145)                            *)
THEOREM BlameAlwaysHasACause == Spec => []BlameHasACause
  <1>1. Inv => BlameHasACause
    BY DEF Inv, Knows, Judged, BlameHasACause
  <1> QED
    BY <1>1, InvHolds, PTL

(* What reproduces is what its record says.  (verify.py 87-145)              *)
THEOREM ReproducedIsAlwaysGenuine == Spec => []ReproducedIsGenuine
  <1>1. Inv => ReproducedIsGenuine
    BY DEF Inv, Knows, Judged, ReproducedIsGenuine
  <1> QED
    BY <1>1, InvHolds, PTL

-----------------------------------------------------------------------------
(* Why listings are true: what was sealed is on disk or was touched, what    *)
(* ls owes its user it will find in the ledger, and what it has seen on disk *)
(* it will find there, or touched, when it hashes it.                        *)
There == DOMAIN datasets \union touched

NothingListed(p) == job[p].owed = {} /\ job[p].missing = {} /\ job[p].altered = {}

TrueListing(p) ==
    /\ job[p].owed \subseteq DOMAIN job[p].seen \union job[p].missing
    /\ job[p].missing \intersect job[p].owed \subseteq touched
    /\ \A h \in job[p].altered : job[p].seen[h] \in touched \union raced

(* What ls has found on disk, under the hashes that the manifests gave.       *)
Seen(p) ==
    \A h \in DOMAIN job[p].seen :
        /\ job[p].seen[h] \in There
        /\ job[p].seen[h] = h \/ job[p].seen[h] \in touched

Lists(p) ==
    /\ pc[p] \in {"seal_load", "register"} => job[p].data \in There
    /\ pc[p] = "ls_print" =>
          /\ job[p].owed \subseteq Registered
          /\ job[p].owed \subseteq DOMAIN job[p].seen \union touched
          /\ Seen(p)
    /\ pc[p] = "told" => TrueListing(p)
    /\ pc[p] \notin {"ls_print", "told"} => NothingListed(p)

ListInv == sealed \subseteq There /\ \A p \in Procs : Lists(p)

LEMMA IdleLists ==
    ASSUME NEW p \in Procs, pc'[p] = "idle", job'[p] = NoJob
    PROVE  Lists(p)'
  <1>1. job'[p].owed = {} /\ job'[p].missing = {} /\ job'[p].altered = {}
    BY DEF NoJob
  <1> QED
    BY <1>1 DEF Lists, NothingListed

LEMMA ThereGrows ==
    ASSUME Shapes, [Next]_vars
    PROVE  /\ There \subseteq There' /\ touched \subseteq touched' /\ raced \subseteq raced'
           /\ Registered \subseteq Registered'
  <1>1. There \subseteq There' /\ touched \subseteq touched' /\ raced \subseteq raced'
    BY NextGoesOn DEF There, WorldGoesOn
  <1>2. ASSUME NEW p \in Procs, Verb(p) PROVE Registered \subseteq Registered'
    BY <1>2, VerbLedger, RegisteredGrows
  <1>3. CASE ledger' = ledger
    BY <1>1, <1>3, RegisteredGrows
  <1>4. ASSUME NEW p \in Procs, Crash(p) PROVE ledger' = ledger
    BY <1>4 DEF Crash
  <1>5. CASE \/ EditJournal \/ EditStrategy \/ Delete \/ Tamper \/ TamperManifest
             \/ UNCHANGED vars
    BY <1>1, <1>3, <1>5
       DEF EditJournal, EditStrategy, Delete, Tamper, TamperManifest, Touch, vars
  <1> QED
    BY <1>1, <1>2, <1>3, <1>4, <1>5 DEF Next

LEMMA BystanderLists ==
    ASSUME Shapes, [Next]_vars, NEW p \in Procs, Lists(p), pc'[p] = pc[p],
           /\ job'[p].data = job[p].data /\ job'[p].owed = job[p].owed
           /\ job'[p].seen = job[p].seen
           /\ job'[p].missing = job[p].missing /\ job'[p].altered = job[p].altered
    PROVE  Lists(p)'
  <1>1. /\ There \subseteq There' /\ touched \subseteq touched' /\ raced \subseteq raced'
        /\ Registered \subseteq Registered'
    BY ThereGrows
  <1> QED
    BY <1>1 DEF Lists, NothingListed, TrueListing, Seen

(* A step of any verb but ls.                                                *)
LEMMA OtherVerbLists ==
    ASSUME Shapes, NEW p \in Procs, Lists(p), Verb(p), [Next]_vars,
           ~LsDisk(p), ~LsPrint(p)
    PROVE  Lists(p)'
  <1>1. CASE Register(p) \/ SealAgain(p) \/ Record(p) \/ Told(p)
    <2>1. Finish(p)
      BY <1>1 DEF Register, SealAgain, Record, Told
    <2> QED
      BY <2>1, FinishIdles, IdleLists
  <1>2. CASE VerifyFind(p)
    <2>1. pc'[p] = "verify_data"
      BY <1>2, StepMoves DEF VerifyFind
    <2>2. \E id : job'[p] = Sought(id)
      BY <1>2 DEF VerifyFind, Sought, Shapes
    <2>3. job'[p].owed = {} /\ job'[p].missing = {} /\ job'[p].altered = {}
      BY <2>2 DEF Sought, NoJob
    <2> QED
      BY <2>1, <2>3 DEF Lists, NothingListed
  <1>3. CASE \/ SealMeasure(p) \/ SealHash(p) \/ SealPublish(p) \/ SealLoad(p)
             \/ RunResolve(p) \/ KeepHash(p) \/ KeepCopy(p) \/ Execute(p) \/ Mint(p)
             \/ VerifyData(p) \/ Compare(p)
    <2> DEFINE Others == {"bytes", "data", "sha256", "kept", "result", "run_id", "verdict"}
    <2>1. \/ UNCHANGED job
          \/ \E name \in Others : \E value : Let(p, name, value)
          \/ \E d, h : job' = [job EXCEPT ![p] = [job[p] EXCEPT !.data = d, !.sha256 = h]]
      <3>1. CASE SealMeasure(p) \/ SealHash(p) \/ SealPublish(p) \/ SealLoad(p)
        BY <3>1 DEF SealMeasure, SealHash, SealPublish, SealLoad
      <3>2. CASE RunResolve(p) \/ KeepHash(p) \/ KeepCopy(p)
        BY <3>2 DEF RunResolve, KeepHash, KeepCopy
      <3>3. CASE Execute(p) \/ Mint(p)
        BY <3>3 DEF Execute, Mint
      <3>4. CASE VerifyData(p) \/ Compare(p)
        BY <3>4 DEF VerifyData, Compare
      <3> QED
        BY <1>3, <3>1, <3>2, <3>3, <3>4
    <2>2. \A field \in Fields \ Others : job'[p][field] = job[p][field]
      <3>1. Others \subseteq Fields
        BY DEF Fields
      <3>2. CASE \E d, h : job' = [job EXCEPT ![p] = [job[p] EXCEPT !.data = d, !.sha256 = h]]
        BY <3>2 DEF Shapes
      <3>3. CASE \E name \in Others : \E value : Let(p, name, value)
        BY <3>1, <3>3, LetAssigns
      <3> QED
        BY <2>1, <3>2, <3>3
    <2>3. job'[p].owed = job[p].owed /\ job'[p].missing = job[p].missing
          /\ job'[p].altered = job[p].altered
      BY <2>2 DEF Fields
    <2>0. RunResolve(p) => pc[p] = "idle" /\ pc'[p] = "keep_hash"
      BY StepMoves DEF RunResolve
    <2>4. pc[p] \notin {"ls_print", "told"} /\ pc'[p] # "ls_print"
      BY <1>3, <2>0, StepMoves
         DEF SealMeasure, SealHash, SealPublish, SealLoad, KeepHash, KeepCopy,
             Execute, Mint, VerifyData, Compare, Shapes
    <2>5. job'[p].owed = {} /\ job'[p].missing = {} /\ job'[p].altered = {}
      BY <2>3, <2>4 DEF Lists, NothingListed
    <2>6. pc'[p] \in {"seal_load", "register"} => job'[p].data \in There'
      <3>1. CASE SealPublish(p)
        BY <3>1 DEF SealPublish, Extend, There, Shapes, Step
      <3>2. CASE SealLoad(p)
        <4>1. pc[p] = "seal_load" /\ There \subseteq There'
          BY <3>2, ThereGrows DEF SealLoad, Step
        <4>2. job'[p].data = job[p].data
          <5>1. CASE job' = job
            BY <5>1
          <5>2. ASSUME NEW value, Let(p, "sha256", value) PROVE job'[p].data = job[p].data
            BY <5>2, LetAssigns DEF Fields
          <5> QED
            BY <3>2, <5>1, <5>2 DEF SealLoad
        <4> QED
          BY <4>1, <4>2 DEF Lists
      <3>3. CASE ~SealPublish(p) /\ ~SealLoad(p)
        <4>1. pc'[p] \notin {"seal_load", "register"}
          BY <1>3, <2>0, <3>3, StepMoves
             DEF SealMeasure, SealHash, KeepHash, KeepCopy, Execute, Mint, VerifyData,
                 Compare, Shapes
        <4> QED
          BY <4>1
      <3> QED
        BY <3>1, <3>2, <3>3
    <2> QED
      BY <2>4, <2>5, <2>6 DEF Lists, NothingListed, TrueListing
  <1> QED
    BY <1>1, <1>2, <1>3 DEF Verb, SealStep, KeepStep

LEMMA LsLists ==
    ASSUME Shapes, KeptUnderTheirHashes, Accounted, sealed \subseteq There,
           NEW p \in Procs, Lists(p), LsDisk(p) \/ LsPrint(p)
    PROVE  Lists(p)'
  <1>1. UNCHANGED <<datasets, touched, raced, ledger>>
    BY DEF LsDisk, LsPrint, storeVars, Quietly, history
  <1>2. CASE LsDisk(p)
    <2>1. pc'[p] = "ls_print"
      BY <1>2, StepMoves DEF LsDisk
    <2>2. PICK on_disk \in OnDisk : job'[p] = Listing(on_disk)
      BY <1>2 DEF LsDisk, Listing, Shapes
    <2>3. /\ job'[p].seen = on_disk
          /\ job'[p].owed = sealed \ (orphaned \union Unrecorded)
      BY <2>2 DEF Listing, NoJob
    <2>4. Registered' = Registered /\ There' = There
      BY <1>1 DEF Registered, RunLines, There
    <2>5. /\ DOMAIN on_disk = {datasets[d].sha256 : d \in DOMAIN datasets}
          /\ \A h \in DOMAIN on_disk :
                on_disk[h] \in DOMAIN datasets /\ datasets[on_disk[h]].sha256 = h
      BY <2>2 DEF OnDisk
    <2>6. \A d \in DOMAIN datasets \ touched : datasets[d].sha256 = d
      BY DEF KeptUnderTheirHashes
    <2>7. job'[p].owed \subseteq Registered' /\ job'[p].owed \subseteq There
      BY <2>3, <2>4 DEF Accounted, Known
    <2>8. There \subseteq DOMAIN on_disk \union touched
      BY <2>5, <2>6 DEF There
    <2>9. Seen(p)'
      BY <1>1, <2>3, <2>4, <2>5, <2>6 DEF Seen, There
    <2> QED
      BY <1>1, <2>1, <2>3, <2>7, <2>8, <2>9 DEF Lists
  <1>3. CASE LsPrint(p)
    <2>1. pc[p] = "ls_print" /\ pc'[p] = "told"
      BY <1>3, StepMoves DEF LsPrint
    <2>2. job'[p] = [job[p] EXCEPT !.missing = Registered \ DOMAIN job[p].seen,
                                   !.altered = Altered(p)]
      BY <1>3 DEF LsPrint, Shapes
    <2>3. /\ job'[p].missing = Registered \ DOMAIN job[p].seen
          /\ job'[p].altered = Altered(p)
          /\ job'[p].seen = job[p].seen /\ job'[p].owed = job[p].owed
      BY <2>2 DEF Shapes, Fields
    <2>4. /\ job[p].owed \subseteq Registered
          /\ job[p].owed \subseteq DOMAIN job[p].seen \union touched
          /\ Seen(p)
      BY <2>1 DEF Lists
    <2>5. ASSUME NEW h \in Altered(p) PROVE job[p].seen[h] \in touched \union raced
      <3>1. h \in DOMAIN job[p].seen /\ ~Intact(job[p].seen[h], h)
        BY <2>5 DEF Altered
      <3>2. job[p].seen[h] \in DOMAIN datasets \union touched
            /\ (job[p].seen[h] = h \/ job[p].seen[h] \in touched)
        BY <2>4, <3>1 DEF Seen, There
      <3>3. ASSUME job[p].seen[h] \notin touched \union raced
            PROVE  datasets[job[p].seen[h]].data = job[p].seen[h]
        BY <3>2, <3>3 DEF KeptUnderTheirHashes, Manifested
      <3> QED
        BY <3>1, <3>2, <3>3 DEF Intact
    <2>6. TrueListing(p)'
      BY <1>1, <2>3, <2>4, <2>5 DEF TrueListing
    <2> QED
      BY <2>1, <2>6 DEF Lists
  <1> QED
    BY <1>2, <1>3

LEMMA NextLists ==
    ASSUME Shapes, KeptUnderTheirHashes, Accounted, ListInv, [Next]_vars
    PROVE  ListInv'
  <1>0. There \subseteq There'
    BY ThereGrows
  <1>1. sealed' \subseteq There'
    <2>1. ASSUME NEW p \in Procs, Register(p) PROVE sealed' \subseteq There'
      BY <1>0, <2>1 DEF Register, ListInv, Lists
    <2>2. ASSUME NEW p \in Procs, SealAgain(p) PROVE sealed' \subseteq There'
      BY <1>0, <2>2 DEF SealAgain, ListInv, There
    <2>3. ASSUME NEW p \in Procs, Verb(p) \/ Crash(p), ~Register(p), ~SealAgain(p)
          PROVE  sealed' = sealed
      BY <2>3 DEF Verb, Crash, SealStep, RunResolve, KeepStep, Execute, Mint, Record,
                  VerifyFind, VerifyData, Compare, Told, LsDisk, LsPrint, Quietly, history
    <2>4. CASE \/ EditJournal \/ EditStrategy \/ Delete \/ Tamper \/ TamperManifest
               \/ UNCHANGED vars
      BY <1>0, <2>4 DEF EditJournal, EditStrategy, Delete, Tamper, TamperManifest, Touch,
                        vars, history, ListInv
    <2> QED
      BY <1>0, <2>1, <2>2, <2>3, <2>4 DEF Next, ListInv
  <1>2. ASSUME NEW p \in Procs PROVE Lists(p)'
    <2>0. Lists(p)
      BY DEF ListInv
    <2>1. CASE LsDisk(p) \/ LsPrint(p)
      BY <2>0, <2>1, LsLists DEF ListInv
    <2>2. CASE Verb(p) /\ ~LsDisk(p) /\ ~LsPrint(p)
      BY <2>0, <2>2, OtherVerbLists
    <2>3. CASE Crash(p)
      BY <2>3, FinishIdles, IdleLists DEF Crash
    <2>4. ASSUME NEW q \in Procs \ {p}, Verb(q) \/ Crash(q) PROVE Lists(p)'
      <3>1. pc'[p] = pc[p] /\ job'[p] = job[p]
        BY <2>4, OthersStay, FinishIdles DEF Crash
      <3> QED
        BY <2>0, <3>1, BystanderLists
    <2>5. CASE Tamper
      <3>1. pc' = pc
        BY <2>5 DEF Tamper, Touch
      <3>2. job'[p] = job[p] \/ job'[p] = [job[p] EXCEPT !.shifted = TRUE]
        BY <2>5 DEF Tamper
      <3>3. /\ job'[p].data = job[p].data /\ job'[p].owed = job[p].owed
            /\ job'[p].seen = job[p].seen
            /\ job'[p].missing = job[p].missing /\ job'[p].altered = job[p].altered
        BY <3>2 DEF Shapes, Fields
      <3> QED
        BY <2>0, <3>1, <3>3, BystanderLists
    <2>6. CASE EditJournal \/ EditStrategy \/ Delete \/ TamperManifest \/ UNCHANGED vars
      <3>1. UNCHANGED <<pc, job>>
        BY <2>6 DEF EditJournal, EditStrategy, Delete, TamperManifest, Touch, vars
      <3> QED
        BY <2>0, <3>1, BystanderLists
    <2> QED
      BY <2>1, <2>2, <2>3, <2>4, <2>5, <2>6 DEF Next, Verb
  <1> QED
    BY <1>1, <1>2 DEF ListInv

LEMMA InitLists == Init => ListInv
  <1> SUFFICES ASSUME Init PROVE ListInv
    OBVIOUS
  <1>1. ASSUME NEW p \in Procs PROVE Lists(p)
    <2>1. pc[p] = "idle" /\ job[p] = NoJob
      BY DEF Init
    <2>2. job[p].owed = {} /\ job[p].missing = {} /\ job[p].altered = {}
      BY <2>1 DEF NoJob
    <2> QED
      BY <2>1, <2>2 DEF Lists, NothingListed
  <1>2. sealed \subseteq There
    BY DEF Init
  <1> QED
    BY <1>1, <1>2 DEF ListInv

(* ls is true of what was sealed before it began, whatever goes on while it  *)
(* reads the disk and then the ledger.  (commands.py 82-120)                 *)
THEOREM ListingsAreTrue == Spec => []ListingIsTrue
  <1>1. ListInv => ListingIsTrue
    BY DEF ListInv, Lists, TrueListing, ListingIsTrue
  <1>2. Init => Shapes /\ KeptUnderTheirHashes /\ Accounted /\ ListInv
    BY InitShapes, InitKept, InitAccounted, InitLists
  <1>3. Shapes /\ KeptUnderTheirHashes /\ Accounted /\ ListInv /\ [Next]_vars
            => (Shapes /\ KeptUnderTheirHashes /\ Accounted /\ ListInv)'
    BY NextShapes, NextKept, NextAccounted, NextLists
  <1> QED
    BY <1>1, <1>2, <1>3, PTL DEF Spec

=============================================================================
