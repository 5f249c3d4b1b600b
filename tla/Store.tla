-------------------------------- MODULE Store --------------------------------
(***************************************************************************)
(* `store.py`: the content-addressed store under ~/.sbx, shared by every    *)
(* sbx process and filled from files their users go on editing.             *)
(*                                                                          *)
(* The contents of a file are a value, and its SHA-256 digest is that value *)
(* too: two contents have one digest only if they are equal.  Staging       *)
(* directories are invisible to every reader of the store, so copying into  *)
(* one and renaming it into place is a single step that reads the source.   *)
(***************************************************************************)
EXTENDS Naturals, Sequences

CONSTANTS
    Procs,          \* sbx processes
    Journals,       \* contents a journal file may have
    Strategies      \* contents a strategy file may have

Contents == Journals \union Strategies

VARIABLES
    journalFile,    \* contents of the journal the users seal
    strategyFile,   \* contents of the strategy the users run
    datasets,       \* digest -> what its directory holds: the data, and the size
                    \* and the hash that its manifest gives them
    code,           \* digest -> contents: the kept strategies
    raced,          \* history: digests published from a source that was edited
                    \* after it had been measured or hashed
    pc,             \* where in its verb each process stands
    job             \* the local variables of that verb

storeVars == <<journalFile, strategyFile, datasets, code, raced>>

StoreInit ==
    /\ journalFile \in Journals
    /\ strategyFile \in Strategies
    /\ datasets = <<>>
    /\ code = <<>>
    /\ raced = {}

Step(p, from, to) ==
    /\ pc[p] = from
    /\ pc' = [pc EXCEPT ![p] = to]

(* Assign one local variable.                                                *)
Let(p, name, value) == job' = [job EXCEPT ![p][name] = value]

Extend(map, key, value) ==
    [k \in DOMAIN map \union {key} |-> IF k = key THEN value ELSE map[k]]

Manifested(bytes, sha256, data) == [bytes |-> bytes, sha256 |-> sha256, data |-> data]

-----------------------------------------------------------------------------
(* seal().                                                                   *)

(* source.stat()                                                             *)
SealMeasure(p) ==
    /\ Step(p, "idle", "seal_hash")
    /\ Let(p, "bytes", journalFile)
    /\ UNCHANGED storeVars

(* hash_file(source); a digest the store has is loaded, not copied.          *)
SealHash(p) ==
    /\ Step(p, "seal_hash",
            IF journalFile \in DOMAIN datasets THEN "seal_again" ELSE "seal_publish")
    /\ Let(p, "data", journalFile)
    /\ UNCHANGED storeVars

(* Faulty SealPublish: the caller is not told who created the dataset.       *)
SealPublishUnnoticed(p) ==
    /\ Step(p, "seal_publish", "seal_again")
    /\ datasets' = IF job[p].data \in DOMAIN datasets THEN datasets
                   ELSE Extend(datasets, job[p].data,
                               Manifested(job[p].bytes, job[p].data, journalFile))
    /\ raced' = IF {job[p].bytes, journalFile} = {job[p].data} THEN raced
                ELSE raced \union {job[p].data}
    /\ UNCHANGED <<job, journalFile, strategyFile, code>>

(* Copy, write the manifest, rename; the rename fails on a directory that    *)
(* another sealer has put there since.                                       *)
SealPublish(p) ==
    /\ pc[p] = "seal_publish"
    /\ IF job[p].data \in DOMAIN datasets
       THEN Step(p, "seal_publish", "seal_again") /\ UNCHANGED <<datasets, raced>>
       ELSE /\ Step(p, "seal_publish", "seal_load")
            /\ datasets' = Extend(datasets, job[p].data,
                                  Manifested(job[p].bytes, job[p].data, journalFile))
            /\ raced' = IF {job[p].bytes, journalFile} = {job[p].data} THEN raced
                        ELSE raced \union {job[p].data}
    /\ UNCHANGED <<job, journalFile, strategyFile, code>>

(* load(digest) of what this process has just created: its hash is the one   *)
(* in the manifest.  It may be gone.                                         *)
SealLoad(p) ==
    /\ \/ /\ job[p].data \in DOMAIN datasets
          /\ Step(p, "seal_load", "register")
          /\ Let(p, "sha256", datasets[job[p].data].sha256)
       \/ /\ job[p].data \notin DOMAIN datasets
          /\ Step(p, "seal_load", "idle")
          /\ UNCHANGED job
    /\ UNCHANGED storeVars

-----------------------------------------------------------------------------
(* keep_code(), of the user's strategy or of a strategy already kept.        *)

(* Faulty Source: verify re-runs the file the user has now.                  *)
SourceNow(p) == strategyFile

Source(p) == IF job[p].verifying THEN code[job[p].code] ELSE strategyFile

(* Faulty KeepHash: the directory is made before there is anything in it.    *)
KeepHashMakingRoom(p) ==
    /\ pc[p] = "keep_hash"
    /\ LET digest == Source(p) IN
        /\ pc' = [pc EXCEPT ![p] = IF digest \in DOMAIN code THEN "execute" ELSE "keep_copy"]
        /\ Let(p, "kept", digest)
        /\ code' = IF digest \in DOMAIN code THEN code ELSE Extend(code, digest, "nothing")
    /\ UNCHANGED <<journalFile, strategyFile, datasets, raced>>

KeepHash(p) ==
    /\ pc[p] = "keep_hash"
    /\ LET digest == Source(p) IN
        /\ pc' = [pc EXCEPT ![p] = IF digest \in DOMAIN code THEN "execute" ELSE "keep_copy"]
        /\ Let(p, "kept", digest)
    /\ UNCHANGED storeVars

KeepCopy(p) ==
    /\ Step(p, "keep_copy", "execute")
    /\ code' = Extend(code, job[p].kept, Source(p))
    /\ raced' = IF Source(p) = job[p].kept THEN raced ELSE raced \union {job[p].kept}
    /\ UNCHANGED <<job, journalFile, strategyFile, datasets>>

-----------------------------------------------------------------------------
(* Faulty Intact: a dataset that is there is taken for whole.                *)
IntactIfPresent(digest, sha256) == digest \in DOMAIN datasets

(* SealedDataset.verify(): the data against the hash the manifest had when   *)
(* it was loaded.  The name of the directory is not asked.                   *)
Intact(digest, sha256) == digest \in DOMAIN datasets /\ datasets[digest].data = sha256

=============================================================================
