------------------------------- MODULE Ledger -------------------------------
(***************************************************************************)
(* `ledger.py`: one file, any number of processes that append to it under   *)
(* an exclusive flock, and readers that take no lock at all.                *)
(*                                                                          *)
(* A line is LineBytes bytes; the last one is its newline, the commit       *)
(* marker.  A byte is [record, pos].  Every append writes a new record, and *)
(* records are numbered in the order their appends begin.                   *)
(***************************************************************************)
EXTENDS Naturals, FiniteSets, Sequences, SequencesExt, FiniteSetsExt, Functions

CONSTANTS
    Appenders,      \* processes that append
    Readers,        \* processes that read
    LineBytes,      \* bytes of an encoded record, its newline included
    MaxRecords,     \* bound: appends begun
    Faults,         \* which of "short" (a short write), "crash" (of an
                    \* appender) and "power" (of the machine) may happen
    NoOne

ASSUME LineBytesAssumption == LineBytes \in Nat \ {0, 1}
ASSUME MaxRecordsAssumption == MaxRecords \in Nat
ASSUME FaultsAssumption == Faults \subseteq {"short", "crash", "power"}
ASSUME NoOneAssumption == NoOne \notin Appenders

VARIABLES
    file,           \* the file's bytes, as every process sees them
    durable,        \* how many of them a power loss cannot take
    lock,           \* who holds the flock
    pc,             \* where in append() each appender stands
    record,         \* the record it is appending
    cut,            \* the committed size it has found
    written,        \* what its os.write returned
    begun,          \* appends begun so far
    acknowledged,   \* history: records whose append() has returned
    readPc,         \* where in entries() each reader stands
    buffer,         \* the bytes read_bytes has collected
    before,         \* history: the committed log when it started
    disturbed       \* history: has a fragment been discarded since?

appendVars == <<lock, pc, record, cut, written, begun, acknowledged>>
readVars   == <<readPc, buffer, before>>
vars       == <<file, durable, appendVars, readVars, disturbed>>

Byte == [record : 1..MaxRecords, pos : 1..LineBytes]

AppendPcs == {"idle", "waiting", "locked", "scanned", "repaired", "written", "synced"}
ReadPcs   == {"idle", "reading", "returned"}

Init ==
    /\ file = <<>>
    /\ durable = 0
    /\ lock = NoOne
    /\ pc = [p \in Appenders |-> "idle"]
    /\ record = [p \in Appenders |-> 0]
    /\ cut = [p \in Appenders |-> 0]
    /\ written = [p \in Appenders |-> 0]
    /\ begun = 0
    /\ acknowledged = {}
    /\ readPc = [r \in Readers |-> "idle"]
    /\ buffer = [r \in Readers |-> <<>>]
    /\ before = [r \in Readers |-> <<>>]
    /\ disturbed = [r \in Readers |-> FALSE]

-----------------------------------------------------------------------------
(* What the bytes say.                                                       *)

Newlines(bytes) == {i \in DOMAIN bytes : bytes[i].pos = LineBytes}

(* _committed_size: up to and including the last newline.                    *)
CommittedSize(bytes) == Max(Newlines(bytes) \union {0})

(* Where the k-th line ends, if lines end at `ends`.                         *)
EndOf(ends, k) ==
    IF k = 0 THEN 0
    ELSE CHOOSE i \in ends : Cardinality({j \in ends : j <= i}) = k

Pieces(bytes, ends) ==
    [k \in 1..Cardinality(ends) |->
        SubSeq(bytes, EndOf(ends, k - 1) + 1, EndOf(ends, k))]

(* Faulty Lines: what follows the last newline is a line.                    *)
LinesAndTail(bytes) == Pieces(bytes, (Newlines(bytes) \union {Len(bytes)}) \ {0})

(* The newline-terminated lines, in order.                                   *)
Lines(bytes) == Pieces(bytes, Newlines(bytes))

(* A line parses when it has the shape of a record.  All records have the    *)
(* same keys in the same order, so the bytes of two of them make one if they *)
(* meet at the same place.                                                   *)
Parses(line) == Len(line) = LineBytes /\ \A k \in DOMAIN line : line[k].pos = k

(* What a line that parses is made of: one record, unless two have been      *)
(* fused.                                                                    *)
Content(line) == {line[k].record : k \in DOMAIN line}

(* entries(), once the bytes are in memory: the committed records, or        *)
(* LedgerCorruptError.                                                       *)
Readable(bytes) == \A k \in DOMAIN Lines(bytes) : Parses(Lines(bytes)[k])
Entries(bytes)  == [k \in DOMAIN Lines(bytes) |-> Content(Lines(bytes)[k])]

-----------------------------------------------------------------------------
(* append().                                                                 *)

At(p, from, to) ==
    /\ pc[p] = from
    /\ pc' = [pc EXCEPT ![p] = to]

Begin(p) ==
    /\ At(p, "idle", "waiting")
    /\ begun < MaxRecords
    /\ begun' = begun + 1
    /\ record' = [record EXCEPT ![p] = begun + 1]
    /\ UNCHANGED <<file, durable, lock, cut, written, acknowledged, readVars, disturbed>>

(* Faulty Flock: no lock is taken.                                           *)
FlockNothing(p) ==
    /\ At(p, "waiting", "locked")
    /\ UNCHANGED <<file, durable, lock, record, cut, written, begun, acknowledged,
                   readVars, disturbed>>

Flock(p) ==
    /\ At(p, "waiting", "locked")
    /\ lock = NoOne
    /\ lock' = p
    /\ UNCHANGED <<file, durable, record, cut, written, begun, acknowledged, readVars,
                   disturbed>>

(* _discard_torn_tail: find the last newline ...                             *)
Scan(p) ==
    /\ At(p, "locked", "scanned")
    /\ cut' = [cut EXCEPT ![p] = CommittedSize(file)]
    /\ UNCHANGED <<file, durable, lock, record, written, begun, acknowledged, readVars,
                   disturbed>>

(* Faulty Repair: the torn tail stays.                                       *)
RepairNothing(p) ==
    /\ At(p, "scanned", "repaired")
    /\ UNCHANGED <<file, durable, lock, record, cut, written, begun, acknowledged,
                   readVars, disturbed>>

(* ... and truncate the file there.                                          *)
Repair(p) ==
    /\ At(p, "scanned", "repaired")
    /\ file' = SubSeq(file, 1, cut[p])
    /\ durable' = Min({durable, cut[p]})
    /\ disturbed' = [r \in Readers |-> disturbed[r] \/ cut[p] # Len(file)]
    /\ UNCHANGED <<lock, record, cut, written, begun, acknowledged, readVars>>

(* One write, under O_APPEND.                                                *)
Write(p) ==
    /\ At(p, "repaired", "written")
    /\ \E n \in IF "short" \in Faults THEN 0..LineBytes ELSE {LineBytes} :
        /\ file' = file \o [k \in 1..n |-> [record |-> record[p], pos |-> k]]
        /\ written' = [written EXCEPT ![p] = n]
    /\ UNCHANGED <<durable, lock, record, cut, begun, acknowledged, readVars, disturbed>>

(* Faulty Fsync: nothing is synced, or a whole line is taken for synced.     *)
FsyncForgotten(p) ==
    /\ At(p, "written", "synced")
    /\ UNCHANGED <<file, durable, lock, record, cut, written, begun, acknowledged,
                   readVars, disturbed>>

FsyncAssumed(p) ==
    /\ At(p, "written", "synced")
    /\ durable' = cut[p] + LineBytes
    /\ UNCHANGED <<file, lock, record, cut, written, begun, acknowledged, readVars,
                   disturbed>>

Fsync(p) ==
    /\ At(p, "written", "synced")
    /\ durable' = Len(file)
    /\ UNCHANGED <<file, lock, record, cut, written, begun, acknowledged, readVars,
                   disturbed>>

(* Faulty Return: the error of a short write leaves the file open.           *)
ReturnHolding(p) ==
    /\ At(p, "synced", "idle")
    /\ lock' = IF written[p] = LineBytes THEN NoOne ELSE lock
    /\ acknowledged' = IF written[p] = LineBytes
                       THEN acknowledged \union {record[p]}
                       ELSE acknowledged
    /\ UNCHANGED <<file, durable, record, cut, written, begun, readVars, disturbed>>

(* Closing the file releases the lock.  A short write raises.                *)
Return(p) ==
    /\ At(p, "synced", "idle")
    /\ lock' = NoOne
    /\ acknowledged' = IF written[p] = LineBytes
                       THEN acknowledged \union {record[p]}
                       ELSE acknowledged
    /\ UNCHANGED <<file, durable, record, cut, written, begun, readVars, disturbed>>

-----------------------------------------------------------------------------
(* entries(): read until a read returns nothing.                             *)

Unread(r) == SubSeq(file, Len(buffer[r]) + 1, Len(file))

StartReading(r) ==
    /\ readPc[r] # "reading"
    /\ readPc' = [readPc EXCEPT ![r] = "reading"]
    /\ buffer' = [buffer EXCEPT ![r] = file]
    /\ before' = [before EXCEPT ![r] = Entries(file)]
    /\ disturbed' = [disturbed EXCEPT ![r] = FALSE]
    /\ UNCHANGED <<file, durable, appendVars>>

ReadMore(r) ==
    /\ readPc[r] = "reading"
    /\ Unread(r) # <<>>
    /\ buffer' = [buffer EXCEPT ![r] = @ \o Unread(r)]
    /\ UNCHANGED <<file, durable, appendVars, readPc, before, disturbed>>

StopReading(r) ==
    /\ readPc[r] = "reading"
    /\ Unread(r) = <<>>
    /\ readPc' = [readPc EXCEPT ![r] = "returned"]
    /\ UNCHANGED <<file, durable, appendVars, buffer, before, disturbed>>

-----------------------------------------------------------------------------
(* kill -9, or an exception out of a system call: the kernel closes the      *)
(* file.                                                                     *)
Crash(p) ==
    /\ "crash" \in Faults
    /\ pc[p] # "idle"
    /\ pc' = [pc EXCEPT ![p] = "idle"]
    /\ lock' = IF lock = p THEN NoOne ELSE lock
    /\ UNCHANGED <<file, durable, record, cut, written, begun, acknowledged, readVars,
                   disturbed>>

(* The machine goes down: what was not synced may be gone, from the end.     *)
PowerLoss ==
    /\ "power" \in Faults
    /\ \E n \in durable..Len(file) :
        /\ file' = SubSeq(file, 1, n)
        /\ durable' = n
    /\ lock' = NoOne
    /\ pc' = [p \in Appenders |-> "idle"]
    /\ readPc' = [r \in Readers |-> "idle"]
    /\ buffer' = [r \in Readers |-> <<>>]
    /\ UNCHANGED <<record, cut, written, begun, acknowledged, before, disturbed>>

AppendStep(p) ==
    \/ Flock(p) \/ Scan(p) \/ Repair(p) \/ Write(p) \/ Fsync(p) \/ Return(p)

ReadStep(r) == StartReading(r) \/ ReadMore(r) \/ StopReading(r)

Next ==
    \/ \E p \in Appenders : Begin(p) \/ AppendStep(p) \/ Crash(p)
    \/ \E r \in Readers : ReadStep(r)
    \/ PowerLoss

(* An append that has begun goes on unless it is killed.                     *)
Spec == Init /\ [][Next]_vars /\ \A p \in Appenders : WF_vars(AppendStep(p))

-----------------------------------------------------------------------------
TypeOK ==
    /\ file \in Seq(Byte)
    /\ durable \in 0..Len(file)
    /\ lock \in Appenders \union {NoOne}
    /\ pc \in [Appenders -> AppendPcs]
    /\ record \in [Appenders -> 0..MaxRecords]
    /\ cut \in [Appenders -> Nat]
    /\ written \in [Appenders -> 0..LineBytes]
    /\ begun \in 0..MaxRecords
    /\ acknowledged \subseteq 1..MaxRecords
    /\ readPc \in [Readers -> ReadPcs]
    /\ buffer \in [Readers -> Seq(Byte)]
    /\ before \in [Readers -> Seq(SUBSET (1..MaxRecords))]
    /\ disturbed \in [Readers -> BOOLEAN]

(* The ledger is never bricked: whatever was interrupted before, every       *)
(* newline ends the line of exactly one record, which was appended once.     *)
(* (ledger.py 19-26, _discard_torn_tail)                                     *)
NeverBricked ==
    /\ Readable(file)
    /\ \A k \in DOMAIN Entries(file) : Cardinality(Entries(file)[k]) = 1
    /\ IsInjective(Entries(file))

(* What append() has acknowledged stays committed and durable, through every *)
(* crash, short write and power loss that follows.                           *)
AcknowledgedSurvives ==
    \A a \in acknowledged :
        {a} \in Range(Entries(SubSeq(file, 1, durable)))

(* An append that fails or dies does not keep the ledger from the others.    *)
LockIsReleased == \A p \in Appenders : lock = p ~> lock # p

(* A reader that nothing disturbed returns the log of some moment while it   *)
(* was reading: all that was committed when it started, nothing that was     *)
(* not committed when it returned.                                           *)
(* (entries(); the case `disturbed` excludes is the one                      *)
(* ReadersIgnoreFragments is about)                                          *)
ReadsAreSnapshots ==
    \A r \in Readers :
        readPc[r] = "returned" /\ ~disturbed[r] =>
            /\ Readable(buffer[r])
            /\ IsPrefix(before[r], Entries(buffer[r]))
            /\ IsPrefix(Entries(buffer[r]), Entries(file))

(* An append that did not finish is invisible to readers: what entries()     *)
(* returns is made of whole records.  (ledger.py 9-11)                       *)
ReadersIgnoreFragments ==
    \A r \in Readers :
        readPc[r] = "returned" =>
            /\ Readable(buffer[r])
            /\ \A k \in DOMAIN Entries(buffer[r]) :
                Cardinality(Entries(buffer[r])[k]) = 1

-----------------------------------------------------------------------------
(* The ledger implements the append-only log.                                *)
Log == INSTANCE CommitLog WITH
    Records  <- {{n} : n \in 1..MaxRecords},
    log      <- Entries(file),
    promised <- Len(Entries(SubSeq(file, 1, durable)))

AppendOnly == Log!Spec

=============================================================================
