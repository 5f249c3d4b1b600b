# A TLA+ development of sbx

sbx replays a sealed market journal to a strategy that runs in a sealed
subprocess, records the result in an append-only ledger, and re-executes
recorded runs to see whether they come back the same. This directory models the
program under `src/src/sbx/` (paths below are relative to it), model-checks it
with TLC on small instances, and proves what matters most with TLAPS.

## 1. Inventory

| component | source | state it keeps | operations |
|---|---|---|---|
| time gate | `gate.py`, `runner.journal_records` | position in the journal, the replay clock | next tick, refuse, end |
| portfolio | `portfolio.py` | position, cash, last price, fills, waiting orders | submit, observe |
| wire | `protocol.py` | bytes in two pipes | write a frame, read a frame |
| feeder | `runner.Feeder` | ticks sent, exhausted, failure | the conversation loop |
| cell runtime | `runtime.py` | queued orders, current tick | `ticks()`, `order()`, `main()` |
| watchdog | `cell.py` | deadlines, verdict, capture, talker thread | poll, reap, kill, drain, report |
| ledger | `ledger.py` | one file, its lock | append with repair, read, next run id |
| store | `store.py` | datasets and kept code by hash | seal, keep, load, verify, list |
| verbs | `commands.py`, `runner.execute`, `verify.py` | locals of one process | seal, ls, run, verify |
| confinement | `cell.run`, `limits.py`, `sandbox.py` | a private directory, a profile, the cached probe | prepare, cap, wrap, clean up |
| pure parts | `canonical.py`, `verify.first_divergence` | none | encode, decode, round, compare |
| the rest | `cli.py`, `paths.py`, `errors.py`, `exits.py`, `cell_entry.py` | none | argument parsing, names |

How they interact:

* The **feeder** runs on the talker thread that `cell._execute` starts. It pulls
  ticks out of the gate, shows each to the portfolio first and then to the cell,
  and reads exactly one answer before it asks for the next tick.
* The **runtime** is the cell's half of that conversation. It shares its process
  with the strategy, so to the host the whole cell is one peer that may do
  anything two pipes allow.
* The **watchdog** runs on the main thread. It shares no lock with the talker;
  the two meet at the pipes, at `join`, and in `failures`.
* **Processes** meet in `~/.sbx`: appenders take a `flock`, readers of the ledger
  take none, sealers race for a `rename`, and nothing stops a user from editing
  a source while it is hashed, copied, run or verified.

What is hard about it: the interleaving of three parties over two bounded
pipes; a clock that stands still, so that several ticks carry the same `now`;
the end of a run, where an exit, a limit, a kill and a conversation race for
the verdict; torn writes, crashes and power loss under the ledger; lock-free
reads; and verbs of several processes over one store. `PROJECT.json` lists each
hazard at its line with the property that covers it.

## 2. Modules

| module | models | kind |
|---|---|---|
| `Framing` | `read_frame` and `write_frame`, byte by byte, in one direction | component |
| `Wire` | the two pipes, frame by frame | component |
| `Gate` | `replay` over `journal_records` | component |
| `Portfolio` | `Portfolio` | component |
| `Feeder` | `Feeder.talk`; EXTENDS the three above | component |
| `TimeGate` | what the gate promises | abstract |
| `UntrustedSession` | `Feeder` against a cell that may do anything; implements `TimeGate` | composition |
| `Market` | `runtime.main` and a strategy as a sequence of moves | component |
| `Session` | `Feeder`, `Market`, the kill, and the outcome of `execute`; implements `UntrustedSession` | composition |
| `Cell` | `cell._execute`, its talker thread, its report | component |
| `Confinement` | `cell.run` around it: directory, profile, sandbox, resource caps | component |
| `CommitLog` | what an append-only log promises | abstract |
| `Ledger` | `append` and `entries`, byte by byte; implements `CommitLog` | component |
| `Store` | `seal`, `keep_code`, `verify` of a dataset | component |
| `Sbx` | seal, run, verify and ls by several processes over `Store` and the ledger | composition |
| `Decimals` | the decimals of sizes, prices and cash, their rounding and their text | pure |
| `Replay` | the book of a run, its hash, and `verify`'s comparison of two runs; EXTENDS `Decimals` | component |
| `MC...` | journals, vocabularies, strategies, menus and symmetry for TLC | instances |
| `..._proofs` | the theorems about the module they are named after | proofs |

The definitions introduced as *Faulty* are one-line bugs: each replaces the
definition it names, and the property paired with it in `PROJECT.json` then
fails. No specification refers to them.

### State and actions

**Framing.** The writer may use `write_frame`, write any byte, or die inside a
frame; the reader is `_read_exactly` and `read_frame`, one `read` at a time, each
of which returns as many bytes as happen to be there. What it refuses is what
`Wire` calls `"malformed"`.

**Wire.** A frame is a record. A pipe holds `PipeFrames` frames, then a write
waits. Death of the cell closes its ends: what it wrote stays readable, what it
did not read is lost. `encode_frame` refuses a message that is too long before a
byte is written (`HostRefusesFrame`), and a stream closed under its user raises
(`HostWriteBreaks`, `HostReadBreaks`).

**Gate.** A line of a journal is its type, an instant, a price, and
whether its tick is over the frame limit. `Skipped`,
`YieldsLine`, `Refuses` and `RunsOut` say what the generator does next from
`cursor`; `AdvanceTo` is one `yield`, with the clock clamped by `ClockAt`.

**Portfolio, Feeder.** One action per step of `_converse`: `Opening`,
`SendStart`, `Reveal` (the generator yields and `observe` runs, as in the code
before anything is written), `SendTick`, `RefuseTick` (its frame is over the
limit), `ReadAnswer`, `Exhaust` (the loop's `else`), `SendStop`, `HangUp` (`_talk`
closing the cell's stdin), and the error exits. Orders carry history fields that
no guard reads: the tick they answer, their place in the answer, and the last tick
their author had read when it wrote them. `CloseStreams` is what `_execute` does to
a talker that outlived its join; the talker finds its streams closed wherever it
stands.

**Market.** The cell program counter follows `main`; `MakeMove` is the body of
the strategy's loop, `SendDecision` the generator's `finally`. A strategy may place
any number of orders before it iterates and at each tick, some of a size that the
runtime lets through and the host refuses; and from each it goes on, returns,
raises, or ends the process without a word (`os._exit`, or an error message over
the frame limit), having answered the tick or, when the decision itself is over
the limit, not.

**Session.** `Conclude` is `execute` after `cell.run`: it takes `failure`,
`exhausted` and `ticks_sent` as they are, when the talker has finished or has been
given up on (`GiveUp`, which closes the streams and sets `outlasted`). The Feeder is
read in one step.

**Cell.** The watchdog's counter follows `_execute`: the loop (`Poll`, `Wait4`,
`NoteStatus`, `Decide`, `Measure`, `Kill`), then `Drain`, and the `finally`
clause (`Join`, `Close`, `LastKill`, `LastWait`). `Interrupt` is an exception
that leaves the loop between any two of these. `Signal` is `_kill_group`: the
kernel may refuse it (`KillsRefused`), which passes in silence and is remembered in
`refused`. Closing a buffered stream waits
for the thread inside it, as CPython's buffered objects do. A deadline is a flag
that may become true at any moment after its clock was started. `outlasted` remembers
that the join of the talker gave up on it.

**Confinement.** The counter follows `run`: make the directory, ask whether
`sandbox-exec` works (once per process, then cached), write the profile, wrap the
command, fork with `apply_rlimits` in the child, start the talker, execute, and
the two `finally` clauses. Each step may fail, and an interrupt may fall between
any two. The child ends by itself, by any signal, by its CPU limits or by the
watchdog. It may have barred its own directory (`barred`), which `rmtree` then
leaves behind without a word. `astray` remembers that an exception fell where no
`try` was open.

**Ledger.** The file is a sequence of bytes, each knowing its record and its
place in the line; the last byte is the newline. An append is `Begin`, `Flock`,
`Scan`, `Repair`, `Write` (perhaps short), `Fsync`, `Return`, and a crash or a
power loss may come between any two. A reader reads until a read returns nothing.

**Store, Sbx.** A file's contents and its digest are the same value, and
`datasets` maps the name of a directory to what is really in it: the data, and the
size and hash its manifest gives. `Intact` compares the data with the manifest the
process has loaded, as `SealedDataset.verify` does, and never with the name. Every step of
`seal`, `run`, `verify` and `ls` that another process can see is an action. A
result is the pair of names it was obtained for with the code and the data really
used; that a run is a function of these is what `Session` shows. Crashes, stopped
cells, tampering with data or manifest, deletion, and an edit of a source while it
is being read are the *mishaps*, `MaxMishaps` of them, anywhere. The history variables `touched`,
`raced`, `orphaned` and `shifted` remember what they did, so that each property
says precisely which mishap excuses what.

**Decimals, Replay.** A decimal has a sign, a coefficient and an exponent;
arithmetic keeps `PREC` digits, half to even; `decimal_text` is an operator on
that. `Units(d, places)` is the number a decimal is, in units of 10^-places, and
the properties count in the units `s` of the sizes and `t` of the prices that the
fills really have. `Replay` runs two executions one after the other, the second
of which may do anything, and judges them as `verify` does.

## 3. What the runs check

| run | states | shows |
|---|---|---|
| `untrusted` | 528 k | no look-ahead; an order fills at the very next trade; no order is lost, doubled or backdated; `exhausted` means the whole journal; the host comes to its end; `TimeGate` is implemented |
| `session` | 179 k | outcome, ticks and fills are determined by strategy and journal; what is held against a run has its cause in one of the two; every run is concluded; honest conversations are among the untrusted ones |
| `cell` | 331 k | reports are true in every race, of the cell and of the conversation; a reaped pid is never signalled; no live cell is left unless the kernel refused the last signal; captures are whole up to the cap; a full pipe is drained; the host returns |
| `ledger` | 100 k | never bricked; acknowledged records survive; undisturbed reads are snapshots; the lock is released; `CommitLog` is implemented |
| `sbx` | 3.4 M | names are hashes; what is sealed stays known; listings are true; only a cause outside the strategy is blamed; what reproduces is genuine |
| `framing` | 184 k | frames are the stream cut where its lengths say; the verdict on its end is what its bytes are; between honest ends every message arrives, once and in order; the reader comes to a verdict |
| `confinement` | 1.2 M | the report names the containment in force; caps are never looser than asked for; an overrun of CPU time is named; directory, profile and cell are gone after every exit, but for a directory its strategy barred |
| `replay` | 1.2 M | sums are exact while they fit the precision; a reproduced hash means the same position and cash, and the same mark unless it is rounded away; a divergence names the first field that differs |

Runs that show a disagreement between the code and what is written about it:

| run | disagreement |
|---|---|
| `session_early_return` | A strategy that returns without iterating may be gone before the host's next write; the broken pipe makes the run `failed`, although `runner.py:90-92` calls an early return no failure. Scheduling decides. |
| `cell_interrupt` | An exception in the watchdog's loop leads to a `close` that waits for the talker, which waits for the cell, which is killed only afterwards (`cell.py:476-478`). A cell that sleeps keeps the host. |
| `ledger_fragments` | A lock-free reader that overlaps a repair and the next append fuses the two (`ledger.py:8-11`). |
| `sbx_run_ids` | Two concurrent runs get one id, and `find_run` reaches only the first (`verify.py:55`). |

### Departures the passing properties carve out

Some properties hold but for an exception, which they name. These are behaviours
of the code worth knowing:

* A journal or a strategy edited between being hashed and being copied is stored
  under the hash of something else (`store.py:113`; `raced` in
  `KeptUnderTheirHashes`).
* A crash between a dataset's rename and its ledger entry leaves it unrecorded
  for good (`commands.py:57`; `orphaned` in `RegisteredUnlessOrphaned`).
* A dataset sealed while `ls` runs may be listed `MISSING` though it is there,
  because the disk is read before the ledger (`commands.py:87`; `owed` in
  `ListingIsTrue`).
* A replay stopped by the host is reported `DIVERGED` (`verify.py:123`), and so is
  one whose dataset is changed after `verify` has re-hashed it, or was changed
  together with its manifest: `SealedDataset.verify` (`store.py:64`) asks the
  manifest, not the directory's name or the record, so what was tampered with
  passes for whole and the code is blamed, against `verify.py:9-12`
  (`BlameHasACause`).
* Directory, profile and cell survive an exception between `Popen` and the
  watchdog's `try` (`cell.py:380-417`; `astray` in `NothingLeftBehind`).
* `rmtree(ignore_errors=True)` (`cell.py:369`) fails without a word: a directory
  that its strategy made unreadable, or in which something still writes, stays
  (`barred` in `NothingLeftBehind`).
* A kill the kernel refuses is passed over (`cell.py:172-176`): a cell may be left
  running though the last thing the host did was to try (`refused` in
  `NothingLeftAlive` and `UnhinderedHostReturns`).
* A strategy that ignores `SIGXCPU` is reported killed, by the hard limit or by
  another signal that ends it (`evades` in `OverrunIsNamed`).
* "Same inputs, same result" has an exception: `_execute` waits five seconds for
  the talker (`cell.py:468`), and `execute` then reads how far it has come. A
  strategy that returns at once, while the gate skips a long stretch of
  non-events, is recorded as stopped early with no tick instead of one
  (`outlasted` in `RanReproducibly`; without it, TLC finds such a run, and
  `ConcludeEarly` is the code with a join that does not wait at all).
* A dialogue that fails after the join has given it up, five seconds after the
  end of the loop, is lost and the run reported completed (`cell.py:468`;
  `outlasted` in `ReportIsTrue`), although `_talk`'s docstring (`cell.py:275-277`)
  rules that out.
* The last price of a run is in no record; it follows from the profit only where
  the position is not flat and nothing was rounded (`Unrounded` in
  `ReproducedBooksAgree`). With one digit, a size of 1 and marks of 1.1 and 1.0,
  two runs have one hash and different last prices.
* `first_divergence` looks at neither the ticks nor the outcome
  (`verify.py:62-84`), and none of its fields need differ between two results
  whose hashes do (`DivergenceIsFirst` says what silence means).
* A sealed record whose tick exceeds one MiB is refused by `encode_frame` and fails
  the run (`runner.py:185`): the limit is on the frame, not on the record
  (`frame_too_long` in `AccusedForCause`). A size that `Market.order` lets through
  and `plausible_decimal` refuses (`portfolio.py:60-79`), and an order past the
  64th of a tick (`runner.py:214`), fail it at the answer.

Met, and not stated by any property: the loop of `_execute` abandons a cell that
outlives `SIGKILL`, but the `finally` clause then waits for it as in
`cell_interrupt` (`cell` checks `MortalSpec`, where a killed cell dies); and
`ticks` counts the tick answered with `done`, so a strategy that returns at the
last tick but one records as many ticks as one that ran the journal out
(`runner.py:280-283`): `ExpectedTicks` in `Session` states the count.

### Bounds

* `untrusted`: five journals of two to four lines with every line type
  (backward stamps, a refused and a torn line, a useless price, untimed events, a
  tick over the limit), a vocabulary of eight frames with right and wrong ticks,
  none, one, two (the limit) and too many orders, one malformed order after a good one; pipes of two frames, so that the
  cell can be one answer ahead and both pipes can be full.
* `session`: six journals, among them an empty, a torn and a refused one, one with
  a price of no use and one with a tick over the limit; every strategy that makes
  up to two ordinary moves (hold, one order, two orders) and then any of fourteen
  (the ordinary ones, an order too many, a size the host refuses, and leaving in
  each way, with or without an answer); those that place an order first; and those
  that never iterate. `MaxOrders` = 2 stands for 64: below, at and above it occur.
  Pipes of one frame make the most steps block.
* `cell`: a cap and a pipe of two chunks and four writes, so output exceeds the
  cap and fills the pipe again afterwards; both deadlines, one exception, one
  grandchild, and any kill refused.
* `ledger`: two appenders, one reader, lines of two bytes (the shortest that can
  be torn), three appends, any number of faults.
* `sbx`: two processes, two journals, two strategies, `MaxEntries` = 2 (one
  dataset and one run to verify; a verb that finds no room for what it has to
  record waits, before the strategy is run or the new dataset loaded),
  `MaxMishaps` = 2, since the worst cases need a change and a change back, of a
  dataset or of its manifest. Processes and contents are interchangeable and only
  invariants are checked, so symmetry is sound. `sbx_run_ids` has three entries.
* `framing`: a limit of two bytes with bodies of one, two and three, and streams
  of up to twelve bytes, two frames; the noise can declare no body, an allowed
  one and too much.
* `confinement`: `MaxRuns` = 2, because the probe is cached in the first and used
  in the second; two resources; every pair of soft and hard limits below, at and
  above the cap.
* `replay`: three digits instead of 28, one decimal place and one magnitude digit
  where the code allows 18 of each, executions of two ticks; the menus have equal
  decimals that are not the same and products that do not fit.

The theorems of section 4 do away with these bounds for what they state.

### Fairness

* `UntrustedSession`: weak fairness of the host (its thread is scheduled) and of
  the cell's death, since the watchdog leaves no cell alive past its deadline.
  Nothing else is asked of a cell.
* `Session`: weak fairness of host, runtime and conclusion, and of the kill only
  where host and cell wait for each other; `RunEnds` thereby says that all other
  runs end without the watchdog.
* `Cell`: the host's two threads are scheduled and the grace of five seconds
  passes. `wall_seconds` may be as long as one likes, so that reaching it is not
  fair; what depends on it says so. The cell owes no step; `MortalSpec` adds that
  a process sent `SIGKILL` dies, and `FairLockSpec`, for `cell_interrupt`, that a
  stream's lock is obtained by a thread that waits for it while it is released
  again and again: the host hangs even so.
* `Ledger`: an append that has begun goes on, unless it is killed.
* `Framing`: a reader with something to read reads it; the writer owes nothing.
* `Sbx`, `Confinement` and `Replay` state no liveness and assume no fairness.

## 4. What is proved

Every theorem below is checked by tlapm for all values of the constants, from
the assumptions that the modules name and TLC evaluates on every run. Each says
`Spec => []P` or `Spec => P`; none assumes fairness. `PROJECT.json` pairs each
with the property whose run shows it on a small instance. Every safety
invariant, action property and refinement that a passing run checks is a theorem.

### `UntrustedSession_proofs`

For every set of journals, cell vocabulary, pipe capacity and order limit.

* `TypeCorrect`. `TypeOK` is inductive; the proof goes by the operations of the
  wire, the gate and the portfolio (`WireOperations`, `Advances`,
  `FillAllFills`, `StampedOrders`).
* `NeverLooksAhead`: `NoLookAhead` is not inductive, for an answer may have been
  written long before it is read. What is inductive is that nothing in flight is
  ahead of the gate: no tick in the pipe, no `sight` of an answer, of the cell or
  of a waiting order lies beyond `cursor` (`NothingAhead`). A fill happens only at
  `Reveal`, at a line strictly beyond `cursor`, hence beyond every order it fills.
* `FillsAtNextTrade`, `LosesNoOrder`, `NothingBackdated`: by the two ways in which
  the books change, `BooksGrown` and `BooksFilled`.
* `ExhaustedIsWhole`: the ticks sent, and one more between `Reveal` and
  `SendTick`, are the shown lines up to `cursor`; nothing before `cursor` was
  refused; and no failure is noted while the conversation lasts (`Sweep`).
* `HostIsATimeGate`: the step simulation of `TimeGate`.

### `Session_proofs`

For every set of journals, every set of strategies and any limit on orders.

* `HonestIsAlwaysUntrusted`: a session with the real runtime is one of those in
  which the cell may do anything, so that all of the above holds of it too. The
  host's actions are equal one by one (`HostIsHost`); a step of the runtime is one
  of a cell (`RuntimeIsACell`) because what it writes is in the vocabulary
  (`SpeechIsAllowed`), which needs `Known`: the times in the pipes come from the
  journals (`Types`), what the runtime knows of host and pipes at each of its steps
  (`RuntimeKnows`), and, as a function of the strategy and the ticks seen, where it
  stands and what is queued (`Path`).
* `AccusedOnlyForCause`: while nobody was killed and nothing has failed, the two
  program counters move in step (`Conversation`): between them there is one frame
  in flight, and each of the host's states admits one of three attitudes of the
  pipes, `AtRest`, `Asked` or `Concluding`. Hence the host finds only answers to the
  tick it sent, and every failure has its cause when it is noted (`HostAccuses`);
  and a cause stays one, for the host is done and the runtime sees no further tick
  (`AccusationStays`).
* `RunsAreReproducible`: while a session is `Undisturbed`, what each side has done is
  a function of strategy and journal (`Determined`). `Path` says so of the runtime,
  `Farewell` of its last words, `Tally` ties the ticks seen to the ticks sent, `Gating` ties
  those to `cursor` (the `Rank` of a line is the number of events up to it), and
  `Books` says that every order of an answered tick, told apart by the tick and its
  place in the answer, is there once, filled at the first trade after it or waiting
  while there is none. `Ended` keeps how the conversation ended until `execute`
  looks; `Concluded` says that a result was read from a conversation that had
  ended, unless `outlasted`. At the conclusion these give the reference of
  `Session`, definition by definition (`ExhaustedEnd`, `DepartedEnd`,
  `FillsAreExpected`, `ExpectedAreFills`, `FillsAreCounted`).

### `Cell_proofs`

For every capture cap, pipe and amount of output, with and without grandchildren,
interrupts and refused kills.

* `SignalsNobodyElse`, `LeavesNothingAlive`, `ReportsAreTrue`: each speaks of one
  or two steps of the watchdog and is not inductive. `WatchdogKnows` says what
  holds at every step (it waits only for a cell it has not collected; it leaves
  the loop with a status, with a cell it gave up on, or unwinding; it signals
  only with a verdict to report or unwinding; after the join the talker has ended
  or is known to have outlived it), and `ReportRests` what a report was computed
  from. With `TypeOK` they are inductive (`NextIInv`). The case analysis
  of `_classify` is a lemma (`OutcomeRests`).
* `CapturesAreHonest`: what is kept is what has left the pipe, up to the cap
  (`CaptureKnows`), and a pipe whose writers are gone only gets emptier.

### `Confinement_proofs`

For every platform, set of resources with their caps and inherited limits, and
number of runs. Four invariants, one a theorem: `Asked` (the cache holds what the
probe said, and `wrapped` follows it), `Capped` (the child's limits, resource by
resource), `Named` (an overrun of CPU time ends in the signal that names it, unless
the strategy evades that) and `Tidy` (which of directory, profile and cell exist at
each program counter, and who may have kept the directory).

### `Framing_proofs`

For every limit on frames, message set, and stream of any length, cut into any
pieces. `Place` says where the reader stands in the stream: the frames accepted,
their four-byte lengths included, then what it has buffered, are a prefix of the
stream. Lemmas on concatenated pieces and on packing and unpacking a length
make it inductive; `FramesAreCut` and `VerdictsAreTrue` follow.

`EveryMessageArrives` needs to know where in the stream each message lies, which
no variable says. `Arrival` therefore claims that positions exist: `starts`, one
more than messages posted, such that message *i* lies encoded from `starts[i]` on
and a fragment at most follows the last (`Laid`), and that the reader's cuts are
the first of these positions and its frames the first of these messages
(`InStep`). `NextIsMessage` is the step the rest turns on: a reader at the start
of a message that finds four bytes finds that message's length in them. A write
of bytes that no `write_frame` made (`bare`) ends the claim, as in the property.

### `Ledger_proofs`

For any number of appenders and readers, any length of line, any faults.

* Part A is about the k-th element of a finite set of numbers, without recursion:
  its place is a cardinality (`Place`), and the ends of lines are consecutive
  elements (`EndsAreConsecutive`). Part B applies it to files: if every newline
  ends a whole line of one record (`Formed`), then the k-th entry is the k-th line
  (`EntriesAre`), and a prefix or an extension of the file shows a prefix or an
  extension of its entries (`PrefixSays`, `GrownSays`).
* `LogInv` joins `TypeOK`, `Exclusion` (the lock), `Formed`, `RecordedOnce`,
  `HolderKnows` (what the holder of the lock has scanned and cut is still so),
  `Fresh`, `Acknowledged` and `ReaderHas`. `IsNeverBricked`,
  `NothingAcknowledgedIsLost` and `UndisturbedReadsAreSnapshots` follow.
* `LedgerIsAppendOnly` is the step simulation of `CommitLog`, power loss included:
  `Promised` entries, those within the durable prefix, are never lost.

### `Sbx_proofs`

For any number of processes and mishaps.

* `NamesAreHashes`, `NothingSealedIsLost`, `ListingsAreTrue`, `BlameAlwaysHasACause`,
  `ReproducedIsAlwaysGenuine`. The last two rest on `Knows(p)`, what a process
  between two steps of `verify` may rely on: its copy of the code is the recorded
  one (`SameCode`), its data are those their directory is named after or the mishap is on
  record (`SameData`; `Named` for an edited manifest), and what it has judged it has
  judged of these (`Judged`).
* TLC with two processes did not reach everything. The attempt to prove
  `ReproducedIsGenuine` led to four processes, three of which keep one edited
  strategy at once: the last `os.replace` (`store.py:150-155`) overwrites a sound
  copy that a fourth has already run. The property's `raced` clause covers it.

### `Replay_proofs`

For every precision and every number of places and of leading digits
(`PrecisionAssumption`), every menu of decimals (`InputAssumption`) and every
number of ticks.

* `DivergencesAreFirst`, from the type of a book and from judgement being passed
  once (`JudgedOnce`).
* `NothingIsRounded`. Exactness is not inductive where it holds only while the sums
  fit: a later fill may undo an excess. What is inductive is `Summed`: in any units
  that the fills are whole numbers of, position and cash are bounded by volume and
  turnover, which only grow; so while these fit, they have always fitted, and each
  sum so far was exact (`SummedGrows`, from `PlusIs`, `TimesIs`, `NegatedIs`).
* `ReproducedBooks` holds beyond the precision too, where books are no sums any
  more. A `GoodBook` has a history: the position and the cash after each fill, made
  each from the one before by the operations of `_fill` (`Made`). Two histories of
  fills recorded alike agree at every place (`HistoriesAgree`), since a text
  decides a value (`TextDecides`) and what an operation rounds to depends on the
  values alone, not on how many zeros they are written with (`FixAgrees`, from
  `FixShifted`; `PlusAgrees`, `TimesAgrees`, `NegatedAgrees`).
* Powers of ten and sums are recursive functions. The library's theorems on
  induction and recursion take an operator as a parameter, which the provers cannot
  instantiate; `Induction` takes a set, and `Recursion` a function that stands for
  the step, both from the least element of a set of naturals. With these, what
  `Pow10` and `SumOf` are for every argument is proved (`Pow10Defined`, `PowSum`,
  `SumAppend`).
* Looking for the proof corrected the model. An earlier `ReproducedBooksAgree` spoke
  of the last price of every unflat run, which the bounds of the run happen to
  satisfy and rounding does not; and an earlier condition of exactness counted
  in the finest units the code allows, in which, at 28 digits and 18 places, hardly
  any run fits.

### What is only model-checked

Liveness: `HostFinishes`, `RunEnds`, `LockIsReleased`, `ReaderEnds`,
`FullPipeIsDrained`, `UnhinderedHostReturns`. Fairness and ENABLED are out of
the prover's reach. The disagreements of section 3 are counterexamples, found by
TLC.

## 5. What is not modelled

* `canonical.py`'s refusals of floats, cycles and foreign types: no caller in the
  program passes such a value. `decimal_text` and the round trip are in `Decimals`.
* Parsing of timestamps: a timed line has an instant, or is `"refused"`.
* Parsing of arguments, messages to the user, exit codes, exception classes, path
  names (`cli.py`, `errors.py`, `exits.py`, `paths.py`): no state.
* `cell_entry.py`: it calls `runtime.main`, which is `Market`.
* A manifest that cannot be decoded or lacks a key ends the verb that loads it
  before it changes anything, and so does a prefix that is ambiguous or too short.
* `execute` reads a talker it has given up on attribute by attribute; the model
  reads it in one step. No property speaks of such a run's record.
* Leftovers and names of staging files, file modes, `fsync` of directories.
* `verify`'s `same_environment`: computed and printed, it decides nothing.
* What a sandbox profile forbids and how a limit is enforced: the kernel's work.
* A second exception inside the `finally` clause that the first one entered.

## 6. Plan

Done: all modules of section 2, and a theorem for every safety property. Left:

1. `same_environment`, as a field of a recorded run.
2. The theorems about the compositions read off as one: that a run reported
   completed by `Cell` is one whose conversation `Session` determines.
