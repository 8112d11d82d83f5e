# A TLA+ verification of pyroclast

pyroclast profiles a command, or reads an existing `perf.data`, and produces
folded stacks, flamegraphs and summaries. This directory holds TLA+ modules that
model its core, the TLC configurations that check them on small instances, and
TLAPS proofs for every instance. Paths below are relative to the repository.

## 1. Inventory

The program has three layers. A **profile run** (`src/lib.rs`) chooses a
recorder backend, runs it and post-processing tools, and leaves a set of artifacts. It
starts every external command through the **process layer** (`src/process.rs`,
`src/process/`), which owns process groups, pipes, terminal and cancellation. The
**perf.data layer** (`src/perfdata/`, `src/symbols*`) replays a recording: it orders
records, follows threads and mappings, resolves addresses and counts stacks.
The process layer is concurrent with the user's signals, the child's processes and
time; the replay is single-threaded but keeps much interdependent state over
long record sequences it does not control.

| Component | State | Operations | Interacts with | What makes it correct |
|---|---|---|---|---|
| Owned process runner (`process.rs`) | child and group, deadlines, pipes, captured output | check, spawn, forward a signal, escalate, drain, feed, restore, wait, drop | scope, terminal, every tool | nothing of the group outlives the call; deadlines; complete output; it ends |
| Cancellation scope (`process/cancellation.rs`) | first signal, count, registered handlers, thread-local current scope | enter, drop, cancelled, repeated, finalization | all commands, writer | the first cause is kept; a second signal always wins |
| Terminal foreground (same file) | saved group, active flag | handoff, restore, drop | runner, other groups of the terminal | the terminal never stays with a dead group |
| CLI writer (same file, `output.rs`, `main.rs`, `bin/cargo_pyroclast.rs`) | file status flags, buffer, broken-pipe flag, result | write, flush, drop, exit code | scope, other holders of the descriptor, reader of the pipe | flags restored; cancellable; exit code 0 means delivered |
| Command session (`process/session.rs`) | child, pipes, response buffer | start, exchange_lines, close | addr2line helper | a reply answers its own request; no reuse after failure; it ends |
| Record scan and ordered replay (`perfdata/fold.rs`, `perfdata/source.rs`) | queue, round limits, window store | push, flush, retain, release | sample sink | time order; nothing lost; bounded memory |
| Thread and map-group state (`perfdata/fold/threads.rs`, `fold.rs`) | threads, reference counts, keys, names | COMM, MMAP, FORK, EXIT, SAMPLE | mapping table, unwinder | counts exact; state dies with its group |
| Mapping table (`perfdata/mappings.rs`) | arena, interval index, caches, DSO registry | insert with overlap fix-up, copy, retire, look up | sink, symbols | an address resolves to its last mapping |
| Deferred callchains (`fold.rs`) | waiting samples | defer, match, flush | sink | each sample once, completed by the first chain |
| Build-id knowledge and the two fold passes (`fold.rs`, `mappings.rs`) | header ids, DSO ids, symbol ids, sources | BUILD_ID, MMAP, sample, second pass | symbol cache | a sample is counted in one pass; ids do not depend on the pass |
| DSO memory (`perfdata/memory.rs`) | open files, order, blocks | open, evict, read | unwinder | words of the object selected first; few descriptors |
| Unwinder (`perfdata/unwind*`) | module tables, memo | report modules, step | DSO memory, mappings | same modules as perf would report |
| perf.data parsing (`header`, `attrs`, `records`, `samples`, `endian`, `build_id`, `fold/metadata`) | none | bounded decoding | replay | no read past a section; offsets exact |
| Folding and rendering (`fold.rs`, `analysis.rs`) | counts, frame caches | resolve, render, count | symbols | caches change nothing but time |
| Symbol frame cache (`symbols.rs`) | tables of frames, hints, kernel cursor, notes of replaced maps | look up, resolve a batch, retire | fold, resolver | a cached frame is the one the resolver would give now |
| Symbol lookup index (`symbols/perf_tree.rs`, `symbols/perf_lookup.rs`) | red-black tree or sorted list | insert, remove, fix up, find | symbol loading | perf's choice among overlapping symbols |
| Symbol resolution (`symbols.rs`) | loaders, kernel objects, addr2line session | load, look up, inline | command session, cache, index | same object and symbol as perf |
| Tool resolver (`tools.rs`, `platform.rs`, `config.rs`) | none | search | profile run | documented order |
| Profile run (`lib.rs`, `backends*`, `artifacts.rs`, `manifest.rs`) | artifacts, report, run record | prepare, record, finalize, write | all of the process layer | the manifest is true; a cancelled recording is still finalized; the exit code is earned |
| Tool output parsers, folded stacks, flamegraphs, summaries | one pass each | parse, aggregate | profile run | totals preserved |
| Command line, benchmarks, vendored crates | none of interest | | | |

`PROJECT.json` lists, per component, what is modelled, and every hazard found at its line.

### Hard behaviours

* **Interleaving.** A signal may arrive between any two system calls of the runner;
  the child forks, stops, leaves its group or exits there too.
* **Failure half-way.** Any system call may fail after the spawn; a reply may be cut
  off; a consumer may fail in the middle of a flush.
* **Ordering.** perf's ring buffers interleave: records are ordered only within rounds.
* **Stale state.** Slots, windows, map-group keys, source ids and descriptors are reused
  while caches still hold their numbers.
* **Timeouts and limits.** Two-stage deadlines shared by three purposes; descriptor
  limits; wrapped addresses and keys.

## 2. Plan

The order follows what would hurt most: processes left behind or a wrong profile
first, wrong formatting last.

| Step | Modules | State |
|---|---|---|
| Process layer | `ProcessRunner`, `CommandSession`, `CliOutput`, `CancellationScopes`, `OffcpuLaunch` | done |
| Replay of a recording | `RecordDelivery` <- `RecordReplay`, `SessionMaps`, `MmapTable`, `DeferredCallchains`, `FoldPasses`, `RecordFold` | done |
| Reading a recording | `SampleParsing`, `RecordParsing` | done; header, attributes and feature table are left |
| Unwinder | `ModuleReports`, `CallFrames` | done |
| Folding of samples | `SampleFrames` | done; composition with the symbol cache and the summaries are left |
| Memory and symbols under the fold | `DsoMemory`, `FrameCache`, `SymbolOrder` <- `SymbolTree`, `SymbolIndex` | done |
| Kernel symbols | `Kallsyms`, `KernelSource` | done |
| Whole run, benchmark comparison | `ProfileRun`, `StreamComparison` | done |
| Mappings, rest | DSO registry and symbol-source numbers, publication of kernel-module sections; composition with `SessionMaps` and `DeferredCallchains` | left |
| Symbols of ELF files | `InlineFrames`, `ObjectTables` | done; the routing of requests to objects and debug files is left |
| Pure algorithms | folded stacks, frame tree of a flamegraph, summaries, time histories, tool search | left |
| Proofs: process layer | `ProcessRunnerProofs`, `CommandProofs` (with the theorems of `CliOutput`, `CommandSession`, `OffcpuLaunch` and `CancellationScopes`) | done |
| Proofs: whole run, comparison, replay | `ProfileRunProofs`, `CommandProofs`; `StreamComparisonProofs`; `RecordReplayProofs` (`RecordReplay` implements `RecordDelivery`; `DeferredCallchains`; `FoldPasses`); `SessionMapsProofs` | done |
| Proofs: memory, frames and kernel sources under the fold | `ResolutionProofs` (`DsoMemory`, `FrameCache`), `KernelSourceProofs` | done |
| Proofs, rest | index and caches of `MmapTable` | left |

An arrow points from an implementation to the abstract specification it refines:
`RecordDelivery` is what a consumer may rely on (each record once, in time order),
`SymbolOrder` what a user of the tree may rely on (an ordered sequence with insertion
after equals).

## 3. Modules and code

Each module names variables and actions after the source where that is possible.
`PROJECT.json` gives the lines of every definition.

**ProcessRunner** (`src/process.rs`, `src/process/cancellation.rs`). The runner thread has a program
counter `pc` with a step between any two system calls of `run_owned_process` that
another actor can tell apart: three cancellation checks, spawn, terminal hand-off, the
turn of the loop (`Serve`), the pair of signals to group and leader, `Drain`, `Feed`,
restore, wait. Any step may fail, and goes through the drop of `OwnedProcess`. Processes
fork, stop, write, read, leave the group and exit on their own; the user sends signals; deadlines
are remaining ticks.

**CommandSession** (`src/process/session.rs`). Caller, session, helper, user and time.
A chunk of a pipe remembers when it was written and after which request, which the
session cannot see; the properties compare the two.

**CliOutput** (`src/lib.rs` `run_cli_to_writers`, `src/output.rs`, `CliWriter`, both `main`
functions). One step per system call of a write; the buffered writer of the standard
library is modelled from its use. Modes stand for what the command returned.

**CancellationScopes** (`process/cancellation.rs`). Threads enter, nest and drop scopes; the
registration of handlers may fail half-way; signals come at any time. The module numbers the
states a scope may share.

**OffcpuLaunch** (the supervisor script of `src/backends/offcpu.rs` and what the backend makes of its status).
The shell, its workload, the recorder, the duration limit and the user; a step per command of
the script. `launch` variables hold pending signals, traps and the status file.

**RecordDelivery, RecordReplay** (`src/perfdata/fold.rs` `visit_ordered_records`,
`src/perfdata/source.rs` `WindowStore`). `Scan` reads any record; a FINISHED_ROUND starts a
flush up to the limit of the round before; each delivery is a step that may fail. Windows
are counted slots. Whether the recording keeps perf's order is chosen in Init (`ordered`).

**SampleParsing** (`samples.rs`, the sample-id helpers of `fold.rs`). `recording` is the attributes of its events and
one sample as fields; writing it gives the words of `payload`, one of which may be damaged. The parsers
are operators on these words.

**RecordParsing** (`records.rs`, `build_id.rs`, `endian.rs`, the kernel build id search of `fold.rs`). `file` is a
list of records, `bytes` what the readers see of it, with one damaged size.

**SessionMaps** (`src/perfdata/fold/threads.rs`, `SessionState`). One action per record kind; a record
is applied atomically because the replay is single-threaded. A group's mappings are
one image here, the ranges are in MmapTable.

**MmapTable** (`src/perfdata/mappings.rs`). The arena with its free list, the interval
index with running maxima, overlap fix-up, fork copies and lookups through a
`FrameMappingContext` (hints, known gaps, cached slots). `space` records address by
address what a naive table would say.

**DeferredCallchains** (`SampleSink` and `flush_deferred_samples` in `fold.rs`). Waiting samples, the batch
taken from them, one delivery per step.

**FoldPasses** (`collect_fold_counts_from_source_inner`). The direct pass, the replay through the
stream parser, what the second inherits from the first: build ids and frame cache.

**RecordFold** EXTENDS `RecordReplay` and instantiates `DeferredCallchains` and `FoldPasses` under variables of their own:
the run `replay` checks, and `RecordReplayProofs` proves, what the three promise.

**ModuleReports** (`perfdata/unwind.rs` and its helpers). Reports of a pid's mappings, the lookup of an address,
walks with lookahead, retry and late reports. Objects are spans with call frame information
in some of their rows.

**CallFrames** (`perfdata/unwind/*`). One step of a walk: expressions, rows, frame pointers,
masked registers, words of the stack. A `question` is an input of one of the code's functions, `answer`
its result; the property compares it with a reference definition.

**SampleFrames** (`fold.rs`, `fold/folded.rs`, `analysis.rs` and the place lookups of `mappings.rs`). A sample
is counted twice: directly, by the keys its frames are cached under, and through the text of perf's script
and the stacks collapsed from it. `fold_world` is the mappings and objects, the two sides keep
their own kernel cursor and loaded maps.

**DsoMemory** (`src/perfdata/memory.rs`). One action per read; objects appear and vanish and the
rest of the process takes descriptors between reads.

**FrameCache** (`SymbolFrameCache` in `src/symbols.rs`). The resolver is an environment
fixed at the start (`recording`); the actions are a batch that is folded and the nodes of a callchain
that is printed.

**Kallsyms** (the kallsyms sources of `src/symbols.rs`). `file` is a shape of a kallsyms file, its rows are
chosen in Init; the phases are the load, the completion with a context and the split into tables.

**KernelSource** (the native kernel resolver of `src/symbols.rs`). `world` is what the system holds: the live
kallsyms, a cached copy, an ELF, kcore and module objects. The actions are a sample's own address (of a module
only the first, `preprocessed`) and an address resolved alone or in a batch. A request's answer is the table in which its
address is looked up: a source completed after a module was tried has all of the module's rows but the first of each
run (`Rows`), as in Kallsyms. The inner tables are those of Kallsyms and not repeated here.

**InlineFrames** (the DWARF frames of `src/symbols.rs` and what the backends tell from them). `object` is a shape of an object:
units with their DIEs in order of depth, attributes, range lists and line rows, and what its symbol table says of each
address. One action resolves a batch; the units' indexes and the names stay for later batches. The property compares with perf's
own search, written on the tree instead of the index.

**ObjectTables** (`PerfObjectSymbolIndex` and its builders in `src/symbols.rs`). `object` is an ELF file with two symbol
tables, sections, segments and a PLT. Opening it builds the user index; the actions make the indexes of kernel and
module sections when they are first asked for, and answer function records, which depend on the record found last.
The index itself is that of SymbolIndex. The property compares what each way of asking gives with the file: user and
kernel lookups agree, every symbol of a module is reached through one of its maps, a PLT entry bears the name of
the function its slot is bound to.

**PerfSymbolTree, SymbolTree, SymbolIndex** (`src/symbols/perf_tree.rs`,
`src/symbols/perf_lookup.rs`). The tree's algorithms are operators on a record of nodes;
SymbolTree runs them in any order, SymbolIndex builds indexes from tables and compares
their answers with the walk.

**ProfileRun** (`run_profile_invocation`, every backend's `profile`, `artifacts.rs`). A backend
is a plan, a sequence of steps in the order of its function; a `?` ends the run. A
command is its start and its end; what happens inside is ProcessRunner's subject. The plans are
explicit tuples, so that theorems about their order can be proved.

**StreamComparison** (`src/benchmarks.rs`). Two producers, their channels, a hashing thread each, the exporter and the
collapser, the comparing thread.

The `MC` modules are suites: each EXTENDS one component, INSTANCEs the others under prefixed
variables, and a variable `part`, chosen in Init, says which of them runs. The others rest in one
initial state, so the state space is the sum of the parts. A property of a suite names what each part has to show.

## 4. Runs

TLC explores every run completely. The bounds are constants of the modules, given in the
configurations or in the suites.

| Run | Question | Bounds, and why they are enough |
|---|---|---|
| `runner` | Does anything survive the call, is anything forced too early, is output complete, is the terminal returned? | A leader and one descendant: one is enough to hold a pipe, outlive the leader and leave the group. Two signals, since the third does what the second does. Captured output, an attached terminal and a fed stdin are chosen in Init. Deadlines keep the order of the code's 350, 50 and 100 ms. |
| `runner_liveness` | Does the call end? | No data, shortest deadlines |
| `command` | output | Four units through a buffer and a pipe of two: partial writes, a full pipe, a flush in two parts; every front and mode |
| | profile | Every backend and request kind, two signals |
| | session | (constants in `Command.cfg`) Two exchanges: what one leaves in the pipes or in the session meets the next, and a failed one is followed by another; a request of two chunks, a pipe of one; helpers that answer only what they are asked, and any (`behaved`) |
| | launch | Statuses 0 and 7, two signals: one that stops the launch, one that meets the stopping; workloads that ignore signals |
| | scopes | Two threads, two signals, two nested scopes, three states |
| `replay` | replay | Five records of any kind and size over windows of two units, three rounds, one more than the queue's lag |
| | deferred | Four records of a thread and an unknown one, two cookies: a sample, chains of its own and of the other thread, and one more sample |
| | fold | Four records of two objects in two places, one of which has an id on the system: a mapping, a sample, a thread name or a BUILD_ID record, and a sample it matters to |
| | folded | Stacks of up to three frames in 18 places (user, unmapped, kernel, module, vDSO, kcore) of nine mappings; two samples; one or two events; with and without symbols and inlining |
| | samples | Every flag alone, all but one of them, two of six; words of 32 bits; one damaged word |
| | records | Each record kind with and without its optional parts, build ids in header and stream, one damaged size |
| | unwind | Six images, nine mappings that overlap, abut and move, two MMAPs, two samples, three frames |
| | frames | Words of four bits, expressions and rows of up to three operations (two for the rule that yields a value), every stack pointer: some 112,000 questions |
| `maps` | groups, names, threads | Two ids, which makes every thread both leader and member, and one unknown; keys wrap after five; sequences of any length. The behaviours are restricted: in `groups` and `names` every record has a thread id, and only the one maps and unwinds, only the other names; in `threads` neither happens |
| | spaces, lookups, reuse | Addresses 0-3 give every way two ranges overlap; three changes give a split of a split; two samples among four changes give a cached slot that is freed and used again (spaces and reuse without kernel mappings) |
| `symbols` | trees | Nine symbols reach every case of removal; two per address |
| | layouts, duplicates | Three symbols that start at 0-3 and are 0-3 long, pages of two; all six classes of attributes among three symbols at one address |
| | inlines | Four addresses; every tree of three DIEs in C and other units, a function with three DIEs below or four siblings, imports with cycles, range lists of versions 3-5 with every kind of entry, names through references, overlapping units asked for in three batches |
| `comparison` | comparison | Channels and pipes of one, outputs of up to two lines with either side ahead, one failure |
| | tables | Objects of up to eight symbols in four families: user files of two tables and two segments, PLTs with slots in both orders, function records of two aliases, modules of six sections with runtime files |
| `resolution` | memory | Three objects, one with a cached copy beside the system's, under a limit of three and three descriptors of the process: every third open evicts or fails. Files of three bytes in blocks of two, words of two at offsets 1 and 2: a word across blocks and one across the end |
| | frames | Two of each kind of key, split by kind because the tables are independent; batches of one, and of two where a batch matters |
| | kallsyms | Files of four rows at splits and page ends, of three aliases, and of nine rows of two modules |
| | kernel | Two modules, stacks of up to two frames, 284 worlds: those left out differ from one of them by the names of the modules, or by the lack of a cache that a complete live kallsyms keeps from being read |

Four runs show disagreements between the code and what its comments or documentation
say (`findings` in `PROJECT.json`):

* `fold_fresh`: the second pass of a fold starts with the build ids the first
  pass learnt from the stream, not with fresh metadata.
* `fold_foreign`: those ids shift the numbers of symbol sources, which key the cache the
  two passes share; a sample of one object is counted with frames of another.
* `cli_failed`: a failed `--json` profile exits with 0 if the reader closes the
  pipe before the final flush.
* `kernel_order`: with an unusable ELF in the build-id cache the kernel counts as loaded before
  any source is, and a folded batch resolves module frames in another order than the script.

Each property has a mutant in `PROJECT.json`, a plausible bug in a definition it is
about, under which TLC finds it violated.

### Fairness

* Runner: `WF(Runner)` because the thread is scheduled and none of its calls blocks longer
  than the 20 ms of `poll`; `SF(Tick)` because every turn polls, so time passes between turns.
  Nothing is assumed of the child, its descendants or the user.
* Session: `WF(Session)` and `SF(Tick)` for the same reason, the deadline is read every turn.
* CLI output: `WF(Process)`, as no call blocks longer than `poll`. Nothing is assumed of the reader.
* Comparison: `WF` of each thread's step and of the child processes, which run until their pipes block;
  failures are not fair.

In a suite fairness is stated of the step of a part while that part runs. Runs with
`CHECK_DEADLOCK FALSE` contain systems that stop by design: a session without
further exchanges, a run that has exited, a bounded number of changes or tables.

## 5. Proofs

TLAPS proves the following for every value of the constants that satisfies the modules' assumptions.

`ProcessRunnerProofs`: any finite or infinite set of descendants, any number of signals, any sizes of pipes
and deadlines.

* `TypeCorrect`: `TypeOK`.
* `NothingSurvives`: `CleanReturn`, when the call has returned nothing of the group is alive and
  the leader is reaped.
* `IdentityPinned`: `PinnedIdentity`, signals and terminal calls only use a pid that has not been
  given back.

The invariants are not inductive: `CleanReturn` speaks of `pc = "done"` only, and nothing in it says
why the step before leads to a clean state. `IInv` adds where the pending signals lead (`Flow`:
ways out go through a SIGKILL), that the child is unreaped between
spawn and return (`Owned`), what has been killed after each step of a way out
(`Cleaned`), and that the terminal guard is disarmed there (`Disarmed`). The proof has one lemma for the
runner's steps and one for the environment's: a dead process stays dead, and only live members of the
group can add members to it.

The same module goes on, under the same assumptions and on top of `IInv`:

* `StopsInOrder`: `OrderlyStop`, no live leader is forced without a reason, and the forwarded signal
  reaches every live leader, once unless it left the group.
* `NothingCutShort`: `PipesComplete`.
* `TerminalComesBack`: `TerminalReturned`.

These speak of what a signal does at the moment it is sent and of the end of the call, so `StopInv` follows the
runner in between: what is left of each queue of signals (`Queues`), the reason behind every deadline
that has been set and behind every signal that forces (`Deadlines`, `Forcing`), who has been told so far
(`Told`), which pipes may be closed with something in them (`Drained`, `InputOpen`), and which results a
way back can have (`Returning`).

In `CommandProofs`, the session: any sizes of requests, pipes, drains and deadlines; a helper that writes what and
when it likes.

* `ExchangeAnswers`: `RepliesAnswer`. `FailureIsFinal`: `FailureCloses`.

What is read for an exchange was written during it, because the pipe was found empty before the first byte of
the request left (`FreshInv`); a helper that only answers has read the requests of the calls so far and
owes what it has not written of the last (`StepInv`, an equation between bytes written and read, and between newlines
asked for, received, in the pipe and owed). Lemmas count the newlines of a sequence that is
appended to, taken from and drained.

The supervised workload, proved in `CommandProofs`: any set of exit statuses and number of signals.

* `LaunchAccounted`: `WorkloadAccounted`. The invariant says when the shell knows its child (`ScriptInv`), that a shell
  which was told to stop has the signal before it while the trap is in force (`TrapInv`), and whose status a file
  can hold (`FileInv`).

`ProfileRunProofs`: any set of requests and number of signals.

* `ArtifactsAreTrue`: `ArtifactsTruthful`. `RecordingIsPrepared`: `RecordingPrepared`.
  `StoppedIsFinalized`: `Finalized`. `ExitIsHonest`: `ExitHonest`.

None of these is inductive, because each depends on the steps that are still to come. So the
argument starts with the plans: `Ordered` (the manifest is last, what is cleared and will be named is
written again, nothing after a recording can be refused, the supervisor's evidence is looked at),
`ToolsFound` (a tool used after the recording is looked for before it) and `Scoped` (the
renderer's tool runs in the one finalization scope) hold of each backend's plan, of an invocation that
prefixes it with a Cargo build, and of a plan a probe puts in place; and of the rest of a plan once a
step has been taken. `FilesInv` relates the files to what is left of the plan, `CauseInv` what the
recorder's end, the first signal and the fault of the environment have to do with each other. Five lemmas say what a step that
proceeds or fails does to these, one per action then shows which of the two it is.

The cancellation scopes, proved in `CommandProofs`: any set of threads, nesting, number of signals and of outermost scopes.

* `ScopesAreExact`: `ScopesExact`. `ThreadsInv` says that the scopes of a thread share the State of the outermost, which
  alone has handlers, that no two threads share one, that no CURRENT refers to the State of another thread, and which
  handlers a registration that is half done has (`Registry`). `SignalInv` counts: what reached a State is what has been
  counted and the handlers that are still to run (`Count`), and a handler keeps its cause before it counts
  (`Handlers`). A signal does not touch the first, a scope does not touch the second, except through the registry a signal
  reads.

The output, proved in `CommandProofs` because the suite extends `CliOutput`: any length of output, sizes of buffer and pipe, and number of signals.

* `DescriptorRestored`: `FlagsRestored`.
* `OutputIsExact`: `OutputExact`, from its two halves `OutputOnce` (nothing is lost or repeated) and
  `TextDelivered` (the text of an error reaches a reader that stays).
* `ZeroIsEarned`: `ZeroEarned`, exit code 0 means delivered output and a successful workload.

`OutputInv` adds what the guard saved (`Saved`), that a failed write has a cause (`Blame`), and that the
command, the flush and the exit follow each other with nothing left over (`Flow`). For exit codes, `Earned`
adds what has been decided at each step of the way out, and `Blamed` that an error has not been forgotten there.

`CommandProofs`: the suite `MCCommand`, for any values of its constants; the requests are those of `MCRequests`.

* The suite implements the specification of each of its parts (`ImplementsProfile`,
  `ImplementsHelper`, `ImplementsLaunch`, `ImplementsScopes`, `ImplementsOutput`), so what is proved of a part holds of the
  suite: `SuiteOutput`, `SuiteArtifacts`, `SuitePrepared`, `SuiteFinalized`, `SuiteExits`, `SuiteReplies`, `SuiteAccounted` and
  `SuiteScopes` state the properties the run `command` checks. The suite instantiates `ProfileRunProofs` for that; the theorems
  of the other parts are in `CommandProofs` itself.

`StreamComparisonProofs`: any outputs whose lines are sorted by stack, any capacities of channels and pipes, script,
picture, number of differences kept and of failures.

* `ReportsAreExact`: `ComparisonExact`. `Pipe` follows the tokens: what an end has counted the other end counted before
  (`Counted`), and a thread that has dropped its sender without an error has passed on all of its side (`Stages`), so an
  empty closed channel means the end of the output. `Merge` is the loop invariant of the comparison: the entries it is
  done with of one side are below those it is not done with of the other (`Below`), hence a stack found on one side only is
  missing from the whole other output, and the differences kept are those found, up to the limit (`Keeps`). It is
  claimed while no thread has failed: a channel that ends early looks like the end of the output, and only the threads'
  results, joined before the report, tell the two apart (`Reported`).

`RecordReplayProofs`: files of any length, windows and records of any size, a consumer that fails anywhere.

* `ReplayIsExact`: `QueueExact`. The queue and the records handed over are tied to what has been read
  (`QueueInv`), the next limit covers what earlier rounds left (`RoundInv`), every used slot is the
  window its records point into (`StoreInv`; the lemmas `RetainStore` and `ReleaseStore` are about the two operations of
  the store). Time order needs perf's promise about rounds: `OrderInv` bounds what was handed over by a record that was
  read two rounds before (`Old`).
* `ReplayDelivers`: `DeliverySpec`, every step of `RecordReplay` is a step of `RecordDelivery` or leaves its
  variables alone.
* `DeferralIsExact`: `DeferredExact`, for any threads, cookies and number of records. The property looks at what has gone
  out; `DeferredInv` says the same of what still waits. An entry that waits is as it was recorded and younger than
  every chain of its thread, one that a chain took has been decided by the first of those after it, one that the end
  took never met one (`ListInv`). Waiting list, batch and output are each in order, and of one thread all of the output is
  before the batch and all of the batch before what waits (`SampleOrderInv`), which is why splitting the list keeps the
  order of each thread. `Ranks` and `AtIs` are about the split: both parts in order, and their lengths add up.
* `FoldIsExact`: `FoldExact`, for any paths, build ids, places and recording. The reference is the meaning of the recording so
  far, and `PassInv` compares the passes with it record by record. While the first pass counts its session is that of
  the meaning (`DirectInv`), and every frame it kept is the one its object was loaded with. After the first sample it
  skips the sessions agree on all but what has been loaded (`Alike`). The second pass starts over with the frames kept:
  without BUILD_ID records the id of an object never changes, so an object loaded by whichever pass, early or late, is
  loaded with the same id (`Static`), and sources get the numbers they had (`Continues`): `CacheInv` and `StreamInv`. With
  such records both fail, which is what `fold_fresh` and `fold_foreign` show. `MeaningsAre` shows that the recursive
  function of the meanings exists, by the least record for which it would not.

`ResolutionProofs`, about the module `Resolution`, which the suite `MCResolution` extends: it brings `DsoMemory` and an instance
of `FrameCache` together. First the memory, for any objects, copies, lengths, offsets, limits of descriptors, and words no
longer than a block.

* `MemoryIsExact`: `MemoryExact`, a word read is the one of the file selected first and is refused only when it is not
  there; the files that are open are exactly those in the queue, each once, and never more than the limit allows.
* `SourcesAreKept`: `SourcesKept`, what the first open of a source decided stays through evictions and reopenings, and a
  read whose object is there fails only when the rest of the process holds every descriptor.

The queue and the files are two records of the same thing, and every operation changes both. `Good` says that they agree
and that a block that is kept is what the file has there; it holds after each operation, not only between reads, so
there is a lemma for each: closing the oldest files (`ClosedGood`), evicting until an open succeeds (`EvictionGood`),
queueing (`RegisterGood`), the first open with its fallback from copy to system file, the reopening (`FirstOpenGood`,
`ReopenGood`), and a block that is read (`WithBlockGood`). `AvailableIs` and `BytesJoin` put a word together from
the ends of two blocks.

Then the cache of frames, for any recordings: any sources, addresses, maps, modes, lengths of batches and answers of the
resolver. `CacheAssumption` says what a value is: None is not a number, and an address of the core kernel is neither one of
a user object nor one of a module.

* `FramesAreExact`: `FramesExact`.

`FrameInv` is the invariant.

* A table is sound by itself (`TableOK`): every key has a slot of its own, except that those without a symbol share slot 0
  (`SlotsOwn`); the revisions differ (`Revisions`); and each of the three hints is the answer of the search it saves
  (`HintsTrue`). Lookups move hints, so this is proved of every operation that looks something up: `TouchedOK`, `CheckOK`.
* What the cache holds is true (`CacheOK`). Of a user key it is the resolver's answer (`UserTrue`). Of a kernel key it is what
  the resolver says once the core is loaded, or the entry is noted as one to retire (`KernelTrue`); the notes are about
  entries that are held, and of maps that were replaced (`NotesTrue`).
* While a cursor is in a replaced map, every key held of that map was noted with the cursor's object (`CursorInv`), which is
  why the next node finds the old symbols or is given them. A sample that began with the core loaded has no cursor and
  nothing noted (`SampleInv`), so it is served nothing old.
* What is followed of a rendering has a revision the table has already given out (`ProjectedInv`), hence an entry
  refilled later has another.

A batch is a loop over its keys, and the proofs follow it key by key to the least one that would break the claim (`CheckedOK`,
`StoresOK`): the core may be loaded by any of them. `FillOK` and `PrefetchedOK` put the loops together, `ContinuedOK`,
`BeforeOK`, `CursorOK` and `FinishedOK` are the steps of a node that is printed.

`KernelSourceProofs`: any kernel modules, machines and recordings (`WorldOK`) and lengths of stacks.

* `SourcesAreExact`: `SourcesExact`, what the run `resolution` checks of the part "kernel".

The invariant `Good` says how far loading is. A source not yet completed still has its preparation, unless kcore took it, and a
source is selected only when all of them are known (`LoadsOK`). kcore is looked for before the core is loaded, and takes
over only while no other source has been completed (`KcoreOK`). Without a kernel ELF a loaded core has a completed source, in a context that knows
every module tried before (`CoreOK`). Within a step the reference to a mapping may fix the context before the core is
loaded, so the parts that hold in between (`Base`) are kept apart from what holds between requests. Each operation has a lemma
(`MappingGood`, `CompleteIs`, `ModuleSourceGood`, `RouteGood`, `FrameGood`, ...).

That a batch is like its requests one by one is not an invariant of a step but a fact about operators: once the order is
said not to matter, the resolver is `Settled`, every request has an answer that depends on what is loaded only (`Answer`), and
every element of a batch, whatever its pass, leaves a resolver that gives the same answers (`Kept`). `AllAlong` is the
induction along a stack, by a least element that fails; `InOrderKept` and `PrefetchedKept` then give the same answers for both
orders.

`SessionMapsProofs`: any process and thread ids, images and names, and any sequence of records; there are fewer thread
ids than group keys, which are 32 bits wide while Linux keeps ids below 2^22 (`IdsAssumption`).

* `CountsAreExact`: `CountsExact`. `GroupsAreIsolated`: `GroupsIsolated`. `ThreadsStayPut`: `NotMoved`.

Between records the invariant (`IInv`) is little more than the property, but a record is a chain of calls and the counts are
wrong between them: a fork holds its parent's group so that replacing the child cannot free it, and a group whose last
thread is gone is listed as retired until it is purged. `Tidy(s, H)` is what does hold of the session in between: the counts
are exact but for one more for each group of `H`. There is one lemma for each operation of `ThreadMaps` and of
`SessionState` (`JoinTidy`, `SoloTidy`, `ReleaseTidy`, `RemoveTidy`, `PurgeTidy`, ..., `ForkCalm`). `RoomForOne` is the
pigeonhole argument that a new group always finds a key, `SearchFinds` that the search from `next_key`, wrapping, ends at
one that nobody uses, which is why nothing of an earlier group is found under it.

Only model-checked, and why:

* Liveness and `ENABLED`, which the prover does not handle: `runner_liveness`, `ExchangeEnds` and the other
  temporal properties under fairness.
* What a recursive definition computes for every input: the induction theorems of the library take an operator as a parameter,
  which the installed provers cannot instantiate. `RecordReplayProofs` and `ResolutionProofs` argue with a least counterexample instead; sums
  over sequences and trees are left to TLC.
* Modules with recursive operators, which the prover cannot use: `PerfSymbolTree`, `SymbolTree` (with the refinement
  `SymbolTree` => `SymbolOrder`), `SymbolIndex`, `ObjectTables`, `InlineFrames`, `Kallsyms`.
* The modules that compare an algorithm with a reference on enumerated inputs (parsers, unwinder, folding, symbols): their
  state is an input and an answer, there is no invariant to strengthen.
* `LookupExact` of `MmapTable`: within reach, not done. `KernelExact` has two halves: that of `KernelSource` is proved, that of
  `Kallsyms` is about recursive operators.

## 6. Not modelled

* The search for debug files and the routing of requests to objects; the decoding of ELF and DWARF (object, gimli) is external to ObjectTables and InlineFrames; explicit kallsyms, kernel ELF and guest
  kernels; the path-keyed `resolve_many`, which folds of a `perf.data` do not use.
* The header, attribute section, feature table and event names of a `perf.data`.
* The DSO registry and the sections published by kernel modules; MMAP2 identities in FoldPasses; addresses beyond
  saturation.
* Decoding of call frame information (gimli) and the unwind formats of other platforms (framehop): external.
* `process_comms`, `exec_process_comms`, `mapping_cache`, and in the unwinder `context`, `loaded_unwind_modules` and the
  `truncate_*` fields are written and never read in a way that changes a result.
* Objects that are rewritten in place while they are read (DsoMemory).
* Standard error in CliOutput; paths of Windows builds.
* Second-order races: a group that takes the terminal between the check and `tcsetpgrp`, two writers
  that save and restore the flags of one description, a pid reused between the `wait` of the supervisor script and its
  `trap ''`.
* The arguments, report text and timing of the benchmarks; text parsers, argument
  grammar, summaries, flamegraph layout and vendored crates, which have no concurrent state.

### Observations

What the models showed or assume that no run states as a finding:

* OffcpuLaunch: a `stop` that nests before the mask acts as one; a kill between truncating and writing the
  status file gives an error outcome; a workload that ended between `wait` and the mask may be reported as
  stopped; a shell without job control makes its child ignore SIGINT.
* SampleFrames: the direct fold and the text differ on samples which the instance therefore leaves out: (a) addresses in a gap of kcore,
  which get an empty name when the kernel has kallsyms; (b) with inlining, a sampled
  instruction at a kernel-looking place of a user map (`fold.rs:3896` against `fold.rs:3529`); (c) without symbols, an
  unwound place that is unmapped and looks like the kernel: an address directly, `[unknown]` in the text; (d) a core frame without symbol,
  printed with the recorded path `[kernel.kallsyms]_stext` (`fold.rs:4605`), while the comment at `fold.rs:4655` and the direct
  label use `[kernel.kallsyms]`; (e) `FoldedOutput` returns at once for a sample of an event that is not
  counted (`fold.rs:1848`), so what its frames would have loaded stays unloaded for later samples. A kernel that is loaded late
  is not in the model.
* SampleParsing: `parse_sample_record` reads AUX before CGROUP, DATA_PAGE_SIZE and CODE_PAGE_SIZE; the kernel writes AUX
  last. Only users of the library call it on such samples. `SamplesExact` speaks of layouts where both orders agree.
* RecordParsing: `parse_build_id_record` accepts ids of up to 24 bytes, the feature parser of up to 20.
* ModuleReports: a module that starts exactly at the last boundary has no end boundary, so the last one owns
  everything above (as in elfutils); a fixed-address module mapped at another base is collected by the second
  report of the same address.
* CallFrames: unwind ranges and descriptions agree only for modules that do not reach the end of the address
  space; `def_cfa_register` and `def_cfa_offset` on an undefined CFA leave it undefined where elfutils refuses the row.
* ObjectTables: the record binutils finds is kept for the next question, so in tables that are not sorted by address,
  and among aliases, the name told depends on the order of the questions; `RecordStable` speaks of sorted tables.
* KernelSource: the comment at `symbols.rs:4537-4540` says that the rows of a module tried before the core are discarded when the
  core's source is loaded, and that a module cannot load it itself. For a native source neither is quite so: `finish_ordinary`
  drops the first row of each run (`symbols.rs:1397-1421`) and `resolve_kernel_source` refuses such a module only for kallsyms that were
  given explicitly (`symbols.rs:4547-4553`), so the rest of its rows answer; and with a usable ELF a module without object completes
  kallsyms through `ordinary(None)`. `FailedStaysFailed` therefore says only that such a module is never answered from all of its
  rows. The model assumes that kcore's ranges contain the core's text.
