# A TLA+ model of async_procfs

`async_procfs` reads and writes `/proc` from async Rust. It has no server and no
threads of its own: its difficulty is that every call is several awaits long,
that any number of tasks run calls at once, that a future may be dropped at any
await, and that the kernel's tables, which it reads piece by piece, change
under it. These modules model the parts of the crate where that matters; TLC
checks them on small instances and TLAPS proves all of the safety results for
every value of the constants. Paths below are relative to the repository.

## Inventory

| Component | Code | State | Operations | What makes it correct |
|---|---|---|---|---|
| Kernel version | `src/sys/kernel/mod.rs` 10-129 | none | parse, compare, pack into a `u32` | refuses what does not fit; a strict total order; packing loses nothing |
| Version cache | same, 34-51 | one `static AtomicU32` for the whole process | `Version::cached` | answers are versions of mounted kernels; a task reads the file once; a task that was answered is never refused |
| threads-max setter | same, 455-487 | the file | `set_threads_max` | a limit is refused exactly where Linux bounds it and it is out of range |
| Value files and SysRq | `src/helpers.rs` 6-93, kernel 375-453 | the file | `read_value`, `write_value`, `sysrq`, `set_sysrq` | what is read was there; what was set last is read |
| Process handle | `src/process/mod.rs` 75-368, 425-620, 771-782 | an open directory, a pid, a path | `new`, `myself`, readers, writers, `uid`, `is_alive`, drop | denotes one process for ever; `is_alive` tells the truth; the end of the process is an error and says so; where it is not, because there is nothing to read, the same answer comes from living processes, too |
| Process scan | same, 785-824 | a directory stream | `all_processes` | misses no process that was there throughout, yields none twice, ends |
| Descriptors | same, 38-73, 370-422 | a directory stream | `fds`, `fd_count`, `FDInfo::from_process_at` | misses no steady descriptor, lists none twice, pairs it with its own file, ends |
| Tasks (threads) | same, 600-655; `src/process/task.rs` | a directory stream, a handle per thread | `tasks`, `task_from_tid`, readers of `Task` | a `Task` is of a thread of its process, and stays with it; no thread missed, none twice; a polled listing ends |
| Synchronous bridge | `src/runtime.rs`, `src/system_info.rs`, `src/lib.rs` 101-129 | a runtime and its pool of threads | `execute_future_from_sync` | a call ends on each runtime flavour, and does not stop the runtime's other tasks where that can be helped |
| Kernel parsers | kernel 162-339 | none | `BuildInfo`, `SemaphoreLimits` from a text | what a kernel wrote is read back; what is cut or is no number is an error |

| Process file parsers | `src/process/mod.rs` 172-182, 264-276, 476-499 | none | `cmdline`, `environ`, `auxv` from bytes | the same, and a text that is cut is an error |
| Root handle, generic readers | `src/lib.rs`, `src/sys/mod.rs` | an open directory | open, one read | parsing is in `procfs-core` |

How they interact. `Process::new` and `FDInfo::from_process_at` ask
`Version::cached` for the flags of their `open`; `set_threads_max` asks it whether
to check the range. All of them share one static, whatever root their
`AsyncProcfs` was opened on, and all of them go on when it fails.
`all_processes` makes a `Process` for each name, `fds` an `FDInfo` for each name,
each with awaits between the name and the `open`. `is_alive` and `uid` are
readers of a handle. `fd_count` falls back on the stream of `fds`. The bridge is
reached only from `SystemInfoInterface`, when a parser of `procfs-core` asks for
the boot time in the middle of an async read.

What is hard to test in it: the races to fill the cache and its Relaxed loads;
pids and descriptors that change hands between a name and its `open`, and
between an `open` and its read; errors that are dropped on purpose
(`if let Ok`, `.ok()`) and so turn a want of file descriptors into a wrong
answer; dropped futures; a setting file seen between its truncation and its
write. `PROJECT.json` lists each place under `hazards`.

## Modules

* `ProcResult` - outcomes of calls: `Ok`, `Err`, and `Pending` for a call that
  is under way or whose future was dropped. An error is the class callers can
  tell apart; its text and path are left out.
* `KernelVersion` - the pure part of `Version`. A `u32` is its four bytes in
  memory order, because the code goes through `to_ne_bytes`; `LittleEndian` is a
  constant. A release text is what is left of it after the code's cutting and
  splitting: a sequence of numbers, with `Blank` for an empty component.
* `VersionCache` - `Version::cached`. The static is its modification order
  (`stores`), and `seen[c]` is how far task `c` has seen it: a Relaxed load of `c`
  returns any value from there on. One action for a load that hits, one that
  misses, the read of `osrelease`, its failure, the store, the drop of the future.
* `VersionOracle` - what the cache promises: an answer, and from then on never
  a refusal for that caller. `VersionCache` implements it (`ImplementsOracle`).
* `ThreadsMax` - `set_threads_max`, composed with `VersionCache` by EXTENDS: a
  call's phase "asking" is a call of the cache. The condition of the early
  return is written field by field as in the code.
* `SysRqSetting` - `sysrq` and `set_sysrq` through `read_value` and
  `write_value`. A `u16` is the set of its bits. The file is a kernel's (a write
  is one assignment, `O_TRUNC` does nothing, other programs write too) or a
  regular one (emptied by the `open`, torn by overlapping writes). An `open`
  whose future was dropped may be carried out all the same. `SettingsAssumption`
  says that a caller sets what the type `SysRq` has: a mask of the functions
  that `AllowedFunctions` names.
* `ProcWorld` - external: processes, their life, and pids that are reused. An
  open file under `/proc/<pid>` is bound to a process, not to its pid.
* `ProcessHandle` - `Process`: `open` of the directory, the extra read of the
  link for `myself`, readers and writers with their two awaits, `uid` with its
  one, `is_alive`. `stat` and `cmdline` wrap a failed read in `wrap_io_error`;
  `oom_score`, `environ` and `coredump_filter` return it with a bare `?`, and
  stand for the others that do. `set_oom_score_adj` stands for itself and
  `clear_refs`. Files are counted. `MemoryReaders` are the readers that find
  nothing where a process has no memory: one that has ended, or one of `Bare`,
  the processes that never have any, like kernel threads, and belong to root.
  `Blank` is an answer that says nothing of a process: no variables, no
  arguments, no filter, or root's uid. It comes from living processes of `Bare`
  as from those that have ended, and a caller cannot tell the two apart.
* `ProcessRef` - what a `Process` promises: it denotes a process, a reader tells
  in one step what that process is, and a writer changes that process and no
  other. There are no pids, files or steps in it. `ProcessHandle` implements it
  (`ImplementsRef`).
* `ProcParsers` - what `cmdline`, `environ` and `auxv` make of the bytes they
  have read, as operators on sequences of bytes or words. It extends
  `ProcessHandle`: an answer of its operation `environ` is blank, and then the
  parsers get no bytes, or comes from the process, and then they get any
  contents.
* `Directory` - external: `getdents`. One read of a directory returns the first of
  the entries that are left, in the directory's order (`Batches`). `ProcessScan`,
  `FdScan` and `Tasks` read their directories with it; what is left is theirs to say.
* `ProcessScan` - `all_processes` and its consumer, on `ProcWorld`. The directory
  gives names in order, in batches, as they are when the batch is read.
* `Listing` - what such a stream promises: it tells of entries that the directory
  had while it ran, of no name twice, and where it is complete, of every entry that
  stayed from its start to its end. There are no batches, cursors or opens in it, and
  telling is one step. `ProcessScan` and `FdScan` implement it (`ImplementsListing`);
  the completeness promised is for a program that does not run out of files.
* `FdScan` - `fds`, `fd_count` and `FDInfo::from_process_at` with its three
  operations, on a descriptor table that its process changes at will. Before each
  `open` the code loads the cache of versions (`LoadVersion`, `FetchVersion`), which
  other tasks fill through other roots (`CacheFills`); `cached` is the age of what is
  in it, `path` whether the link is opened with `O_PATH`. The history `steady` is the
  descriptors that have kept their entry since the call: the same file, or none;
  `misled` is those that were opened for a kernel of another age than their own.
* `Tasks` - `Process::tasks`, `task_from_tid` and the readers of `Task`, for one
  consumer. Threads are numbered in the order of their birth; a thread's tid
  may be used again in the process and outside of it. The directory is read in
  batches that resume the way the kernel does: at the tid that did not fit, or
  at a position if no thread has that tid any more. `Rank` is a thread's position.
  `NoChildren` is the empty list of `children`, of a living thread or an ended one.
* `SyncBridge` - `execute_future_from_sync` and the future it drives:
  `AsyncCurrentSI::current` of `/proc/stat`, an open and a read. One action per
  arm, the `unreachable!` one for a flavour the code does not know included
  (`CallUnsupported`); the pool of tokio (a bounded number of threads, a queue
  of jobs, cores that `block_in_place` hands over and takes back) is external.
* `KernelParsers` - `BuildInfo` and `SemaphoreLimits`, on the words of a text, which
  may be cut between two words or inside one (`Beginnings`). It
  extends `SysRqSetting`, whose `read_value` reads both texts.
* `MC*` - instances for TLC. `*Proofs` - theorems: `VersionProofs` about
  `KernelVersion`, `VersionCache` and `ThreadsMax`; `SysRqProofs` about
  `SysRqSetting` and `KernelParsers`; `ProcessHandleProofs` about
  `ProcessHandle` and `ProcParsers`; `SequenceProofs` holds the lemmas that
  several share, about `Directory`, names taken off a batch, and loops over a
  sequence; the others are about the module they are named after.

In each module a definition that begins with `Mutant:` in its comment is a
plausible bug; nothing uses it. It replaces the definition below it to see
that the property named in `PROJECT.json` fails.

## Runs

| Run | Question | Result |
|---|---|---|
| `version_cache` | Do racing, failing and dropped fills of the cache keep it correct? | all five properties hold |
| `threads_max` | Is the range check made where it should be, with a version cached through another root? | holds for kernels 2.6.32 and 6.1, as long as no version of an older kernel has been cached |
| `threads_max_minor_zero` | The same on kernel 5.0. | violated: finding 1 |
| `process_handle` | Does a `Process` stay with its process, do `is_alive` and errors tell the truth, and do `environ` and `auxv` lose anything of what they read? | holds |
| `is_alive_without_files` | Is `is_alive() = false` right without exception? | violated: finding 2 |
| `process_scan` | Does a scan miss or repeat a process, or go on after an error; is it a listing, does it end? | holds |
| `process_scan_errors` | Is a process that cannot be constructed reported? | violated: finding 3 |
| `fd_scan` | Does a listing of descriptors miss, repeat or confuse them, is it a listing, does it end? | holds, but for descriptors opened with a version of another root |
| `fd_count` | Is the count the number of descriptors? | violated: finding 4 |
| `sysrq_setting` | Was what `sysrq` returns in force, is what was set last read, and are the build string and the limits of every kernel read back? | holds; `BuildStringRead` states what is kept of a build string, `SemaphoreLimitsWhole` what a cut does |
| `tasks` | Does a listing of threads miss, repeat or confuse them, does it end, and does a `Task` tell of its own thread? | holds |
| `sync_bridge` | Does a blocking call end on each flavour, does it panic only where it has driven nothing, and do other tasks run meanwhile? | holds where the pool is large enough, and the bound is exact |

### Bounds, and why they are enough

* `version_cache`: three tasks, so that two fills can race while a third task
  loads an old value; three roots, of which one names a kernel whose patch level
  needs both bytes, one has four components, one does not parse. Nothing bounds
  `stores`; that a task stores at most once does.
* `threads_max`: two tasks; the limits just below and at the lower bound and
  just above the upper one. Two roots let a version be cached through the wrong
  one; 2.6.32 has a minor number above 1 and does not bound the limit.
* `process_handle`: two pids for two processes besides this program's own, so
  that a pid passes from one process to the other while a handle is held;
  `MaxFiles = 3`, so that both tasks can hold a handle and one can read, and the
  other is out of files. With `MaxFiles = 1` a held handle leaves none at all.
  `Calls` gives each task its operations: one has `stat` and the writer, the
  other `oom_score`, the three memory readers and `uid`; one of the processes is
  bare. The tasks share only files and processes, so that an operation of one
  meets every step of the other, whatever it calls. The parsers get environments
  of two variables with a stray string before or behind them, and vectors of
  three pairs, cut at every word.
* `process_scan`: three pids for three processes and this program's, batches
  of one or two names, so that a pid is reused behind, inside and ahead of the
  current batch; `MaxFiles = 3`, so that a consumer that keeps two runs out.
* `fd_scan`: two descriptors, three files (one whose name is not UTF-8),
  batches of up to two, every kernel that the code distinguishes, and a cache that
  is empty, or has a version from before 3.6 or a later one, and changes.
* `sysrq_setting`: two tasks, which is enough for every overlap of a write with
  a write or a read; both extremes, a mask, the mask without a function, and the
  number 3, which the kernel accepts and `AllowedFunctions` does not have. Build
  strings are all combinations of SMP, the five models of preemption, and two
  forms of a date; limits are texts of five words, each a number of one, three or
  five digits or none, cut at every place between and inside them that leaves
  another text.
* `tasks`: the main thread and three more over three tids, batches of one or two
  names: a thread ends before, inside and behind a batch, the thread at which
  the kernel would resume ends, and a tid comes back while its first owner is
  listed or held. With four threads one can be skipped over because the position
  the kernel falls back on is too high.
* `sync_bridge`: the two flavours of tokio, one the code does not know and no
  runtime at all; two callers, two workers, one other task, `max_blocking_threads`
  from 1 to 4: from too small for anything to more than enough. One thread fewer
  than `ThreadForWorker` or `ThreadForIo` asks for and the property fails.

`ScanTypeOK` and `TasksTypeOK`, which say nothing but types, are not in these runs:
`ScanTypeCorrect` and `TasksTypeCorrect` prove them for every value of the constants.

The scans, `fds` and `tasks` stop when their call has returned, and the bridge's
callers call once, so these runs do not check for deadlock; the others do.

### Fairness

Liveness assumes only that the I/O of a call that has been started completes,
with an answer or an error, and that its task is polled again: weak fairness of
the disjunction "the step succeeds or fails" of each await, or of the stream's
step. That is what an executor and a kernel give. Nothing is assumed of
callers (they need not start calls, drop handles or read to the end), of
processes (they need not exit or stay) or of the scheduler's order. Futures may
be dropped for ever.

`TasksEnd` needs strong fairness of the stream's step: the consumer polls the
stream only when it is not waiting for a reader of a `Task`, so polling is
possible again and again, not all the time. It also needs that a process has
finitely many threads; one that starts threads for ever can keep a listing
going for ever, as its documentation allows.

`OthersRun` assumes nothing of I/O: tokio's threads run, a worker that is up gives
every task its turn, and the thread that drives the future goes on when it can.
`BridgeEnds` has the completion of the I/O as its hypothesis, and for a
multi-thread runtime without io_uring that the pool has more threads than there
are callers (tokio's default is 512).

## Findings

1. `src/sys/kernel/mod.rs:473`: `kernel.major >= 4 && kernel.minor >= 1` is not
   "4.1 or later". On 5.0, 6.0 or 7.0 the range is not checked. A kernel that
   bounds the limit refuses the write itself, with another error.
2. `src/process/mod.rs:196`: `is_alive` is false for every error of `stat`, so
   also when this program has no file descriptor left.
3. `src/process/mod.rs:817`: `all_processes` skips a process that cannot be
   constructed; its documentation says an `Err` is returned.
4. `src/process/mod.rs:386`: where the directory has no size, `fd_count` counts the
   items of the stream: an `Err` item counts, a descriptor without an `FDInfo` does
   not.

Seen while modelling, without a run of their own:

* One version is cached for all roots (`src/sys/kernel/mod.rs:37`). If it is
  older than the kernel of the root in use, `set_threads_max` may not check
  the range (472). If it is from before 3.6, `FDInfo` opens links with
  `O_NOFOLLOW` and without `O_PATH` (`src/process/mod.rs:45`): each `open` fails,
  and `fds` is empty without an error. On such a kernel itself it is always so.
  `RangeChecked` and `FdNoneMissed` except these cases by name.
* A descriptor redirected between the `open` of its link and the `read_link` has an
  `FDInfo` with the mode of one file and the target of another
  (`src/process/mod.rs:59`).
* `preemptrt()`, documented as "Check if PREEMPTRT is ON", holds of no kernel
  (`src/sys/kernel/mod.rs:202`). None writes PREEMPTRT as one word; `from_str`
  (267) takes `PREEMPT_RT` for the beginning of `extra`, because `_` is not
  upper case, and `PREEMPT RT` for two flags. `PREEMPT_DYNAMIC` goes to `extra`,
  too, which then does not begin with the date.
* `cmdline`, documented as the complete command line, leaves out the arguments that
  are empty, so that those behind them move up (`src/process/mod.rs:175`).
* `uid` of a process that is gone is root's, and not an error
  (`src/process/mod.rs:203`).
* A failed read is reported under the path `io` whatever was read
  (`src/process/mod.rs:307`, 322, `src/process/task.rs:72`).
* `children` of a thread that has ended is an empty list (`src/process/task.rs:126`).

## Proofs

Each invariant below was first checked by TLC on the instance of the component's
run, then proved for every value of the constants, under no other assumptions
than those the modules state and, where it is said below, the theorem's own.

`VersionProofs`, versions: `PackingRoundTrip` (`FromU32(ToU32(v)) = v` on either byte
order), `VersionOrder` (`Less` is a strict total order), from lemmas on the two
bytes of a `u16`.

The cache: `TypeCorrect`, `AnswersCorrect`, `OneStore`, `Refinement`, for any
number of tasks and roots. The invariant `CacheInv` strengthens the properties
with where values come from: everything in `stores`, and the local variable of
a call about to store, is the packed form of a parsed release, and `seen[c]` stays
within the modification order. `OneStore` needs `FirstFill`: a task with a call
under way has not seen a store, so that its store makes it one more task that
knows. `OneStore` and `Refinement` assume `NoZeroRelease`, that no root names version
0.0.0: its packed form is `SENTINEL`, and such a root would be read again and again.

The limit: `LimitTypeCorrect`, `RefusalsCorrect`, `RangeCorrect`. Every step of
`set_threads_max` is a step of the cache or leaves it alone (`LimitStepIsCacheStep`),
so the cache's invariant holds in the composition, and its specification is
implemented (`ComposedCache`). `LimitInv` adds that a version a task has been told
has been in the cache (`AnswersCached`), which never forgets one (`CachedGrows`).
`RangeCorrect` needs in `RangeInv` where a call is that belongs to a task with a
version (`CheckedInTime`): it never asks again, and past the check its limit is in
range. It assumes `NoMinorZero`, that no mounted kernel from 4.1 on has the minor
number 0. That is exactly what finding 1 is about: without it the theorem is
false, and `threads_max_minor_zero` shows the state.

`ProcessHandleProofs`: `HandleTypeCorrect`, `IsAliveHonest`, `IsAliveCorrect`,
`AliveCorrect`, `DeathReported`, `HandleRefinement`, for any number of clients,
processes and pids, any of them bare, and any `Calls`. The invariant `HandleInv`
adds to the types that this program's process runs, that a handle's process has
been born (`HandleBorn`) and that a call under way has a handle and no outcome
(`CallShape`): without them a reader that finds no entry could not conclude that
its process is gone. `IsAliveHonest` has no assumption and excepts the answers
given without files; `IsAliveCorrect` has no exception and assumes
`EnoughFiles`, two per client and one more, from which `AlwaysCanOpen` follows
by counting. `DeathReported` is about all readers: one fails for want of a
process only if that has ended, with the error that its code makes of it, which
is not the same for all (`ReadFails`).

`ProcessScanProofs`: `ScanTypeCorrect`, `NoneMissedCorrect`, `NoneTwiceCorrect`,
for any processes, pids, batches and number of files. `ScanInv` says in `Order`
that the pids of what was yielded, of the `Process` under construction, of the
names in the batch and of the names still to be read come in this order, from
which `NoneTwice` follows; and in `NoneLost` that a process of the start that is
still listed has been yielded or is ahead of the stream, in the batch or beyond
the cursor. Both hold though a pid passes to another process behind, in or ahead
of the batch, because a name only selects whatever process has the pid by then
(`OneOccupant`). That nothing is yielded behind an error (`ErrorsLast`) is the
other part of `NoneMissed`, and needs nothing else. `ScanRefinement` shows that
the scan implements `Listing`, where an entry is a pid with its process: the
step that needs the invariant is `Done`, which may only happen when nothing that
stayed is left (`NoneMissed`), and `Yield`, whose pid must be a new one
(`Order`); a pid that passes on is another entry, so the entries of the start
that are left are those that never went away (`WorldChanges`).

`FdScanProofs`: `FdTypeCorrect`, `FdNoneMissedCorrect`, `FdNoneTwiceCorrect`,
for any descriptors, files and batches. `Order` and `NoneLost` are as for the
scan; `InfoOfFile` adds that what `from_process_at` has seen so far of a
descriptor that kept its file is of that file, across its three operations. The
bound on the count follows from `Order` by counting (`FewItems`). `FdRefinement`
shows that `fds` implements `Listing`, where an entry is a descriptor with its
file. What an `FDInfo` tells of was there when its link was read, not when it is
yielded, so the listing looks at an entry first (`ReadLinkLooks`) and tells of
it later (`YieldInfoTells`). The mode, which is that of the file at the open, is
not part of an entry; that it goes with the target for a steady descriptor is
`FdNoneMissed`, and that it need not otherwise is said under Findings.
`FdNoneMissed` excuses the descriptors that were opened with a version of
another root, one by one, and those it misses are exactly of that kind: the
invariant keeps that any other steady descriptor is opened with `O_PATH` where
the kernel has it. The listing is promised complete if there are none.

`SysRqProofs`: `SettingTypeCorrect`, `AnswersInForceCorrect`,
`LastSetIsReadCorrect`, for any number of tasks and any functions, and
`SettingRoundTrip`, on which they rest: the number of a setting is read as one
that allows the same functions. `SettingInv` relates a call to the file: a
reader holds every text the file has had since the call began, and what it has
got is one of them (`ReadersOK`); a writer that no other write has crossed finds
the file as its own `open` left it (`WritersOK`); and what is settled is what
the file says (`SettledOK`). `LimitsReadAnywhere` is about texts of any words,
numbers or not, cut behind any of them or inside it, whatever is left of that
word; `SemaphoreLimitsCorrect` follows.

`TasksProofs`: `TasksOfProcessCorrect` and `TaskReadsCorrect`, for any tids, any
number of threads and any batches. The invariant `TasksInv` says where a `Task`
comes from: its thread has been born under its tid (`ItemsBorn`); no thread but
the first ever had the pid for a tid (`PidOnce`), which holds because the main
thread is there as long as any other is (`LeaderLast`); and a reader under way
has no answer yet (`CallShape`). Neither theorem says anything of the order of
the listing.

`TasksTypeCorrect`, `TasksNoneMissedCorrect` and `TasksNoneTwiceCorrect` do, by
a second invariant, `ListInv`. A named thread that lives has been yielded or is
in the batch (`NamedMet`). While no thread of the start has ended, the directory
goes on at the first of those that it has not named (`PresentMet`), because no
later thread comes before them. The hard part is `GoesOn`: no thread is named
twice although the kernel has two ways to go on. By tid, all threads before the
one it goes on at have been passed. By position, it counts: of the live threads
not more have been passed than have been named (`Cardinality(Passed) <= pos`),
so that the thread at that position comes after all of them. Threads that end
make the position too high, never too low, which is why a thread may be skipped
but not repeated. `GoesOn` and `Once` hold until a tid is used again in the
process, and `TasksNoneTwice` excepts just that.

`SyncBridgeProofs`: `BridgeTypeCorrect`, for any number of callers, workers and
threads. `BridgeInv` adds that the job of an operation is in the queue once, while
its caller waits and has no thread for it (`Queued`), and what the flavour rules
out (`Flavours`); the bound on the pool is then kept by counting threads, since a
caller that leaves its core takes along the thread the core was on.
`PanicsOnlyUndrivenCorrect` shows that a call panics only where its future was not
driven at all, so that no operation of it is lost half way.

The parsers are recursive functions, and what the loop of one computes is proved
by induction all the same: not over an operator, but over the set of the steps
after which a fact holds (`SetInduction`, from the least number that is not in it).
From it come two facts, that two loops which start and go on alike are the same
(`SameLoop`), and that a loop exists (`LoopExists`). Each parser is then shown to be
any loop that takes its elements one by one (`BuildLoop`, `SplitLoop`, `EnvironLoop`,
`AuxvLoop`, `FlattenLoop`), and the proof gives such a loop. The results are about
inputs of any length, over any set of bytes or words, and no behaviour is needed
for them:

* `FlagsThenExtra`: of the words of a build string, the leading ones in upper case
  are the flags, the rest is `extra`.
* `SplitInvertsNulEnded`: strings without a NUL, each with a NUL behind it, are what
  splitting gives back, and an empty one behind the last.
* `CmdlineReads`: the arguments that are not empty, in their order, or an error if a
  byte of any is not UTF-8.
* `EnvironReads`: the variables among any strings, with every byte of their values,
  of several values the last. What is no variable changes nothing (`InsertOther`).
* `AuxvReads`: the whole vector if all of it was read, an error for every number of
  words less than that.

`BuildStringReadCorrect`, `EnvironVariablesCorrect` and `AuxvWholeCorrect` are
the properties of the runs, which follow for the inputs they name. The vector of
`AuxvReads` has no pair of two zeros before its last, and the strings of the
others hold no NUL, because that is how a kernel writes them.

Only model-checked, because the prover cannot express it, is liveness:
`CallsEnd`, `ScanEnds`, `FdCallEnds`, `TasksEnd`, `BridgeEnds`, `OthersRun`. The
four runs that find a violation say nothing that could be proved.

## What is assumed of the outside

* A procfs file that is open stays bound to its process; reading it after the
  process was reaped fails with `ESRCH`. `procfs-core` turns an `ESRCH` that comes
  with a path into `NotFound`; without one it stays an `Io` error.
* The root directory lists pids, and `fd/` descriptors, in increasing order,
  and a batch continues above the last name.
* The directory has a size from Linux 6.2 on; `fstat` of an `O_PATH` descriptor
  works from Linux 3.6 on.
* `write_all` of `async_hybrid_fs` completes when the data are written, and
  dropping the future of a write waits until it has been carried out or given up. An
  `open` whose future was dropped may still be carried out.
* A text of a few bytes reaches a file in one write.
* The program may look at the processes it asks about (no ptrace refusals, no
  `hidepid`), and they do not exec while they are asked.
* The memory of a process is there until it exits. `environ` opens it and reads
  as nothing once the process has exited; `cmdline` and `coredump_filter` look
  for the process at each read, which reads as nothing when it has exited and
  fails when it was reaped. `auxv` stands behind `environ` here; that a kernel
  may keep the vector of a file that is open for longer is left out. A process
  without memory belongs to root. The directory of a process that is gone
  belongs to root. A write to a setting is carried out or refused, whatever the
  reason.
* Threads: `/proc/<pid>/task` lists them in the order of their birth, the main
  thread until all others have ended; a listing resumes at the tid that did not
  fit, or at the position after the threads already named. `TasksNoneTwice` therefore
  excepts a tid that was used again within the process, and `TasksNoneMissed` promises
  all threads only if none of those present at the start has ended. An exec by
  a thread that is not the main one is left out.
* tokio: a worker and a file operation keep one thread of the pool each,
  `block_in_place` queues a job that takes over the core, and the call takes the
  core back if it ends before that. The pool has one thread per worker and
  `max_blocking_threads` more. Callers are tasks of the scheduler: those of a
  `LocalSet`, for which `block_in_place` panics, are left out.

## Not modelled, and why

* `cwd`, `root`, `exe` (one `read_link_at` under the handle), `mem`,
  `open_relative` and `open_relative_flags` (one open; the file is then the
  caller's).
* `AsyncProcfs::new`, `LoadAverage` and the readers of the net tables: one open, or
  one open and one read, as in `SyncBridge` and `ProcessHandle`; what they parse is in
  `procfs-core`.
* `BuildInfo::version_number`, `preemptrt`, `Type`, the numbers that `children`, `coredump_filter`,
  `loginuid`, `oom_score`, `pid_max` and `shmmax` parse: one conversion each.
* `read_value_from`, which nothing calls.
* More than one consumer of one `Task`, which would be a second client of
  `ProcessHandle` over again.
* Texts and paths of errors, `chrono` conversions, `Debug`.

## Plan

Done, in this order: `KernelVersion`, `VersionCache` with its oracle and proofs,
`ThreadsMax`; `ProcWorld`, `ProcessHandle` with its reference and proofs;
`ProcessScan`; `FdScan`; `SysRqSetting`; `Tasks`; `SyncBridge`; the writers,
`uid` and memory readers of `ProcessHandle`, with their proofs; `KernelParsers`,
`ProcParsers`; `TasksProofs`; then, with `Directory` and its lemmas taken out of
the three listings, the proofs of `ThreadsMax`, `ProcessScan`, `FdScan`,
`SysRqSetting`, of the listing of `Tasks`, and of `SyncBridge`; the parsers, for
inputs of any length; `Listing`, with the refinement of `ProcessScan` and
`FdScan`; the cache in `FdScan`, bare processes, dropped opens, cuts inside a
word, panics of the bridge.

Left:

1. A listing weak enough for `Tasks`: its tids may be told twice if one is used
   again, and a thread may be skipped if another has ended, so it does not implement
   `Listing`. What it promises instead is `TasksNoneTwice` and `TasksNoneMissed`.
2. The conversions listed under "Not modelled", each a single call.
