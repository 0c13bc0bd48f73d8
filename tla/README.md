# A TLA+ development for toolchain-utils

toolchain-utils is a collection of Python 2 tools around the ChromeOS
toolchain. Its concurrent heart is **crosperf**, which runs benchmarks on a set
of ChromeOS devices ("duts") that it reimages as needed and locks against other
users, with lock files or through an AFE server. Its **binary search tool**
bisects a build for the object files or packages that break it, its **automation
server** runs groups of jobs on a pool of machines, and **bestflags** searches
for good compiler flags with a pipeline of processes. This directory holds TLA+ models of the parts whose correctness depends on interleavings,
failures and bounds, TLC configurations that check them on small instances, and
TLAPS proofs for instances of any size.

"br" is the code's abbreviation for benchmark_run, and "label" its word for an
image of the experiment together with the duts it may go on.

## 1. Inventory

| Component | State | Operations | What is hard |
|---|---|---|---|
| `crosperf/schedv2.py` `Schedv2`, `DutWorker` | lists of brs per label, a list of brs with a cache hit, lists of active and finished workers, a map of locks, flags | `run_sched`, `get_cached_benchmark_run`, `get_benchmark_run`, `allocate_label`, `dut_worker_finished`, `terminate`; the loop of each worker | one thread per dut, locks created on demand, lists iterated while others change them, ctrl-c at any time |
| `crosperf/schedv2.py` `BenchmarkRunCacheReader` | `_cached_br_list` | `_read_br_cache`, `run` | arithmetic of the segments, readers that fail or die |
| `crosperf/results_cache.py`, `image_checksummer.py` | directories of files, named by a key | `ReadResult`, `StoreResult` | several experiments replace and read directories without a lock; a process dies in between; keys with wildcards |
| `crosperf/machine_image_manager.py` | the label x dut matrix, `label_duts_` | `compute_initial_allocation`, `allocate` | a backtracking search; `allocate` without a lock |
| `crosperf/benchmark_run.py`, `cros_utils/timeline.py` | timeline, `terminated`, `result`, `machine` | `run`, `Terminate`, `Record` | two threads on one timeline, exceptions of several kinds |
| `crosperf/suite_runner.py`, `cros_utils/command_executer.py` | attempt, command terminator | `Run`, `Terminate` | retries against termination, fatal errors |
| `crosperf/experiment.py`, `experiment_runner.py` | counters, the scheduler, locked machines | `Run`, `IsComplete`, `Terminate`, `_LockAllMachines` | monitor loop, ctrl-c, partial locking |
| `crosperf/machine_manager.py` | machines with lock flag and checksum, `image_lock` | `AcquireMachine`, `ImageMachine`, `RemoveMachine`, `ReleaseMachine`, `Cleanup` | stale checksums, sleeping under a lock, a machine removed and added again before it is released |
| `file_lock_machine.py` | a description of the lock and a liveness file per machine | `Lock`, `Unlock`, `TryLock`, `ListLock` | the death of a holder, death between truncating and writing |
| `afe_lock_machine.py`, `cros_utils/locks.py` | locks on a server, `locked_machines`, the lists of machines to use | `UpdateMachines`, `_UpdateMachineList`, `Cleanup`, `AcquireLock`, `ReleaseLock` | check-then-act between clients, partial failure, callers that do not check the owner |
| `binary_search_tool/` | bounds of the bisection, good and bad sets, saved state | `GetNext`, `SetStatus`, `DoSearch`, `DoVerify`, save and load | skipped items, pruning, crash and resume |
| `automation/server/` | ready jobs, executers, statuses, the uses and locks of machines | `ExecuteJobGroup`, `KillJobGroup`, the manager's loop, the executers, their notifications | condition variables, lost wakeups, two locks in two orders, a job queued more than once |
| `bestflags/` | queues, a poison pill, generations, results by identifier | the steering loop, two stages with workers and helpers, three search algorithms | processes that outlive the pill, duplicate tasks, tests that are not repeatable |

The rest of the repository (the contents of results, reports, tables and statistics,
experiment files, build and imaging scripts, dejagnu, cwp, crb, fdo_scripts,
user_activity_benchmarks) is sequential parsing, formatting or a wrapper of
external tools. It is listed in `PROJECT.json` as not modelled, with the reason.

How the crosperf parts interact: `ExperimentRunner._Run` builds `Schedv2`,
whose constructor reads the caches with reader threads, fills the label lists
and has `MachineImageManager` compute a first allocation. `Experiment.Run`
starts one `DutWorker` per dut. A worker first finishes brs with a cache hit,
then looks whether its dut already carries an image of the experiment, and then
loops: take a br of the dut's label and run it, or, when there is none, ask for
another label and reimage. It ends when no label is left, when reimaging fails,
when it is terminated, or when an exception escapes. The main thread polls until
no worker is active; on ctrl-c it sets the scheduler's flag, then each worker's
flag, and terminates the br each worker is running.

Without schedv2 every br is a thread of its own that asks `MachineManager` for a
machine. `MachineManager` locks machines with `file_lock_machine.py`, images one
if its checksum is not the label's, and takes it back afterwards or, if it does
not answer, removes it. With the AFE server the experiment locks its machines
before it starts and unlocks them after it ends, once more from an exit handler;
`image_chromeos.DoImage` locks the same machines through `cros_utils/locks.py`.

What makes these parts correct:

- a br is run at most once, and not lost while a dut can still run it;
- a br runs on a dut that really carries its label's image;
- after ctrl-c the workers stop, with at most one more br on the dut or reimage begun by each;
- every worker ends and the experiment ends, so the duts get unlocked;
- the first allocation is the one the search is meant to find, and a worker is
  sent home only when there is nothing left for it;
- a result from the cache is of the same test, image and kind of machine, as far
  as the conditions ask for it, and what was stored is found again;
- every br that ended has an outcome in its timeline, and a machine it held is
  released;
- a machine is used by one experiment, and by one br of it, at a time; a holder
  that died keeps nobody out; an experiment that is over leaves nothing locked.

The binary search tool is sequential, but it works on an environment it changes
step by step, can be killed at any time and is then resumed from a file. It is
correct if each test sees exactly the mixture of good and bad items that the
bisection asks for, if the first bad item is found within the estimated number of
tests, and if pruning ends with all the bad items, whatever was skipped,
interrupted or resumed.

The automation server has a thread that starts jobs, a thread per started job
and a main thread that serves requests. `JobManager._lock` protects the
jobs and its condition variable `_jobs_available` wakes the manager's thread;
`JobGroupManager._lock` protects the groups; the pool of machines has a lock of
its own. It is correct if the uses and locks of the machines are exactly those of
the executers that have them, if a job begins once and after all its
predecessors, if the group gets the verdict its jobs have earned, and if ready
jobs are started.

bestflags puts the steering process, the build stage and the test stage into a
ring of queues. It is correct if the tasks a generation waits for are exactly
those on their way, if a poison pill overtakes no task, if equal images get
equal costs, and if the search ends where its algorithm says.

## 2. Plan

1. *Done.* `ImageMatrix`, `MachineImageManager`: the allocation.
2. *Done.* `Schedv2`: the workers, the main thread, the allocation and the
   images on the duts composed; its inductive invariant (`Schedv2Inv`) and the
   proofs (`Schedv2Proofs`).
3. *Done.* `BenchmarkRun`: run() against Terminate(). `BrCacheReader`: what
   happens before `Schedv2`'s initial state.
4. *Done.* `BinarySearcher`: the bisection as operators. `BinarySearchState`: the
   tool on top of it (sets, verification, pruning, crash and resume).
5. *Done.* `MachineLock`, an abstract machine lock, and `FileLock`, which
   implements it; `AfeLock`; `MachineManager` and the legacy scheduler on top;
   proofs about the file lock and about `MachineManager`.
6. *Done.* `MachinePool` and `JobManager`, the automation server; `Flags`,
   `Generations` and `Pipeline`, bestflags.
7. *Done.* `ResultsCache` below `BrCacheReader`; the proofs about `BenchmarkRun`.
8. *Done.* The proofs about the file lock (that it implements `MachineLock`, too),
   the AFE locks, the results cache, `JobManager`, `MachineImageManager`, the
   binary search tool and the pipeline. Every invariant of every run is a theorem.
9. Left: an abstract scheduler (each br goes from pending to running to done) that
   `Schedv2` implements.

## 3. Modules

| Module | Models |
|---|---|
| `ImageMatrix` | the matrix, its initial allocation as a reference definition, one row of `allocate()`'s scan; constant operators only |
| `MachineImageManager` | the search as a state machine (recursion level, a column per level), and `allocate()` by several workers, row by row |
| `MachineImageManagerProofs` | its proofs |
| `Schedv2` | every worker and the main thread; the lock map; the images |
| `Schedv2Inv` | the inductive invariant |
| `Schedv2Proofs` | the proofs |
| `BenchmarkRun` | one br: the thread in run() and the thread in Terminate() |
| `BrCacheReader` | segments, reader threads, joins, the resulting lists |
| `ResultsCache` | what the readers read: directories and their keys, and the stores of this and of other experiments |
| `BenchmarkRunProofs` | the proofs about a br: what its reader takes from the cache, and how it ends |
| `BinarySearcher` | the bounds, `SetStatus`, the skipped indices, the splitting of intervals; constant operators only |
| `BinarySearchState` | the tool, its environment, its state file, death and resume |
| `BinarySearchStateProofs` | its proofs |
| `MachineLock` | what a lock on a machine promises: one exclusive holder or several that share it |
| `FileLock` | the lock file and the liveness file of a machine, and the processes that use and leave them |
| `MachineManager` | the legacy scheduler: brs as threads, the manager's machines, the main thread, another experiment |
| `MachineManagerProofs` | its proofs |
| `AfeLock` | experiments, people and DoImage locking machines through one server |
| `LockProofs` | the proofs about both kinds of locks, and that `FileLock` implements `MachineLock` |
| `MachinePool` | the automation server's machines: matching, acquiring, releasing; constant operators only |
| `JobManager` | its manager thread, executers, job group and main thread |
| `JobManagerProofs` | its proofs |
| `Flags`, `Generations` | flag sets and their moves, generations of the three search algorithms; constant operators only |
| `Pipeline` | bestflags' processes, their workers, helpers and queues |
| `PipelineProofs` | its proofs |
| `MC...` | values of the constants, and bounds on the initial states, for TLC |

`Schedv2` EXTENDS `ImageMatrix` and starts from its `InitialAllocation`; the run
`mim` shows that the code's search produces exactly that matrix, so the
two modules together cover the constructor and the workers. `Schedv2.FinishRun`
lets br.run() raise or return, and `TerminateActive` lets Terminate() raise;
`BenchmarkRun` shows when each happens. `Schedv2.Init` allows any split of
the brs into cached, unread and others; `BrCacheReader` shows that its readers
leave such a split. `ResultsCache` EXTENDS `BrCacheReader`: a reader's outcome
(`ReadHit`, `ReadMiss`, `ReadError`, `ReadFatal`) is the last step of its ReadResult. `MachineManager` takes from the file lock only what `FileLock`
shows, that a machine has one holder at a time; its `DoImage` and
`DoImageFails` are the ends that `image_chromeos.DoImage` can have.
`JobManager` EXTENDS `MachinePool`, and `Pipeline` EXTENDS `Generations`, which
EXTENDS `Flags`: the search algorithms are checked inside of the pipeline that
delivers their results.

`FileLock` is shown to implement `MachineLock` (`ImplementsMachineLock`). The
abstract holder is read off the description that the next process will see:
the one in the file, or, after `truncate(0)`, the one about to be
written. An auto lock counts only while its process has the liveness file, which
is how the death of a holder becomes the abstract `Lapse`. `Lose` is the one
weakness the abstract lock has to admit: a process that dies between
truncating and writing leaves an empty file.

### What a step is

A step is a piece of Python that another thread cannot divide: one read or write
of shared state, or a block under a lock that every access to its state takes.
A list's `append`, `pop` and `remove` are one step each (the interpreter lock).
Three places of crosperf look atomic and are not, and the models split them:

- `lock_on(x)` reads a `defaultdict` with a Python-level factory. Two threads
  that miss the key each make a `Lock` (`LockLookup`, `MakeLock`), so the list
  of a label is protected by possibly two locks. A lock object is identified by
  its label and the worker that made it.
- `for w in self._active_workers` reads the list by index on each iteration
  (`InLoop`, `main_i`), while `dut_worker_finished` removes elements.
- `Timeline.Record` checks, then appends (`AssertNew`, `AppendEvent`).

So does `BasicStateMachine.Change`, which changes the status of a job: two executers
of one job can both pass the assertion before either assigns (`TestChange`, `Change`
of `JobManager`; `raced` remembers it).

In the other modules:

- `FileLock`: reading the description with the body of the `with`, truncating,
  writing and closing, death. Others cannot come between the reading and
  the body, because both happen under flock.
- `ResultsCache`: one file that is opened, unlinked or copied; a glob. `mv` is a copy,
  file by file, as /tmp and the home directory may be different file systems.
- `MachineManager`: a block under the manager's `_lock`. A br that sleeps in
  AcquireMachine keeps that lock (`asleep`), so everybody else waits for it. Cleanup
  unlocks machine after machine, and then it takes some time until the process is
  gone; the brs are daemon threads and go on all the while.
- `AfeLock`: a query of all machines with the check on its result, or one
  change of one host. Other clients act in between. A client goes through its
  machines in any order, which includes the code's.
- `JobManager`: a block under `JobManager._lock`; the loop over ready jobs, which
  holds the lock throughout, is a step per job because ReturnMachines takes
  another one. `JobGroupManager._lock` is held over several steps (`jgm_lock`).
  The SIGINT handler runs in the main thread between any two steps, with the locks
  that the interrupted request holds (`Interrupt`, `held`); in a request its
  SystemExit is caught by the XML-RPC server, which goes on serving.
- `Pipeline`: one access to a shared queue, or a worker's build or test.

### Correspondence of state

`Schedv2`'s variables carry the names of the code's attributes (`sched_terminated`
is the scheduler's `_terminated`, `terminated[d]` the worker's; `br`, `lock`,
`scan`, `goal` are locals of the worker: the br, the lock of the `with`, the
row and candidate of `allocate`, the label being reimaged to). `pc[d]` is the
worker's place. `installed[d]` is the image really on the device, which the code
cannot see, and `file[d]` the checksum file on it; `NoImage` is an alien or
half-written image, or no file. `stale` holds the duts that came with a file of another image
and have not been flashed since. `stale`, `runs`, `ended` and `late` (what a worker
began after the scheduler's flag was set) are history for the properties. A cached br list is a set, since its
order depends on the readers. Labels, duts and brs are numbers in the order of
the code's lists.

`BinarySearchState`'s variables are the attributes of the class, with three
outside of the process: `env` (which version of each item is in place),
`state_file` and `temp_link`. The lines of `DoSearch`, `DoBinarySearch`, `GetNextItems`
and `SaveState` are steps of one `pc`, so that death falls between any two of
them. `SwitchToGood` and `SwitchToBad` run one script each; a script killed
halfway leaves an environment that is one of those `LoadState` starts from, since
it starts from any. `GetNextFlakyBinary`'s queue is a sequence and each round of
its loop a step. `gave_up` records that a search ended because everything left
was skipped; `skips`, `crashes`, `save_failed` and `reported` are history.

In `ResultsCache`, `dirs` maps the keys of the directories that exist to the store
that wrote each file; a store is an own br (a positive number) or somebody
else's (a negative one), `run` is what it has run and where. Of a directory's
four files only `results.txt` and the tarball decide what a reader gets;
`cache_keys.txt` may be missing and `machine.txt` is never read. `overlapped`,
`superseded`, `unremoved` (the stores whose `rm -rf` gave up) and `disturbed` are history.

In `FileLock`, `file` is the description on disk, `desc[p]` the copy that p has
read and will write, `live` the holder of the liveness file's lockf, `file_ops`
the processes whose `FILE_OPS` lists it; `by` in a description and `excl`, `shared`,
`lost` and `evicted` are history: `evicted[p]` is who unlocked the lock that p
believes to have, since Unlock tells its holder nothing. `MachineManager`'s `locked` and `checksum` are attributes of
a CrosMachine, `installed` and `file` the image and the checksum file on the
device, `lockfile` who has it; `suspect` is history. In `AfeLock`, `holder` is the
client that took a lock; the server and the code see only its user, and all guards
use only that. `released[c]` are the machines that others unlocked while c relied on them
(it begins anew with each question c asks). In `JobManager` an executer is a job and the number of its start,
since a job can be queued more than once; `to` is the status an executer has tested and
not yet assigned; `mapping` is `job_executer_mapping`. In
`Pipeline`, `image` and `cost` are the results a task carries; `queue`,
`helper_queue`, `work_pool`, `waiting_list` are the code's queues and lists;
`raised` holds the tasks whose worker died with an exception, which the pool
drops. In `BenchmarkRun`, `output` says whether the last test printed where its results are,
`telemetry` whether the suite is the one that is not given the command terminator;
`late` counts the tests begun after Terminate() set that, `finally_raised` that the
finally clause itself failed.

Abstractions: the items of a bisection are 1..n, in the order of the initial list,
and a test is bad exactly if a bad item is in its bad version (the premise of the
tool), or cannot be done. Results, output, status strings and statistics are left out. A
label's checksum is known or None (`Checksummed`); equal checksums mean equal
images. Reading a cache has four outcomes (hit, miss, RuntimeError, and SystemExit or
another exception), and a hit may be the result of a failed test. An image push is skipped
if the checksum file names the image, succeeds, or fails on any of its steps. A
command run on a dut succeeds, fails or raises. A machine specification of a job is
the set of machines it matches. Random choices of the search algorithms and the order
of Python sets are nondeterministic. Time is a number of passes
(`Patience`, `MaxTries`, `Slices`).

## 4. Runs

| Run | Result | Shows |
|---|---|---|
| `schedv2_safety` | holds | `RunAtMostOnce`, `RightImage`, `NothingLeftBehind`, `LateBound`, `SkippedBehindEnded` (all proved, too) |
| `schedv2_liveness` | holds | `EveryoneEnds`: `WorkersFinish` and `ExperimentEnds` |
| `mim` | holds | `MatrixCorrect`: the search against its reference, its loop invariant, compatibility; `SearchEnds`; of the concurrent allocate() `NoneOnlyWhenExhausted` and `AllocateSteps` (`CellsAdvance`, `PlanFirst`) |
| `benchmark_run` | holds | `EndsProperly`: `OutcomeRecorded`, `OneOutcome`, `MachineReleased`, `NoTestAfterTerminate` (proved, too); `TerminateEndsRun`: Terminate() gets through, also to a test that hangs |
| `br_cache_reader` | holds | `EveryBrOnce`: the segments partition the brs, every br ends in one list; `HitsRight`: `HitMatches`, `HitWhole`; `StoredKept` (all proved, too); `ReadingEnds` |
| `bss` | holds | `TestsWhatIsAsked`; `SearchCorrect`: `FirstBadInRange`, `FoundAreBad`, `AllBadReported`, `TestsAsEstimated`; `SavesUnlessLinkLeft` (all proved, too); `SearchEnds` |
| `file_lock` | holds | `AutoAlone`; `LockCorrect`: `ReadersOrWriter`; `RefusedOnlyIfHeld`; the refinement `ImplementsMachineLock` (all proved, too); `TryLockEnds` |
| `machine_manager` | holds | `OneBrPerMachine`, `UsedAreLocked`, `RightImage`, `LostWereRemoved`; `CountsRight`: `CountedOnce` (all proved, too); `ExperimentEnds` |
| `afe_lock` | holds | `LocksKept`: `LockedAreHeld`, `NothingLeftLocked`; `StaleUnlocksOnly` (both proved, too); `ClientsEnd` |
| `job_manager` | holds | `MachinesAccounted`: `UsesExact`, `ExclusiveKept`; `JobsOnceInOrder`: `PredsFirst`, `RunsOnce`, `GroupVerdict` (both proved, too); `NotificationEnds` |
| `pipeline` | holds | `ResultsDelivered`: `PendingOnTheWay`, `ResultsCarried`, `SameImageSameCost`, `NothingBehindThePill`; `LocalOptimum` (both proved, too); `ExperimentEnds` |
| `job_manager_ready_jobs` | violated | the manager's thread waits without looking at ready_jobs: a job queued before it waits is not started until something else notifies |

A property with a colon is the conjunction of the ones named after it and, once
per module, of its `TypeOK`. `Schedv2`'s `TypeOK` and `InOnePlace`, and the
inductive invariant behind them, are proved and not model-checked again.

The violated one states what a comment of the code says; `PROJECT.json` "findings"
quotes it. In several other places the code does not do what one might expect, and
the properties are stated so as to say how far it goes:

- a label can have two locks, and `pop(0)` then raises IndexError in one of two
  workers. Still no br is run twice or lost: `pop(0)` is atomic by itself,
  and the worker that gets the exception ends like any other.
- run_sched's loop can pass over a worker, which is then never started.
  `SkippedBehindEnded`: only behind workers that ended during the loop.
  terminate()'s loop has the same weakness, and a worker it flags may be
  past its own test of the flag; `LateBound` shows that each still begins at
  most one more br on its dut or reimage, and nothing behind it, because the scheduler's
  flag is set first. The loop over the cached brs does not test the flag at all: a
  worker that is in it goes through all of them, which `LateBound` therefore
  lets happen before that last thing.
- a dut that comes with a checksum file of another image than it carries runs brs
  on that image: `_setup_dut_label` believes the file, and DoImage skips the flash
  because of it. `RightImage` says that this lasts until the dut is flashed
  and that there is no other way to a wrong image.
- the suite telemetry is not given the command terminator, so Terminate() stops
  neither its test nor its retries; `NoTestAfterTerminate` and `TerminateEndsRun` say what
  holds of the other suites.
- if the finally clause of run() fails, the br keeps its machine (`MachineReleased`
  excepts that).
- a br's run() can end with SystemExit or AssertionError, and FAILED can be recorded
  twice, where Terminate() comes between run()'s test and its record;
  `OutcomeRecorded` and `OneOutcome` say what its timeline has then.
- a result can be made of the files of two runs of the same key, if a store
  replaces the directory during the read or two stores overlap (`HitWhole`); and
  a store that finds the directory back after its `rm -rf` moves into it and is
  lost (`StoredKept` excepts overlapping stores). The exit code of `rm -rf` is
  ignored: if it fails, `mv` moves into the old directory, whose remains stay what
  readers find, and the store says it succeeded.
- a directory that a dead process left without results.txt raises IOError, which
  ends the reader: the rest of its segment stays unread, and a br that is read
  again by its run() fails until somebody removes the directory.
- an official image has a wildcard for its checksum, so under the default
  conditions, where "the image checksum in the cache and the computed checksum of
  the image must match" (`experiment_factory.py:143`), it hits results of any
  other image of the test; `HitMatches` promises the image only of local and
  trybot ones.
- a bisection that gave up because everything left was skipped sets
  bad items aside as known good; `FoundAreBad`, `FirstBadInRange` and
  `AllBadReported` hold as long as no search gave up (`~gave_up`).
- a death between symlink and rename leaves a link that makes the next save
  fail (`SavesUnlessLinkLeft`: nothing else does).
- a description of a file lock is lost if its writer dies in between, or meets an
  I/O error in `__enter__` (`lost`); auto processes still exclude each other by the
  liveness file.
- Unlock of an auto process unlocks what another process of the same user has locked,
  and tells that one nothing: both then use the machine. `lock_machine_test.py` has it
  so (`testUnlockByOthers`). `AutoAlone` shows that this is the only way for two live
  auto processes to use one machine, so that of different users never two do.
- Cleanup of `MachineManager` unlocks machines under running brs, and the process
  goes on until it has exited: another experiment may take a machine, and image it,
  while a br still uses it. `UsedAreLocked` and `RightImage` hold until Cleanup begins.
- the AFE command line does nothing at all with `--force`: the update is under the
  same `if` as the check.
- Experiment.Cleanup and ReleaseLock unlock machines of any owner, and DoImage
  goes on when AcquireLock returned False. Those that ask first
  can still take a foreign lock, if one of these unlocks the machine between
  the question and the unlock and somebody else locks it; `StaleUnlocksOnly` shows
  that they do in no other way. `_UpdateMachineList` changes the list it
  iterates, so a machine that could not be locked can stay in it.
- a machine removed while a br has it stays locked if another br has added
  it again in between (`LostWereRemoved`); brs that wait for it poll
  forever. `acquire_timeout` is shared by all brs.
- KillJobGroup passes jobs where ids are expected, so it kills nothing; and the group
  it waits for is an unpickled copy whose status nobody changes, so unless that was final
  it waits for ever.
- a job that was queued twice gets executers that never return their machines
  (`leaked` in `UsesExact`); or, if both test its status before either assigns it,
  both run its commands, `job.machines` is the later one's and is returned twice, and
  status, uses and locks go wrong. `MachinesAccounted` and `JobsOnceInOrder` say that
  this window is the only way (`raced`); a machine without uses is unlocked even so.
- the SIGINT handler stops the server with whatever locks the interrupted request has:
  StopServer then waits for its own thread's lock or joins threads that wait for it
  (`StoppingWithLock`, which `NotificationEnds` excepts).
- Steering asserts on an empty generation, and a worker's exception loses its
  task; `ExperimentEnds` excepts these two.

### Bounds

- `schedv2_safety`: 2 duts, 2 labels (label 2 only on dut 1), 3 brs. Two workers
  are the least with every race above; a restricted label makes one dut the only
  one that can do some work; two brs of one label let workers compete for a
  list, one more forces a reimage. `MCInit` bounds the initial states: at most br
  1 hits the cache, br 2 is the unreadable one, only dut 1 may be preinstalled, or
  have the checksum file of label 1 without its image. About 2.4 million states.
- `schedv2_liveness`: 2 brs of one label and no preinstalled image, which
  still makes workers compete, reimage and be interrupted; two labels with the
  same image exercise the "already imaged" path. The temporal check is the costly
  part.
- `mim`: every `remote` on 1x2, 3x1, 2x2, 3x2, 2x3, 3x3 and 4x2 matrices: both
  special cases, more labels than duts, as many, fewer; every cell pattern that
  leaves each label some dut, or any. On the 2x2 and 3x2 ones each label starts with up
  to 2 brs (`MaxPending`), enough for a list to run empty between two rows of a
  scan; on the others the lists are empty and only the search matters.
- `benchmark_run`: `Retries` = 1, both kinds of suites, with and without schedv2 and
  `cache_only`. About 7,700 states.
- `br_cache_reader`: every interleaving for 1 and 2 brs (the main thread reads)
  and 5 (two threads). With one br and two stores of others of the same key, three
  stores and a read race; with one store of another, it differs in one respect
  (image, type of image, machine, kind of machine, home, retval) and every
  setting is tried; with five, each thread has a br that can hit. For the other
  sizes up to 90 the readers only miss and run one after the other, which
  is enough for the arithmetic of the segments: 20 threads are reached at 77
  brs, and segments that come out empty are among them. About 800,000 states.
- `bss`: one item (never searched) and four, which pruning turns into lists of
  three and two; every non-empty set of bad items, every starting environment and
  all options; two tests that cannot be done, one death. `--iterations` is 4, or,
  with pruning and without verification (`MCInit`), 2, which is exceeded exactly
  when tests are skipped; `--prune_iterations` is 4, which four bad items exceed.
  `MaxQueue` is never reached: the splitting of intervals finds an index before.
  About 1.0 million states.

- `file_lock`: two auto processes of one user, one of which calls TryLock, one of
  another user, and the command line of a third; `MaxShared` = 2, so that a shared lock can be
  left by one and kept by another; `Timeout` = `Slices` = 2, so TryLock tries
  again before it gives up. Processes die, meet I/O errors and start any number of
  times. About 125,000 states.
- `machine_manager`: three brs of three labels, two with one image, on two machines, the
  second for the first label only: brs compete, wait, find the right image or a
  wrong one. `Patience` = 1 makes the timeout happen while others
  wait; the other experiment takes a machine once (`MaxOther`); each
  machine is removed at most once. About 1.3 million states.
- `afe_lock`: two experiments of two users, DoImage of the first one's user and
  a third user, on two machines; the lists overlap, DoImage's has one machine
  (its `remote` is one host, or several imaged one by one). `MaxTries` = 2. About
  270,000 states.
- `job_manager`: three jobs, the third after the other two, which makes its being
  queued more than once possible (`MaxStarts`); two machines, of
  which one is shared by a first job and wanted exclusively by another. `MCNext` restricts
  the interleavings: the first two jobs, which have one executer each, get to their
  command at once, and the manager wakes after AddJobGroup is done. A behaviour either has
  KillJobGroup and ctrl-c, then the manager wakes when no executer is about to notify
  (but after an interrupt with locks at any time), or it has neither, and then
  notifications, wake-ups, second starts and their tests and assignments interleave freely.
  About 650,000 states.
- `pipeline`: one numeric flag, hence four tasks; `NumChromosomes` = 2 (a random first
  generation of one or two tasks), `StopThreshold` = 0; one good checksum, so that
  tasks share an image, and the error image; a test costs 1, fails or is
  an error; one builder, two testers, so that results overtake each other.

`CHECK_DEADLOCK FALSE` is set where the system is meant to stop, which is
everywhere but in `FileLock.cfg`: processes can always be started there.

### Fairness

Weak fairness per worker, of the main thread's own steps, of run(), of
Terminate() and of the readers: Python schedules every thread that can run, and
each of these threads is one loop without alternatives it may postpone. Commands
on a dut are assumed to end: the command executer has no timeout unless one is
asked for, so a short command that hangs is outside of the model. A test that hangs
is not: in `BenchmarkRun` nothing is assumed of a running test that nobody
stops (`Hanging`), and `TerminateEndsRun` shows that Terminate() stops it; in
`Schedv2`, whose progress depends on it, br.run() is assumed to end. No
fairness is assumed of ctrl-c, nor of getting a machine from the legacy
`MachineManager`: `Waiting` excludes that step, and `TerminateEndsRun` shows that
Terminate() ends the wait. A worker waits for a lock with weak fairness only:
with the bounds used, and in the code, a lock is held for two steps and each
worker takes it finitely often.

The binary search tool is one process (`WF_vars(Tool)`); its scripts are assumed to
end. Nobody has to resume it after it died.

In `FileLock` a call that has begun is finished (weak fairness of truncate, write and
exit), as flock's holder never waits for anything; TryLock's attempts get
strong fairness, because the kernel serves those who wait for flock; nobody has to begin
a call. In `MachineManager` weak fairness of the brs together and of the main
thread: `ExperimentEnds` counts on a thread that is able to go on, not on a particular
one. In `AfeLock` weak fairness of each experiment and of DoImage, none of people:
each call of the server returns or fails. In `JobManager` weak
fairness of all threads together: the manager, the executers, and those steps of the main thread
that finish a request, or a stop, it has begun; no request has to come, and as each thread has
finitely many steps to do, that some thread which can go on does is enough. In `Pipeline` weak fairness
of `Next`: every behaviour is finite, so that some process that can
go on does is enough.

`WorkersFinish` is about workers that were started and `ExperimentEnds` assumes
that all were, because run_sched may skip one.

## 5. Proofs

### The scheduler

All for any numbers of labels, duts and brs, any `remote`, any images, any set of
labels with known checksums; assumptions: only the types of the constants
(`SizeAssumption`, `RemoteAssumption`, `LabelOfAssumption`, `ImageAssumption`,
`ChecksummedAssumption`).

| Theorem (`Schedv2Proofs`) | Property |
|---|---|
| `TypeCorrect` | `TypeOK` |
| `BrInOnePlace` | `InOnePlace` |
| `BrRunAtMostOnce` | `RunAtMostOnce` |
| `BrRunsOnRightImage` | `RightImage` |
| `LateIsBounded` | `LateBound` |
| `NoBrLeftBehind` | `NothingLeftBehind` |
| `SkipsBehindEnded` | `SkippedBehindEnded` |

None of these is inductive. The invariant `IndInv` of `Schedv2Inv` strengthens
them in layers, each proved from the ones before:

1. `TypeOK` with `Control`: what a worker's locals hold at each place (a dut with
   a br has a label; a worker in the `with` has a lock; a br in hand exactly at
   the places that hold one), `MainKnown`, and `WorkerList`: `_active_workers` lists
   exactly the workers that have not ended, once each. That makes
   `list.remove` and the main thread's indexing safe. `Schedv2Proofs` begins with
   this layer and the lemmas on `ListRemove` and `Tail`.
2. `Placement`: a br is held by one worker only, held ones are not cached, the
   lists are apart and hold only brs of their label that have not run. This is
   where two locks for one label matter: it is kept because the head is read and
   removed in one step, not because of the lock.
3. `ImageLate`: `ImageKnown` relates `dut_label`, `dut_checksum`, `file` and `installed`:
   until its worker has left the loop, what the label, the checksum and the
   checksum file say of a dut is one image, and it is the one the dut carries, or the one
   that its stale file names (`Told`); only a flash changes it, and that one ends the
   staleness. `LateKnown`: behind a br on the dut or a reimage that began after the
   flag was set nothing follows, by the places its worker can then be at.
4. `Work`: why nothing is lost. A label a dut was given ("given", '_' in the code) is either empty now,
   or the dut's worker is still on it (or failed); a row a scan has passed was
   empty, forbidden or was the candidate; lists never grow, so "empty" stays.
   A worker that ended as exhausted has all its labels empty, and every br is in
   a list, in a hand, has run, or was dropped after termination (`Accounted`).

`Schedv2Proofs` proves Init => `IndInv` (`MainEnd` included) and one lemma per
action group and layer for `IndInv` /\ [Next]_vars => `IndInv`'.

`SkipsBehindEnded` needs an invariant of its own, `SkipInv`: the list is in the
order of the duts and together with the ended workers has all of them
(`ListOrdered`), and while run_sched is in its loop it has started `main_i` - 1
workers, so those it passed are as many as have ended (`StartsCounted`).

`Schedv2`'s proofs do not depend on which allocation it starts from beyond its
incompatible cells.

### The allocation

| Theorem (`MachineImageManagerProofs`) | Property |
|---|---|
| `MatrixAlwaysCorrect` | `MatrixCorrect` |
| `NoneMeansExhausted` | `NoneOnlyWhenExhausted` |
| `AllocateKeepsThePlan` | `AllocateSteps` |

For matrices of any shapes (a set of pairs of positive numbers: `ShapesAssumption`),
any `remote` and any numbers of brs (`MaxPendingAssumption`). That the search finds what
`InitialAllocation` defines needs no induction over the recursion, since the model
has it as a state machine: `Explored` says of every plan for the current N that the
search has not passed it (`Ahead`: it parts from the columns of the levels above by a
greater one, or goes on where the search is), and that no smaller N has a plan.

- A step that places a 'Y', or passes a column, keeps every plan ahead: a cell that
  takes no 'Y' is incompatible or its column has N already, and a plan with a 'Y' there
  would have N + 1 (`NextColumnKeeps` counts them).
- When a level is exhausted, a plan that went on there would need a column behind the
  last; so it parts at a level above (`BacktrackKeeps`), and at level 0 there is none
  (`NextNKeeps`).
- When all levels are placed (`FoundKeeps`) the columns are a plan themselves, every
  other plan is lexicographically greater, and at most one plan is least
  (`LexLessOneWay`): the `CHOOSE` of the reference is this one.

`ScanInv` is what allocate() relies on while others change the lists: of the rows it
has passed, a planned one has no br left, and as long as it has no candidate each
compatible one was given to the dut or is empty. It survives the other workers because
a column is written by its own dut only and the lists never grow; `SearchAlone` keeps
allocate() apart from the search.

### MachineManager

For any brs and machines, any images, any `Patience` and any interference of
the other experiment; assumption: `ManagerAssumption` (the brs are finitely many, each label has a
machine, the labels' images differ from the other experiment's).

| Theorem (`MachineManagerProofs`) | Property |
|---|---|
| `MachineOfOneBr` | `OneBrPerMachine` |
| `MachineKeptLocked` | `UsedAreLocked` |
| `OnlyRemovedAreLost` | `LostWereRemoved` |
| `RunsOnRightImage` | `RightImage` |
| `MachineCountsRight` | `CountsRight` |

The first three come from `Inv`: `Held` (who has a machine has one of its own, with
its lock flag set, also between RemoveMachine and ReleaseMachine), `Kept` (the
machines of the manager have lock files of ours until Cleanup begins, and the ones
in use are among them) and `LostWereRemoved`. The hard case
is a machine that is removed, added again by another br as a new entry and only
then released by the first: `Held` covers the br that is about to release, too.
`RunsOnRightImage` adds `Believed`: what the checksum file and the manager
believe of a machine is nothing or the truth, unless an imaging or a reading of
that file failed on it; from Cleanup on only the file, since the machines the
manager still lists may be imaged by others. `MachineCountsRight` adds `Counts`: counting a br and taking
it out of the list is one step, so the sum stays, and `main_i` is never past the end of
the list that the loop shortens.

### File lock

| Theorem (`LockProofs`) | Property |
|---|---|
| `LiveAutoAlone` | `AutoAlone` |
| `FileLockCorrect` | `LockCorrect` |
| `FileLockRefusedOnlyIfHeld` | `RefusedOnlyIfHeld` |
| `FileLockImplements` | `ImplementsMachineLock` |

For any number of processes, any users; assumptions: `ProcsAssumption`,
`TimeoutAssumption`, `SharedAssumption`. `AutoInv` says that whoever is inside of a call has
flock (`Alone`), that an auto holder has the liveness file and is the
one that an auto description names (`HoldersLive`), that a writer's copy agrees with that
(`WriterAgrees`), and that a process has the liveness file already when it is
granted the lock but has not written it (`GrantedLive`). It does not rely on
the description, which can be lost: the liveness file excludes a second auto
process. `OwnInv` adds that a description has its holder's user, and that who was
unlocked by another auto process was so by one of its own user: Unlock compares the users.
So of two processes that use the machine one is no holder any more, and `EvictedByOwn`.

`LockInv` is what the other three need. A process between `__enter__` and `__exit__`
has already decided, but the file still has the old description, or none:
`Effects` says how its copy differs from the file for each call and result, and
`Granted` names the one that will believe to hold the lock in a moment. As long as no
description was lost, descriptions and beliefs agree both ways (a holder is
the one that the file names, `Believed` and its converse), the counter is the
number of shared locks, and one exclusive holder or a positive counter excludes the other.
Once one is lost the history of shared locks is void (`shared` is 0) and only `AutoInv` is left. `LiveOpen`, that the process named by an auto
description has the liveness file open, is what keeps a process from taking its
own lock for void.

The refinement maps `flock`'s holder's copy, or the file, to the abstract
holder; its proof goes action by action: `Enter`, `Truncate` and the calls
that are refused are stutters, the grant of a lock is the abstract one at the
moment the description is decided, a death is `Lapse`, `Lose` or a stutter.

### AFE locks

| Theorem (`LockProofs`) | Property |
|---|---|
| `AfeLocksKept` | `LocksKept` |
| `AfeStaleUnlocksOnly` | `StaleUnlocksOnly` |

For any experiments, people, imagers, users and machines; assumption: `AfeAssumption`
(the kinds of clients are apart, no client lists a machine twice). `AfeInv`
follows an experiment through its lists: `Known` is the list that
holds what it may have locked at each place (`updated` while it locks, `locked_machines`
while it runs, `todo` in Cleanup), and `KnowsLocks` says that it holds
nothing else and, while it runs, all of it but for what others have unlocked since
(`released`). `StillOwn` is the part about
the query being stale: what was its user's own when it asked is so when it unlocks,
or another client has unlocked that machine since the question. `released` is emptied
by the question, so what happened before excuses nothing. It is an action property
because who takes the lock is seen only in the step.

### The results cache

| Theorem (`BenchmarkRunProofs`) | Property |
|---|---|
| `CacheReadersEveryBrOnce` | `EveryBrOnce`, of `BrCacheReader` alone |
| `CacheEveryBrOnce` | `EveryBrOnce`, with the cache below |
| `CacheHitsRight` | `HitsRight` |
| `CacheStoresKept` | `StoredKept` |

For any number of brs, any stores of others, any settings; assumptions: those of the
sizes, `OthersAssumption`, `SettingsAssumption` (every experiment asks for
matching checksums, which `experiment_factory.py:145` puts into the conditions
unconditionally) and `RunsAssumption` (what is
hashed is never the wildcard `*`, and no image has the hash of a path: a key mixes
both kinds). That the segments partition the brs for every number of them is
lemma `Partition`.

`CacheInv` has three parts. `ReadersInv` places the brs. `StoreInv` is about the directories: a store
that nobody overlaps fills its directory alone, or, if its `rm -rf` gave up, finds it there
still and puts nothing into it (`Stages`), of two at work both
are marked (`Marked`), and a directory with files of two runs is the work of a marked
store (`Mixed`). `ReadInv` relates what a reader has in its hands to the directory it chose, as
long as nobody changed that one (`Hands`), and keeps for each hit what it was made of (`Right`).

### The automation server

| Theorem (`JobManagerProofs`) | Property |
|---|---|
| `JobManagerMachinesAccounted` | `MachinesAccounted` |
| `JobManagerJobsOnceInOrder` | `JobsOnceInOrder` |

For any jobs, predecessors (cycles, too: such jobs never get ready), needs,
machines and clean-ups; assumptions: `JobsAssumption` (types, and every job asks for a
machine), `NMachinesAssumption`. `JobInv` has these parts above the types.

- `StartInv`: unless it is in `raced`, a job has one executer that got past the assertion
  (`OneBegun`), its status is what the control of that one stands for (`Fits`), and
  `job.machines` are that one's until they are returned (`HasOwn`). What is in
  `ready_jobs` or has an executer is ready (`QueueReady`, `Ready`), and stays so, since
  only a second executer leaves a final status.
- `PoolInv`: a machine without uses is unlocked (`IdleUnlocked`), whatever happens, since
  Release does both; and as long as no two executers raced, the uses of a machine are the
  grants of it, and of two exclusive grants one is the other (`Exact`). A start adds the
  grants of its own executer
  (`PoolAcquired`, where a machine that somebody has exclusively, the same start
  included, is locked already and no match), a completion takes them away
  (`PoolReturned`), and a rollback leaves the uses but may leave a machine locked
  that others still share (`PoolRolledBack`): the lock then goes with the last of them.
- `AddsJobs`, that AddJobGroup counts its jobs from 1.

### BenchmarkRun

| Theorem (`BenchmarkRunProofs`) | Property |
|---|---|
| `BrEndsProperly` | `EndsProperly` |

For any number of retries; assumption: `RetriesAssumption`. `RunInv` adds to the
property what each thread can be about to append to the timeline (`Recording`),
that a br without telemetry has begun no test late and one with it no more than its
attempts (`LateTests`),
what Terminate() has recorded when it is over (`TermMarked`) and, for a br that
Terminate() has not touched, that its timeline has no outcome until run()
comes to its end and then exactly one (`Undisturbed`). The property alone is not
inductive, since it says nothing about a br on its way.

### The binary search tool

| Theorem (`BinarySearchStateProofs`) | Property |
|---|---|
| `TestedAsAsked` | `TestsWhatIsAsked` |
| `BisectionCorrect` | `SearchCorrect` |
| `SaveFailsAfterCrash` | `SavesUnlessLinkLeft` |

For any number of items, any non-empty set of bad ones, any options, limits, skipped
tests and deaths; assumptions: `SizesAssumption`, `BoundsAssumption`, which are types.
`BssInv` is inductive because it says of the state file what it says of memory:
the predicates on a search have its parts as parameters.

- `Listed`: the list has every item that is not known to be good, once, and those
  found before at its end. Pruning keeps that (`PrunedListed`), and it is why an
  item that is found again means that all bad ones were found (`FoundAll`), and why
  the sets handed to the two scripts are a partition of all items (`NextItems`).
- `Bisecting`: the first bad item is between the bounds, which differ, and as long as
  nothing was skipped the tests done have halved the length of the list
  (`Halved`). `TestTells` is the step from a test to a bound: the status is bad
  exactly if the first bad item is not above current. It needs `TestsWhatIsAsked`.
  `TestsAsEstimated` states 2^k < m by the k doublings, so no law of powers is used.
- The triples of GetNextFlakyBinary stay within the bounds with a middle below `hi`
  (`Within`), so whatever index is found has a test left to do.
- `Switched`: what is believed to be switched is so in the environment, whoever
  changed that while the tool was down, since LoadState forgets what was believed.
- `FoundRight`, `Reported`, `Linked`: what was found and set aside, what was
  reported or which limit was met, and when there is a temporary link.

### The pipeline

| Theorem (`PipelineProofs`) | Property |
|---|---|
| `DeliversResults` | `ResultsDelivered` |
| `EndsAtLocalOptimum` | `LocalOptimum` |

For any flag specs, algorithms, thresholds, images, costs and numbers of workers;
assumptions: `FlagsAssumption`, `GenerationsAssumption` (finitely many tasks, as there
are finitely many specs and values), `PipelineAssumption` (costs are numbers with a
greatest one, so that sys.maxint is above them; None is not a checksum and the pill
not a task). The two properties have one invariant, `IInv`. `PendingOnTheWay` counts
the tasks in the union of fifteen queues, lists and sets, and a count of a union is not
inductive: it does not see a task that is in two of them. So `IInv` says that there is
a place for each task, and what is at each place.

- `Located`: the functions `kind` and `at` give each task its place, and every queue, list and
  set has just the tasks whose place it is, each once. A step of the pipeline
  changes the place of a set of tasks (`Place`); the lemmas on moves say once for all
  steps what that does to a list that loses its head, or gets tasks appended in an order.
- `Pending`: the counter of the generation is the number of tasks with a place
  (`Way`), all of them its own; a generation ends exactly when none is left. That the
  pill comes last follows, since it is sent when Steering waits for nothing.
- `Data`: the place tells which results a task carries. One that has come back has
  been tested (`ResultsCarried`), so that Steering compares no cost with None.
- `Known`: an image is given to one worker of the test stage and never again; what a
  test has found is in `done_dict` or on its way there, once. Hence the
  duplicates get the cost of the one that was tested, whichever comes first.
- `Searching`: the candidate is a best one of all tasks outside of the generation
  that is tested, and that generation contains those of its neighbours that were
  not tested before. `NextGeneration` shows it of the successors of each
  algorithm. When no task of the generation is better, the candidate is best of all.

### Only model-checked

The liveness properties, because the provers do not do fairness or ENABLED:
`EveryoneEnds`, `SearchEnds` (of both searches), `TerminateEndsRun`, `ReadingEnds`,
`TryLockEnds`, `ExperimentEnds` (of the legacy scheduler and of bestflags), `ClientsEnd`
and `NotificationEnds`. Every other property of a passing run is a theorem.

## 6. What is not modelled

- ctrl-c before the monitor loop: while the scheduler is built or `run_sched` is
  in its loop. The outer `finally` then unlocks the duts without terminating
  workers; the process exits directly after.
- exceptions of `_setup_dut_label` other than RuntimeError, which are outside of
  the worker's `try`; they need a failing `fork`.
- `allocate()` without a scheduler, which only unit tests call.
- of the binary search tool: the output, the files with the item sets, a state
  file that is no link or cannot be read (the tool refuses to go on), a hidden
  state file left behind by a death after the rename (never read again), two
  items with the same name.
- `_UpdateMachineList`'s outcome is modelled (`RemoveWhileIterating`), but that an
  experiment uses only machines it has locked does not hold and is no property.
- that the plan of `MachineImageManager` has the least possible number of reimages per
  dut: the first N tried for more labels than duts is `n_labels - n_duts + 1`, which
  may be more than needed; `SearchMatchesReference` pins the N that is used.
- of the file lock: locks of several machines at once (the code takes them one by
  one); a flock that fails while another process is inside of the file, whose
  `__exit__` would truncate it under that one (other I/O errors of `__enter__` are
  `EnterFails`).
- of `MachineManager`: the characteristics of machines (cpuinfo, memory) that go
  into the key of the results cache (`ResultsCache` has them as one value); SIGINT while the main thread is inside
  of IsComplete's loop body.
- of bestflags' initial generations: a flag of one value. `Flag.__init__` (`flags.py:109`)
  accepts Start + 1 = End, for which the set-up in `testing_batch.py:167` draws a value that is out of
  range; `Generations` wants Start + 2 <= End.
- of the AFE lock manager: adding and removing hosts of a local server and the
  listing of states, which change no lock.
- of the automation server: several job groups at a time, CleanUpHomeDir (never
  called), the clients, which build job graphs and command lines.
- of bestflags: two first generations that share a task, a mutation rate of 0, the parsing
  of a flag file.
- of the results cache: what the files contain and how keyvals are computed from
  them; the removal of temporary directories; `_ClearCacheEntries`, which
  removes before the readers start what `BeginClear` removes again; a shared cache that
  comes and goes. In `BenchmarkRun` its outcomes are choices.
- everything that is neither concurrent nor stateful, which is most of the
  repository's lines: statistics modules of third parties, tables, reports, HTML,
  parsers of experiment files, waterfall and nightly scripts, build and imaging
  command lines, unit tests. What could be said of them is what each function
  returns, which its unit tests say. `PROJECT.json` lists them.
