------------------------------ MODULE Schedv2 ------------------------------
(***************************************************************************)
(* crosperf's scheduler (crosperf/schedv2.py) as the threads it runs: one  *)
(* DutWorker per dut, and the main thread of ExperimentRunner._Run, which  *)
(* starts them, waits for them and on ctrl-c terminates them.              *)
(*                                                                         *)
(* A step is a piece of Python that no other thread can divide: one access *)
(* to shared state, or a block under a lock that every access to its state *)
(* takes.  lock_on() is not such a block: _lock_map is a defaultdict with  *)
(* a Python factory, so two threads that miss the same key each create a   *)
(* Lock.  A lock object is identified by its label and the dut whose       *)
(* worker created it.                                                      *)
(*                                                                         *)
(* Init is the state after Schedv2.__init__.  The br caches were read by   *)
(* then (BrCacheReader models that); the cached list is a set, its order   *)
(* depends on the readers' interleaving.                                   *)
(***************************************************************************)
EXTENDS ImageMatrix, Sequences

CONSTANTS
  NLabels, NDuts, NBrs,  \* numbers of labels, duts and benchmark_runs
  Remote,                \* label.remote: the duts a label is restricted to
  LabelOf,               \* br.label
  Image,                 \* the image a label stands for
  Checksummed            \* the labels whose checksum is known (not None)

Labels == 1..NLabels
Duts   == 1..NDuts
Brs    == 1..NBrs

NoDut   == 0
NoBr    == 0
NoImage == 0             \* an alien or half-written image; checksum None

ASSUME SizeAssumption == NLabels \in Nat /\ NDuts \in Nat /\ NBrs \in Nat
ASSUME RemoteAssumption == Remote \in [Labels -> SUBSET Duts]
ASSUME LabelOfAssumption == LabelOf \in [Brs -> Labels]
ASSUME ImageAssumption == Image \in [Labels -> Nat \ {NoImage}]
ASSUME ChecksummedAssumption == Checksummed \subseteq Labels

VARIABLES
  \* Schedv2
  sched_terminated,    \* _terminated
  cached_br_list,      \* _cached_br_list
  label_brl_map,       \* _label_brl_map
  lock_map,            \* _lock_map[label]: the creator of the lock, or NoDut
  lock_holder,         \* for each lock object <<label, creator>> its holder
  active_workers,      \* _active_workers
  finished_workers,    \* _finished_workers
  \* MachineImageManager
  matrix, label_duts,
  \* DutWorker
  pc, terminated, active_br,
  br, lock, scan, goal, \* locals: br, the lock of "with", allocate(), label
  \* the duts: dut.label, dut.checksum, the image really on the device, and the
  \* checksum file on it, /usr/local/osimage_checksum_file (NoImage: none)
  dut_label, dut_checksum, installed, file,
  image_lock,          \* MachineManager.image_lock's holder
  \* BenchmarkRun and Experiment
  owner,               \* br.owner_thread
  br_terminated,       \* brs whose Terminate() was called
  unread,              \* brs whose cache the readers failed to read
  num_complete, num_run_complete,
  \* main thread
  main, main_i, main_w, \* its control state, the index of its for loop over
                       \* _active_workers and the loop's dut_worker
  \* history
  runs,                \* for each br how often run() was called
  ended,               \* for each dut why its worker left its loop
  late,                \* for each dut what its worker began after
                       \* Schedv2.terminate() set the flag
  stale                \* duts that came with a checksum file of another image
                       \* than theirs and were not flashed since

schedVars  == <<sched_terminated, lock_map, lock_holder, finished_workers>>
mimVars    == <<matrix, label_duts>>
dutVars    == <<dut_label, dut_checksum, installed, file, stale, image_lock>>
brVars     == <<owner, br_terminated, unread, num_complete, num_run_complete, runs>>
mainVars   == <<main, main_i, main_w>>
localVars  == <<br, lock, scan, goal>>
vars == <<schedVars, cached_br_list, label_brl_map, active_workers, mimVars,
          pc, terminated, active_br, localVars, dutVars, brVars, mainVars,
          ended, late>>

\* The points of DutWorker.run and the functions it calls where another
\* thread can step in.
WorkerPc ==
  {"new", "cached", "runcached", "setup", "loop", "get", "lookup", "mklock",
   "acquire", "check", "pop", "exec", "activate", "start", "running", "clear",
   "clearraise", "alloc", "scan", "reimage", "wantimage", "imaging", "finish",
   "ended"}

\* Why a worker left its loop: allocate_label returned None, its own flag was
\* set, reimaging failed, or an exception escaped.
EndReason == {"none", "exhausted", "terminated", "doomed", "crashed"}

\* What a worker begins.
Begun == {"cached", "br", "reimage"}

NotScanning == [row |-> 0, can |-> NoCandidate]

TypeOK ==
  /\ sched_terminated \in BOOLEAN
  /\ cached_br_list \subseteq Brs
  /\ label_brl_map \in [Labels -> Seq(Brs)]
  /\ lock_map \in [Labels -> Duts \cup {NoDut}]
  /\ lock_holder \in [Labels \X Duts -> Duts \cup {NoDut}]
  /\ active_workers \in Seq(Duts)
  /\ finished_workers \subseteq Duts
  /\ matrix \in [Labels \X Duts -> Cell]
  /\ label_duts \in [Labels -> Nat]
  /\ pc \in [Duts -> WorkerPc]
  /\ terminated \in [Duts -> BOOLEAN]
  /\ active_br \in [Duts -> Brs \cup {NoBr}]
  /\ br \in [Duts -> Brs \cup {NoBr}]
  /\ lock \in [Duts -> Duts \cup {NoDut}]
  /\ scan \in [Duts -> [row : 0..(NLabels + 1), can : Candidate]]
  /\ goal \in [Duts -> Labels \cup {NoLabel}]
  /\ dut_label \in [Duts -> Labels \cup {NoLabel}]
  /\ dut_checksum \in [Duts -> Nat]
  /\ installed \in [Duts -> Nat]
  /\ file \in [Duts -> Nat]
  /\ stale \subseteq Duts
  /\ image_lock \in Duts \cup {NoDut}
  /\ owner \in [Brs -> Duts \cup {NoDut}]
  /\ br_terminated \subseteq Brs
  /\ unread \subseteq Brs
  /\ num_complete \in Nat
  /\ num_run_complete \in Nat
  /\ main \in {"starting", "monitor", "terminating", "terminateactive",
                "unlock", "done"}
  /\ main_i \in Nat
  /\ main_w \in Duts \cup {NoDut}
  /\ runs \in [Brs -> Nat]
  /\ ended \in [Duts -> EndReason]
  /\ late \in [Duts -> Seq(Begun)]

\* The brs that __init__ puts into the list of label l: no cache hit.
PendingBrs(l, hits) == {b \in Brs : LabelOf[b] = l /\ b \notin hits}

\* s lists the brs of S in the order of experiment.benchmark_runs.
ListOf(s, S) ==
  /\ \A i \in 1..Len(s) : s[i] \in S
  /\ \A b \in S : \E i \in 1..Len(s) : s[i] = b
  /\ \A i, j \in 1..Len(s) : i < j => s[i] < s[j]

\* The images of the labels, and NoImage.
Images == {NoImage} \cup {Image[l] : l \in Labels}

\* Schedv2.__init__, for any outcome of reading the caches, and any images and
\* checksum files the duts happen to carry: DoImage leaves a file that does not
\* fit when it fails, and who images a dut by other means does not write it.
Init ==
  /\ sched_terminated = FALSE
  /\ cached_br_list \in SUBSET Brs
  /\ unread \in SUBSET (Brs \ cached_br_list)
  /\ label_brl_map \in [Labels -> UNION {[1..k -> Brs] : k \in 0..NBrs}]
  /\ \A l \in Labels : ListOf(label_brl_map[l], PendingBrs(l, cached_br_list))
  /\ lock_map = [l \in Labels |-> NoDut]
  /\ lock_holder = [k \in Labels \X Duts |-> NoDut]
  /\ active_workers = [d \in Duts |-> d]
  /\ finished_workers = {}
  /\ matrix = InitialAllocation(NLabels, NDuts, Remote)
  /\ label_duts = [l \in Labels |-> 0]
  /\ pc = [d \in Duts |-> "new"]
  /\ terminated = [d \in Duts |-> FALSE]
  /\ active_br = [d \in Duts |-> NoBr]
  /\ br = [d \in Duts |-> NoBr]
  /\ lock = [d \in Duts |-> NoDut]
  /\ scan = [d \in Duts |-> NotScanning]
  /\ goal = [d \in Duts |-> NoLabel]
  /\ dut_label = [d \in Duts |-> NoLabel]
  /\ dut_checksum = [d \in Duts |-> NoImage]
  /\ installed \in [Duts -> Images]
  /\ file \in [Duts -> Images]
  /\ stale = {d \in Duts : file[d] \notin {NoImage, installed[d]}}
  /\ image_lock = NoDut
  /\ owner = [b \in Brs |-> NoDut]
  /\ br_terminated = {}
  /\ num_complete = 0
  /\ num_run_complete = 0
  /\ main = "starting"
  /\ main_i = 1
  /\ main_w = NoDut
  /\ runs = [b \in Brs |-> 0]
  /\ ended = [d \in Duts |-> "none"]
  /\ late = [d \in Duts |-> <<>>]

-----------------------------------------------------------------------------
(* Control                                                                 *)

Goto(d, from, to) ==
  /\ pc[d] = from
  /\ pc' = [pc EXCEPT ![d] = to]

\* Leave the while loop for the finally clause.
Leave(d, from, why) ==
  /\ Goto(d, from, "finish")
  /\ ended' = [ended EXCEPT ![d] = why]

\* History: a br or a reimage begins.
CountLate(d, work) ==
  late' = [late EXCEPT ![d] = IF sched_terminated THEN Append(@, work) ELSE @]

-----------------------------------------------------------------------------
(* The first part of DutWorker.run: brs with a cache hit.                  *)

\* get_cached_benchmark_run, under its lock.  This lock is one object: when
\* the list was ever nonempty a reader has created it before.
GetCachedBenchmarkRun(d) ==
  \/ \E b \in cached_br_list :
       /\ Goto(d, "cached", "runcached")
       /\ cached_br_list' = cached_br_list \ {b}
       /\ br' = [br EXCEPT ![d] = b]
       /\ UNCHANGED <<schedVars, label_brl_map, active_workers, mimVars, terminated,
                      active_br, lock, scan, goal, dutVars, brVars, mainVars,
                      ended, late>>
  \/ /\ cached_br_list = {}
     /\ Goto(d, "cached", "setup")
     /\ UNCHANGED <<schedVars, cached_br_list, label_brl_map, active_workers,
                    mimVars, terminated, active_br, localVars, dutVars, brVars,
                    mainVars, ended, late>>

\* br.run() of a br whose result is there: no dut, no owner, not counted, and
\* no look at _terminated.
RunCached(d) ==
  /\ Goto(d, "runcached", "cached")
  /\ runs' = [runs EXCEPT ![br[d]] = @ + 1]
  /\ br' = [br EXCEPT ![d] = NoBr]
  /\ CountLate(d, "cached")
  /\ UNCHANGED <<schedVars, cached_br_list, label_brl_map, active_workers, mimVars,
                 terminated, active_br, lock, scan, goal, dutVars, owner,
                 br_terminated, unread, num_complete, num_run_complete, mainVars,
                 ended>>

\* The labels whose checksum equals the content of the dut's checksum file.
Preinstalled(d) == {l \in Checksummed : Image[l] = file[d]}

\* _setup_dut_label: the first label whose checksum is in the file, unless the
\* file cannot be read.
SetupDutLabel(d) ==
  /\ Goto(d, "setup", "loop")
  /\ \/ \E l \in Preinstalled(d) :
          /\ \A k \in Preinstalled(d) : l <= k
          /\ dut_label' = [dut_label EXCEPT ![d] = l]
     \/ UNCHANGED dut_label
  /\ UNCHANGED <<schedVars, cached_br_list, label_brl_map, active_workers, mimVars,
                 terminated, active_br, localVars, dut_checksum, installed, file,
                 stale, image_lock, brVars, mainVars, ended, late>>

-----------------------------------------------------------------------------
(* The main loop.                                                          *)

unchangedByGet == <<cached_br_list, active_workers, mimVars, terminated, active_br,
                    scan, goal, dutVars, brVars, mainVars, late>>

\* while not self._terminated
LoopTest(d) ==
  /\ \/ /\ terminated[d]
        /\ Leave(d, "loop", "terminated")
     \/ /\ ~terminated[d]
        /\ Goto(d, "loop", "get")
        /\ UNCHANGED ended
  /\ UNCHANGED <<schedVars, label_brl_map, br, lock, unchangedByGet>>

\* Mutant: brs are handed out after termination.
MutGetBenchmarkRun(d) ==
  /\ Goto(d, "get", IF dut_label[d] = NoLabel THEN "alloc" ELSE "lookup")
  /\ UNCHANGED <<schedVars, label_brl_map, br, lock, ended, unchangedByGet>>

\* get_benchmark_run: None when terminated or when the dut has no label.
GetBenchmarkRun(d) ==
  /\ IF sched_terminated \/ dut_label[d] = NoLabel
     THEN Goto(d, "get", "alloc")
     ELSE Goto(d, "get", "lookup")
  /\ UNCHANGED <<schedVars, label_brl_map, br, lock, ended, unchangedByGet>>

\* lock_on(dut.label): the key is there, or __missing__ is entered.
LockLookup(d) ==
  /\ pc[d] = "lookup"
  /\ IF lock_map[dut_label[d]] # NoDut
     THEN /\ Goto(d, "lookup", "acquire")
          /\ lock' = [lock EXCEPT ![d] = lock_map[dut_label[d]]]
     ELSE /\ Goto(d, "lookup", "mklock")
          /\ UNCHANGED lock
  /\ UNCHANGED <<schedVars, label_brl_map, br, ended, unchangedByGet>>

\* __missing__ stores the new Lock under the key and returns it, whatever the
\* key holds by now.
MakeLock(d) ==
  /\ Goto(d, "mklock", "acquire")
  /\ lock_map' = [lock_map EXCEPT ![dut_label[d]] = d]
  /\ lock' = [lock EXCEPT ![d] = d]
  /\ UNCHANGED <<sched_terminated, lock_holder, finished_workers, label_brl_map, br,
                 ended, unchangedByGet>>

LockId(d) == <<dut_label[d], lock[d]>>

AcquireLock(d) ==
  /\ Goto(d, "acquire", "check")
  /\ lock_holder[LockId(d)] = NoDut
  /\ lock_holder' = [lock_holder EXCEPT ![LockId(d)] = d]
  /\ UNCHANGED <<sched_terminated, lock_map, finished_workers, label_brl_map, br,
                 lock, ended, unchangedByGet>>

ReleaseLock(d) ==
  /\ lock_holder' = [lock_holder EXCEPT ![LockId(d)] = NoDut]
  /\ lock' = [lock EXCEPT ![d] = NoDut]
  /\ UNCHANGED <<sched_terminated, lock_map, finished_workers>>

\* Mutants: the last br of a label is left behind; the early return keeps the
\* lock.
MutCheckListOffByOne(d) ==
  /\ pc[d] = "check"
  /\ IF Len(label_brl_map[dut_label[d]]) <= 1
     THEN Goto(d, "check", "alloc") /\ ReleaseLock(d)
     ELSE Goto(d, "check", "pop") /\ UNCHANGED <<schedVars, lock>>
  /\ UNCHANGED <<label_brl_map, br, ended, unchangedByGet>>
MutCheckListKeepsLock(d) ==
  /\ pc[d] = "check"
  /\ Goto(d, "check", IF label_brl_map[dut_label[d]] = <<>> THEN "alloc" ELSE "pop")
  /\ UNCHANGED <<schedVars, lock, label_brl_map, br, ended, unchangedByGet>>

\* if not brl: return None
CheckList(d) ==
  /\ pc[d] = "check"
  /\ IF label_brl_map[dut_label[d]] = <<>>
     THEN Goto(d, "check", "alloc") /\ ReleaseLock(d)
     ELSE Goto(d, "check", "pop") /\ UNCHANGED <<schedVars, lock>>
  /\ UNCHANGED <<label_brl_map, br, ended, unchangedByGet>>

\* Mutant: the first br is returned but stays in the list.
MutPopBenchmarkRun(d) ==
  /\ pc[d] = "pop"
  /\ label_brl_map[dut_label[d]] # <<>>
  /\ Goto(d, "pop", "exec")
  /\ br' = [br EXCEPT ![d] = Head(label_brl_map[dut_label[d]])]
  /\ ReleaseLock(d)
  /\ UNCHANGED <<label_brl_map, ended, unchangedByGet>>

\* return brl.pop(0), which raises IndexError on a list emptied meanwhile;
\* the exception leaves run() through the finally clause.
PopBenchmarkRun(d) ==
  LET brl == label_brl_map[dut_label[d]]
  IN  /\ pc[d] = "pop"
      /\ IF brl = <<>>
         THEN /\ Leave(d, "pop", "crashed")
              /\ UNCHANGED <<label_brl_map, br>>
         ELSE /\ Goto(d, "pop", "exec")
              /\ br' = [br EXCEPT ![d] = Head(brl)]
              /\ label_brl_map' = [label_brl_map EXCEPT ![dut_label[d]] = Tail(brl)]
              /\ UNCHANGED ended
      /\ ReleaseLock(d)
      /\ UNCHANGED unchangedByGet

-----------------------------------------------------------------------------
(* _execute_benchmark_run                                                  *)

unchangedByExec == <<schedVars, cached_br_list, label_brl_map, active_workers,
                     mimVars, terminated, lock, scan, goal, dutVars, unread,
                     br_terminated, mainVars>>

\* if self._terminated: return - the br is dropped.  Otherwise the worker
\* becomes the owner.
ExecCheck(d) ==
  /\ \/ /\ terminated[d]
        /\ Goto(d, "exec", "loop")
        /\ br' = [br EXCEPT ![d] = NoBr]
        /\ UNCHANGED owner
     \/ /\ ~terminated[d]
        /\ Goto(d, "exec", "activate")
        /\ owner' = [owner EXCEPT ![br[d]] = d]
        /\ UNCHANGED br
  /\ UNCHANGED <<unchangedByExec, active_br, num_complete, num_run_complete, runs,
                 ended, late>>

\* with self._active_br_lock: self._active_br = br
Activate(d) ==
  /\ Goto(d, "activate", "start")
  /\ active_br' = [active_br EXCEPT ![d] = br[d]]
  /\ UNCHANGED <<unchangedByExec, br, owner, num_complete, num_run_complete, runs,
                 ended, late>>

\* br.run() is entered.
StartRun(d) ==
  /\ Goto(d, "start", "running")
  /\ runs' = [runs EXCEPT ![br[d]] = @ + 1]
  /\ CountLate(d, "br")
  /\ UNCHANGED <<unchangedByExec, active_br, br, owner, num_complete,
                 num_run_complete, ended>>

\* br.run() is over, normally or by an exception that leaves it (SystemExit or
\* an AssertionError, see BenchmarkRun), and BenchmarkRunFinished counts the
\* br.  A br whose cache could not be read before may turn out to be a hit.
FinishRun(d) ==
  \E raised \in BOOLEAN, hit \in BOOLEAN :
    /\ hit => br[d] \in unread
    /\ Goto(d, "running", IF raised THEN "clearraise" ELSE "clear")
    /\ num_complete' = num_complete + 1
    /\ num_run_complete' = IF hit THEN num_run_complete ELSE num_run_complete + 1
    /\ UNCHANGED <<unchangedByExec, active_br, br, owner, runs, ended, late>>

\* with self._active_br_lock: self._active_br = None; a raised exception then
\* leaves run() through its finally clause.
ClearActive(d) ==
  /\ \/ Goto(d, "clear", "loop") /\ UNCHANGED ended
     \/ Leave(d, "clearraise", "crashed")
  /\ active_br' = [active_br EXCEPT ![d] = NoBr]
  /\ br' = [br EXCEPT ![d] = NoBr]
  /\ UNCHANGED <<unchangedByExec, owner, num_complete, num_run_complete, runs, late>>

-----------------------------------------------------------------------------
(* allocate_label and MachineImageManager.allocate                         *)

unchangedByAlloc == <<schedVars, cached_br_list, label_brl_map, active_workers,
                      terminated, active_br, br, lock, dutVars, brVars, mainVars,
                      late>>

AllocateLabel(d) ==
  /\ \/ /\ sched_terminated
        /\ Leave(d, "alloc", "terminated")
        /\ UNCHANGED scan
     \/ /\ ~sched_terminated
        /\ Goto(d, "alloc", "scan")
        /\ scan' = [scan EXCEPT ![d] = [row |-> 1, can |-> NoCandidate]]
        /\ UNCHANGED ended
  /\ UNCHANGED <<unchangedByAlloc, mimVars, goal>>

Give(d, l) ==
  /\ Goto(d, "scan", "reimage")
  /\ matrix' = [matrix EXCEPT ![<<l, d>>] = "given"]
  /\ label_duts' = [label_duts EXCEPT ![l] = @ + 1]
  /\ goal' = [goal EXCEPT ![d] = l]
  /\ scan' = [scan EXCEPT ![d] = NotScanning]
  /\ UNCHANGED ended

\* One row of the scan, with the length of the label's list as it is now.
ScanRow(d) ==
  LET l       == scan[d].row
      v       == matrix[<<l, d>>]
      pending == Len(label_brl_map[l])
  IN  /\ pc[d] = "scan"
      /\ l \in Labels
      /\ IF Planned(v, pending)
         THEN Give(d, l)
         ELSE /\ scan' = [scan EXCEPT ![d] =
                    [row |-> l + 1,
                     can |-> Consider(scan[d].can, l, v, label_duts[l], pending)]]
              /\ UNCHANGED <<pc, mimVars, goal, ended>>
      /\ UNCHANGED unchangedByAlloc

\* After the last row: the candidate, or None and the worker quits.
EndScan(d) ==
  /\ pc[d] = "scan"
  /\ scan[d].row = NLabels + 1
  /\ IF scan[d].can.label # NoLabel
     THEN Give(d, scan[d].can.label)
     ELSE /\ Leave(d, "scan", "exhausted")
          /\ scan' = [scan EXCEPT ![d] = NotScanning]
          /\ UNCHANGED <<mimVars, goal>>
  /\ UNCHANGED unchangedByAlloc

-----------------------------------------------------------------------------
(* _reimage and MachineManager.ImageMachine                                *)

unchangedByReimage == <<schedVars, cached_br_list, label_brl_map, active_workers,
                        mimVars, terminated, active_br, br, lock, scan, brVars,
                        mainVars>>

\* Mutant: any known checksum counts as the right one.
MutAlreadyImaged(d) == goal[d] \in Checksummed /\ dut_checksum[d] # NoImage

\* ImageMachine returns at once when dut.checksum is the label's checksum.
AlreadyImaged(d) ==
  goal[d] \in Checksummed /\ dut_checksum[d] = Image[goal[d]]

ReimageCheck(d) ==
  /\ \/ /\ terminated[d]
        /\ Leave(d, "reimage", "terminated")
        /\ UNCHANGED <<dut_label, goal, late>>
     \/ /\ ~terminated[d] /\ AlreadyImaged(d)
        /\ Goto(d, "reimage", "loop")
        /\ dut_label' = [dut_label EXCEPT ![d] = goal[d]]
        /\ goal' = [goal EXCEPT ![d] = NoLabel]
        /\ CountLate(d, "reimage")
        /\ UNCHANGED ended
     \/ /\ ~terminated[d] /\ ~AlreadyImaged(d)
        /\ Goto(d, "reimage", "wantimage")
        /\ CountLate(d, "reimage")
        /\ UNCHANGED <<dut_label, goal, ended>>
  /\ UNCHANGED <<dut_checksum, installed, file, stale, image_lock, unchangedByReimage>>

\* with self.image_lock
BeginImage(d) ==
  /\ image_lock = NoDut
  /\ Goto(d, "wantimage", "imaging")
  /\ image_lock' = d
  /\ UNCHANGED <<dut_label, dut_checksum, installed, file, stale, goal, ended, late,
                 unchangedByReimage>>

\* DoImage does not flash a dut whose checksum file has the checksum of the image.
Skipped(d) ==
  /\ goal[d] \in Checksummed
  /\ file[d] = Image[goal[d]]
  /\ UNCHANGED <<installed, file, stale>>

\* cros flash --clobber-stateful removes the checksum file; DoImage writes it anew
\* for a local image.
Flashed(d) ==
  /\ goal[d] \in Checksummed => file[d] # Image[goal[d]]
  /\ installed' = [installed EXCEPT ![d] = Image[goal[d]]]
  /\ file' = [file EXCEPT ![d] = IF goal[d] \in Checksummed THEN Image[goal[d]] ELSE NoImage]
  /\ stale' = stale \ {d}

\* What a failing DoImage leaves: nothing changed, no usable image or the image
\* without the file, or the file written before the image fails its verification.
HalfImaged(d) ==
  /\ \E s \in {<<installed[d], file[d]>>, <<NoImage, NoImage>>, <<Image[goal[d]], NoImage>>}
              \cup (IF goal[d] \in Checksummed THEN {<<NoImage, Image[goal[d]]>>} ELSE {}) :
       /\ installed' = [installed EXCEPT ![d] = s[1]]
       /\ file' = [file EXCEPT ![d] = s[2]]
  /\ UNCHANGED <<dut_label, dut_checksum, stale>>

\* DoImage (tried twice) has succeeded and machine.label and machine.checksum are
\* set; GetChromeVersion may still raise.  Or DoImage failed.  A failure makes the
\* worker leave its loop, by _reimage's return value 1 or by the exception.
EndImage(d) ==
  /\ pc[d] = "imaging"
  /\ image_lock' = NoDut
  /\ \/ /\ Skipped(d) \/ Flashed(d)
        /\ dut_label' = [dut_label EXCEPT ![d] = goal[d]]
        /\ dut_checksum' = [dut_checksum EXCEPT ![d] =
             IF goal[d] \in Checksummed THEN Image[goal[d]] ELSE NoImage]
        /\ \/ /\ Goto(d, "imaging", "loop")
              /\ goal' = [goal EXCEPT ![d] = NoLabel]
              /\ UNCHANGED ended
           \/ /\ Leave(d, "imaging", "doomed")
              /\ UNCHANGED goal
     \/ /\ HalfImaged(d)
        /\ Leave(d, "imaging", "doomed")
        /\ UNCHANGED goal
  /\ UNCHANGED <<late, unchangedByReimage>>

-----------------------------------------------------------------------------
\* list.remove(x): the first element equal to x goes.
ListRemove(s, x) ==
  LET i == CHOOSE k \in 1..Len(s) : s[k] = x /\ \A j \in 1..(k - 1) : s[j] # x
  IN  SubSeq(s, 1, i - 1) \o SubSeq(s, i + 1, Len(s))

\* dut_worker_finished, under _workers_lock.
DutWorkerFinished(d) ==
  /\ Goto(d, "finish", "ended")
  /\ active_workers' = ListRemove(active_workers, d)
  /\ finished_workers' = finished_workers \cup {d}
  /\ UNCHANGED <<sched_terminated, lock_map, lock_holder, cached_br_list,
                 label_brl_map, mimVars, terminated, active_br, localVars, dutVars,
                 brVars, mainVars, ended, late>>

-----------------------------------------------------------------------------
(* The main thread: ExperimentRunner._Run.                                 *)

unchangedByMain == <<cached_br_list, label_brl_map, lock_map, lock_holder,
                     active_workers, finished_workers, mimVars, active_br,
                     localVars, dutVars, owner, unread, num_complete,
                     num_run_complete, runs, ended, late>>

MainGoto(from, to) == main = from /\ main' = to

\* A for loop over _active_workers reads the list by index, while workers that
\* finish remove themselves from it.
InLoop == main_i <= Len(active_workers)

\* Mutant: the loop passes over every other worker.
MutStartWorker ==
  /\ MainGoto("starting", "starting") /\ InLoop
  /\ pc' = [pc EXCEPT ![active_workers[main_i]] = "cached"]
  /\ main_i' = main_i + 2
  /\ UNCHANGED <<main_w, sched_terminated, terminated, br_terminated,
                 unchangedByMain>>

\* run_sched: w.start()
StartWorker ==
  /\ MainGoto("starting", "starting") /\ InLoop
  /\ pc' = [pc EXCEPT ![active_workers[main_i]] = "cached"]
  /\ main_i' = main_i + 1
  /\ UNCHANGED <<main_w, sched_terminated, terminated, br_terminated,
                 unchangedByMain>>

\* run_sched returns.
RunSchedReturn ==
  /\ MainGoto("starting", "monitor") /\ ~InLoop
  /\ UNCHANGED <<main_i, main_w, pc, sched_terminated, terminated, br_terminated,
                 unchangedByMain>>

\* while not experiment.IsComplete()
MonitorComplete ==
  /\ MainGoto("monitor", "unlock") /\ active_workers = <<>>
  /\ UNCHANGED <<main_i, main_w, pc, sched_terminated, terminated, br_terminated,
                 unchangedByMain>>

\* ctrl-c: experiment.Terminate() calls Schedv2.terminate().
Interrupt ==
  /\ MainGoto("monitor", "terminating")
  /\ main_i' = 1
  /\ sched_terminated' = TRUE
  /\ UNCHANGED <<main_w, pc, terminated, br_terminated, unchangedByMain>>

\* DutWorker.terminate sets the worker's flag ...
TerminateFlag ==
  /\ MainGoto("terminating", "terminateactive") /\ InLoop
  /\ main_w' = active_workers[main_i]
  /\ main_i' = main_i + 1
  /\ terminated' = [terminated EXCEPT ![active_workers[main_i]] = TRUE]
  /\ UNCHANGED <<pc, sched_terminated, br_terminated, unchangedByMain>>

\* ... and then, under _active_br_lock, terminates the br it is running.
\* Terminate() raises when run() records FAILED between its two calls of the
\* timeline (see BenchmarkRun); the exception ends the for loop.
TerminateActive ==
  /\ \/ MainGoto("terminateactive", "terminating")
     \/ MainGoto("terminateactive", "unlock") /\ active_br[main_w] # NoBr
  /\ br_terminated' = br_terminated \cup ({active_br[main_w]} \ {NoBr})
  /\ UNCHANGED <<main_i, main_w, pc, sched_terminated, terminated, unchangedByMain>>

\* The for loop of terminate() ends.
TerminateReturn ==
  /\ MainGoto("terminating", "unlock") /\ ~InLoop
  /\ UNCHANGED <<main_i, main_w, pc, sched_terminated, terminated, br_terminated,
                 unchangedByMain>>

\* The finally clause unlocks the duts.
Unlock ==
  /\ MainGoto("unlock", "done")
  /\ UNCHANGED <<main_i, main_w, pc, sched_terminated, terminated, br_terminated,
                 unchangedByMain>>

-----------------------------------------------------------------------------
Worker(d) ==
  \/ GetCachedBenchmarkRun(d) \/ RunCached(d) \/ SetupDutLabel(d)
  \/ LoopTest(d) \/ GetBenchmarkRun(d) \/ LockLookup(d) \/ MakeLock(d)
  \/ AcquireLock(d) \/ CheckList(d) \/ PopBenchmarkRun(d)
  \/ ExecCheck(d) \/ Activate(d) \/ StartRun(d) \/ FinishRun(d) \/ ClearActive(d)
  \/ AllocateLabel(d) \/ ScanRow(d) \/ EndScan(d)
  \/ ReimageCheck(d) \/ BeginImage(d) \/ EndImage(d)
  \/ DutWorkerFinished(d)

\* What the main thread does by itself.
MainStep ==
  \/ StartWorker \/ RunSchedReturn \/ MonitorComplete
  \/ TerminateFlag \/ TerminateActive \/ TerminateReturn \/ Unlock

Next == (\E d \in Duts : Worker(d)) \/ MainStep \/ Interrupt

Spec == Init /\ [][Next]_vars

\* Threads that can run are scheduled; the commands run on a dut are assumed
\* to end; ctrl-c may or may not come.
FairSpec == Spec /\ (\A d \in Duts : WF_vars(Worker(d))) /\ WF_vars(MainStep)

-----------------------------------------------------------------------------
(* What holds.                                                             *)

\* The points at which a worker holds a br it took from a label list.
Holding == {"exec", "activate", "start", "running", "clear", "clearraise"}

\* No br is run twice, by one worker or by two, although the lists are popped
\* under locks that can be two different objects for one label.
RunAtMostOnce == \A b \in Brs : runs[b] <= 1

\* A br is in one place: the cached list, once in the list of its own label,
\* or in the hands of one worker; and outside a worker's hands it has not run
\* if it is still in a list.
InOnePlace ==
  /\ \A d, e \in Duts : br[d] # NoBr /\ br[d] = br[e] => d = e
  /\ \A d \in Duts : br[d] # NoBr => br[d] \notin cached_br_list
  /\ \A l \in Labels : \A i \in 1..Len(label_brl_map[l]) :
       LET b == label_brl_map[l][i]
       IN  /\ LabelOf[b] = l
           /\ b \notin cached_br_list
           /\ runs[b] = 0
           /\ \A d \in Duts : br[d] # b
           /\ \A j \in 1..Len(label_brl_map[l]) : label_brl_map[l][j] = b => i = j

\* benchmark_run.py:202-203 relies on it ("Machine image is guarenteed"): a br
\* taken from a label list runs on a dut that really carries its label's image,
\* whether the dut was found preinstalled, imaged, or imaged before with the same
\* checksum.  Both _setup_dut_label and DoImage trust the checksum file, so a dut
\* that came with a file of another image carries what the file says only after
\* a flash; until then the br runs on the image that the file names wrongly.
RightImage ==
  \A d \in Duts : pc[d] \in Holding =>
    /\ dut_label[d] = LabelOf[br[d]]
    /\ \/ installed[d] = Image[LabelOf[br[d]]]
       \/ d \in stale /\ file[d] = Image[LabelOf[br[d]]]

\* The experiment is complete only when the work is done: without ctrl-c, a br
\* that was not run has no compatible dut left whose worker ended well.
NothingLeftBehind ==
  main \in {"unlock", "done"} /\ ~sched_terminated =>
    \A b \in Brs :
      \/ runs[b] = 1
      \/ \A d \in Duts :
           Compatible(Remote, LabelOf[b], d) => ended[d] \in {"doomed", "crashed"}

\* After Schedv2.terminate() has set its flag a worker begins at most one more br
\* on its dut or one more reimage, and then nothing, even a worker that terminate()
\* never reaches.  Cached brs it begins without end: their loop does not test
\* _terminated, but it comes before.
LateBound ==
  \A d \in Duts : \A i \in 1..Len(late[d]) : late[d][i] # "cached" => i = Len(late[d])

\* The workers that run_sched did not start ("Start all dut worker threads",
\* schedv2.py:264) are no more than the workers that had ended, and each comes
\* after one of those in the list: the loop passes over a worker only when the
\* list it iterates shrinks before it.
SkippedBehindEnded ==
  main # "starting" =>
    /\ Cardinality({d \in Duts : pc[d] = "new"}) <= Cardinality({d \in Duts : pc[d] = "ended"})
    /\ \A d \in Duts : pc[d] = "new" => \E e \in 1..(d - 1) : pc[e] = "ended"

\* A worker that was started ends, and is moved to _finished_workers.
WorkersFinish ==
  \A d \in Duts : pc[d] = "cached" ~> pc[d] = "ended" /\ d \in finished_workers

\* When run_sched has started every worker the experiment ends by itself or by
\* ctrl-c, and the duts are unlocked.
ExperimentEnds ==
  (main = "monitor" /\ \A d \in Duts : pc[d] # "new") ~> main = "done"

\* Nobody waits forever: neither a worker for the locks of the others, nor the
\* main thread in its monitor loop for the workers.
EveryoneEnds == WorkersFinish /\ ExperimentEnds
=============================================================================
