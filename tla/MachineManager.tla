--------------------------- MODULE MachineManager ---------------------------
(***************************************************************************)
(* An experiment without schedv2: every br is a thread of its own and gets *)
(* a machine from MachineManager (machine_manager.py), which locks it with *)
(* a lock file, images it, and takes it back or removes it; the main       *)
(* thread counts the brs that ended (Experiment.IsComplete) and unlocks    *)
(* the machines at exit.                                                   *)
(*                                                                         *)
(* Of the lock files only what FileLock shows is used: one holder at a     *)
(* time.  Another experiment may hold a machine whenever this one does     *)
(* not, and put its own image on it.  Images are files with checksums.     *)
(***************************************************************************)
EXTENDS Naturals, Sequences, FiniteSets, SequencesExt

CONSTANTS
  Brs, Machines,
  Remote,      \* br -> the machines of its label
  Image,       \* br -> the checksum of its label's image
  Patience,    \* passes of AcquireMachine's loop until acquire_timeout < 0
  MaxOther,    \* how often the other experiment takes a machine
  OtherImage,  \* the image of the other experiment
  NoImage,     \* nothing bootable; no checksum
  NoMachine

Images == {Image[b] : b \in Brs} \cup {OtherImage, NoImage}

ASSUME ManagerAssumption ==
  /\ IsFiniteSet(Brs)
  /\ \A b \in Brs : Remote[b] \subseteq Machines /\ Remote[b] # {}
  /\ \A b \in Brs : Image[b] \notin {OtherImage, NoImage}
  /\ NoMachine \notin Machines
  /\ Patience \in Nat \ {0}
  /\ MaxOther \in Nat

VARIABLES
  machines,         \* _machines: those locked with their lock files
  locked, checksum, \* of a CrosMachine: given to a br; what it is believed to run
  patience,         \* passes left before acquire_timeout is negative
  lockfile,         \* who has a machine: "free", "us" or "other"
  installed, file,  \* the image of a machine, and the checksum file on it
  pc, machine, terminated, \* of a br
  main, main_i, active_threads, num_complete,
  others,           \* how often the other experiment has taken a machine
  removed,          \* machines RemoveMachine was called for, each at most once
  suspect           \* history: an imaging, or reading the checksum file, failed

vars == <<machines, locked, checksum, patience, lockfile, installed, file, pc, machine,
          terminated, main, main_i, active_threads, num_complete, others, removed, suspect>>

TypeOK ==
  /\ machines \subseteq Machines
  /\ locked \in [Machines -> BOOLEAN]
  /\ checksum \in [Machines -> Images]
  /\ patience \in 0..Patience
  /\ lockfile \in [Machines -> {"free", "us", "other"}]
  /\ installed \in [Machines -> Images] /\ file \in [Machines -> Images]
  /\ pc \in [Brs -> {"poll", "asleep", "image", "imaging", "run", "finally", "release", "ended"}]
  /\ machine \in [Brs -> Machines \cup {NoMachine}]
  /\ terminated \in BOOLEAN
  /\ main \in {"monitor", "exit", "cleanup", "left", "gone"}
  /\ active_threads \in Seq(Brs) /\ main_i \in 1..(Len(active_threads) + 1)
  /\ num_complete \in 0..Cardinality(Brs)
  /\ others \in 0..MaxOther
  /\ removed \subseteq Machines /\ suspect \subseteq Machines

\* Every br has been started; the machines carry any image of the experiment
\* or none.
Init ==
  /\ machines = {}
  /\ locked = [m \in Machines |-> FALSE]
  /\ checksum = [m \in Machines |-> NoImage]
  /\ patience = Patience
  /\ lockfile = [m \in Machines |-> "free"]
  /\ installed \in [Machines -> Images \ {OtherImage}]
  /\ file = installed
  /\ pc = [b \in Brs |-> "poll"]
  /\ machine = [b \in Brs |-> NoMachine]
  /\ terminated = FALSE
  /\ main = "monitor" /\ main_i = 1
  /\ active_threads = SetToSeq(Brs)
  /\ num_complete = 0
  /\ others = 0
  /\ removed = {} /\ suspect = {}

Goto(b, from, to) == pc[b] = from /\ pc' = [pc EXCEPT ![b] = to]

\* MachineManager._lock is held by a br that sleeps in AcquireMachine, and by the
\* main thread in Cleanup.
Lock(b) == main # "cleanup" /\ \A c \in Brs \ {b} : pc[c] # "asleep"

mainUnchanged == UNCHANGED <<terminated, main, main_i, active_threads, num_complete>>

\* Nothing changes but where the br is.
onlyPc ==
  /\ UNCHANGED <<machines, locked, checksum, patience, lockfile, installed, file, machine, others, removed, suspect>>
  /\ mainUnchanged

-----------------------------------------------------------------------------
(* A br: BenchmarkRun.run without a cache hit                              *)

\* _TryToLockMachine for every machine of the label: those that it locks.
Lockable(b) == {m \in Remote[b] \ machines : lockfile[m] = "free"}

\* Mutant: a machine added again keeps the checksum it had.
MutReadChecksums(added, failing) ==
  /\ failing = {}
  /\ checksum' = [m \in Machines |-> IF m \in added /\ checksum[m] = NoImage THEN file[m] ELSE checksum[m]]
  /\ UNCHANGED suspect

\* The checksums read from the machines added; reading it can fail, and then
\* the CrosMachine keeps the one it had.
ReadChecksums(added, failing) ==
  /\ failing \subseteq added
  /\ \A m \in added : file[m] = NoImage => m \in failing
  /\ checksum' = [m \in Machines |-> IF m \in added \ failing THEN file[m] ELSE checksum[m]]
  /\ suspect' = suspect \cup {m \in failing : checksum[m] # NoImage}

TryToLockMachines(b) ==
  /\ machines' = machines \cup Lockable(b)
  /\ lockfile' = [m \in Machines |-> IF m \in Lockable(b) THEN "us" ELSE lockfile[m]]
  /\ \E failing \in SUBSET Lockable(b) : ReadChecksums(Lockable(b), failing)

\* Mutant: a machine is taken although another br has it.
MutUnlockedMachines(b) == machines' \cap Remote[b]

UnlockedMachines(b) == {m \in machines' \cap Remote[b] : ~locked[m]}

\* The machines AcquireMachine may return: with the image, else with none, else
\* one released between 8 and 15 seconds ago (or none of them, for now).
Choice(b) ==
  LET same == {m \in UnlockedMachines(b) : checksum'[m] = Image[b]}
      blank == {m \in UnlockedMachines(b) : checksum'[m] = NoImage}
  IN IF same # {} THEN same ELSE IF blank # {} THEN blank
     ELSE UnlockedMachines(b) \cup {NoMachine}

\* A br that is not terminated is about to go through the loop of AcquireMachine.
InLoop(b) == pc[b] \in {"poll", "asleep"} /\ Lock(b) /\ ~(pc[b] = "poll" /\ terminated)

\* The loop of AcquireMachine finds a machine of the label in _machines.
AcquireMachine(b) ==
  /\ InLoop(b)
  /\ patience > 0
  /\ TryToLockMachines(b)
  /\ machines' \cap Remote[b] # {}
  /\ \E m \in Choice(b) :
       /\ machine' = [machine EXCEPT ![b] = m]
       /\ locked' = [n \in Machines |-> locked[n] \/ n = m]
       /\ pc' = [pc EXCEPT ![b] = IF m = NoMachine THEN "poll" ELSE "image"]
  /\ UNCHANGED <<patience, installed, file, others, removed>> /\ mainUnchanged

\* Mutant: the time slept is not taken off acquire_timeout.
MutSleep(b) ==
  /\ InLoop(b)
  /\ patience > 0
  /\ machines \cap Remote[b] = {} /\ Lockable(b) = {}
  /\ pc' = [pc EXCEPT ![b] = "asleep"]
  /\ onlyPc

\* It finds none, and sleeps with the lock held.
Sleep(b) ==
  /\ InLoop(b)
  /\ patience > 0
  /\ machines \cap Remote[b] = {} /\ Lockable(b) = {}
  /\ pc' = [pc EXCEPT ![b] = "asleep"]
  /\ patience' = patience - 1
  /\ UNCHANGED <<machines, locked, checksum, lockfile, installed, file, machine, others, removed, suspect>>
  /\ mainUnchanged

\* acquire_timeout is negative, for this br or since an earlier one waited: it
\* ends with SystemExit.  A terminated br ends with RuntimeError.
GiveUp(b) ==
  /\ \/ pc[b] \in {"poll", "asleep"} /\ Lock(b) /\ patience = 0
     \/ pc[b] = "poll" /\ terminated
  /\ pc' = [pc EXCEPT ![b] = "ended"]
  /\ onlyPc

\* ImageMachine: nothing to do, or wait for image_lock.
ImageMachine(b) ==
  /\ \/ Goto(b, "image", "run") /\ checksum[machine[b]] = Image[b]
     \/ /\ Goto(b, "image", "imaging")
        /\ checksum[machine[b]] # Image[b]
        /\ \A c \in Brs : pc[c] # "imaging"
  /\ onlyPc

\* DoImage: done, or skipped since the checksum file says so.
DoImage(b) ==
  LET m == machine[b]
  IN /\ Goto(b, "imaging", "run")
     /\ \/ file[m] = Image[b] /\ UNCHANGED <<installed, file, suspect>>
        \/ /\ file[m] # Image[b]
           /\ installed' = [installed EXCEPT ![m] = Image[b]]
           /\ file' = [file EXCEPT ![m] = Image[b]]
           /\ suspect' = suspect \ {m}
     /\ checksum' = [checksum EXCEPT ![m] = Image[b]]
     /\ UNCHANGED <<machines, locked, patience, lockfile, machine, others, removed>> /\ mainUnchanged

\* DoImage fails before or while it flashes, before or after it writes the
\* checksum file: RuntimeError or SystemExit, with the checksum as it was.
DoImageFails(b) ==
  LET m == machine[b]
  IN /\ Goto(b, "imaging", "finally")
     /\ file[m] # Image[b]
     /\ \E s \in {<<installed[m], file[m]>>, <<NoImage, NoImage>>, <<Image[b], NoImage>>, <<NoImage, Image[b]>>} :
          /\ installed' = [installed EXCEPT ![m] = s[1]]
          /\ file' = [file EXCEPT ![m] = s[2]]
     /\ suspect' = suspect \cup {m}
     /\ UNCHANGED <<machines, locked, checksum, patience, lockfile, machine, others, removed>> /\ mainUnchanged

\* The test suite ends, however it does.
RunTest(b) ==
  /\ Goto(b, "run", "finally")
  /\ onlyPc

\* The machine can be reached.
Reachable(b) ==
  /\ Goto(b, "finally", "release")
  /\ onlyPc

\* Mutant: it stays in _machines.
MutRemoveMachine(b) ==
  LET m == machine[b]
  IN /\ Goto(b, "finally", "release") /\ Lock(b)
     /\ m \notin removed
     /\ lockfile' = [lockfile EXCEPT ![m] = "free"]
     /\ removed' = removed \cup {m}
     /\ UNCHANGED <<machines, locked, checksum, patience, installed, file, machine, others, suspect>>
     /\ mainUnchanged

\* It cannot: RemoveMachine.  After Cleanup the lock file may be the other
\* experiment's: Unlock takes it away from the same user, not from another.
RemoveMachine(b) ==
  LET m == machine[b]
  IN /\ Goto(b, "finally", "release") /\ Lock(b)
     /\ m \notin removed
     /\ machines' = machines \ {m}
     /\ \/ lockfile' = [lockfile EXCEPT ![m] = "free"]
        \/ lockfile[m] = "other" /\ UNCHANGED lockfile
     /\ removed' = removed \cup {m}
     /\ UNCHANGED <<locked, checksum, patience, installed, file, machine, others, suspect>>
     /\ mainUnchanged

\* Mutant: the machine is not given back.
MutReleaseMachine(b) ==
  /\ Goto(b, "release", "ended") /\ Lock(b)
  /\ machine' = [machine EXCEPT ![b] = NoMachine]
  /\ UNCHANGED <<machines, locked, checksum, patience, lockfile, installed, file, others, removed, suspect>>
  /\ mainUnchanged

\* ReleaseMachine, which does nothing for a machine not in _machines.
ReleaseMachine(b) ==
  /\ Goto(b, "release", "ended") /\ Lock(b)
  /\ locked' = [locked EXCEPT ![machine[b]] = @ /\ machine[b] \notin machines]
  /\ machine' = [machine EXCEPT ![b] = NoMachine]
  /\ UNCHANGED <<machines, checksum, patience, lockfile, installed, file, others, removed, suspect>>
  /\ mainUnchanged

Br(b) ==
  /\ main # "gone"
  /\ \/ AcquireMachine(b) \/ Sleep(b) \/ GiveUp(b)
     \/ ImageMachine(b) \/ DoImage(b) \/ DoImageFails(b) \/ RunTest(b)
     \/ Reachable(b) \/ RemoveMachine(b) \/ ReleaseMachine(b)

-----------------------------------------------------------------------------
(* The main thread: IsComplete, ctrl-c, Cleanup at exit                    *)

brsUnchanged ==
  UNCHANGED <<locked, checksum, patience, installed, file, pc, machine, others, removed, suspect>>

\* Mutant: the first thread is removed instead of the one that ended.
MutCheckThread ==
  /\ main = "monitor" /\ main_i <= Len(active_threads)
  /\ \/ /\ pc[active_threads[main_i]] = "ended"
        /\ num_complete' = num_complete + 1
        /\ active_threads' = Tail(active_threads)
        /\ main_i' = 1
     \/ /\ pc[active_threads[main_i]] # "ended"
        /\ main_i' = main_i + 1
        /\ UNCHANGED <<num_complete, active_threads>>
  /\ UNCHANGED <<machines, lockfile, terminated, main>> /\ brsUnchanged

\* An iteration over active_threads, which steps over the thread after one
\* that it removes.
CheckThread ==
  /\ main = "monitor" /\ main_i <= Len(active_threads)
  /\ \/ /\ pc[active_threads[main_i]] = "ended"
        /\ num_complete' = num_complete + 1
        /\ active_threads' = RemoveAt(active_threads, main_i)
        /\ main_i' = IF main_i < Len(active_threads) THEN main_i + 1 ELSE main_i
     \/ /\ pc[active_threads[main_i]] # "ended"
        /\ main_i' = main_i + 1
        /\ UNCHANGED <<num_complete, active_threads>>
  /\ UNCHANGED <<machines, lockfile, terminated, main>> /\ brsUnchanged

\* IsComplete returns; _Run calls it again, or is done.
IsComplete ==
  /\ main = "monitor" /\ main_i > Len(active_threads)
  /\ main_i' = 1
  /\ main' = IF active_threads = <<>> THEN "exit" ELSE main
  /\ UNCHANGED <<machines, lockfile, terminated, active_threads, num_complete>> /\ brsUnchanged

\* ctrl-c: Terminate; the iteration, if any, is over.
Interrupt ==
  /\ main = "monitor"
  /\ main' = "exit" /\ main_i' = 1
  /\ terminated' = TRUE
  /\ UNCHANGED <<machines, lockfile, active_threads, num_complete>> /\ brsUnchanged

\* Cleanup, an atexit handler, takes the lock; the brs are daemons and go on.
Cleanup ==
  /\ main = "exit" /\ \A b \in Brs : pc[b] # "asleep"
  /\ main' = "cleanup"
  /\ UNCHANGED <<machines, lockfile, terminated, main_i, active_threads, num_complete>> /\ brsUnchanged

\* It unlocks one machine after the other, those in use too; they stay in
\* _machines.
UnlockMachine ==
  /\ main = "cleanup"
  /\ \E m \in machines :
       /\ lockfile[m] = "us"
       /\ lockfile' = [lockfile EXCEPT ![m] = "free"]
  /\ UNCHANGED <<machines, terminated, main, main_i, active_threads, num_complete>> /\ brsUnchanged

\* All are unlocked: Cleanup returns, and some time later the process is gone,
\* and the brs with it.
Leave ==
  /\ \/ /\ main = "cleanup" /\ \A m \in machines : lockfile[m] # "us"
        /\ main' = "left"
     \/ main = "left" /\ main' = "gone"
  /\ UNCHANGED <<machines, lockfile, terminated, main_i, active_threads, num_complete>> /\ brsUnchanged

Main == CheckThread \/ IsComplete \/ Cleanup \/ UnlockMachine \/ Leave

-----------------------------------------------------------------------------
(* The other experiment                                                    *)

OtherTakes(m) ==
  /\ lockfile[m] = "free" /\ others < MaxOther
  /\ lockfile' = [lockfile EXCEPT ![m] = "other"]
  /\ others' = others + 1
  /\ installed' = [installed EXCEPT ![m] = OtherImage]
  /\ file' = [file EXCEPT ![m] = OtherImage]
  /\ UNCHANGED <<machines, locked, checksum, patience, pc, machine, removed, suspect>> /\ mainUnchanged

OtherGives(m) ==
  /\ lockfile[m] = "other"
  /\ lockfile' = [lockfile EXCEPT ![m] = "free"]
  /\ UNCHANGED <<machines, locked, checksum, patience, installed, file, pc, machine, others, removed, suspect>>
  /\ mainUnchanged

Next ==
  \/ \E b \in Brs : Br(b)
  \/ Main \/ Interrupt
  \/ main # "gone" /\ \E m \in Machines : OtherTakes(m) \/ OtherGives(m)

\* Threads run (a br has finitely many steps, so it is enough that some br goes
\* on); a br polls every 10 seconds, so that a machine it found too
\* early or too late the last time is between 8 and 15 seconds old the next.
Fairness == WF_vars(\E b \in Brs : Br(b)) /\ WF_vars(Main)

Spec == Init /\ [][Next]_vars /\ Fairness

-----------------------------------------------------------------------------

Uses(b) == pc[b] \in {"image", "imaging", "run", "finally"}

\* Between RemoveMachine and ReleaseMachine of one br another may add the
\* machine again, and the release may come before or after; still no two brs
\* have the same machine, and the assertion of ReleaseMachine against a double
\* release holds.
OneBrPerMachine ==
  /\ \A b, c \in Brs : b # c /\ Uses(b) /\ Uses(c) => machine[b] # machine[c]
  /\ \A b \in Brs : pc[b] = "release" /\ machine[b] \in machines => locked[machine[b]]

\* Cleanup has not begun.
BeforeCleanup == main \in {"monitor", "exit"}

\* A machine that a br uses is locked against other experiments until Cleanup,
\* which unlocks it under the br.
UsedAreLocked ==
  \A b \in Brs : Uses(b) /\ BeforeCleanup => lockfile[machine[b]] = "us"

\* A br runs on the image of its label, whatever the other experiment put on
\* the machine while it was removed, unless an imaging of that machine failed
\* or its checksum could not be read when it was added again: after these the
\* checksum is stale, and ImageMachine and DoImage trust it.  Once Cleanup has
\* begun, the other experiment may image a machine that a br runs on.
RightImage ==
  \A b \in Brs : pc[b] = "run" /\ machine[b] \notin suspect /\ BeforeCleanup =>
    installed[machine[b]] = Image[b]

\* A machine that is locked for no br was removed while it was, and released
\* after that: nothing else loses a machine.
Lost(m) == locked[m] /\ \A b \in Brs : machine[b] # m
LostWereRemoved == \A m \in Machines : Lost(m) => m \in removed

\* Over all the calls of IsComplete, which change the list they iterate, every
\* br is counted once, and none that still runs.
CountedOnce ==
  /\ num_complete + Len(active_threads) = Cardinality(Brs)
  /\ \A b \in Brs : b \in ToSet(active_threads) \/ pc[b] = "ended"

\* The counts that decide on the end of the experiment are right.
CountsRight == TypeOK /\ CountedOnce

\* The process ends, unless some br polls forever for machines that were all
\* lost or are with the other experiment.
ExperimentEnds ==
  <>[]( \/ main = "gone"
        \/ \E b \in Brs : pc[b] = "poll" /\ \A m \in Remote[b] : Lost(m) \/ lockfile[m] = "other" )
=============================================================================
