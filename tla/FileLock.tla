------------------------------ MODULE FileLock ------------------------------
(***************************************************************************)
(* Locks on a machine kept in files (file_lock_machine.py).                *)
(*                                                                         *)
(* The description of the lock is a JSON file that is only touched under   *)
(* flock, by "with FileLock(...)": __enter__ reads it, __exit__ truncates  *)
(* the file, writes it anew and closes it.  A second file, locked with     *)
(* lockf for as long as the locking process lives, tells whether the       *)
(* holder of an auto lock is alive.                                        *)
(*                                                                         *)
(* A process of AutoProcs is crosperf or run_dejagnu (auto=True); the      *)
(* others are the command line (auto=False), one operation per process.    *)
(* Between __enter__ and __exit__ other processes can only die, which      *)
(* commutes with the body, so __enter__ and the body of "with" are one     *)
(* step.                                                                   *)
(***************************************************************************)
EXTENDS Integers, FiniteSets

CONSTANTS
  Procs, AutoProcs,
  Waiters,    \* the processes of AutoProcs that call TryLock (run_dejagnu)
  User,       \* getpass.getuser() of each process
  NoProc,
  MaxShared,  \* bound: shared locks at a time
  Timeout,    \* TryLock's timeout
  Slices      \* TryLock sleeps timeout / Slices (10 in the code)

NoFile    == "nofile"    \* the liveness file does not exist
NotTrying == -Timeout - 1  \* no TryLock under way

ASSUME ProcsAssumption ==
  /\ Waiters \subseteq AutoProcs /\ AutoProcs \subseteq Procs
  /\ NoProc \notin Procs /\ NoFile \notin Procs
\* Below it the sleep is 0 and TryLock's timeout never gets smaller.
ASSUME TimeoutAssumption == Slices \in Nat \ {0} /\ Timeout \in Nat /\ Timeout >= Slices
ASSUME SharedAssumption == MaxShared \in Nat

VARIABLES
  file,      \* the description on disk, Unlocked if empty or not there
  flock,     \* who holds flock on it
  live,      \* who holds lockf on the liveness file, NoProc, or NoFile
  file_ops,  \* processes with a descriptor of that name in FileLock.FILE_OPS
  pc, desc, op, ret,  \* per process: control, _description, the call, its result
  timeout,   \* per process: TryLock's timeout
  \* history
  excl,      \* processes told that they hold the machine, unless it was unlocked since
  evicted,   \* who unlocked the auto lock of a process that goes on using the machine
  shared,    \* shared locks handed out and not given back (until lost)
  lost       \* the description of a locked machine was lost: its writer died, or EnterFails

procVars == <<pc, desc, op, ret, timeout>>
history  == <<excl, evicted, shared, lost>>
vars == <<file, flock, live, file_ops, procVars, history>>

\* LockDescription.  "by" is history: the process that took the lock.
Description ==
  [exclusive : BOOLEAN, counter : 0..MaxShared, auto : BOOLEAN,
   owner : {User[p] : p \in Procs} \cup {NoProc}, by : Procs \cup {NoProc}]

Unlocked ==
  [exclusive |-> FALSE, counter |-> 0, auto |-> FALSE, owner |-> NoProc, by |-> NoProc]

IsLocked(d) == d.exclusive \/ d.counter > 0

TypeOK ==
  /\ file \in Description
  /\ flock \in Procs \cup {NoProc}
  /\ live \in Procs \cup {NoProc, NoFile}
  /\ file_ops \subseteq Procs
  /\ pc \in [Procs -> {"idle", "truncate", "write", "exiting"}]
  /\ desc \in [Procs -> Description]
  /\ op \in [Procs -> {"none", "lockx", "locks", "unlockx", "unlocks", "list"}]
  /\ ret \in [Procs -> {"true", "false", "raised"}]
  /\ timeout \in [Procs -> NotTrying..Timeout]
  /\ excl \subseteq Procs
  /\ evicted \in [Procs -> Procs \cup {NoProc}]
  /\ shared \in 0..MaxShared
  /\ lost \in BOOLEAN

Init ==
  /\ file = Unlocked
  /\ flock = NoProc
  /\ live = NoFile
  /\ file_ops = {}
  /\ pc = [p \in Procs |-> "idle"]
  /\ desc = [p \in Procs |-> Unlocked]
  /\ op = [p \in Procs |-> "none"]
  /\ ret = [p \in Procs |-> "true"]
  /\ timeout = [p \in Procs |-> NotTrying]
  /\ excl = {}
  /\ evicted = [p \in Procs |-> NoProc]
  /\ shared = 0
  /\ lost = FALSE

-----------------------------------------------------------------------------

\* OpenLiveCheck succeeds: lockf never conflicts within a process.
CanOpenLiveCheck(p) == live \in {p, NoProc, NoFile}

\* Mutant: the liveness file is not tried.
MutDescriptionRead(p) == file

\* What __enter__ of p makes of the description: an auto lock whose liveness
\* file nobody holds is void, unless p has that file open itself.
DescriptionRead(p) ==
  IF file.exclusive /\ file.auto /\ p \notin file_ops /\ CanOpenLiveCheck(p)
  THEN Unlocked ELSE file

\* p has been told that it holds the machine and not that it lost it: Unlock of
\* another process tells its holder nothing.
Uses(p) == p \in excl \/ evicted[p] # NoProc

\* __enter__: flock of the lock file.
Enter(p) ==
  /\ pc[p] = "idle"
  /\ flock = NoProc
  /\ flock' = p
  /\ pc' = [pc EXCEPT ![p] = "truncate"]

\* The body of "with" leaves description d and a result; what it did to the
\* liveness file is in live' and file_ops'.
Body(p, call, d, r) ==
  /\ desc' = [desc EXCEPT ![p] = d]
  /\ op' = [op EXCEPT ![p] = call]
  /\ ret' = [ret EXCEPT ![p] = r]
  /\ UNCHANGED <<file, timeout, shared, lost>>

\* Trying the liveness file in __enter__ creates it.
Probed == IF live = NoFile THEN NoProc ELSE live

\* The description of p's exclusive lock.
Taken(p, d) ==
  [d EXCEPT !.exclusive = TRUE, !.owner = User[p], !.auto = (p \in AutoProcs), !.by = p]

\* Mutant: an exclusive lock does not hold the liveness file.
MutGrantExclusive(p, d) ==
  /\ live' = Probed
  /\ file_ops' = file_ops
  /\ Body(p, "lockx", Taken(p, d), "true")

\* The branch of NonBlockingLock that takes the exclusive lock.
GrantExclusive(p, d) ==
  /\ CanOpenLiveCheck(p)
  /\ live' = p
  /\ file_ops' = file_ops \cup {p}
  /\ Body(p, "lockx", Taken(p, d), "true")

\* Mutant: a shared lock is not refused.
MutRefusedExclusive(d, exclusive) == exclusive /\ (d.exclusive \/ d.counter > 0)

\* Mutant: a shared lock does not keep others from an exclusive one.
MutRefused(d, exclusive) == d.exclusive

\* NonBlockingLock returns False.
Refused(d, exclusive) == d.exclusive \/ (exclusive /\ d.counter > 0)

\* NonBlockingLock.  The IOError of OpenLiveCheck is not caught: it leaves
\* through __exit__.
NonBlockingLock(p, exclusive) ==
  LET d == DescriptionRead(p)
      call == IF exclusive THEN "lockx" ELSE "locks"
  IN /\ p \in Waiters => exclusive /\ timeout[p] # NotTrying
     /\ Enter(p)
     /\ \/ /\ Refused(d, exclusive)
           /\ Body(p, call, d, "false")
           /\ UNCHANGED <<live, file_ops>>
        \/ /\ ~Refused(d, exclusive)
           /\ exclusive
           /\ GrantExclusive(p, d)
        \/ /\ ~Refused(d, exclusive)
           /\ exclusive
           /\ ~CanOpenLiveCheck(p)
           /\ Body(p, call, d, "raised")
           /\ UNCHANGED <<live, file_ops>>
        \/ /\ ~Refused(d, exclusive)
           /\ ~exclusive
           /\ d.counter < MaxShared
           /\ live' = IF d = file THEN live ELSE Probed
           /\ Body(p, call, [d EXCEPT !.counter = @ + 1], "true")
           /\ UNCHANGED file_ops
     /\ UNCHANGED <<excl, evicted>>

\* Unlock of p takes the lock of d from whoever has it.
Evicts(p, d) ==
  [q \in Procs |-> IF q = p THEN NoProc ELSE IF q = d.by /\ q \in excl THEN p ELSE evicted[q]]

\* Unlock succeeds on an exclusive lock.  With auto the descriptors of p are
\* closed and the liveness file is removed, whoever holds it; the lock is
\* given up from then on.
ReleaseExclusive(p, d) ==
  /\ Body(p, "unlockx", [d EXCEPT !.exclusive = FALSE, !.owner = NoProc],
          IF p \in AutoProcs /\ live = NoFile THEN "raised" ELSE "true")
  /\ IF p \in AutoProcs
     THEN /\ file_ops' = file_ops \ {p}
          /\ live' = NoFile
          /\ excl' = excl \ {p, d.by}
          /\ evicted' = Evicts(p, d)
     ELSE UNCHANGED <<live, file_ops, excl, evicted>>

\* Mutant: whose the lock is matters only to the command line.
MutNotMine(p, d, force) == d.exclusive /\ d.owner # User[p] /\ ~force /\ p \notin AutoProcs

\* The lock is of another user.
NotMine(p, d, force) == d.exclusive /\ d.owner # User[p] /\ ~force

\* Unlock.  Only the command line has --ignore_ownership.
Unlock(p, exclusive, force) ==
  LET d == DescriptionRead(p)
      call == IF exclusive THEN "unlockx" ELSE "unlocks"
      mismatch == \/ d.exclusive # exclusive
                  \/ NotMine(p, d, force)
                  \/ d.exclusive /\ d.auto # (p \in AutoProcs)
  IN /\ timeout[p] = NotTrying
     /\ force => p \notin AutoProcs
     /\ Enter(p)
     /\ \/ /\ ~IsLocked(d) \/ mismatch
           /\ Body(p, IF IsLocked(d) THEN "none" ELSE call, d, IF IsLocked(d) THEN "false" ELSE "true")
           /\ live' = IF d = file THEN live ELSE Probed
           /\ excl' = IF exclusive /\ ~IsLocked(d) THEN excl \ {p} ELSE excl
           /\ evicted' = IF exclusive /\ ~IsLocked(d) THEN [evicted EXCEPT ![p] = NoProc] ELSE evicted
           /\ UNCHANGED file_ops
        \/ /\ IsLocked(d) /\ ~mismatch
           /\ exclusive
           /\ ReleaseExclusive(p, d)
        \/ /\ IsLocked(d) /\ ~mismatch
           /\ ~exclusive
           /\ Body(p, call, [d EXCEPT !.counter = @ - 1], "true")
           /\ UNCHANGED <<live, file_ops, excl, evicted>>

\* ListLock, for this machine: it writes back what it read.
ListLock(p) ==
  LET d == DescriptionRead(p)
  IN /\ p \notin AutoProcs
     /\ Enter(p)
     /\ Body(p, "list", d, "true")
     /\ live' = IF d = file THEN live ELSE Probed
     /\ UNCHANGED <<file_ops, excl, evicted>>

-----------------------------------------------------------------------------

\* __exit__: truncate(0).  From here on an unlock has taken effect.
Truncate(p) ==
  /\ pc[p] = "truncate"
  /\ pc' = [pc EXCEPT ![p] = "write"]
  /\ excl' = IF op[p] = "unlockx" THEN excl \ {p, desc[p].by} ELSE excl
  /\ shared' = IF ~lost /\ op[p] = "unlocks" /\ file.counter > desc[p].counter THEN shared - 1 ELSE shared
  /\ UNCHANGED <<file, flock, live, file_ops, desc, op, ret, timeout, lost, evicted>>

\* Mutant: TryLock does not count the time it sleeps.
MutTimeLeft(p) ==
  IF timeout[p] = NotTrying \/ ret[p] # "false" \/ timeout[p] < 0
  THEN NotTrying ELSE timeout[p]

\* TryLock after an attempt: done, or sleep.
TimeLeft(p) ==
  IF timeout[p] = NotTrying \/ ret[p] # "false" \/ timeout[p] < 0
  THEN NotTrying ELSE timeout[p] - Timeout \div Slices

\* __exit__: write and close, which releases flock; the call returns.
WriteClose(p) ==
  /\ pc[p] = "write"
  /\ file' = desc[p]
  /\ flock' = IF flock = p THEN NoProc ELSE flock
  /\ pc' = [pc EXCEPT ![p] = IF p \in AutoProcs THEN "idle" ELSE "exiting"]
  /\ timeout' = [timeout EXCEPT ![p] = TimeLeft(p)]
  /\ excl' = IF op[p] = "lockx" /\ ret[p] = "true" THEN excl \cup {p} ELSE excl
  /\ evicted' = IF op[p] = "lockx" /\ ret[p] = "true" THEN [evicted EXCEPT ![p] = NoProc] ELSE evicted
  /\ shared' = IF ~lost /\ op[p] = "locks" /\ ret[p] = "true" THEN shared + 1 ELSE shared
  /\ op' = [op EXCEPT ![p] = "none"]
  /\ desc' = [desc EXCEPT ![p] = Unlocked]
  /\ ret' = [ret EXCEPT ![p] = "true"]
  /\ UNCHANGED <<live, file_ops, lost>>

\* TryLock begins.
TryLock(p) ==
  /\ p \in Waiters
  /\ pc[p] = "idle"
  /\ timeout[p] = NotTrying
  /\ ~Uses(p)
  /\ timeout' = [timeout EXCEPT ![p] = Timeout]
  /\ UNCHANGED <<file, flock, live, file_ops, pc, desc, op, ret, history>>

\* History: the lock that p took with auto has no holder any more.
Orphaned(p, d) == IF d.by = p /\ d.auto THEN [d EXCEPT !.by = NoProc] ELSE d

\* Somebody relies on d.
Held(d) == d.counter > 0 \/ (d.exclusive /\ (d.auto => d.by # NoProc /\ live = d.by))

\* __enter__ meets an IOError after open() and returns None: the body of "with"
\* raises, and __exit__ truncates the file before it raises, too.  (It would
\* even if flock failed because another process is inside: left out.)
EnterFails(p) ==
  /\ pc[p] = "idle"
  /\ flock = NoProc
  /\ file' = Unlocked
  /\ lost' = (lost \/ Held(file))
  /\ shared' = IF lost' THEN 0 ELSE shared
  /\ timeout' = [timeout EXCEPT ![p] = NotTrying]
  /\ UNCHANGED <<flock, live, file_ops, pc, desc, op, ret, excl, evicted>>

\* A process dies, at any point; the kernel releases its file locks.  If the
\* file was truncated it stays empty.  The command line's locks stay.
Die(p) ==
  /\ file' = IF pc[p] = "write" THEN Unlocked ELSE Orphaned(p, file)
  /\ lost' = (lost \/ (pc[p] = "write" /\ Held(desc[p])))
  /\ flock' = IF flock = p THEN NoProc ELSE flock
  /\ live' = IF live = p THEN NoProc ELSE live
  /\ file_ops' = file_ops \ {p}
  /\ pc' = [pc EXCEPT ![p] = "idle"]
  /\ desc' = [q \in Procs |-> IF q = p THEN Unlocked ELSE Orphaned(p, desc[q])]
  /\ op' = [op EXCEPT ![p] = "none"]
  /\ timeout' = [timeout EXCEPT ![p] = NotTrying]
  /\ excl' = excl \ ({p} \cap AutoProcs)
  /\ evicted' = [evicted EXCEPT ![p] = NoProc]
  /\ shared' = IF lost' THEN 0 ELSE shared
  /\ ret' = [ret EXCEPT ![p] = "true"]

Crash(p) == pc[p] # "exiting" /\ Die(p)

\* The command line tool ends after its one operation.
Exit(p) == pc[p] = "exiting" /\ Die(p)

-----------------------------------------------------------------------------

Attempt(p) == NonBlockingLock(p, TRUE)

Next ==
  \E p \in Procs :
    \/ \E exclusive \in BOOLEAN : NonBlockingLock(p, exclusive)
    \/ \E exclusive, force \in BOOLEAN : Unlock(p, exclusive, force)
    \/ ListLock(p)
    \/ TryLock(p)
    \/ Truncate(p)
    \/ WriteClose(p)
    \/ EnterFails(p)
    \/ Exit(p)
    \/ Crash(p)

\* A call that has begun goes on; flock serves its waiters in turn, so a
\* process that keeps calling TryLock gets it again and again.
Fairness ==
  /\ \A p \in Procs : WF_vars(Truncate(p)) /\ WF_vars(WriteClose(p)) /\ WF_vars(Exit(p))
  /\ \A p \in Waiters : SF_vars(Attempt(p))

Spec == Init /\ [][Next]_vars /\ Fairness

-----------------------------------------------------------------------------

\* p's lock was unlocked by another auto process of p's user, which Unlock allows
\* (testUnlockByOthers of lock_machine_test.py).
EvictedByOwn(p) == evicted[p] \in AutoProcs \ {p} /\ User[evicted[p]] = User[p]

\* Of two live auto processes that both use the machine, having been told that
\* they hold it, one had its lock unlocked by a process of its own user, and
\* knows nothing of it.  In no other way do two of them get the machine, not
\* even if the description was lost: the liveness file keeps the second one out.
\* So processes of different users, one each, never use the machine together.
AutoAlone ==
  \A p, q \in AutoProcs : p # q /\ Uses(p) /\ Uses(q) => EvictedByOwn(p) \/ EvictedByOwn(q)

\* As long as no description was lost, an exclusive holder is alone, and the
\* counter in the file is the number of shared locks handed out.
ReadersOrWriter ==
  ~lost => /\ Cardinality(excl) <= 1
           /\ excl # {} => shared = 0
           /\ flock = NoProc => file.counter = shared

\* Descriptions are well formed, and what the processes believe agrees with them.
LockCorrect == TypeOK /\ ReadersOrWriter

\* An exclusive lock is refused only if somebody has the machine: a dead auto
\* holder never keeps others out (unless the caller's own FILE_OPS still lists
\* the liveness file, because another process unlocked its lock).
RefusedOnlyIfHeld ==
  [][\A p \in Procs :
       (op'[p] = "lockx" /\ ret'[p] = "false" /\ pc[p] = "idle" /\ pc'[p] = "truncate")
         => excl # {} \/ shared > 0 \/ lost \/ p \in file_ops]_vars

\* TryLock ends, whatever the others do.
TryLockEnds == \A p \in Waiters : timeout[p] # NotTrying ~> timeout[p] = NotTrying

\* The description the next process will read, with the liveness file.
committed == IF \E p \in Procs : pc[p] = "write"
             THEN desc[CHOOSE p \in Procs : pc[p] = "write"] ELSE file

\* FileLock implements MachineLock: truncate(0) is where an operation takes
\* effect, and an auto lock ends when nobody holds its liveness file.
ML == INSTANCE MachineLock WITH
  holder <- IF committed.exclusive /\ Held(committed) THEN committed.by ELSE NoProc,
  counter <- committed.counter

ImplementsMachineLock == ML!Spec
=============================================================================
