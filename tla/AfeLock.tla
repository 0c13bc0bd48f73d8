------------------------------ MODULE AfeLock ------------------------------
(***************************************************************************)
(* Machines locked through an AFE server (afe_lock_machine.py) by three    *)
(* kinds of clients: crosperf experiments (experiment_runner._Run and the  *)
(* exit handler Experiment.Cleanup), people at the command line (Main),    *)
(* and image_chromeos.DoImage through cros_utils/locks.py.                 *)
(*                                                                         *)
(* The server, which is external, changes one host at a time and refuses   *)
(* to lock a host that is locked; any call may fail.  A step is the query  *)
(* for the states of all machines of a client, with the check that follows *)
(* on them, or one change of one host.  AFELockManager.machines is a       *)
(* list(set(...)): a client goes through its machines in any order.        *)
(***************************************************************************)
EXTENDS Naturals, Sequences, FiniteSets, SequencesExt

CONSTANTS
  Machines,
  Experiments, People, Imagers,
  UserOf,          \* of every client
  Remote,          \* the list of machines of every client
  MaxTries,        \* AcquireLock times out after so many attempts
  Free

Clients == Experiments \cup People \cup Imagers

ASSUME AfeAssumption ==
  /\ Experiments \cap People = {} /\ Experiments \cap Imagers = {} /\ People \cap Imagers = {}
  /\ \A c \in Clients : Remote[c] \in Seq(Machines) /\ Len(Remote[c]) > 0
  /\ \A c \in Clients : IsInjective(Remote[c])
  /\ Free \notin Clients
  /\ MaxTries \in Nat \ {0}

VARIABLES
  holder,          \* server: who locked a machine (it knows only the user)
  phase,
  todo,            \* machines left in the loop of UpdateMachines or Cleanup
  updated,         \* updated_machines
  locked_machines, \* experiment.locked_machines
  remote,          \* the machines the experiment uses
  tries,           \* of AcquireLock
  failed,          \* history: experiments for which a call of the server failed
  released         \* history: what others unlocked since a client locked it or asked whose it is

afeVars == <<holder, phase, todo, updated, locked_machines, remote, tries, failed, released>>

Phases == {"idle", "locking", "running", "unlock", "unlocking", "atexit", "cleanup",
        "owner", "acquiring", "imaging", "releasing", "over"}

Ours(c) == ToSet(Remote[c])

AfeTypeOK ==
  /\ holder \in [Machines -> Clients \cup {Free}]
  /\ phase \in [Clients -> Phases]
  /\ {todo, updated, locked_machines, remote} \subseteq [Clients -> SUBSET Machines]
  /\ \A c \in Clients : todo[c] \cup updated[c] \cup locked_machines[c] \cup remote[c] \subseteq Ours(c)
  /\ tries \in [Clients -> 0..MaxTries]
  /\ failed \subseteq Experiments
  /\ released \in [Clients -> SUBSET Machines]

AfeInit ==
  /\ holder = [m \in Machines |-> Free]
  /\ phase = [c \in Clients |-> "idle"]
  /\ todo = [c \in Clients |-> {}]
  /\ updated = [c \in Clients |-> {}]
  /\ locked_machines = [c \in Clients |-> {}]
  /\ remote = [c \in Clients |-> Ours(c)]
  /\ tries = [c \in Clients |-> 0]
  /\ failed = {}
  /\ released = [c \in Clients |-> {}]

Goto(c, from, to) == phase[c] = from /\ phase' = [phase EXCEPT ![c] = to]

-----------------------------------------------------------------------------
(* AFELockManager                                                          *)

Locked(m) == holder[m] # Free
Owns(c, m) == Locked(m) /\ UserOf[holder[m]] = UserOf[c]

\* CheckMachineLocks(states, "lock"): the machines that stay in the list.
ToLock(ms) == {m \in ms : ~Locked(m)}

\* CheckMachineLocks(states, "unlock"): those that stay, if the check passes.
ToUnlock(ms) == {m \in ms : Locked(m)}

\* Mutant: the owner of a lock is not looked at.
MutMayUnlock(c, ms) == TRUE

MayUnlock(c, ms) == \A m \in ms : Locked(m) => Owns(c, m)

\* UpdateLockInAFE(True) of machine m succeeds.
LockNext(c, m) ==
  /\ m \in todo[c]
  /\ ~Locked(m)
  /\ holder' = [holder EXCEPT ![m] = c]
  /\ todo' = [todo EXCEPT ![c] = @ \ {m}]
  /\ released' = [released EXCEPT ![c] = @ \ {m}]

\* d has locked m, or is about to unlock it.
ReliesOn(d, m) == d \notin Imagers /\ m \in todo[d] \cup updated[d] \cup locked_machines[d]

\* UpdateLockInAFE(False) of machine m succeeds, whoever locked it.
UnlockNext(c, m) ==
  /\ m \in todo[c]
  /\ holder' = [holder EXCEPT ![m] = Free]
  /\ released' = [d \in Clients |-> IF d # c /\ ReliesOn(d, m) THEN released[d] \cup {m} ELSE released[d]]
  /\ todo' = [todo EXCEPT ![c] = @ \ {m}]

\* A call of the server raises and ends the loop.
ServerFails(c) ==
  /\ failed' = failed \cup ({c} \cap Experiments)
  /\ todo' = [todo EXCEPT ![c] = {}]
  /\ UNCHANGED <<holder, released>>

\* The loop over the machines ends, at its end or with an exception.
LoopEnds(c, from, to) ==
  /\ Goto(c, from, to)
  /\ \/ todo[c] = {} /\ UNCHANGED <<holder, todo, failed, released>>
     \/ todo[c] # {} /\ ServerFails(c)
  /\ UNCHANGED <<updated, locked_machines, remote, tries>>

\* A query of the states raises.
QueryFails(c, from, to) ==
  /\ Goto(c, from, to)
  /\ ServerFails(c)
  /\ UNCHANGED <<updated, locked_machines, remote, tries>>

-----------------------------------------------------------------------------
(* An experiment                                                           *)

\* The elements of s left by "for m in s: if m not in S: s.remove(m)", which
\* steps over the element after a removed one.
RemoveWhileIterating(s, S) ==
  LET removed[i \in 0..Len(s)] == i > 0 /\ s[i] \notin S /\ ~removed[i - 1]
  IN {s[i] : i \in {j \in 1..Len(s) : ~removed[j]}}

\* _LockAllMachines: query and check.
QueryToLock(e) ==
  /\ Goto(e, "idle", "locking")
  /\ todo' = [todo EXCEPT ![e] = ToLock(Ours(e))]
  /\ UNCHANGED <<holder, updated, locked_machines, remote, tries, failed, released>>

LockMachine(e) ==
  /\ phase[e] = "locking"
  /\ \E m \in Machines : LockNext(e, m) /\ updated' = [updated EXCEPT ![e] = @ \cup {m}]
  /\ UNCHANGED <<phase, locked_machines, remote, tries, failed>>

\* UpdateMachines returns; the lists of machines are reduced to the locked
\* ones, and without any the experiment ends.
AllLocked(e) ==
  /\ phase[e] = "locking"
  /\ todo[e] = {}
  /\ locked_machines' = [locked_machines EXCEPT ![e] = updated[e]]
  /\ remote' = [remote EXCEPT ![e] = RemoveWhileIterating(Remote[e], updated[e])]
  /\ phase' = [phase EXCEPT ![e] = IF updated[e] = {} THEN "atexit" ELSE "running"]
  /\ updated' = [updated EXCEPT ![e] = {}]
  /\ UNCHANGED <<holder, todo, tries, failed, released>>

\* UpdateMachines raises: locked_machines is not set.
LockingError(e) ==
  /\ Goto(e, "locking", "atexit")
  /\ todo[e] # {}
  /\ ServerFails(e)
  /\ updated' = [updated EXCEPT ![e] = {}]
  /\ UNCHANGED <<locked_machines, remote, tries>>

\* The experiment ends, normally or with an exception.
RunEnds(e) ==
  /\ Goto(e, "running", "unlock")
  /\ UNCHANGED <<holder, todo, updated, locked_machines, remote, tries, failed, released>>

\* _UnlockAllMachines: query and check; DontOwnLock leaves it at once.
QueryToUnlock(e) ==
  /\ \/ /\ MayUnlock(e, locked_machines[e])
        /\ Goto(e, "unlock", "unlocking")
        /\ todo' = [todo EXCEPT ![e] = ToUnlock(locked_machines[e])]
     \/ /\ ~MayUnlock(e, locked_machines[e])
        /\ Goto(e, "unlock", "atexit")
        /\ UNCHANGED todo
  /\ released' = [released EXCEPT ![e] = {}]
  /\ UNCHANGED <<holder, updated, locked_machines, remote, tries, failed>>

UnlockMachine(e) ==
  /\ phase[e] = "unlocking"
  /\ \E m \in Machines : UnlockNext(e, m)
  /\ UNCHANGED <<phase, updated, locked_machines, remote, tries, failed>>

UnlockEnds(e) == LoopEnds(e, "unlocking", "atexit")

\* Mutant: the exit handler does nothing.
MutQueryToCleanup(e) ==
  /\ Goto(e, "atexit", "cleanup")
  /\ UNCHANGED <<todo, holder, updated, locked_machines, remote, tries, failed, released>>

\* Experiment.Cleanup: every machine once locked that is locked, by whomever.
QueryToCleanup(e) ==
  /\ Goto(e, "atexit", "cleanup")
  /\ todo' = [todo EXCEPT ![e] = ToUnlock(locked_machines[e])]
  /\ UNCHANGED <<holder, updated, locked_machines, remote, tries, failed, released>>

CleanupMachine(e) ==
  /\ phase[e] = "cleanup"
  /\ \E m \in Machines : UnlockNext(e, m)
  /\ UNCHANGED <<phase, updated, locked_machines, remote, tries, failed>>

CleanupEnds(e) == LoopEnds(e, "cleanup", "over")

\* A query raises: before anything is locked, in the finally clause, at exit.
ExperimentQueryFails(e) ==
  \/ QueryFails(e, "idle", "atexit")
  \/ QueryFails(e, "unlock", "atexit")
  \/ locked_machines[e] # {} /\ QueryFails(e, "atexit", "over")

Experiment(e) ==
  \/ QueryToLock(e) \/ LockMachine(e) \/ AllLocked(e) \/ LockingError(e)
  \/ RunEnds(e)
  \/ QueryToUnlock(e) \/ UnlockMachine(e) \/ UnlockEnds(e)
  \/ QueryToCleanup(e) \/ CleanupMachine(e) \/ CleanupEnds(e)
  \/ ExperimentQueryFails(e)

-----------------------------------------------------------------------------
(* A person: Main with --lock, later with --unlock.  With --force nothing  *)
(* at all is locked or unlocked.                                           *)

PersonLocks(p) ==
  \/ /\ Goto(p, "idle", "locking")
     /\ todo' = [todo EXCEPT ![p] = ToLock(Ours(p))]
     /\ UNCHANGED <<holder, updated, locked_machines, remote, tries, failed, released>>
  \/ QueryFails(p, "idle", "owner")
  \/ /\ phase[p] = "locking"
     /\ \E m \in Machines : LockNext(p, m)
     /\ UNCHANGED <<phase, updated, locked_machines, remote, tries, failed>>
  \/ LoopEnds(p, "locking", "owner")

PersonUnlocks(p) ==
  \/ /\ \/ /\ MayUnlock(p, Ours(p))
           /\ Goto(p, "owner", "unlocking")
           /\ todo' = [todo EXCEPT ![p] = ToUnlock(Ours(p))]
        \/ /\ ~MayUnlock(p, Ours(p))
           /\ Goto(p, "owner", "over")
           /\ UNCHANGED todo
     /\ released' = [released EXCEPT ![p] = {}]
     /\ UNCHANGED <<holder, updated, locked_machines, remote, tries, failed>>
  \/ QueryFails(p, "owner", "over")
  \/ /\ phase[p] = "unlocking"
     /\ \E m \in Machines : UnlockNext(p, m)
     /\ UNCHANGED <<phase, updated, locked_machines, remote, tries, failed>>
  \/ LoopEnds(p, "unlocking", "over")

-----------------------------------------------------------------------------
(* DoImage without --no_lock                                               *)

\* AcquireLock begins an attempt, without looking who holds what.
AcquireLock(i) ==
  /\ phase[i] = "idle"
  /\ phase' = [phase EXCEPT ![i] = "acquiring"]
  /\ todo' = [todo EXCEPT ![i] = Ours(i)]
  /\ UNCHANGED <<holder, updated, locked_machines, remote, tries, failed, released>>

AcquireMachine(i) ==
  /\ phase[i] = "acquiring"
  /\ \E m \in Machines : LockNext(i, m)
  /\ UNCHANGED <<phase, updated, locked_machines, remote, tries, failed>>

\* Mutant: an attempt that fails is not counted.
MutAttemptFails(i) ==
  /\ phase[i] = "acquiring"
  /\ todo[i] # {}
  /\ ServerFails(i)
  /\ phase' = [phase EXCEPT ![i] = "idle"]
  /\ UNCHANGED <<updated, locked_machines, remote, tries>>

\* UpdateMachines raises, with the machines so far still locked: try again,
\* or time out, which DoImage does not notice.
AttemptFails(i) ==
  /\ phase[i] = "acquiring"
  /\ todo[i] # {}
  /\ ServerFails(i)
  /\ tries' = [tries EXCEPT ![i] = @ + 1]
  /\ phase' = [phase EXCEPT ![i] = IF tries'[i] < MaxTries THEN "idle" ELSE "imaging"]
  /\ UNCHANGED <<updated, locked_machines, remote>>

Acquired(i) ==
  /\ Goto(i, "acquiring", "imaging")
  /\ todo[i] = {}
  /\ UNCHANGED <<holder, todo, updated, locked_machines, remote, tries, failed, released>>

\* The machines have been imaged; ReleaseLock in the finally clause.
Imaged(i) ==
  /\ Goto(i, "imaging", "releasing")
  /\ todo' = [todo EXCEPT ![i] = Ours(i)]
  /\ UNCHANGED <<holder, updated, locked_machines, remote, tries, failed, released>>

ReleaseMachine(i) ==
  /\ phase[i] = "releasing"
  /\ \E m \in Machines : UnlockNext(i, m)
  /\ UNCHANGED <<phase, updated, locked_machines, remote, tries, failed>>

ReleaseEnds(i) == LoopEnds(i, "releasing", "over")

Imager(i) ==
  \/ AcquireLock(i) \/ AcquireMachine(i) \/ AttemptFails(i) \/ Acquired(i)
  \/ Imaged(i) \/ ReleaseMachine(i) \/ ReleaseEnds(i)

-----------------------------------------------------------------------------

Step(c) ==
  \/ c \in Experiments /\ Experiment(c)
  \/ c \in People /\ (PersonLocks(c) \/ PersonUnlocks(c))
  \/ c \in Imagers /\ Imager(c)

AfeNext == \E c \in Clients : Step(c)

\* Every process goes on; a person need not come back to unlock.
AfeSpec ==
  /\ AfeInit /\ [][AfeNext]_afeVars
  /\ \A c \in Experiments \cup Imagers : WF_afeVars(Step(c))

-----------------------------------------------------------------------------

\* What c has locked and nobody else unlocked.
Holds(c) == {m \in Machines : holder[m] = c}

\* Between the query and the locking, the end of UpdateMachines and the
\* unlocking, others may act; still an experiment holds exactly the machines it
\* took down, from the moment it runs until it unlocks, but for those that
\* another client unlocked since it locked them.
LockedAreHeld ==
  \A e \in Experiments :
    phase[e] \in {"running", "unlock"} => Holds(e) = locked_machines[e] \ released[e]

\* _UnlockAllMachines and --unlock ask whose the machines are and give up at a
\* lock of somebody else, but the server unlocks a machine whoever locked it.
\* They take the lock of another user in one way only: they found a lock of
\* their own user, another client (DoImage, an exit handler) unlocked that very
\* machine between the question and their unlock, and it was locked anew.
\* What happened before the question excuses nothing.
StaleUnlocksOnly ==
  [][\A c \in Experiments \cup People, m \in Machines :
       /\ phase[c] = "unlocking" /\ Step(c)
       /\ Locked(m) /\ holder'[m] # holder[m] /\ ~Owns(c, m)
       => m \in released[c]]_afeVars

\* An experiment that is over and for which the server never failed has left no
\* machine locked, even if one of them was taken from it and _UnlockAllMachines
\* therefore gave up on all of them: the exit handler is what unlocks those.
NothingLeftLocked ==
  \A e \in Experiments : phase[e] = "over" /\ e \notin failed => Holds(e) = {}

\* What an experiment takes down as locked is locked for it, and unlocked after it.
LocksKept == AfeTypeOK /\ LockedAreHeld /\ NothingLeftLocked

\* Experiments and DoImage end, whoever holds the machines.
ClientsEnd == <>(\A c \in Experiments \cup Imagers : phase[c] = "over")
=============================================================================
