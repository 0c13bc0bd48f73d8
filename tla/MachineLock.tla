---------------------------- MODULE MachineLock ----------------------------
(***************************************************************************)
(* What file_lock_machine.py promises of one machine: it is held           *)
(* exclusively by one process or shared by several.  The exclusive lock of *)
(* an auto process is free as soon as its holder has died; that of the     *)
(* command line outlives the process that took it.                         *)
(***************************************************************************)
EXTENDS Naturals

CONSTANTS Procs, AutoProcs, NoProc

VARIABLES
  holder,   \* the exclusive holder, or NoProc
  counter,  \* how many share the machine
  lost      \* a description of a locked machine was lost

lockVars == <<holder, counter, lost>>

Init ==
  /\ holder = NoProc
  /\ counter = 0
  /\ lost = FALSE

LockExclusive(p) ==
  /\ holder = NoProc
  /\ counter = 0
  /\ holder' = p
  /\ UNCHANGED <<counter, lost>>

LockShared ==
  /\ holder = NoProc
  /\ counter' = counter + 1
  /\ UNCHANGED <<holder, lost>>

UnlockExclusive ==
  /\ holder # NoProc
  /\ holder' = NoProc
  /\ UNCHANGED <<counter, lost>>

UnlockShared ==
  /\ counter > 0
  /\ counter' = counter - 1
  /\ UNCHANGED <<holder, lost>>

\* The holder of an auto lock dies.
Lapse ==
  /\ holder \in AutoProcs
  /\ holder' = NoProc
  /\ UNCHANGED <<counter, lost>>

\* A process dies while it rewrites the lock file, or fails to read it.
Lose ==
  /\ holder # NoProc \/ counter > 0
  /\ holder' = NoProc
  /\ counter' = 0
  /\ lost' = TRUE

Next ==
  \/ \E p \in Procs : LockExclusive(p)
  \/ LockShared
  \/ UnlockExclusive
  \/ UnlockShared
  \/ Lapse
  \/ Lose

Spec == Init /\ [][Next]_lockVars
=============================================================================
