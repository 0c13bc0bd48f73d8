----------------------------- MODULE JobManager -----------------------------
(***************************************************************************)
(* The automation server (automation/server): the thread of JobManager,    *)
(* one thread per JobExecuter, and the main thread, which serves one       *)
(* request at a time (ExecuteJobGroup, KillJobGroup) and stops the server  *)
(* when it is interrupted, in the middle of a request if need be.          *)
(* One job group is modelled; the order of its jobs is that of group.jobs. *)
(*                                                                         *)
(* A step is a block under JobManager._lock, except that the loop of       *)
(* JobManager.run is a step per job: ReturnMachines takes another lock.    *)
(* JobGroupManager._lock is held over several steps (jgm_lock).  The       *)
(* status and the machines of a job are not protected by a lock: an        *)
(* executer tests the old status in one step and assigns the new one in    *)
(* another.  The statuses of several jobs are read in one step: they are   *)
(* final when they matter, unless a job is in `raced'.                     *)
(*                                                                         *)
(* A job can get into ready_jobs several times and then has several        *)
(* executers, <<job, k>> for its k-th start.                               *)
(***************************************************************************)
EXTENDS MachinePool, SequencesExt

CONSTANTS
  NJobs,
  Preds,          \* job.predecessors
  Needs,          \* job.machine_dependencies
  Cleanups,       \* the choices of cleanup_on_completion and cleanup_on_failure
  MaxStarts       \* a bound: how often a job is started

Jobs == 1..NJobs
NoId == 0                          \* job.id before AddJob
Executers == UNION {{j} \X (1..MaxStarts[j]) : j \in Jobs}
Nobody == <<0, 0>>
MainThread == <<0, 1>>

ASSUME JobsAssumption ==
  /\ NJobs \in Nat
  /\ Cleanups \subseteq SUBSET {"SUCCEEDED", "FAILED"}
  /\ Preds \in [Jobs -> SUBSET Jobs]
  /\ MaxStarts \in [Jobs -> Nat]
  \* every client asks for at least one machine; a job without would never run
  /\ \A j \in Jobs : Needs[j] \in Seq(Specification) /\ Needs[j] # <<>>

Succs(j) == {s \in Jobs : j \in Preds[s]}

VARIABLES
  \* JobManager
  added,           \* the jobs in all_jobs, which have an id
  ready_jobs,
  mapping,         \* job_executer_mapping: executers by job id (or NoId)
  exit_request,
  jm,              \* control of JobManager.run
  \* MachineManager
  pool,
  \* jobs and the group
  status,          \* job.status
  job_machines,    \* job.machines
  preferred,       \* preferred_machines of a job's first dependency
  raced,           \* jobs of which two executers tested NOT_EXECUTED before either left it
  group,           \* group.status
  cleanup,         \* the endings of the group upon which it is cleaned up
  jgm_lock,        \* who holds JobGroupManager._lock
  \* executers
  ex,              \* control; the status of the stage whose commands it runs
  to,              \* the status it has tested and is about to assign
  clean_i,         \* the index of the loop that cleans up, under jgm_lock
  machines,        \* their machines
  killed,          \* terminator: "no", "now" (during a command), "yes" (before one)
  \* main thread
  main, main_i,    \* control, and the index of its loop over the jobs
  held,            \* the other locks it was interrupted with
  in_request,      \* it was interrupted in a request
  joins            \* the executers that StopJobManager joins

jmVars   == <<added, ready_jobs, mapping, exit_request, jm>>
jobVars  == <<status, job_machines, raced>>
groupVars == <<group, cleanup, jgm_lock>>
exVars   == <<ex, to, clean_i, machines, killed>>
stopVars == <<held, in_request, joins>>
mainVars == <<main, main_i, stopVars>>
vars == <<jmVars, pool, preferred, jobVars, groupVars, exVars, mainVars>>

Running == {"SETUP", "COPYING", "RUNNING"}
Final == {"SUCCEEDED", "FAILED"}
Statuses == Running \cup Final \cup {"NOT_EXECUTED"}

\* The control of a thread that has not ended.
Active == Running \cup {"new", "change", "take", "return", "notify", "group", "clean"}

TypeOK ==
  /\ added \subseteq Jobs
  /\ ready_jobs \in Seq(Jobs)
  /\ mapping \in [Jobs \cup {NoId} -> Executers \cup {Nobody}]
  /\ exit_request \in BOOLEAN
  /\ jm \in {"test", "lock", "waiting", "notified", "scan", "stopped"}
  /\ pool \in [Machines -> Machine]
  /\ preferred \in [Jobs -> SUBSET Machines]
  /\ status \in [Jobs -> Statuses]
  /\ job_machines \in [Jobs -> Seq(Machines)]
  /\ raced \subseteq Jobs
  /\ group \in {"NOT_EXECUTED", "EXECUTING", "SUCCEEDED", "FAILED"}
  /\ cleanup \subseteq {"SUCCEEDED", "FAILED"}
  /\ jgm_lock \in Executers \cup {Nobody, MainThread}
  /\ ex \in [Executers -> Active \cup {"none", "done", "dead", "leaked"}]
  /\ to \in [Executers -> Running \cup Final]
  /\ clean_i \in 1..(NJobs + 1)
  /\ machines \in [Executers -> Seq(Machines)]
  /\ killed \in [Executers -> {"no", "now", "yes"}]
  /\ main \in {"serving", "adding", "waiting", "woken", "stop", "killed", "joining",
               "joinmanager", "stopped"}
  /\ main_i \in 0..(NJobs + 1)
  /\ held \subseteq {"jm", "pool"}
  /\ in_request \in BOOLEAN
  /\ joins \subseteq Executers

Init ==
  /\ added = {}
  /\ ready_jobs = <<>>
  /\ mapping = [i \in Jobs \cup {NoId} |-> Nobody]
  /\ exit_request = FALSE
  /\ jm = "test"
  /\ pool = [m \in Machines |-> [uses |-> 0, locked |-> FALSE]]
  /\ preferred = [j \in Jobs |-> {}]
  /\ status = [j \in Jobs |-> "NOT_EXECUTED"]
  /\ job_machines = [j \in Jobs |-> <<>>]
  /\ raced = {}
  /\ group = "NOT_EXECUTED"
  /\ cleanup \in Cleanups
  /\ jgm_lock = Nobody
  /\ ex = [e \in Executers |-> "none"]
  /\ to = [e \in Executers |-> "SETUP"]
  /\ clean_i = 1
  /\ machines = [e \in Executers |-> <<>>]
  /\ killed = [e \in Executers |-> "no"]
  /\ main = "serving"
  /\ main_i = 0
  /\ held = {}
  /\ in_request = FALSE
  /\ joins = {}

-----------------------------------------------------------------------------

\* JobManager._lock is free: the loop of run holds it between steps, and the
\* main thread if it was interrupted with it.
LockFree == jm # "scan" /\ "jm" \notin held

\* MachineManager._lock
PoolFree == "pool" \notin held

\* notifyAll of _jobs_available: only who waits already is woken.
NotifyAll == jm' = IF jm = "waiting" THEN "notified" ELSE jm

is_ready(j) == \A p \in Preds[j] : status[p] = "SUCCEEDED"

Id(j) == IF j \in added THEN j ELSE NoId

Step(e, from, next) ==
  /\ ex[e] = from
  /\ ex' = [ex EXCEPT ![e] = next]

-----------------------------------------------------------------------------
(* The thread of JobManager                                                *)

\* while not self._exit_request
LoopTest ==
  /\ jm = "test"
  /\ jm' = IF exit_request THEN "stopped" ELSE "lock"
  /\ UNCHANGED <<added, ready_jobs, mapping, exit_request, pool, preferred, jobVars, groupVars, exVars, mainVars>>

\* Acquire the lock and wait, without looking at ready_jobs first.
Wait ==
  /\ jm = "lock"
  /\ LockFree
  /\ jm' = "waiting"
  /\ UNCHANGED <<added, ready_jobs, mapping, exit_request, pool, preferred, jobVars, groupVars, exVars, mainVars>>

\* Return from wait() with the lock.
Wake ==
  /\ jm = "notified"
  /\ LockFree
  /\ jm' = "scan"
  /\ UNCHANGED <<added, ready_jobs, mapping, exit_request, pool, preferred, jobVars, groupVars, exVars, mainVars>>

\* The machines where the predecessors of j run, now and in earlier attempts.
PreferredMachines(j) ==
  preferred[j] \cup {job_machines[p][1] : p \in {p \in Preds[j] : job_machines[p] # <<>>}}

\* A new JobExecuter for j, within the bound.
IsNew(e, j) == e[1] = j /\ ex[e] = "none" /\ \A k \in 1..(e[2] - 1) : ex[<<j, k>>] # "none"

\* One turn of the inner loop: start the last ready job, or put it first and
\* wait for machines.
StartReadyJob ==
  /\ jm = "scan"
  /\ ready_jobs # <<>>
  /\ PoolFree
  /\ \E j \in {ready_jobs[Len(ready_jobs)]} :
     \E ms \in [1..Len(Needs[j]) -> Machines \cup {NoMachine}] :
       /\ Acquisition(pool, Needs[j], PreferredMachines(j), ms)
       /\ preferred' = [preferred EXCEPT ![j] = PreferredMachines(j)]
       /\ \/ /\ Contains(ms, NoMachine)
             /\ pool' = RolledBack(pool, Needs[j], ms)
             /\ ready_jobs' = <<j>> \o Front(ready_jobs)
             /\ jm' = "test"
             /\ UNCHANGED <<mapping, exVars>>
          \/ /\ ~Contains(ms, NoMachine)
             /\ pool' = Acquired(pool, Needs[j], ms, Len(ms))
             /\ ready_jobs' = Front(ready_jobs)
             /\ \E e \in Executers :
                  /\ IsNew(e, j)
                  /\ ex' = [ex EXCEPT ![e] = "new"]
                  /\ machines' = [machines EXCEPT ![e] = ms]
                  /\ mapping' = [mapping EXCEPT ![Id(j)] = e]
             /\ UNCHANGED <<jm, to, clean_i, killed>>
  /\ UNCHANGED <<added, exit_request, jobVars, groupVars, mainVars>>

\* The inner loop ends and the lock is released.
NoReadyJob ==
  /\ jm = "scan"
  /\ ready_jobs = <<>>
  /\ jm' = "test"
  /\ UNCHANGED <<added, ready_jobs, mapping, exit_request, pool, preferred, jobVars, groupVars, exVars, mainVars>>

Manager == LoopTest \/ Wait \/ Wake \/ StartReadyJob \/ NoReadyJob

-----------------------------------------------------------------------------
(* JobExecuter.run.  Executers of the same job change the same status.      *)

\* The transitions of JobStateMachine.
Transitions ==
  {<<"NOT_EXECUTED", "SETUP">>, <<"SETUP", "COPYING">>, <<"SETUP", "FAILED">>,
   <<"COPYING", "RUNNING">>, <<"COPYING", "FAILED">>,
   <<"RUNNING", "SUCCEEDED">>, <<"RUNNING", "FAILED">>}

\* The assertion of BasicStateMachine.Change.  Its failure is not a JobFailure:
\* the thread dies with its machines, and notifies nobody.
TestChange(e, new_state) ==
  \/ /\ <<status[e[1]], new_state>> \in Transitions
     /\ ex' = [ex EXCEPT ![e] = "change"]
     /\ to' = [to EXCEPT ![e] = new_state]
  \/ /\ <<status[e[1]], new_state>> \notin Transitions
     /\ ex' = [ex EXCEPT ![e] = "leaked"]
     /\ to' = to

\* The assignment in Change, whatever the status has become since the test.
Change(e) ==
  /\ ex[e] = "change"
  /\ status' = [status EXCEPT ![e[1]] = to[e]]
  /\ ex' = [ex EXCEPT ![e] =
       CASE to[e] = "SETUP" -> "take" [] to[e] \in Final -> "return" [] OTHER -> to[e]]
  /\ UNCHANGED <<jmVars, pool, preferred, job_machines, raced, groupVars, to, clean_i, machines,
                 killed, mainVars>>

\* Who is between the test that j is NOT_EXECUTED and the assignment.
Starting(j) == {e \in Executers : e[1] = j /\ ex[e] = "change" /\ to[e] = "SETUP"}

Setup(e) ==
  /\ ex[e] = "new"
  /\ TestChange(e, "SETUP")
  /\ raced' = IF ex'[e] = "change" /\ Starting(e[1]) # {} THEN raced \cup {e[1]} ELSE raced
  /\ UNCHANGED <<jmVars, pool, preferred, status, job_machines, groupVars, clean_i, machines, killed, mainVars>>

\* self.job.machines = self.machines, then the first command.
TakeMachines(e) ==
  /\ Step(e, "take", "SETUP")
  /\ job_machines' = [job_machines EXCEPT ![e[1]] = machines[e]]
  /\ UNCHANGED <<jmVars, pool, preferred, status, raced, groupVars, to, clean_i, machines, killed, mainVars>>

NextStage == [s \in Running |->
  CASE s = "SETUP" -> "COPYING" [] s = "COPYING" -> "RUNNING" [] s = "RUNNING" -> "SUCCEEDED"]

\* The commands of a stage succeed.  Once terminated no further command is
\* run; COPYING may have none.
StageSucceeds(e) ==
  /\ ex[e] \in Running
  /\ killed[e] # "yes" \/ ex[e] = "COPYING"
  /\ TestChange(e, NextStage[ex[e]])
  /\ killed' = [killed EXCEPT ![e] = IF @ = "now" THEN "yes" ELSE @]
  /\ UNCHANGED <<jmVars, pool, preferred, jobVars, groupVars, clean_i, machines, mainVars>>

\* A command fails or times out (a timeout terminates the executer).
StageFails(e) ==
  /\ ex[e] \in Running
  /\ TestChange(e, "FAILED")
  /\ killed' \in {killed, [killed EXCEPT ![e] = "yes"]}
  /\ UNCHANGED <<jmVars, pool, preferred, jobVars, groupVars, clean_i, machines, mainVars>>

\* JobManager.NotifyJobComplete: first the machines of the job, which another
\* executer may have replaced, under their own lock.  They are released in turn
\* until one has no uses: the assertion ends the thread,
ReturnMachines(e) ==
  LET ms == job_machines[e[1]]
  IN  /\ PoolFree
      /\ \E n \in 0..Len(ms) :
           /\ CanRelease(pool, ms, n)
           /\ n < Len(ms) => ~CanRelease(pool, ms, n + 1)
           /\ pool' = Released(pool, SubSeq(ms, 1, n))
           /\ Step(e, "return", IF n = Len(ms) THEN "notify" ELSE "dead")
      /\ UNCHANGED <<jmVars, preferred, jobVars, groupVars, to, clean_i, machines, killed, mainVars>>

\* Mutant: predecessors are not looked at.
MutNewlyReady(j) == {s \in Succs(j) : ~Contains(ready_jobs, s)}

\* The successors that a completed job makes ready.
NewlyReady(j) ==
  {s \in Succs(j) : is_ready(s) /\ ~Contains(ready_jobs, s)}

\* then the successors, in the order of a Python set.
NotifyJobComplete(e) ==
  LET j == e[1]
      new == IF status[j] = "SUCCEEDED" THEN NewlyReady(j) ELSE {}
  IN /\ Step(e, "notify", "group")
     /\ LockFree
     /\ \E s \in [1..Cardinality(new) -> new] :
          /\ \A n \in new : Contains(s, n)
          /\ ready_jobs' = ready_jobs \o s
     /\ NotifyAll
     /\ UNCHANGED <<added, mapping, exit_request, pool, preferred, jobVars, groupVars, to, clean_i,
                    machines, killed, mainVars>>

-----------------------------------------------------------------------------
(* JobGroupManager.NotifyJobComplete                                       *)

\* notifyAll of _job_group_finished
NotifyGroupFinished == main' = IF main = "waiting" THEN "woken" ELSE main

GroupFinished == \A j \in Jobs : status[j] = "SUCCEEDED"

\* The loop over the other jobs meets a failed one before an unfinished one.
AssertionFails ==
  \E j \in Jobs : status[j] = "FAILED" /\ \A i \in 1..(j - 1) : status[i] = "SUCCEEDED"

\* JobGroupStateMachine; the group's status is changed under jgm_lock.
GroupTransitions ==
  {<<"NOT_EXECUTED", "EXECUTING">>, <<"EXECUTING", "SUCCEEDED">>, <<"EXECUTING", "FAILED">>}

\* The new status of the group when e's job has ended, or the old one.
Verdict(e) ==
  CASE group = "FAILED" -> group
    [] group # "FAILED" /\ status[e[1]] = "FAILED" -> "FAILED"
    [] group # "FAILED" /\ status[e[1]] # "FAILED" /\ GroupFinished -> "SUCCEEDED"
    [] OTHER -> group

\* One of the assertions on the way fails.
NotifyDies(e) ==
  \/ Verdict(e) # group /\ <<group, Verdict(e)>> \notin GroupTransitions
  \/ /\ group # "FAILED" /\ status[e[1]] # "FAILED"
     /\ status[e[1]] # "SUCCEEDED" \/ AssertionFails

\* Enter the lock and decide; cleaning up goes on under the lock.  No job is
\* killed: KillJob is given a job where it expects an id.
NotifyGroup(e) ==
  /\ ex[e] = "group"
  /\ jgm_lock = Nobody
  /\ \/ /\ NotifyDies(e)
        /\ Step(e, "group", "dead")
        /\ UNCHANGED <<group, jgm_lock, clean_i, main>>
     \/ /\ ~NotifyDies(e)
        /\ Verdict(e) # group /\ Verdict(e) \in cleanup
        /\ group' = Verdict(e)
        /\ Step(e, "group", "clean")
        /\ clean_i' = 1
        /\ jgm_lock' = e
        /\ UNCHANGED main
     \/ /\ ~NotifyDies(e)
        /\ Verdict(e) # group => Verdict(e) \notin cleanup
        /\ group' = Verdict(e)
        /\ Step(e, "group", "done")
        /\ IF group = "FAILED" THEN UNCHANGED main ELSE NotifyGroupFinished
        /\ UNCHANGED <<jgm_lock, clean_i>>
  /\ UNCHANGED <<jmVars, pool, preferred, jobVars, cleanup, to, machines, killed, main_i, stopVars>>

\* Mutant: the lock is not released when cleaning up fails.
MutCleanUpJob(e) ==
  /\ ex[e] = "clean"
  /\ clean_i <= NJobs
  /\ LockFree
  /\ \/ /\ mapping[clean_i] # Nobody => killed[mapping[clean_i]] = "no"
        /\ mapping' = [mapping EXCEPT ![clean_i] = Nobody]
        /\ clean_i' = clean_i + 1
        /\ UNCHANGED <<ex, jgm_lock>>
     \/ /\ mapping[clean_i] # Nobody
        /\ Step(e, "clean", "dead")
        /\ UNCHANGED <<jgm_lock, mapping, clean_i>>
  /\ UNCHANGED <<added, ready_jobs, exit_request, jm, pool, preferred, jobVars, group, cleanup,
                 to, machines, killed, mainVars>>

\* CleanUpJob of the next job, under both locks; main is notified after the
\* last.  A terminated executer runs no command; a JobFailure leaves
\* NotifyJobComplete at once.
CleanUpJob(e) ==
  /\ ex[e] = "clean"
  /\ clean_i <= NJobs
  /\ LockFree
  /\ \/ /\ mapping[clean_i] # Nobody => killed[mapping[clean_i]] = "no"
        /\ mapping' = [mapping EXCEPT ![clean_i] = Nobody]
        /\ clean_i' = clean_i + 1
        /\ UNCHANGED <<ex, jgm_lock>>
     \/ /\ mapping[clean_i] # Nobody
        /\ Step(e, "clean", "dead")
        /\ jgm_lock' = Nobody
        /\ UNCHANGED <<mapping, clean_i>>
  /\ UNCHANGED <<added, ready_jobs, exit_request, jm, pool, preferred, jobVars, group, cleanup,
                 to, machines, killed, mainVars>>

CleanedUp(e) ==
  /\ clean_i > NJobs
  /\ Step(e, "clean", "done")
  /\ jgm_lock' = Nobody
  /\ NotifyGroupFinished
  /\ UNCHANGED <<jmVars, pool, preferred, jobVars, group, cleanup, to, clean_i, machines, killed,
                 main_i, stopVars>>

Executer(e) ==
  \/ Setup(e)
  \/ Change(e)
  \/ TakeMachines(e)
  \/ StageSucceeds(e)
  \/ StageFails(e)
  \/ ReturnMachines(e)
  \/ NotifyJobComplete(e)
  \/ NotifyGroup(e)
  \/ CleanUpJob(e)
  \/ CleanedUp(e)

-----------------------------------------------------------------------------
(* The main thread: one request at a time.                                 *)

\* AddJobGroup up to the second "with self._lock".
BeginAddJobGroup ==
  /\ main = "serving"
  /\ main_i = 0
  /\ jgm_lock = Nobody
  /\ jgm_lock' = MainThread
  /\ main' = "adding"
  /\ main_i' = 1
  /\ UNCHANGED <<jmVars, pool, preferred, jobVars, group, cleanup, exVars, stopVars>>

\* AddJob of the next job.
AddJob ==
  /\ main = "adding"
  /\ main_i <= NJobs
  /\ LockFree
  /\ added' = added \cup {main_i}
  /\ ready_jobs' = IF is_ready(main_i) THEN Append(ready_jobs, main_i) ELSE ready_jobs
  /\ NotifyAll
  /\ main_i' = main_i + 1
  /\ UNCHANGED <<mapping, exit_request, pool, preferred, jobVars, groupVars, exVars, main, stopVars>>

\* The end of AddJobGroup.
GroupAdded ==
  /\ main = "adding"
  /\ main_i > NJobs
  /\ group' = "EXECUTING"
  /\ jgm_lock' = Nobody
  /\ main' = "serving"
  /\ UNCHANGED <<jmVars, pool, preferred, jobVars, cleanup, exVars, main_i, stopVars>>

\* KillJobGroup: nothing is killed, then it waits for the group to end.  The
\* group comes unpickled from the client, a copy whose status stays as it is:
\* if that is not final, it waits for ever, whoever notifies.
KillJobGroup ==
  /\ main = "serving"
  /\ main_i > 0
  /\ jgm_lock = Nobody
  /\ LockFree
  /\ main' = "waiting"
  /\ UNCHANGED <<jmVars, pool, preferred, jobVars, groupVars, exVars, main_i, stopVars>>

WaitAgain ==
  /\ main = "woken"
  /\ jgm_lock = Nobody
  /\ main' = "waiting"
  /\ UNCHANGED <<jmVars, pool, preferred, jobVars, groupVars, exVars, main_i, stopVars>>

\* The (first) SIGINT: Python runs the handler in the main thread between two
\* instructions, but not while it waits for a lock; so StopServer is called
\* with the locks that the main thread has there.  Requests that only read are
\* not modelled otherwise: GetAllJobGroups and GetJobGroup have
\* JobGroupManager's lock, and GetMachineList has the machine manager's.
Interrupt ==
  /\ main \in {"serving", "adding", "woken"} /\ ~exit_request
  /\ main' = "stop"
  /\ \/ main = "serving" /\ in_request' \in BOOLEAN /\ UNCHANGED <<jgm_lock, held>>
     \/ main = "serving" /\ in_request' = TRUE /\ held' = {"pool"} /\ UNCHANGED jgm_lock
     \/ main = "woken" /\ in_request' = TRUE /\ UNCHANGED <<jgm_lock, held>>
     \/ /\ jgm_lock \in {Nobody, MainThread} /\ jgm_lock' = MainThread
        /\ \/ held' = {}
           \/ LockFree /\ main # "woken" /\ held' = {"jm"}
        /\ in_request' = TRUE
  /\ UNCHANGED <<jmVars, pool, preferred, jobVars, group, cleanup, exVars, main_i, joins>>

\* The places of ready_jobs that _KillJob of every job leaves: it removes the
\* first occurrence of a job.
KeptPlaces ==
  {i \in 1..Len(ready_jobs) :
     ready_jobs[i] \in added => \E k \in 1..(i - 1) : ready_jobs[k] = ready_jobs[i]}

\* Kill an executer: a command that runs now may still succeed.
Kill(e) == IF killed[e] # "no" THEN killed[e] ELSE IF ex[e] \in Running THEN "now" ELSE "yes"

\* StopJobManager: kill all jobs by id and ask the thread to exit.
StopJobManager ==
  /\ main = "stop"
  /\ LockFree
  /\ killed' = [e \in Executers |-> IF \E j \in added : mapping[j] = e THEN Kill(e) ELSE killed[e]]
  /\ \E s \in [1..Cardinality(KeptPlaces) -> KeptPlaces] :
       /\ \A m, n \in DOMAIN s : m < n => s[m] < s[n]
       /\ ready_jobs' = [n \in DOMAIN s |-> ready_jobs[s[n]]]
  /\ exit_request' = TRUE
  /\ NotifyAll
  /\ main' = "killed"
  /\ UNCHANGED <<added, mapping, pool, preferred, jobVars, groupVars, ex, to, clean_i, machines,
                 main_i, stopVars>>

\* The executers in the mapping now, without the lock, are joined,
ListExecuters ==
  /\ main = "killed"
  /\ joins' = {mapping[i] : i \in DOMAIN mapping} \ {Nobody}
  /\ main' = "joining"
  /\ UNCHANGED <<jmVars, pool, preferred, jobVars, groupVars, exVars, main_i, held, in_request>>

JoinExecuters ==
  /\ main = "joining"
  /\ \A e \in joins : ex[e] \notin Active
  /\ main' = "joinmanager"
  /\ UNCHANGED <<jmVars, pool, preferred, jobVars, groupVars, exVars, main_i, stopVars>>

\* then the thread.  The handler exits, and lets go of the locks; in a request,
\* SimpleXMLRPCServer makes an answer of the SystemExit and goes on serving.
JoinManager ==
  /\ main = "joinmanager"
  /\ jm = "stopped"
  /\ main' = IF in_request THEN "serving" ELSE "stopped"
  /\ jgm_lock' = IF jgm_lock = MainThread THEN Nobody ELSE jgm_lock
  /\ held' = {}
  /\ UNCHANGED <<jmVars, pool, preferred, jobVars, group, cleanup, exVars, main_i, in_request, joins>>

Stop == StopJobManager \/ ListExecuters \/ JoinExecuters \/ JoinManager

Main ==
  \/ BeginAddJobGroup \/ AddJob \/ GroupAdded
  \/ KillJobGroup \/ WaitAgain
  \/ Interrupt \/ Stop

Next == Manager \/ Main \/ \E e \in Executers : Executer(e)

\* As long as a thread can go on, one does, and each has finitely many steps to
\* do; requests and the interrupt are the environment's.
Fairness ==
  WF_vars(Manager \/ (\E e \in Executers : Executer(e)) \/ AddJob \/ GroupAdded \/ WaitAgain \/ Stop)

Spec == Init /\ [][Next]_vars /\ Fairness

-----------------------------------------------------------------------------

\* The executers that have acquired machines and not returned them, and how
\* often one of them has m.
Holders == {e \in Executers : ex[e] \in {"new", "change", "take", "return", "leaked"} \cup Running}
Grants(m) == UNION {{e} \X {i \in 1..Len(machines[e]) : machines[e][i] = m} : e \in Holders}
Exclusive(g) == Needs[g[1][1]][g[2]].lock_required

\* The uses of a machine are exactly what the executers hold: neither a
\* rollback nor a completion returns too much or too little, and only the
\* executers of jobs started twice never return theirs.
UsesExact == \A m \in Machines : pool[m].uses = Cardinality(Grants(m))

\* A machine stays locked as long as a job has it exclusively, whoever else
\* leaves it, and no second job gets it exclusively.
ExclusiveKept ==
  \A m \in Machines :
    /\ \A g \in Grants(m) : Exclusive(g) => pool[m].locked
    /\ Cardinality({g \in Grants(m) : Exclusive(g)}) <= 1

\* The pool agrees with what the executers have, in uses and in locks, unless
\* two executers of a job got past the assertion: the job has the machines of
\* one of them, and both return these.  A machine without uses is never locked.
MachinesAccounted ==
  /\ TypeOK
  /\ raced = {} => UsesExact /\ ExclusiveKept
  /\ \A m \in Machines : pool[m].uses = 0 => ~pool[m].locked

\* A job does not begin before its predecessors have succeeded, which they then
\* remain, although their notifications, AddJob and the manager's loop
\* interleave: only a predecessor in raced may have been set back.
PredsFirst ==
  \A j \in Jobs : status[j] # "NOT_EXECUTED" =>
    \A p \in Preds[j] \ raced : status[p] = "SUCCEEDED"

\* However often a job is started, one executer gets past the assertion, except
\* when two test at the same time that the job is NOT_EXECUTED: the window
\* between the test and the assignment in Change is the only way to run the
\* commands twice.
RunsOnce ==
  \A j \in Jobs \ raced :
    Cardinality({e \in Executers : e[1] = j /\ ex[e] \notin {"none", "new", "leaked"}}) <= 1

\* The group has succeeded only if all its jobs have, and failed only if one has.
GroupVerdict ==
  /\ group = "SUCCEEDED" => \A j \in Jobs \ raced : status[j] = "SUCCEEDED"
  /\ group = "FAILED" => \E j \in Jobs : status[j] = "FAILED" \/ j \in raced

\* What the manager starts, it starts in order and once, and the verdict on the
\* group is that of its jobs, up to the jobs in raced.
JobsOnceInOrder == PredsFirst /\ RunsOnce /\ GroupVerdict

\* The server was interrupted while the main thread had a lock, and it has not
\* let go of it.
StoppingWithLock ==
  main \in {"stop", "killed", "joining", "joinmanager"} /\ (jgm_lock = MainThread \/ held # {})

\* Every executer ends, through all its notifications, and no thread waits
\* forever for the locks of the managers, except when StopServer is called
\* from the signal handler with a lock held that somebody needs: then it may
\* join a thread that waits for this lock, or wait for its own.
NotificationEnds ==
  <>[](\A e \in Executers : ex[e] \notin Active) \/ <>[]StoppingWithLock

\* The manager "gets the next ready job" and blocks only "if there are none"
\* (job_manager.py:171): a ready job is eventually looked at.
ReadyJobsStart == (ready_jobs # <<>> /\ ~exit_request) ~> (jm = "scan" \/ exit_request)
=============================================================================
