-------------------------- MODULE JobManagerProofs --------------------------
(***************************************************************************)
(* The automation server keeps account of its machines and runs each job   *)
(* once and in order, for any jobs, predecessors, machines, needs and      *)
(* numbers of starts, unless two executers of a job test its status before *)
(* either changes it.                                                      *)
(*                                                                         *)
(* StartInv: of the executers of a job that is not in raced at most one    *)
(* gets past the assertion, and the status of the job is then the one its  *)
(* control stands for, so that every other test of NOT_EXECUTED fails;     *)
(* what is in ready_jobs or has an executer has its predecessors behind    *)
(* it, since SUCCEEDED and FAILED are final.  PoolInv: the uses and locks  *)
(* of the machines are those of the executers that have them; a completion *)
(* returns job.machines, which are then the executer's own.                *)
(***************************************************************************)
EXTENDS JobManager, FiniteSetTheorems, SequenceTheorems, TLAPS

-----------------------------------------------------------------------------
(* The inductive invariant                                                 *)

\* An executer that has got past the assertion.
Begun(e) == ex[e] \notin {"none", "new", "leaked"}

OneBegun ==
  \A e, f \in Executers : e[1] \notin raced /\ e[1] = f[1] /\ Begun(e) /\ Begun(f) => e = f

\* The status of the job is what the control of e stands for.
Fits(e) ==
  /\ ex[e] = "change" => <<status[e[1]], to[e]>> \in Transitions
  /\ ex[e] = "take" => status[e[1]] = "SETUP"
  /\ ex[e] \in Running => status[e[1]] = ex[e]
  /\ ex[e] \in {"return", "notify", "group", "clean", "done", "dead"} => status[e[1]] \in Final

\* From the assignment of job.machines on, until they are returned.
HasOwn(e) ==
  ex[e] \in Running \cup {"return"} \/ (ex[e] = "change" /\ to[e] # "SETUP")
    => job_machines[e[1]] = machines[e]

Ready(j) == \A p \in Preds[j] \ raced : status[p] = "SUCCEEDED"

QueueReady == \A i \in 1..Len(ready_jobs) : Ready(ready_jobs[i])

StartInv ==
  /\ OneBegun
  /\ \A e \in Executers : e[1] \notin raced => Fits(e) /\ HasOwn(e)
  /\ \A e \in Executers : ex[e] # "none" => Ready(e[1])
  /\ QueueReady /\ PredsFirst /\ GroupVerdict

IdleUnlocked == \A m \in Machines : pool[m].uses = 0 => ~pool[m].locked

Exact(m) ==
  /\ IsFiniteSet(Grants(m))
  /\ pool[m].uses = Cardinality(Grants(m))
  /\ \A g \in Grants(m) : Exclusive(g) => pool[m].locked
  /\ \A g, h \in Grants(m) : Exclusive(g) /\ Exclusive(h) => g = h

PoolInv == IdleUnlocked /\ (raced = {} => \A m \in Machines : Exact(m))

\* AddJob counts the jobs from 1.
AddsJobs == main = "adding" => main_i # 0

JobInv == TypeOK /\ AddsJobs /\ StartInv /\ PoolInv

-----------------------------------------------------------------------------
(* Jobs and executers                                                      *)

LEMMA ExecuterParts ==
  ASSUME NEW e \in Executers
  PROVE  e[1] \in Jobs
PROOF
<1>1. PICK j \in Jobs : e \in {j} \X (1..MaxStarts[j])
  BY DEF Executers
<1>2. e[1] = j
  BY <1>1
<1>3. QED
  BY <1>2

LEMMA JobsAreNumbers ==
  NJobs \in Nat /\ (\A j \in Jobs : j \in Nat /\ 1 <= j /\ j <= NJobs) /\ NoId \notin Jobs
BY JobsAssumption DEF Jobs, NoId

-----------------------------------------------------------------------------
(* Lists of jobs                                                           *)

LEMMA FrontLast ==
  ASSUME NEW q \in Seq(Jobs), q # <<>>
  PROVE  /\ Front(q) \in Seq(Jobs) /\ q[Len(q)] \in Jobs
         /\ \A i \in 1..Len(Front(q)) : \E k \in 1..Len(q) : Front(q)[i] = q[k]
PROOF
<1>1. Len(q) \in Nat /\ Len(q) >= 1 /\ q[Len(q)] \in Jobs
  BY LenProperties, EmptySeq, ElementOfSeq
<1>2. /\ Front(q) \in Seq(Jobs) /\ Len(Front(q)) = Len(q) - 1
      /\ \A i \in 1..(Len(q) - 1) : Front(q)[i] = q[i]
  <2>1. PICK k : k = Len(q) - 1
    OBVIOUS
  <2>2. PICK f : f = SubSeq(q, 1, k)
    OBVIOUS
  <2>3. k \in Nat /\ \A i \in 1..k : q[i] \in Jobs
    BY <1>1, <2>1, ElementOfSeq
  <2>4. /\ f \in Seq(Jobs)
        /\ Len(f) = IF 1 <= k THEN k - 1 + 1 ELSE 0
        /\ \A i \in 1..(k - 1 + 1) : f[i] = q[1 + i - 1]
    BY <2>2, <2>3, SubSeqProperties
  <2>5. k - 1 + 1 = k /\ Len(f) = k /\ \A i \in 1..k : 1 + i - 1 = i
    BY <2>3, <2>4
  <2>6. \A i \in 1..k : f[i] = q[i]
    BY <2>3, <2>4, <2>5, Zenon
  <2>7. Front(q) = f
    BY <2>1, <2>2 DEF Front
  <2>8. QED
    BY <2>1, <2>4, <2>5, <2>6, <2>7
<1>3. QED
  BY <1>1, <1>2

LEMMA SubsetFinite ==
  ASSUME NEW T \in SUBSET Jobs
  PROVE  Cardinality(T) \in Nat
PROOF
<1>1. IsFiniteSet(Jobs)
  BY JobsAreNumbers, FS_Interval DEF Jobs
<1>2. QED
  BY <1>1, FS_Subset, FS_CardinalityType

-----------------------------------------------------------------------------
(* What a step does to the lists                                           *)

\* The job is put first, since a machine is missing.
Blocked(j, ms) ==
  /\ pool' = RolledBack(pool, Needs[j], ms)
  /\ ready_jobs' = <<j>> \o Front(ready_jobs)
  /\ jm' = "test"
  /\ UNCHANGED <<mapping, exVars>>

\* The job gets the executer e and the machines ms.
Started(j, ms, e) ==
  /\ ms \in Seq(Machines)
  /\ e[1] = j /\ ex[e] = "none"
  /\ pool' = Acquired(pool, Needs[j], ms, Len(ms))
  /\ ready_jobs' = Front(ready_jobs)
  /\ ex' = [ex EXCEPT ![e] = "new"]
  /\ machines' = [machines EXCEPT ![e] = ms]
  /\ mapping' = [mapping EXCEPT ![Id(j)] = e]
  /\ UNCHANGED <<jm, to, clean_i, killed>>

LEMMA LoopTurn ==
  ASSUME TypeOK, StartReadyJob, NEW j, j = ready_jobs[Len(ready_jobs)]
  PROVE  /\ ready_jobs # <<>> /\ j \in Jobs
         /\ \E ms \in [1..Len(Needs[j]) -> Machines \cup {NoMachine}] :
              /\ Acquisition(pool, Needs[j], PreferredMachines(j), ms)
              /\ Len(ms) = Len(Needs[j])
              /\ Blocked(j, ms) \/ \E e \in Executers : Started(j, ms, e)
         /\ preferred' = [preferred EXCEPT ![j] = PreferredMachines(j)]
         /\ UNCHANGED <<added, exit_request, jobVars, groupVars, mainVars>>
PROOF
<1>1. ready_jobs # <<>> /\ ready_jobs \in Seq(Jobs)
  BY DEF StartReadyJob, TypeOK
<1>2. j \in Jobs
  BY <1>1, FrontLast
<1>3. /\ preferred' = [preferred EXCEPT ![j] = PreferredMachines(j)]
      /\ UNCHANGED <<added, exit_request, jobVars, groupVars, mainVars>>
  BY DEF StartReadyJob
<1>4. PICK ms \in [1..Len(Needs[j]) -> Machines \cup {NoMachine}] :
        /\ Acquisition(pool, Needs[j], PreferredMachines(j), ms)
        /\ \/ /\ Contains(ms, NoMachine)
              /\ Blocked(j, ms)
           \/ /\ ~Contains(ms, NoMachine)
              /\ pool' = Acquired(pool, Needs[j], ms, Len(ms))
              /\ ready_jobs' = Front(ready_jobs)
              /\ \E e \in Executers :
                   /\ IsNew(e, j)
                   /\ ex' = [ex EXCEPT ![e] = "new"]
                   /\ machines' = [machines EXCEPT ![e] = ms]
                   /\ mapping' = [mapping EXCEPT ![Id(j)] = e]
              /\ UNCHANGED <<jm, to, clean_i, killed>>
  BY DEF StartReadyJob, Blocked
<1>5. Len(Needs[j]) \in Nat
  BY <1>2, JobsAssumption, LenProperties
<1>6. Len(ms) = Len(Needs[j])
  BY <1>4, <1>5
<1>7. ~Contains(ms, NoMachine) => ms \in Seq(Machines)
  <2>1. SUFFICES ASSUME ~Contains(ms, NoMachine) PROVE ms \in Seq(Machines)
    OBVIOUS
  <2>2. \A i \in 1..Len(Needs[j]) : ms[i] \in Machines
    BY <1>4, <1>6, <2>1 DEF Contains
  <2>3. ms \in [1..Len(Needs[j]) -> Machines]
    BY <1>4, <2>2
  <2>4. QED
    BY <1>5, <2>3
<1>8. Blocked(j, ms) \/ \E e \in Executers : Started(j, ms, e)
  BY <1>4, <1>7 DEF Started, IsNew
<1>9. QED
  BY <1>1, <1>2, <1>3, <1>4, <1>6, <1>8

\* A completed job puts some of its successors at the end of ready_jobs.
LEMMA Notification ==
  ASSUME TypeOK, NEW e \in Executers, NotifyJobComplete(e)
  PROVE  \E s \in Seq(Jobs) :
           /\ ready_jobs' = ready_jobs \o s
           /\ \A i \in 1..Len(s) : is_ready(s[i])
PROOF
<1>1. PICK new : new = IF status[e[1]] = "SUCCEEDED" THEN NewlyReady(e[1]) ELSE {}
  OBVIOUS
<1>2. new \in SUBSET Jobs /\ \A j \in new : is_ready(j)
  BY <1>1 DEF NewlyReady, Succs
<1>3. PICK s \in [1..Cardinality(new) -> new] : ready_jobs' = ready_jobs \o s
  BY <1>1 DEF NotifyJobComplete
<1>4. PICK n : n = Cardinality(new)
  OBVIOUS
<1>5. n \in Nat
  BY <1>2, <1>4, SubsetFinite
<1>6. s \in [1..n -> new] /\ Len(s) = n
  BY <1>3, <1>4, <1>5
<1>7. s \in Seq(Jobs) /\ \A i \in 1..Len(s) : is_ready(s[i])
  <2>1. s \in [1..n -> Jobs] /\ \A i \in 1..n : s[i] \in new
    BY <1>2, <1>6
  <2>2. s \in Seq(Jobs)
    BY <1>5, <2>1
  <2>3. QED
    BY <1>2, <1>6, <2>1, <2>2
<1>8. QED
  BY <1>3, <1>7, Zenon

\* StopJobManager leaves a part of ready_jobs.
LEMMA Stopping ==
  ASSUME TypeOK, StopJobManager
  PROVE  /\ ready_jobs' \in Seq(Jobs)
         /\ \A i \in 1..Len(ready_jobs') : \E k \in 1..Len(ready_jobs) : ready_jobs'[i] = ready_jobs[k]
PROOF
<1>1. PICK q : q = ready_jobs
  OBVIOUS
<1>2. PICK K : K = KeptPlaces
  OBVIOUS
<1>3. q \in Seq(Jobs) /\ K \in SUBSET (1..Len(q)) /\ Len(q) \in Nat
  BY <1>1, <1>2, LenProperties DEF KeptPlaces, TypeOK
<1>4. PICK s \in [1..Cardinality(K) -> K] : ready_jobs' = [n \in DOMAIN s |-> q[s[n]]]
  BY <1>1, <1>2 DEF StopJobManager
<1>5. PICK n : n = Cardinality(K)
  OBVIOUS
<1>6. n \in Nat
  <2>1. IsFiniteSet(1..Len(q))
    BY <1>3, FS_Interval
  <2>2. QED
    BY <1>3, <1>5, <2>1, FS_Subset, FS_CardinalityType
<1>7. DOMAIN s = 1..n /\ \A i \in 1..n : s[i] \in 1..Len(q)
  BY <1>3, <1>4, <1>5
<1>8. \A k \in 1..Len(q) : q[k] \in Jobs
  BY <1>3, ElementOfSeq
<1>9. PICK r : r = ready_jobs'
  OBVIOUS
<1>10. r = [i \in 1..n |-> q[s[i]]]
  BY <1>4, <1>7, <1>9
<1>11. r \in [1..n -> Jobs] /\ \A i \in 1..n : \E k \in 1..Len(q) : r[i] = q[k]
  BY <1>7, <1>8, <1>10
<1>12. r \in Seq(Jobs) /\ Len(r) = n
  BY <1>6, <1>11
<1>13. QED
  BY <1>1, <1>9, <1>11, <1>12

-----------------------------------------------------------------------------
(* Types                                                                   *)

\* The control of an executer.
Controls == Active \cup {"none", "done", "dead", "leaked"}

LEMMA TestChangeType ==
  ASSUME TypeOK, NEW e \in Executers, NEW new_state \in Running \cup Final, TestChange(e, new_state)
  PROVE  /\ ex' = [ex EXCEPT ![e] = ex'[e]] /\ ex'[e] \in {"change", "leaked"}
         /\ to' \in [Executers -> Running \cup Final]
         /\ \A f \in Executers : f # e => to'[f] = to[f]
         /\ ex'[e] = "change" => <<status[e[1]], new_state>> \in Transitions /\ to'[e] = new_state
PROOF
<1>1. \/ /\ ex' = [ex EXCEPT ![e] = "change"] /\ to' = [to EXCEPT ![e] = new_state]
         /\ <<status[e[1]], new_state>> \in Transitions
      \/ ex' = [ex EXCEPT ![e] = "leaked"] /\ to' = to
  BY DEF TestChange
<1>2. CASE /\ ex' = [ex EXCEPT ![e] = "change"] /\ to' = [to EXCEPT ![e] = new_state]
           /\ <<status[e[1]], new_state>> \in Transitions
  BY <1>2 DEF TypeOK
<1>3. CASE ex' = [ex EXCEPT ![e] = "leaked"] /\ to' = to
  BY <1>3 DEF TypeOK
<1>4. QED
  BY <1>1, <1>2, <1>3

LEMMA ChangeType ==
  ASSUME TypeOK, NEW e \in Executers, Change(e)
  PROVE  /\ ex' = [ex EXCEPT ![e] = ex'[e]]
         /\ ex'[e] = IF to[e] = "SETUP" THEN "take"
                     ELSE IF to[e] \in Final THEN "return" ELSE to[e]
         /\ status'[e[1]] = to[e] /\ \A j \in Jobs : j # e[1] => status'[j] = status[j]
         /\ status' \in [Jobs -> Statuses]
PROOF
<1>1. e[1] \in Jobs /\ to[e] \in Statuses
  BY ExecuterParts DEF TypeOK, Statuses
<1>2. ex' = [ex EXCEPT ![e] =
               CASE to[e] = "SETUP" -> "take" [] to[e] \in Final -> "return" [] OTHER -> to[e]]
  BY DEF Change
<1>3. "SETUP" \notin Final
  BY DEF Final
<1>4. ex'[e] = IF to[e] = "SETUP" THEN "take" ELSE IF to[e] \in Final THEN "return" ELSE to[e]
  BY <1>2, <1>3 DEF TypeOK
<1>5. ex' = [ex EXCEPT ![e] = ex'[e]]
  BY <1>2 DEF TypeOK
<1>6. status' = [status EXCEPT ![e[1]] = to[e]]
  BY DEF Change
<1>7. QED
  BY <1>1, <1>4, <1>5, <1>6 DEF TypeOK

LEMMA PreferredType ==
  ASSUME TypeOK, NEW j \in Jobs
  PROVE  PreferredMachines(j) \subseteq Machines
PROOF
<1>1. Preds[j] \subseteq Jobs
  BY JobsAssumption
<1>2. \A p \in Preds[j] : job_machines[p] # <<>> => job_machines[p][1] \in Machines
  <2> SUFFICES ASSUME NEW p \in Preds[j], job_machines[p] # <<>>
               PROVE  job_machines[p][1] \in Machines
    OBVIOUS
  <2>1. PICK q : q = job_machines[p]
    OBVIOUS
  <2>2. q \in Seq(Machines) /\ q # <<>>
    BY <1>1, <2>1 DEF TypeOK
  <2>3. 1 \in 1..Len(q)
    BY <2>2, LenProperties, EmptySeq
  <2>4. QED
    BY <2>1, <2>2, <2>3, ElementOfSeq
<1>3. preferred[j] \subseteq Machines
  BY DEF TypeOK
<1>4. QED
  BY <1>2, <1>3 DEF PreferredMachines

\* Every step keeps the types, once the pool is known to keep its own.
LEMMA TypeStep ==
  ASSUME TypeOK, AddsJobs, [Next]_vars, pool' \in [Machines -> Machine]
  PROVE  TypeOK'
PROOF
<1> USE DEF TypeOK
<1>1. CASE UNCHANGED vars
  BY <1>1 DEF vars, jmVars, jobVars, groupVars, exVars, mainVars, stopVars
<1>2. CASE LoopTest \/ Wait \/ Wake \/ NoReadyJob
  BY <1>2 DEF LoopTest, Wait, Wake, NoReadyJob, jobVars, groupVars, exVars, mainVars, stopVars
<1>3. CASE StartReadyJob
  <2>1. PICK j : j = ready_jobs[Len(ready_jobs)]
    OBVIOUS
  <2>2. /\ j \in Jobs /\ ready_jobs # <<>>
        /\ preferred' = [preferred EXCEPT ![j] = PreferredMachines(j)]
        /\ UNCHANGED <<added, exit_request, jobVars, groupVars, mainVars>>
    BY <1>3, <2>1, LoopTurn
  <2>3. PICK ms : Blocked(j, ms) \/ \E e \in Executers : Started(j, ms, e)
    BY <1>3, <2>1, LoopTurn
  <2>4. Front(ready_jobs) \in Seq(Jobs) /\ <<j>> \in Seq(Jobs)
    BY <2>2, FrontLast
  <2>5. preferred' \in [Jobs -> SUBSET Machines]
    BY <2>2, PreferredType
  <2>6. CASE Blocked(j, ms)
    <3>1. ready_jobs' \in Seq(Jobs)
      BY <2>4, <2>6, ConcatProperties DEF Blocked
    <3>2. QED
      BY <2>2, <2>5, <2>6, <3>1 DEF Blocked, jobVars, groupVars, exVars, mainVars, stopVars
  <2>7. ASSUME NEW e \in Executers, Started(j, ms, e)
        PROVE  TypeOK'
    <3>1. Id(j) \in Jobs \cup {NoId}
      BY <2>2 DEF Id
    <3>2. ready_jobs' \in Seq(Jobs)
      BY <2>4, <2>7 DEF Started
    <3>3. ex' \in [Executers -> Controls]
      BY <2>7 DEF Started, Controls, Active
    <3>4. mapping' \in [Jobs \cup {NoId} -> Executers \cup {Nobody}]
      BY <2>7, <3>1 DEF Started
    <3>5. machines' \in [Executers -> Seq(Machines)]
      BY <2>7 DEF Started
    <3>6. QED
      BY <2>2, <2>5, <2>7, <3>2, <3>3, <3>4, <3>5
         DEF Started, Controls, jobVars, groupVars, mainVars, stopVars
  <2>8. QED
    BY <2>3, <2>6, <2>7
<1>4. CASE BeginAddJobGroup \/ GroupAdded \/ KillJobGroup \/ WaitAgain
  <2>1. 1 \in 0..(NJobs + 1)
    BY JobsAreNumbers
  <2>2. QED
    BY <1>4, <2>1 DEF BeginAddJobGroup, GroupAdded, KillJobGroup, WaitAgain,
                      jmVars, jobVars, groupVars, exVars, stopVars
<1>5. CASE Interrupt
  <2>1. /\ jgm_lock' \in Executers \cup {Nobody, MainThread}
        /\ held' \subseteq {"jm", "pool"} /\ in_request' \in BOOLEAN /\ main' = "stop"
    BY <1>5 DEF Interrupt
  <2>2. QED
    BY <1>5, <2>1 DEF Interrupt, jmVars, jobVars, exVars
<1>6. CASE ListExecuters \/ JoinExecuters \/ JoinManager
  <2>1. \A i \in DOMAIN mapping : mapping[i] \in Executers \cup {Nobody}
    OBVIOUS
  <2>2. joins' \subseteq Executers
    BY <1>6, <2>1 DEF ListExecuters, JoinExecuters, JoinManager, stopVars
  <2>3. QED
    BY <1>6, <2>2 DEF ListExecuters, JoinExecuters, JoinManager,
                      jmVars, jobVars, groupVars, exVars, stopVars
<1>7. CASE AddJob
  <2>1. main_i \in Jobs /\ main_i' \in 0..(NJobs + 1)
    BY <1>7, JobsAreNumbers DEF AddJob, Jobs, AddsJobs
  <2>2. ready_jobs' \in Seq(Jobs)
    BY <1>7, <2>1 DEF AddJob
  <2>3. jm' \in {"test", "lock", "waiting", "notified", "scan", "stopped"}
    BY <1>7 DEF AddJob, NotifyAll
  <2>4. QED
    BY <1>7, <2>1, <2>2, <2>3 DEF AddJob, jobVars, groupVars, exVars, stopVars
<1>8. CASE StopJobManager
  <2>1. killed' \in [Executers -> {"no", "now", "yes"}]
    BY <1>8 DEF StopJobManager, Kill
  <2>2. ready_jobs' \in Seq(Jobs)
    BY <1>8, Stopping
  <2>3. jm' \in {"test", "lock", "waiting", "notified", "scan", "stopped"}
    BY <1>8 DEF StopJobManager, NotifyAll
  <2>4. QED
    BY <1>8, <2>1, <2>2, <2>3 DEF StopJobManager, jobVars, groupVars, stopVars
<1>9. ASSUME NEW e \in Executers, Executer(e)
      PROVE  TypeOK'
  <2>1. e[1] \in Jobs
    BY ExecuterParts
  <2>2. ASSUME NEW w \in Controls, ex' = [ex EXCEPT ![e] = w]
        PROVE  ex' \in [Executers -> Active \cup {"none", "done", "dead", "leaked"}]
    BY <2>2 DEF Controls
  <2>3. {"change", "leaked", "SETUP", "notify", "dead", "group", "clean", "done"} \subseteq Controls
    BY DEF Controls, Active, Running
  <2>4. CASE Setup(e)
    <3>1. /\ ex' \in [Executers -> Active \cup {"none", "done", "dead", "leaked"}]
          /\ to' \in [Executers -> Running \cup Final]
      <4>1. "SETUP" \in Running \cup Final
        BY DEF Running
      <4>2. QED
        BY <2>2, <2>3, <2>4, <4>1, TestChangeType DEF Setup
    <3>2. raced' \subseteq Jobs
      BY <2>1, <2>4 DEF Setup
    <3>3. QED
      BY <2>4, <3>1, <3>2 DEF Setup, jmVars, groupVars, mainVars, stopVars
  <2>5. CASE Change(e)
    <3>1. ex'[e] \in Controls
      <4>1. to[e] \in Running \cup Final
        OBVIOUS
      <4>2. QED
        BY <2>5, <4>1, ChangeType DEF Controls, Active
    <3>2. /\ ex' \in [Executers -> Active \cup {"none", "done", "dead", "leaked"}]
          /\ status' \in [Jobs -> Statuses]
      BY <2>2, <2>5, <3>1, ChangeType
    <3>3. QED
      BY <2>5, <3>2 DEF Change, jmVars, groupVars, mainVars, stopVars
  <2>6. CASE TakeMachines(e)
    <3>1. ex' \in [Executers -> Active \cup {"none", "done", "dead", "leaked"}]
      BY <2>2, <2>3, <2>6 DEF TakeMachines, Step
    <3>2. job_machines' \in [Jobs -> Seq(Machines)]
      BY <2>1, <2>6 DEF TakeMachines
    <3>3. QED
      BY <2>6, <3>1, <3>2 DEF TakeMachines, jmVars, groupVars, mainVars, stopVars
  <2>7. CASE StageSucceeds(e) \/ StageFails(e)
    <3>1. PICK new_state \in Running \cup Final : TestChange(e, new_state)
      <4>1. CASE StageSucceeds(e)
        <5>1. NextStage[ex[e]] \in {"COPYING", "RUNNING", "SUCCEEDED"}
          BY <4>1 DEF StageSucceeds, NextStage, Running
        <5>2. QED
          BY <4>1, <5>1 DEF StageSucceeds, Running, Final
      <4>2. CASE StageFails(e)
        BY <4>2 DEF StageFails, Final
      <4>3. QED
        BY <2>7, <4>1, <4>2
    <3>2. /\ ex' \in [Executers -> Active \cup {"none", "done", "dead", "leaked"}]
          /\ to' \in [Executers -> Running \cup Final]
      <4>1. PICK w \in Controls : ex' = [ex EXCEPT ![e] = w]
        BY <2>3, <3>1 DEF TestChange
      <4>2. QED
        BY <2>2, <3>1, <4>1, TestChangeType
    <3>3. killed' \in [Executers -> {"no", "now", "yes"}]
      BY <2>7 DEF StageSucceeds, StageFails
    <3>4. UNCHANGED <<jmVars, pool, preferred, jobVars, groupVars, clean_i, machines, mainVars>>
      BY <2>7 DEF StageSucceeds, StageFails
    <3>5. QED
      BY <3>2, <3>3, <3>4 DEF jmVars, jobVars, groupVars, mainVars, stopVars
  <2>8. CASE ReturnMachines(e)
    <3>1. ex' \in [Executers -> Active \cup {"none", "done", "dead", "leaked"}]
      BY <2>2, <2>3, <2>8 DEF ReturnMachines, Step
    <3>2. QED
      BY <2>8, <3>1 DEF ReturnMachines, jmVars, jobVars, groupVars, mainVars, stopVars
  <2>9. CASE NotifyJobComplete(e)
    <3>1. PICK s \in Seq(Jobs) : ready_jobs' = ready_jobs \o s
      BY <2>9, Notification
    <3>2. ready_jobs' \in Seq(Jobs)
      BY <3>1, ConcatProperties
    <3>3. ex' \in [Executers -> Active \cup {"none", "done", "dead", "leaked"}]
      BY <2>2, <2>3, <2>9 DEF NotifyJobComplete, Step
    <3>4. QED
      BY <2>9, <3>2, <3>3 DEF NotifyJobComplete, NotifyAll, jobVars, groupVars, mainVars, stopVars
  <2>10. CASE NotifyGroup(e)
    <3>1. group' \in {"NOT_EXECUTED", "EXECUTING", "SUCCEEDED", "FAILED"}
      BY <2>10 DEF NotifyGroup, Verdict
    <3>2. ex' \in [Executers -> Active \cup {"none", "done", "dead", "leaked"}]
      BY <2>2, <2>3, <2>10 DEF NotifyGroup, Step
    <3>3. /\ jgm_lock' \in Executers \cup {Nobody, MainThread}
          /\ clean_i' \in 1..(NJobs + 1)
      BY <2>10, JobsAreNumbers DEF NotifyGroup
    <3>4. main' \in {"serving", "adding", "waiting", "woken", "stop", "killed", "joining",
                     "joinmanager", "stopped"}
      BY <2>10 DEF NotifyGroup, NotifyGroupFinished
    <3>5. QED
      BY <2>10, <3>1, <3>2, <3>3, <3>4 DEF NotifyGroup, jmVars, jobVars, stopVars
  <2>11. CASE CleanUpJob(e)
    <3>1. clean_i' \in 1..(NJobs + 1)
      BY <2>11, JobsAreNumbers DEF CleanUpJob
    <3>2. mapping' \in [Jobs \cup {NoId} -> Executers \cup {Nobody}]
      BY <2>11 DEF CleanUpJob
    <3>3. ex' \in [Executers -> Active \cup {"none", "done", "dead", "leaked"}]
      BY <2>2, <2>3, <2>11 DEF CleanUpJob, Step
    <3>4. QED
      BY <2>11, <3>1, <3>2, <3>3 DEF CleanUpJob, jobVars, mainVars, stopVars
  <2>12. CASE CleanedUp(e)
    <3>1. ex' \in [Executers -> Active \cup {"none", "done", "dead", "leaked"}]
      BY <2>2, <2>3, <2>12 DEF CleanedUp, Step
    <3>2. QED
      BY <2>12, <3>1 DEF CleanedUp, NotifyGroupFinished, jmVars, jobVars, stopVars
  <2>13. QED
    BY <1>9, <2>4, <2>5, <2>6, <2>7, <2>8, <2>9, <2>10, <2>11, <2>12 DEF Executer
<1>10. QED
  BY <1>1, <1>2, <1>3, <1>4, <1>5, <1>6, <1>7, <1>8, <1>9 DEF Next, Manager, Main, Stop

LEMMA AddsJobsStep ==
  ASSUME TypeOK, AddsJobs, [Next]_vars
  PROVE  AddsJobs'
PROOF
<1>1. CASE UNCHANGED <<main, main_i>>
  BY <1>1 DEF AddsJobs
<1>2. CASE Manager
  BY <1>1, <1>2 DEF Manager, LoopTest, Wait, Wake, StartReadyJob, NoReadyJob, mainVars
<1>3. CASE Main
  BY <1>3 DEF Main, BeginAddJobGroup, AddJob, GroupAdded, KillJobGroup, WaitAgain, Interrupt, Stop,
              StopJobManager, ListExecuters, JoinExecuters, JoinManager, AddsJobs, TypeOK
<1>4. ASSUME NEW e \in Executers, Executer(e)
      PROVE  AddsJobs'
  <2>1. CASE NotifyGroup(e) \/ CleanedUp(e)
    <3>1. main' = main \/ main' = "woken"
      BY <2>1 DEF NotifyGroup, CleanedUp, NotifyGroupFinished
    <3>2. UNCHANGED main_i
      BY <2>1 DEF NotifyGroup, CleanedUp
    <3>3. QED
      BY <3>1, <3>2 DEF AddsJobs
  <2>2. CASE ~(NotifyGroup(e) \/ CleanedUp(e))
    BY <1>1, <1>4, <2>2 DEF Executer, Setup, Change, TakeMachines, StageSucceeds, StageFails,
                            ReturnMachines, NotifyJobComplete, CleanUpJob, mainVars
  <2>3. QED
    BY <2>1, <2>2
<1>5. CASE UNCHANGED vars
  BY <1>1, <1>5 DEF vars, mainVars
<1>6. QED
  BY <1>2, <1>3, <1>4, <1>5 DEF Next

-----------------------------------------------------------------------------
(* Jobs start once and in order                                            *)

\* What is ready in the code is ready in the sense of the invariant.
LEMMA IsReady ==
  ASSUME NEW j, is_ready(j)
  PROVE  Ready(j)
BY DEF is_ready, Ready

\* A step that changes no status, and only adds to raced.
LEMMA ReadyKept ==
  ASSUME UNCHANGED status, raced \subseteq raced', NEW j, Ready(j)
  PROVE  Ready(j)'
BY DEF Ready

LEMMA PredsFirstReady ==
  PredsFirst <=> \A j \in Jobs : status[j] # "NOT_EXECUTED" => Ready(j)
BY DEF PredsFirst, Ready

\* Steps that do not move an executer past anything the invariant speaks of.
LEMMA StartFrame ==
  ASSUME StartInv, UNCHANGED <<ex, to, status, raced, job_machines, machines>>,
         \A i \in 1..Len(ready_jobs') : Ready(ready_jobs'[i]), GroupVerdict'
  PROVE  StartInv'
PROOF
<1>1. \A j : Ready(j) => Ready(j)'
  BY ReadyKept
<1>2. OneBegun'
  BY DEF StartInv, OneBegun, Begun
<1>3. \A e \in Executers : e[1] \notin raced' => Fits(e)' /\ HasOwn(e)'
  BY DEF StartInv, Fits, HasOwn
<1>4. \A e \in Executers : ex'[e] # "none" => Ready(e[1])'
  BY <1>1 DEF StartInv
<1>5. QueueReady'
  BY <1>1 DEF QueueReady
<1>6. PredsFirst'
  BY DEF StartInv, PredsFirst
<1>7. QED
  BY <1>2, <1>3, <1>4, <1>5, <1>6 DEF StartInv

LEMMA QueueFrame ==
  ASSUME StartInv, UNCHANGED ready_jobs
  PROVE  \A i \in 1..Len(ready_jobs') : Ready(ready_jobs'[i])
BY DEF StartInv, QueueReady

\* A begun executer, or one that dies, goes on; statuses and machines stay.
LEMMA MoveFrame ==
  ASSUME TypeOK, StartInv, UNCHANGED <<status, raced, job_machines, machines>>,
         NEW e \in Executers, NEW w, ex' = [ex EXCEPT ![e] = w], w # "none", ex[e] # "none",
         \A f \in Executers : f # e => to'[f] = to[f],
         Begun(e) \/ w = "leaked",
         e[1] \notin raced => Fits(e)' /\ HasOwn(e)',
         \A i \in 1..Len(ready_jobs') : Ready(ready_jobs'[i]), GroupVerdict'
  PROVE  StartInv'
PROOF
<1>1. \A j : Ready(j) => Ready(j)'
  BY ReadyKept
<1>2. ex'[e] = w /\ \A f \in Executers : f # e => ex'[f] = ex[f]
  BY DEF TypeOK
<1>3. \A f \in Executers : Begun(f)' => Begun(f)
  BY <1>2 DEF Begun
<1>4. OneBegun'
  BY <1>3 DEF StartInv, OneBegun
<1>5. ASSUME NEW f \in Executers, f[1] \notin raced'
      PROVE  Fits(f)' /\ HasOwn(f)'
  <2>1. CASE f = e
    BY <1>5, <2>1
  <2>2. CASE f # e
    <3>1. ex'[f] = ex[f] /\ to'[f] = to[f] /\ Fits(f) /\ HasOwn(f)
      BY <1>2, <1>5, <2>2 DEF StartInv
    <3>2. QED
      BY <3>1 DEF Fits, HasOwn
  <2>3. QED
    BY <2>1, <2>2
<1>6. \A f \in Executers : ex'[f] # "none" => Ready(f[1])'
  BY <1>1, <1>2 DEF StartInv
<1>7. QueueReady'
  BY <1>1 DEF QueueReady
<1>8. PredsFirst'
  BY DEF StartInv, PredsFirst
<1>9. QED
  BY <1>4, <1>5, <1>6, <1>7, <1>8 DEF StartInv

\* A new executer of a job that is not in raced does not find the status
\* NOT_EXECUTED if another one has begun, except between that one's test and
\* its assignment.
LEMMA StartSetup ==
  ASSUME TypeOK, StartInv, NEW e \in Executers, Setup(e)
  PROVE  StartInv'
PROOF
<1>1. /\ ex[e] = "new" /\ TestChange(e, "SETUP")
      /\ raced' = IF ex'[e] = "change" /\ Starting(e[1]) # {} THEN raced \cup {e[1]} ELSE raced
      /\ UNCHANGED <<ready_jobs, status, job_machines, group, machines>>
  BY DEF Setup, jmVars, groupVars
<1>2. /\ ex' = [ex EXCEPT ![e] = ex'[e]] /\ ex'[e] \in {"change", "leaked"}
      /\ \A f \in Executers : f # e => to'[f] = to[f]
      /\ ex'[e] = "change" => <<status[e[1]], "SETUP">> \in Transitions /\ to'[e] = "SETUP"
  <2>1. "SETUP" \in Running \cup Final
    BY DEF Running
  <2>2. QED
    BY <1>1, <2>1, TestChangeType
<1>3. \A i \in 1..Len(ready_jobs') : Ready(ready_jobs'[i])
  BY <1>1, QueueFrame
<1>4. \A j : Ready(j) => Ready(j)'
  BY <1>1, ReadyKept
<1>5. \A f \in Executers : f # e => ex'[f] = ex[f]
  BY <1>2 DEF TypeOK
<1>6. raced \subseteq raced'
  BY <1>1
<1>7. OneBegun'
  <2> SUFFICES ASSUME NEW f \in Executers, NEW g \in Executers, f[1] \notin raced', f[1] = g[1],
                      Begun(f)', Begun(g)'
               PROVE  f = g
    BY DEF OneBegun
  <2>1. f[1] \notin raced
    BY <1>6
  <2>2. ASSUME NEW h \in Executers, h # e, h[1] = e[1], Begun(h)', Begun(e)', e[1] \notin raced'
        PROVE  FALSE
    <3>1. Begun(h) /\ Fits(h) /\ h[1] \notin raced
      BY <1>5, <1>6, <2>2 DEF Begun, StartInv
    <3>2. ex'[e] = "change" /\ status[h[1]] = "NOT_EXECUTED"
      BY <1>2, <2>2 DEF Begun, Transitions
    <3>3. ex[h] = "change" => to[h] = "SETUP"
      BY <3>1, <3>2 DEF Fits, Transitions
    <3>4. Starting(e[1]) = {}
      BY <1>1, <2>2, <3>2
    <3>5. ex[h] # "change"
      BY <2>2, <3>3, <3>4 DEF Starting
    <3>6. ex[h] \in Controls
      BY DEF TypeOK, Controls
    <3>7. ex[h] \in {"take", "return", "notify", "group", "clean", "done", "dead"} \cup Running
      BY <3>1, <3>5, <3>6 DEF Controls, Active, Begun
    <3>8. QED
      BY <3>1, <3>2, <3>7 DEF Fits, Running, Final
  <2>3. CASE f = e \/ g = e
    BY <2>2, <2>3
  <2>4. CASE f # e /\ g # e
    BY <1>5, <2>1, <2>4 DEF StartInv, OneBegun, Begun
  <2>5. QED
    BY <2>3, <2>4
<1>8. ASSUME NEW f \in Executers, f[1] \notin raced'
      PROVE  Fits(f)' /\ HasOwn(f)'
  <2>1. CASE f = e
    <3>1. Fits(f)'
      BY <1>1, <1>2, <2>1 DEF Fits, Running
    <3>2. HasOwn(f)'
      BY <1>2, <2>1 DEF HasOwn, Running
    <3>3. QED
      BY <3>1, <3>2
  <2>2. CASE f # e
    <3>1. Fits(f) /\ HasOwn(f) /\ ex'[f] = ex[f] /\ to'[f] = to[f]
      BY <1>2, <1>5, <1>6, <1>8, <2>2 DEF StartInv
    <3>2. QED
      BY <1>1, <3>1 DEF Fits, HasOwn
  <2>3. QED
    BY <2>1, <2>2
<1>9. \A f \in Executers : ex'[f] # "none" => Ready(f[1])'
  BY <1>1, <1>4, <1>5 DEF StartInv
<1>10. QueueReady'
  BY <1>3, <1>4 DEF QueueReady
<1>11. PredsFirst'
  BY <1>1, <1>6 DEF StartInv, PredsFirst
<1>12. GroupVerdict'
  BY <1>1, <1>6 DEF StartInv, GroupVerdict
<1>13. QED
  BY <1>7, <1>8, <1>9, <1>10, <1>11, <1>12 DEF StartInv

\* The assignment, by the one executer of the job that has begun if the job is
\* not in raced: it makes a transition, and those do not undo an ending.
LEMMA StartChange ==
  ASSUME TypeOK, StartInv, NEW e \in Executers, Change(e)
  PROVE  StartInv'
PROOF
<1>1. /\ ex[e] = "change"
      /\ UNCHANGED <<ready_jobs, job_machines, raced, group, to, machines>>
  BY DEF Change, jmVars, groupVars
<1>2. /\ ex'[e] = IF to[e] = "SETUP" THEN "take"
                  ELSE IF to[e] \in Final THEN "return" ELSE to[e]
      /\ status'[e[1]] = to[e] /\ \A j \in Jobs : j # e[1] => status'[j] = status[j]
      /\ \A f \in Executers : f # e => ex'[f] = ex[f]
  BY ChangeType DEF TypeOK
<1>3. e[1] \in Jobs /\ to[e] \in Running \cup Final /\ \A j \in Jobs : Preds[j] \subseteq Jobs
  BY ExecuterParts, JobsAssumption DEF TypeOK
<1>4. e[1] \notin raced => <<status[e[1]], to[e]>> \in Transitions
  BY <1>1 DEF StartInv, Fits
<1>5. \A p \in Jobs \ raced : status[p] \in Final => status'[p] = status[p]
  BY <1>2, <1>4 DEF Transitions, Final
<1>6. \A j \in Jobs : Ready(j) => Ready(j)'
  BY <1>1, <1>3, <1>5 DEF Ready, Final
<1>7. \A f \in Executers : Begun(f)' => Begun(f)
  BY <1>1, <1>2 DEF Begun
<1>8. OneBegun'
  BY <1>1, <1>7 DEF StartInv, OneBegun
<1>9. ASSUME NEW f \in Executers, f[1] \notin raced'
      PROVE  Fits(f)' /\ HasOwn(f)'
  <2>1. CASE f = e
    <3>1. Fits(f)'
      BY <1>2, <1>3, <2>1 DEF Fits, Running, Final
    <3>2. HasOwn(f)'
      <4>1. HasOwn(e)
        BY <1>1, <1>9, <2>1 DEF StartInv
      <4>2. QED
        BY <1>1, <1>2, <2>1, <4>1 DEF HasOwn, Running
    <3>3. QED
      BY <3>1, <3>2
  <2>2. CASE f # e /\ f[1] = e[1]
    <3>1. ~Begun(f)
      <4>1. Begun(e) /\ e[1] \notin raced
        BY <1>1, <1>9, <2>2 DEF Begun
      <4>2. QED
        BY <2>2, <4>1 DEF StartInv, OneBegun
    <3>2. ex'[f] \in {"none", "new", "leaked"}
      BY <1>2, <2>2, <3>1 DEF Begun
    <3>3. QED
      BY <3>2 DEF Fits, HasOwn, Running
  <2>3. CASE f[1] # e[1]
    <3>1. f # e /\ f[1] \in Jobs /\ Fits(f) /\ HasOwn(f)
      BY <1>1, <1>9, <2>3, ExecuterParts DEF StartInv
    <3>2. ex'[f] = ex[f] /\ status'[f[1]] = status[f[1]]
      BY <1>2, <2>3, <3>1
    <3>3. QED
      BY <1>1, <3>1, <3>2 DEF Fits, HasOwn
  <2>4. QED
    BY <2>1, <2>2, <2>3
<1>10. \A f \in Executers : ex'[f] # "none" => Ready(f[1])'
  <2> SUFFICES ASSUME NEW f \in Executers, ex'[f] # "none" PROVE Ready(f[1])'
    OBVIOUS
  <2>1. ex[f] # "none"
    BY <1>1, <1>2
  <2>2. QED
    BY <1>6, <2>1, ExecuterParts DEF StartInv
<1>11. QueueReady'
  <2>1. \A i \in 1..Len(ready_jobs) : ready_jobs[i] \in Jobs
    BY ElementOfSeq DEF TypeOK
  <2>2. QED
    BY <1>1, <1>6, <2>1 DEF StartInv, QueueReady
<1>12. PredsFirst'
  <2>1. ASSUME NEW j \in Jobs, status'[j] # "NOT_EXECUTED" PROVE Ready(j)'
    <3>1. CASE j = e[1]
      BY <1>1, <1>6, <3>1 DEF StartInv
    <3>2. CASE j # e[1]
      BY <1>2, <1>6, <2>1, <3>2, PredsFirstReady DEF StartInv
    <3>3. QED
      BY <3>1, <3>2
  <2>2. QED
    BY <2>1 DEF PredsFirst, Ready
<1>13. GroupVerdict'
  <2>1. group = "SUCCEEDED" => \A j \in Jobs \ raced : status'[j] = "SUCCEEDED"
    BY <1>5 DEF StartInv, GroupVerdict, Final
  <2>2. group = "FAILED" => \E j \in Jobs : status'[j] = "FAILED" \/ j \in raced
    BY <1>5 DEF StartInv, GroupVerdict, Final
  <2>3. QED
    BY <1>1, <2>1, <2>2 DEF GroupVerdict
<1>14. QED
  BY <1>8, <1>9, <1>10, <1>11, <1>12, <1>13 DEF StartInv

LEMMA StartTake ==
  ASSUME TypeOK, StartInv, NEW e \in Executers, TakeMachines(e)
  PROVE  StartInv'
PROOF
<1>1. /\ ex[e] = "take" /\ ex' = [ex EXCEPT ![e] = "SETUP"]
      /\ job_machines' = [job_machines EXCEPT ![e[1]] = machines[e]]
      /\ UNCHANGED <<ready_jobs, status, raced, group, to, machines>>
  BY DEF TakeMachines, Step, jmVars, groupVars
<1>2. ex'[e] = "SETUP" /\ \A f \in Executers : f # e => ex'[f] = ex[f]
  BY <1>1 DEF TypeOK
<1>3. /\ e[1] \in Jobs /\ job_machines'[e[1]] = machines[e]
      /\ \A j \in Jobs : j # e[1] => job_machines'[j] = job_machines[j]
  BY <1>1, ExecuterParts DEF TypeOK
<1>4. \A j : Ready(j) => Ready(j)'
  BY <1>1, ReadyKept
<1>5. \A f \in Executers : Begun(f)' => Begun(f)
  BY <1>1, <1>2 DEF Begun
<1>6. OneBegun'
  BY <1>1, <1>5 DEF StartInv, OneBegun
<1>7. ASSUME NEW f \in Executers, f[1] \notin raced'
      PROVE  Fits(f)' /\ HasOwn(f)'
  <2>1. Fits(f) /\ HasOwn(f) /\ f[1] \in Jobs /\ f[1] \notin raced
    BY <1>1, <1>7, ExecuterParts DEF StartInv
  <2>2. CASE f = e
    <3>1. Fits(f)'
      BY <1>1, <1>2, <2>1, <2>2 DEF Fits, Running
    <3>2. HasOwn(f)'
      BY <1>1, <1>3, <2>2 DEF HasOwn
    <3>3. QED
      BY <3>1, <3>2
  <2>3. CASE f # e /\ f[1] = e[1]
    <3>1. ~Begun(f)
      <4>1. Begun(e)
        BY <1>1 DEF Begun
      <4>2. QED
        BY <2>1, <2>3, <4>1 DEF StartInv, OneBegun
    <3>2. ex'[f] \in {"none", "new", "leaked"}
      BY <1>2, <2>3, <3>1 DEF Begun
    <3>3. QED
      BY <3>2 DEF Fits, HasOwn, Running
  <2>4. CASE f[1] # e[1]
    <3>1. ex'[f] = ex[f] /\ job_machines'[f[1]] = job_machines[f[1]]
      BY <1>2, <1>3, <2>1, <2>4
    <3>2. QED
      BY <1>1, <2>1, <3>1 DEF Fits, HasOwn
  <2>5. QED
    BY <2>2, <2>3, <2>4
<1>8. \A f \in Executers : ex'[f] # "none" => Ready(f[1])'
  BY <1>1, <1>2, <1>4 DEF StartInv
<1>9. QueueReady'
  BY <1>1, <1>4 DEF StartInv, QueueReady
<1>10. PredsFirst' /\ GroupVerdict'
  BY <1>1 DEF StartInv, PredsFirst, GroupVerdict
<1>11. QED
  BY <1>6, <1>7, <1>8, <1>9, <1>10 DEF StartInv

LEMMA StartStage ==
  ASSUME TypeOK, StartInv, NEW e \in Executers, ex[e] \in Running,
         NEW new_state \in Running \cup Final, new_state # "SETUP", TestChange(e, new_state),
         UNCHANGED <<ready_jobs, status, job_machines, raced, group, machines>>
  PROVE  StartInv'
PROOF
<1>1. /\ ex' = [ex EXCEPT ![e] = ex'[e]] /\ ex'[e] \in {"change", "leaked"}
      /\ \A f \in Executers : f # e => to'[f] = to[f]
      /\ ex'[e] = "change" => <<status[e[1]], new_state>> \in Transitions /\ to'[e] = new_state
  BY TestChangeType
<1>2. Fits(e)'
  BY <1>1 DEF Fits, Running
<1>3. e[1] \notin raced => HasOwn(e)'
  BY <1>1 DEF StartInv, HasOwn, Running
<1>4. \A i \in 1..Len(ready_jobs') : Ready(ready_jobs'[i])
  BY QueueFrame
<1>5. GroupVerdict'
  BY DEF StartInv, GroupVerdict
<1>6. Begun(e) /\ ex[e] # "none"
  BY DEF Begun, Running
<1>7. PICK w \in {"change", "leaked"} : ex' = [ex EXCEPT ![e] = w]
  BY <1>1
<1>8. QED
  BY <1>1, <1>2, <1>3, <1>4, <1>5, <1>6, <1>7, MoveFrame

\* The loop starts a job whose predecessors are behind it, or puts it first.
LEMMA StartLoop ==
  ASSUME TypeOK, StartInv, StartReadyJob
  PROVE  StartInv'
PROOF
<1>1. PICK j : j = ready_jobs[Len(ready_jobs)]
  OBVIOUS
<1>2. /\ j \in Jobs /\ ready_jobs # <<>>
      /\ UNCHANGED <<status, job_machines, raced, group>>
  BY <1>1, LoopTurn DEF jobVars, groupVars
<1>3. PICK ms : Blocked(j, ms) \/ \E e \in Executers : Started(j, ms, e)
  BY <1>1, LoopTurn
<1>4. PICK f : f = Front(ready_jobs)
  OBVIOUS
<1>5. f \in Seq(Jobs) /\ Len(f) \in Nat /\ \A i \in 1..Len(f) : Ready(f[i])
  BY <1>2, <1>4, FrontLast, LenProperties DEF StartInv, QueueReady, TypeOK
<1>6. Ready(j)
  <2>1. Len(ready_jobs) \in 1..Len(ready_jobs)
    BY <1>2, LenProperties, EmptySeq DEF TypeOK
  <2>2. QED
    BY <1>1, <2>1 DEF StartInv, QueueReady
<1>7. \A k : Ready(k) => Ready(k)'
  BY <1>2, ReadyKept
<1>8. GroupVerdict' /\ PredsFirst'
  BY <1>2 DEF StartInv, GroupVerdict, PredsFirst
<1>9. CASE Blocked(j, ms)
  <2>1. UNCHANGED <<ex, to, machines>> /\ ready_jobs' = <<j>> \o f
    BY <1>4, <1>9 DEF Blocked, exVars
  <2>2. PICK g : g = <<j>> \o f
    OBVIOUS
  <2>3. <<j>> \in Seq(Jobs) /\ Len(<<j>>) = 1 /\ <<j>>[1] = j
    BY <1>2
  <2>4. /\ Len(g) = 1 + Len(f)
        /\ \A i \in 1..(1 + Len(f)) : g[i] = IF i <= 1 THEN <<j>>[i] ELSE f[i - 1]
    BY <1>5, <2>2, <2>3, ConcatProperties
  <2>5. ASSUME NEW i \in 1..Len(g) PROVE Ready(g[i])
    <3>1. CASE i = 1
      <4>1. g[i] = j
        BY <1>5, <2>3, <2>4, <3>1
      <4>2. QED
        BY <1>6, <4>1
    <3>2. CASE i # 1
      <4>1. i - 1 \in 1..Len(f) /\ g[i] = f[i - 1]
        BY <1>5, <2>4, <3>2
      <4>2. QED
        BY <1>5, <4>1
    <3>3. QED
      BY <3>1, <3>2
  <2>6. \A i \in 1..Len(ready_jobs') : Ready(ready_jobs'[i])
    BY <2>1, <2>2, <2>5
  <2>7. QED
    BY <1>2, <1>8, <2>1, <2>6, StartFrame
<1>10. ASSUME NEW e \in Executers, Started(j, ms, e)
       PROVE  StartInv'
  <2>1. /\ e[1] = j /\ ex[e] = "none" /\ ready_jobs' = f /\ UNCHANGED to
        /\ ex'[e] = "new" /\ \A h \in Executers : h # e => ex'[h] = ex[h] /\ machines'[h] = machines[h]
    BY <1>4, <1>10 DEF Started, TypeOK
  <2>2. \A h \in Executers : Begun(h)' => Begun(h)
    BY <2>1 DEF Begun
  <2>3. OneBegun'
    BY <1>2, <2>2 DEF StartInv, OneBegun
  <2>4. ASSUME NEW h \in Executers, h[1] \notin raced'
        PROVE  Fits(h)' /\ HasOwn(h)'
    <3>1. CASE h = e
      BY <2>1, <3>1 DEF Fits, HasOwn, Running
    <3>2. CASE h # e
      <4>1. Fits(h) /\ HasOwn(h) /\ ex'[h] = ex[h] /\ machines'[h] = machines[h]
        BY <1>2, <2>1, <2>4, <3>2 DEF StartInv
      <4>2. QED
        BY <1>2, <2>1, <4>1 DEF Fits, HasOwn
    <3>3. QED
      BY <3>1, <3>2
  <2>5. \A h \in Executers : ex'[h] # "none" => Ready(h[1])'
    BY <1>6, <1>7, <2>1 DEF StartInv
  <2>6. QueueReady'
    BY <1>5, <1>7, <2>1 DEF QueueReady
  <2>7. QED
    BY <1>8, <2>3, <2>4, <2>5, <2>6 DEF StartInv
<1>11. QED
  BY <1>3, <1>9, <1>10

LEMMA StartStep ==
  ASSUME TypeOK, AddsJobs, StartInv, [Next]_vars
  PROVE  StartInv'
PROOF
<1>1. CASE UNCHANGED <<ex, to, status, raced, job_machines, machines, group, ready_jobs>>
  <2>1. GroupVerdict'
    BY <1>1 DEF StartInv, GroupVerdict
  <2>2. QED
    BY <1>1, <2>1, QueueFrame, StartFrame
<1>2. CASE LoopTest \/ Wait \/ Wake \/ NoReadyJob
  BY <1>1, <1>2 DEF LoopTest, Wait, Wake, NoReadyJob, jobVars, groupVars, exVars
<1>3. CASE StartReadyJob
  BY <1>3, StartLoop
<1>4. CASE \/ BeginAddJobGroup \/ KillJobGroup \/ WaitAgain \/ Interrupt
           \/ ListExecuters \/ JoinExecuters \/ JoinManager
  BY <1>1, <1>4 DEF BeginAddJobGroup, KillJobGroup, WaitAgain, Interrupt, ListExecuters,
                    JoinExecuters, JoinManager, jmVars, jobVars, groupVars, exVars
<1>5. CASE GroupAdded
  <2>1. /\ UNCHANGED <<ex, to, status, raced, job_machines, machines, ready_jobs>>
        /\ group' = "EXECUTING"
    BY <1>5 DEF GroupAdded, jmVars, jobVars, exVars
  <2>2. GroupVerdict'
    BY <2>1 DEF GroupVerdict
  <2>3. QED
    BY <2>1, <2>2, QueueFrame, StartFrame
<1>6. CASE AddJob
  <2>1. UNCHANGED <<ex, to, status, raced, job_machines, machines, group>>
    BY <1>6 DEF AddJob, jobVars, groupVars, exVars
  <2>2. main_i \in Jobs
    BY <1>6, JobsAreNumbers DEF AddJob, Jobs, TypeOK, AddsJobs
  <2>3. \A i \in 1..Len(ready_jobs') : Ready(ready_jobs'[i])
    <3>1. CASE ~is_ready(main_i)
      BY <1>6, <3>1 DEF AddJob, StartInv, QueueReady
    <3>2. CASE is_ready(main_i)
      <4>1. ready_jobs' = Append(ready_jobs, main_i) /\ ready_jobs \in Seq(Jobs)
        BY <1>6, <3>2 DEF AddJob, TypeOK
      <4>2. /\ Len(ready_jobs') = Len(ready_jobs) + 1 /\ Len(ready_jobs) \in Nat
            /\ \A i \in 1..Len(ready_jobs) : ready_jobs'[i] = ready_jobs[i]
            /\ ready_jobs'[Len(ready_jobs) + 1] = main_i
        BY <2>2, <4>1, AppendProperties, LenProperties
      <4>3. ASSUME NEW i \in 1..Len(ready_jobs') PROVE Ready(ready_jobs'[i])
        <5>1. CASE i \in 1..Len(ready_jobs)
          BY <4>2, <5>1 DEF StartInv, QueueReady
        <5>2. CASE i = Len(ready_jobs) + 1
          BY <3>2, <4>2, <5>2, IsReady
        <5>3. QED
          BY <4>2, <5>1, <5>2
      <4>4. QED
        BY <4>3
    <3>3. QED
      BY <3>1, <3>2
  <2>4. GroupVerdict'
    BY <2>1 DEF StartInv, GroupVerdict
  <2>5. QED
    BY <2>1, <2>3, <2>4, StartFrame
<1>7. CASE StopJobManager
  <2>1. UNCHANGED <<ex, to, status, raced, job_machines, machines, group>>
    BY <1>7 DEF StopJobManager, jobVars, groupVars
  <2>2. \A i \in 1..Len(ready_jobs') : Ready(ready_jobs'[i])
    BY <1>7, Stopping DEF StartInv, QueueReady
  <2>3. GroupVerdict'
    BY <2>1 DEF StartInv, GroupVerdict
  <2>4. QED
    BY <2>1, <2>2, <2>3, StartFrame
<1>8. ASSUME NEW e \in Executers, Executer(e)
      PROVE  StartInv'
  <2>1. e[1] \in Jobs
    BY ExecuterParts
  <2>2. ASSUME UNCHANGED <<status, raced, job_machines, machines, to>>,
               ex[e] \in {"return", "notify", "group", "clean"},
               NEW w \in {"notify", "group", "clean", "done", "dead"}, ex' = [ex EXCEPT ![e] = w],
               \A i \in 1..Len(ready_jobs') : Ready(ready_jobs'[i]), GroupVerdict'
        PROVE  StartInv'
    <3>1. Begun(e) /\ ex[e] # "none" /\ w # "none" /\ ex'[e] = w
      BY <2>2 DEF Begun, TypeOK
    <3>2. e[1] \notin raced => Fits(e)' /\ HasOwn(e)'
      <4>1. e[1] \notin raced => status[e[1]] \in Final
        BY <2>2 DEF StartInv, Fits
      <4>2. QED
        BY <2>2, <3>1, <4>1 DEF Fits, HasOwn, Running
    <3>3. QED
      BY <2>2, <3>1, <3>2, MoveFrame
  <2>3. (UNCHANGED ready_jobs => \A i \in 1..Len(ready_jobs') : Ready(ready_jobs'[i]))
          /\ (UNCHANGED <<group, status, raced>> => GroupVerdict')
    BY QueueFrame DEF StartInv, GroupVerdict
  <2>4. CASE Setup(e)
    BY <2>4, StartSetup
  <2>5. CASE Change(e)
    BY <2>5, StartChange
  <2>6. CASE TakeMachines(e)
    BY <2>6, StartTake
  <2>7. CASE StageSucceeds(e) \/ StageFails(e)
    <3>1. /\ ex[e] \in Running
          /\ UNCHANGED <<ready_jobs, status, job_machines, raced, group, machines>>
      BY <2>7 DEF StageSucceeds, StageFails, jmVars, jobVars, groupVars
    <3>2. PICK new_state \in Running \cup Final : new_state # "SETUP" /\ TestChange(e, new_state)
      <4>1. CASE StageSucceeds(e)
        <5>1. NextStage[ex[e]] \in {"COPYING", "RUNNING", "SUCCEEDED"}
          BY <4>1 DEF StageSucceeds, NextStage, Running
        <5>2. QED
          BY <4>1, <5>1 DEF StageSucceeds, Running, Final
      <4>2. CASE StageFails(e)
        BY <4>2 DEF StageFails, Final
      <4>3. QED
        BY <2>7, <4>1, <4>2
    <3>3. QED
      BY <3>1, <3>2, StartStage
  <2>8. CASE ReturnMachines(e)
    <3>1. /\ UNCHANGED <<status, raced, job_machines, machines, to, ready_jobs, group>>
          /\ ex[e] = "return"
      BY <2>8 DEF ReturnMachines, Step, jmVars, jobVars, groupVars
    <3>2. PICK w \in {"notify", "dead"} : ex' = [ex EXCEPT ![e] = w]
      BY <2>8 DEF ReturnMachines, Step
    <3>3. QED
      BY <2>2, <2>3, <3>1, <3>2
  <2>9. CASE NotifyJobComplete(e)
    <3>1. /\ UNCHANGED <<status, raced, job_machines, machines, to, group>>
          /\ ex[e] = "notify" /\ ex' = [ex EXCEPT ![e] = "group"]
      BY <2>9 DEF NotifyJobComplete, Step, jobVars, groupVars
    <3>2. PICK s \in Seq(Jobs) : /\ ready_jobs' = ready_jobs \o s
                                 /\ \A i \in 1..Len(s) : is_ready(s[i])
      BY <2>9, Notification
    <3>3. \A i \in 1..Len(ready_jobs') : Ready(ready_jobs'[i])
      <4>1. PICK q : q = ready_jobs
        OBVIOUS
      <4>2. PICK g : g = q \o s
        OBVIOUS
      <4>3. q \in Seq(Jobs) /\ Len(q) \in Nat /\ Len(s) \in Nat
        BY <4>1, LenProperties DEF TypeOK
      <4>4. /\ Len(g) = Len(q) + Len(s)
            /\ \A i \in 1..(Len(q) + Len(s)) : g[i] = IF i <= Len(q) THEN q[i] ELSE s[i - Len(q)]
        BY <4>2, <4>3, ConcatProperties
      <4>5. \A i \in 1..Len(q) : Ready(q[i])
        BY <4>1 DEF StartInv, QueueReady
      <4>6. ASSUME NEW i \in 1..Len(g) PROVE Ready(g[i])
        <5>1. CASE i <= Len(q)
          <6>1. i \in 1..Len(q) /\ g[i] = q[i]
            BY <4>3, <4>4, <5>1
          <6>2. QED
            BY <4>5, <6>1
        <5>2. CASE ~(i <= Len(q))
          <6>1. i - Len(q) \in 1..Len(s) /\ g[i] = s[i - Len(q)]
            BY <4>3, <4>4, <5>2
          <6>2. QED
            BY <3>2, <6>1, IsReady
        <5>3. QED
          BY <5>1, <5>2
      <4>7. ready_jobs' = g
        BY <3>2, <4>1, <4>2
      <4>8. QED
        BY <4>6, <4>7
    <3>4. QED
      BY <2>2, <2>3, <3>1, <3>3
  <2>10. CASE NotifyGroup(e)
    <3>1. /\ UNCHANGED <<status, raced, job_machines, machines, to, ready_jobs>>
          /\ ex[e] = "group"
      BY <2>10 DEF NotifyGroup, jmVars, jobVars
    <3>2. group' \in {group, Verdict(e)}
      BY <2>10 DEF NotifyGroup
    <3>3. \/ Verdict(e) = group
          \/ Verdict(e) = "FAILED" /\ status[e[1]] = "FAILED"
          \/ Verdict(e) = "SUCCEEDED" /\ GroupFinished
      <4>1. CASE group = "FAILED"
        BY <4>1 DEF Verdict
      <4>2. CASE group # "FAILED" /\ status[e[1]] = "FAILED"
        BY <4>2 DEF Verdict
      <4>3. CASE group # "FAILED" /\ status[e[1]] # "FAILED" /\ GroupFinished
        BY <4>3 DEF Verdict
      <4>4. CASE group # "FAILED" /\ status[e[1]] # "FAILED" /\ ~GroupFinished
        BY <4>4 DEF Verdict
      <4>5. QED
        BY <4>1, <4>2, <4>3, <4>4
    <3>4. GroupVerdict'
      BY <2>1, <3>1, <3>2, <3>3 DEF GroupFinished, GroupVerdict, StartInv
    <3>5. PICK w \in {"clean", "done", "dead"} : ex' = [ex EXCEPT ![e] = w]
      BY <2>10 DEF NotifyGroup, Step
    <3>6. QED
      BY <2>2, <2>3, <3>1, <3>4, <3>5
  <2>11. CASE CleanUpJob(e)
    <3>1. /\ UNCHANGED <<status, raced, job_machines, machines, to, ready_jobs, group>>
          /\ ex[e] = "clean"
      BY <2>11 DEF CleanUpJob, jobVars
    <3>2. CASE UNCHANGED ex
      BY <1>1, <3>1, <3>2
    <3>3. CASE Step(e, "clean", "dead")
      <4>1. PICK w \in {"dead"} : ex' = [ex EXCEPT ![e] = w]
        BY <3>3 DEF Step
      <4>2. QED
        BY <2>2, <2>3, <3>1, <4>1
    <3>4. QED
      BY <2>11, <3>2, <3>3 DEF CleanUpJob
  <2>12. CASE CleanedUp(e)
    <3>1. /\ UNCHANGED <<status, raced, job_machines, machines, to, ready_jobs, group>>
          /\ ex[e] = "clean"
      BY <2>12 DEF CleanedUp, Step, jmVars, jobVars
    <3>2. PICK w \in {"done"} : ex' = [ex EXCEPT ![e] = w]
      BY <2>12 DEF CleanedUp, Step
    <3>3. QED
      BY <2>2, <2>3, <3>1, <3>2
  <2>13. QED
    BY <1>8, <2>4, <2>5, <2>6, <2>7, <2>8, <2>9, <2>10, <2>11, <2>12 DEF Executer
<1>9. CASE UNCHANGED vars
  BY <1>1, <1>9 DEF vars, jmVars, jobVars, groupVars, exVars
<1>10. QED
  BY <1>2, <1>3, <1>4, <1>5, <1>6, <1>7, <1>8, <1>9 DEF Next, Manager, Main, Stop

-----------------------------------------------------------------------------
(* The pool agrees with what the executers have                            *)

Queued(q, m) == {i \in 1..Len(q) : q[i] = m}

LEMMA CountType ==
  ASSUME NEW S, NEW ms \in Seq(S), NEW m
  PROVE  /\ IsFiniteSet(Queued(ms, m)) /\ Count(ms, m) \in Nat
         /\ Count(ms, m) = Cardinality(Queued(ms, m))
         /\ Count(ms, m) = 0 => Queued(ms, m) = {}
PROOF
<1>1. Len(ms) \in Nat
  BY LenProperties
<1>2. IsFiniteSet(1..Len(ms))
  BY <1>1, FS_Interval
<1>3. Queued(ms, m) \in SUBSET (1..Len(ms)) /\ Count(ms, m) = Cardinality(Queued(ms, m))
  BY DEF Queued, Count
<1>4. IsFiniteSet(Queued(ms, m)) /\ Cardinality(Queued(ms, m)) \in Nat
  BY <1>2, <1>3, FS_Subset, FS_CardinalityType
<1>5. Cardinality(Queued(ms, m)) = 0 => Queued(ms, m) = {}
  BY <1>4, FS_EmptySet
<1>6. QED
  BY <1>3, <1>4, <1>5

\* What one executer has of a machine.
LEMMA HeldCount ==
  ASSUME NEW S, NEW ms \in Seq(S), NEW m, NEW e
  PROVE  /\ IsFiniteSet({e} \X Queued(ms, m))
         /\ Cardinality({e} \X Queued(ms, m)) = Count(ms, m)
PROOF
<1> DEFINE f == [i \in Queued(ms, m) |-> <<e, i>>]
<1>1. f \in [Queued(ms, m) -> {e} \X Queued(ms, m)]
  OBVIOUS
<1>2. IsInjective(f)
  BY DEF IsInjective
<1>3. \A t \in {e} \X Queued(ms, m) : \E i \in Queued(ms, m) : f[i] = t
  OBVIOUS
<1>4. f \in Bijection(Queued(ms, m), {e} \X Queued(ms, m))
  BY <1>1, <1>2, <1>3 DEF Bijection, Injection, Surjection
<1>5. ExistsBijection(Queued(ms, m), {e} \X Queued(ms, m))
  BY <1>4 DEF ExistsBijection
<1>6. QED
  BY <1>5, CountType, FS_Bijection

LEMMA WholeSubSeq ==
  ASSUME NEW S, NEW ms \in Seq(S)
  PROVE  SubSeq(ms, 1, Len(ms)) = ms
PROOF
<1>1. PICK n : n = Len(ms)
  OBVIOUS
<1>2. n \in Nat /\ \A i \in 1..n : ms[i] \in S
  BY <1>1, LenProperties, ElementOfSeq
<1>3. PICK t : t = SubSeq(ms, 1, n)
  OBVIOUS
<1>4. /\ t \in Seq(S) /\ Len(t) = IF 1 <= n THEN n - 1 + 1 ELSE 0
      /\ \A i \in 1..(n - 1 + 1) : t[i] = ms[1 + i - 1]
  BY <1>2, <1>3, SubSeqProperties
<1>5. n - 1 + 1 = n /\ Len(t) = n /\ \A i \in 1..n : 1 + i - 1 = i
  BY <1>2, <1>4
<1>6. \A i \in 1..n : t[i] = ms[i]
  BY <1>4, <1>5, Zenon
<1>7. t = ms
  BY <1>1, <1>4, <1>5, <1>6, SeqEqual
<1>8. QED
  BY <1>1, <1>3, <1>7

\* The first machines of a list are not more than all.
LEMMA SubCount ==
  ASSUME NEW S, NEW ms \in Seq(S), NEW k \in 0..Len(ms), NEW m
  PROVE  /\ Count(SubSeq(ms, 1, k), m) \in Nat
         /\ Count(SubSeq(ms, 1, k), m) <= Count(ms, m)
PROOF
<1>1. Len(ms) \in Nat /\ k \in Nat /\ k <= Len(ms)
  BY LenProperties
<1>2. PICK t : t = SubSeq(ms, 1, k)
  OBVIOUS
<1>3. \A i \in 1..k : ms[i] \in S
  BY <1>1, ElementOfSeq
<1>4. /\ t \in Seq(S) /\ Len(t) = IF 1 <= k THEN k - 1 + 1 ELSE 0
      /\ \A i \in 1..(k - 1 + 1) : t[i] = ms[1 + i - 1]
  BY <1>1, <1>2, <1>3, SubSeqProperties
<1>5. Len(t) = k /\ k - 1 + 1 = k /\ \A i \in 1..k : 1 + i - 1 = i
  BY <1>1, <1>4
<1>6. \A i \in 1..k : t[i] = ms[i]
  BY <1>4, <1>5, Zenon
<1>7. Queued(t, m) \in SUBSET Queued(ms, m)
  BY <1>1, <1>5, <1>6 DEF Queued
<1>8. IsFiniteSet(Queued(ms, m)) /\ Count(ms, m) = Cardinality(Queued(ms, m))
  BY CountType
<1>9. Count(t, m) = Cardinality(Queued(t, m)) /\ Count(t, m) \in Nat
  BY <1>4, CountType
<1>10. Cardinality(Queued(t, m)) <= Cardinality(Queued(ms, m))
  BY <1>7, <1>8, FS_Subset
<1>11. QED
  BY <1>2, <1>8, <1>9, <1>10

LEMMA InGrants ==
  ASSUME NEW m, NEW g
  PROVE  g \in Grants(m) <=> \E e \in Holders : g \in {e} \X Queued(machines[e], m)
BY DEF Grants, Queued

LEMMA InGrantsNext ==
  ASSUME NEW m, NEW g
  PROVE  g \in Grants(m)' <=> \E e \in Holders' : g \in {e} \X Queued(machines'[e], m)
BY DEF Grants, Queued

LEMMA PoolFrame ==
  ASSUME TypeOK, PoolInv, UNCHANGED <<pool, machines>>, Holders' = Holders,
         raced \subseteq raced'
  PROVE  PoolInv' /\ pool' \in [Machines -> Machine]
PROOF
<1>1. ASSUME NEW m \in Machines PROVE Grants(m)' = Grants(m)
  BY DEF Grants
<1>2. ASSUME raced' = {}, NEW m \in Machines
      PROVE  Exact(m)'
  <2>1. Exact(m)
    BY <1>2 DEF PoolInv
  <2>2. QED
    BY <1>1, <2>1 DEF Exact, Exclusive
<1>3. IdleUnlocked'
  BY DEF PoolInv, IdleUnlocked
<1>4. QED
  BY <1>2, <1>3 DEF PoolInv, TypeOK

\* A set of which all members are equal has at most one.
LEMMA AtMostOne ==
  ASSUME NEW S, \A g, h \in S : g = h
  PROVE  Cardinality(S) <= 1
PROOF
<1>1. CASE S = {}
  BY <1>1, FS_EmptySet
<1>2. CASE S # {}
  <2>1. PICK g : g \in S
    BY <1>2
  <2>2. S = {g}
    BY <2>1
  <2>3. QED
    BY <2>2, FS_Singleton
<1>3. QED
  BY <1>1, <1>2

\* Uses that assertions guard stay natural numbers, and the last to leave
\* unlocks.
LEMMA PoolReleased ==
  ASSUME TypeOK, PoolInv, NEW ms \in Seq(Machines), CanRelease(pool, ms, Len(ms)),
         pool' = Released(pool, ms)
  PROVE  IdleUnlocked' /\ pool' \in [Machines -> Machine]
PROOF
<1>1. SubSeq(ms, 1, Len(ms)) = ms
  BY WholeSubSeq
<1>2. ASSUME NEW m \in Machines
      PROVE  pool'[m] \in Machine /\ (pool'[m].uses = 0 => ~pool'[m].locked)
  <2>1. PICK c : c = Count(ms, m)
    OBVIOUS
  <2>2. c \in Nat
    BY <2>1, CountType
  <2>3. pool[m].uses \in Nat /\ pool[m].locked \in BOOLEAN
    BY DEF TypeOK, Machine
  <2>4. c <= pool[m].uses
    BY <1>1, <2>1 DEF CanRelease
  <2>5. /\ pool'[m].uses = pool[m].uses - c
        /\ pool'[m].locked <=> (pool[m].locked /\ pool[m].uses > c)
        /\ pool'[m] = [uses |-> pool'[m].uses, locked |-> pool'[m].locked]
        /\ pool'[m].locked \in BOOLEAN
    BY <2>1 DEF Released
  <2>6. pool'[m].uses \in Nat /\ (pool'[m].uses = 0 => ~(pool[m].uses > c))
    BY <2>2, <2>3, <2>4, <2>5
  <2>7. pool'[m] \in Machine
    BY <2>5, <2>6 DEF Machine
  <2>8. QED
    BY <2>5, <2>6, <2>7
<1>3. pool' \in [Machines -> Machine]
  BY <1>2 DEF Released
<1>4. QED
  BY <1>2, <1>3 DEF IdleUnlocked

\* If no job was started twice at once, job.machines are the executer's, which
\* it has all: no assertion fails, and exactly its uses are given back.
LEMMA PoolReturned ==
  ASSUME TypeOK, StartInv, PoolInv, NEW e \in Executers, ReturnMachines(e)
  PROVE  PoolInv' /\ pool' \in [Machines -> Machine]
PROOF
<1>1. PICK js : js = job_machines[e[1]]
  OBVIOUS
<1>2. js \in Seq(Machines) /\ Len(js) \in Nat
  BY <1>1, ExecuterParts, LenProperties DEF TypeOK
<1>3. PICK n \in 0..Len(js) :
        /\ CanRelease(pool, js, n)
        /\ n < Len(js) => ~CanRelease(pool, js, n + 1)
        /\ pool' = Released(pool, SubSeq(js, 1, n))
        /\ Step(e, "return", IF n = Len(js) THEN "notify" ELSE "dead")
  BY <1>1 DEF ReturnMachines
<1>4. UNCHANGED <<raced, machines>> /\ ex[e] = "return"
  BY <1>3 DEF ReturnMachines, jobVars, Step
<1>5. IdleUnlocked' /\ pool' \in [Machines -> Machine]
  <2>1. PICK t : t = SubSeq(js, 1, n)
    OBVIOUS
  <2>2. t \in Seq(Machines)
    <3>1. \A i \in 1..n : js[i] \in Machines
      BY <1>2, ElementOfSeq
    <3>2. QED
      BY <1>2, <2>1, <3>1, SubSeqProperties
  <2>3. CanRelease(pool, t, Len(t))
    <3>1. SubSeq(t, 1, Len(t)) = t
      BY <2>2, WholeSubSeq
    <3>2. QED
      BY <1>3, <2>1, <3>1 DEF CanRelease
  <2>4. QED
    BY <1>3, <2>1, <2>2, <2>3, PoolReleased
<1>6. ASSUME raced' = {}, NEW m \in Machines
      PROVE  Exact(m)'
  <2>1. raced = {} /\ \A k \in Machines : Exact(k)
    BY <1>4, <1>6 DEF PoolInv
  <2>2. js = machines[e]
    BY <1>1, <1>4, <2>1 DEF StartInv, HasOwn
  <2>3. e \in Holders
    BY <1>4 DEF Holders
  <2>4. ASSUME NEW k \in Machines
        PROVE  Count(js, k) <= pool[k].uses /\ {e} \X Queued(js, k) \subseteq Grants(k)
    <3>1. {e} \X Queued(js, k) \subseteq Grants(k)
      BY <2>2, <2>3, InGrants
    <3>2. IsFiniteSet(Grants(k)) /\ pool[k].uses = Cardinality(Grants(k))
      BY <2>1 DEF Exact
    <3>3. Cardinality({e} \X Queued(js, k)) <= Cardinality(Grants(k))
      BY <3>1, <3>2, FS_Subset
    <3>4. Cardinality({e} \X Queued(js, k)) = Count(js, k)
      BY <1>2, HeldCount
    <3>5. QED
      BY <3>1, <3>2, <3>3, <3>4
  <2>5. n = Len(js)
    <3> SUFFICES ASSUME n < Len(js) PROVE FALSE
      BY <1>2
    <3>1. n + 1 \in 0..Len(js)
      BY <1>2
    <3>2. ASSUME NEW k \in Machines PROVE Count(SubSeq(js, 1, n + 1), k) <= pool[k].uses
      <4>1. PICK a : a = Count(SubSeq(js, 1, n + 1), k)
        OBVIOUS
      <4>2. PICK b : b = Count(js, k)
        OBVIOUS
      <4>3. a \in Nat /\ b \in Nat /\ a <= b
        BY <1>2, <3>1, <4>1, <4>2, SubCount, CountType
      <4>4. pool[k].uses \in Nat /\ b <= pool[k].uses
        BY <2>4, <4>2 DEF TypeOK, Machine
      <4>5. QED
        BY <4>1, <4>3, <4>4
    <3>3. QED
      BY <1>3, <3>2 DEF CanRelease
  <2>6. pool' = Released(pool, js) /\ ex' = [ex EXCEPT ![e] = "notify"]
    BY <1>2, <1>3, <2>5, WholeSubSeq DEF Step
  <2>7. Holders' = Holders \ {e}
    BY <1>4, <2>6 DEF Holders, TypeOK, Running
  <2>8. PICK G : G = Grants(m)
    OBVIOUS
  <2>9. PICK H : H = Grants(m)'
    OBVIOUS
  <2>10. PICK P : P = {e} \X Queued(js, m)
    OBVIOUS
  <2>11. H = G \ P /\ P \subseteq G
    <3>1. \A g : g \in G <=> \E f \in Holders : g \in {f} \X Queued(machines[f], m)
      BY <2>8, InGrants
    <3>2. \A g : g \in H <=> \E f \in Holders : f # e /\ g \in {f} \X Queued(machines[f], m)
      BY <1>4, <2>7, <2>9, InGrantsNext
    <3>3. \A g : g \in P <=> g \in {e} \X Queued(machines[e], m)
      BY <2>2, <2>10
    <3>4. \A f, g : g \in {f} \X Queued(machines[f], m) => g[1] = f
      OBVIOUS
    <3>5. QED
      BY <2>3, <3>1, <3>2, <3>3, <3>4
  <2>12. /\ IsFiniteSet(G) /\ pool[m].uses = Cardinality(G)
         /\ \A g \in G : Exclusive(g) => pool[m].locked
         /\ \A g, h \in G : Exclusive(g) /\ Exclusive(h) => g = h
    BY <2>1, <2>8 DEF Exact
  <2>13. PICK c : c = Count(js, m)
    OBVIOUS
  <2>14. IsFiniteSet(P) /\ Cardinality(P) = c /\ c \in Nat
    BY <1>2, <2>10, <2>13, HeldCount, CountType
  <2>15. IsFiniteSet(H) /\ Cardinality(H) = Cardinality(G) - c /\ Cardinality(H) \in Nat
    <3>1. G \cap P = P
      BY <2>11
    <3>2. IsFiniteSet(G \ P) /\ Cardinality(G \ P) = Cardinality(G) - Cardinality(G \cap P)
      BY <2>12, FS_Difference
    <3>3. IsFiniteSet(H) /\ Cardinality(H) = Cardinality(G) - c
      BY <2>11, <2>14, <3>1, <3>2
    <3>4. QED
      BY <3>3, FS_CardinalityType
  <2>16. Cardinality(G) \in Nat
    BY <2>12, FS_CardinalityType
  <2>17. /\ pool'[m].uses = pool[m].uses - c
         /\ pool'[m].locked <=> (pool[m].locked /\ pool[m].uses > c)
    BY <2>6, <2>13 DEF Released
  <2>18. pool'[m].uses = Cardinality(H) /\ (pool[m].uses > c <=> Cardinality(H) # 0)
    BY <2>12, <2>14, <2>15, <2>16, <2>17
  <2>19. \A g \in H : Cardinality(H) # 0
    BY <2>15, FS_EmptySet
  <2>20. \A g \in H : Exclusive(g) => pool'[m].locked
    BY <2>11, <2>12, <2>17, <2>18, <2>19
  <2>21. \A g, h \in H : Exclusive(g) /\ Exclusive(h) => g = h
    BY <2>11, <2>12
  <2>22. QED
    BY <2>9, <2>15, <2>18, <2>20, <2>21 DEF Exact, Exclusive
<1>7. QED
  BY <1>5, <1>6 DEF PoolInv

\* A rollback leaves the uses as they were; a machine it locked stays locked
\* if somebody uses it.
LEMMA PoolRolledBack ==
  ASSUME TypeOK, PoolInv, UNCHANGED raced, NEW k \in Jobs,
         NEW ms \in [1..Len(Needs[k]) -> Machines \cup {NoMachine}], Blocked(k, ms)
  PROVE  PoolInv' /\ pool' \in [Machines -> Machine]
PROOF
<1>1. pool' = RolledBack(pool, Needs[k], ms) /\ UNCHANGED <<ex, machines>>
  BY DEF Blocked, exVars
<1>2. Len(Needs[k]) \in Nat
  BY JobsAssumption, LenProperties
<1>3. ms \in Seq(Machines \cup {NoMachine}) /\ Len(ms) = Len(Needs[k])
  BY <1>2
<1>4. SubSeq(ms, 1, Len(Needs[k])) = ms
  BY <1>3, WholeSubSeq
<1>5. PICK A : A = Acquired(pool, Needs[k], ms, Len(Needs[k]))
  OBVIOUS
<1>6. pool' = Released(A, ms)
  BY <1>1, <1>5 DEF RolledBack
<1>7. ASSUME NEW m \in Machines PROVE Grants(m)' = Grants(m)
  BY <1>1 DEF Grants, Holders
<1>8. ASSUME NEW m \in Machines
      PROVE  /\ pool'[m] \in Machine
             /\ pool'[m].uses = pool[m].uses
             /\ pool[m].locked /\ pool[m].uses # 0 => pool'[m].locked
             /\ pool'[m].uses = 0 => ~pool'[m].locked
  <2>1. PICK c : c = Count(ms, m)
    OBVIOUS
  <2>2. c \in Nat
    BY <1>3, <2>1, CountType
  <2>3. pool[m].uses \in Nat /\ pool[m].locked \in BOOLEAN
    BY DEF TypeOK, Machine
  <2>4. A[m].uses = pool[m].uses + c /\ (pool[m].locked => A[m].locked)
    BY <1>4, <1>5, <2>1 DEF Acquired
  <2>5. /\ pool'[m].uses = A[m].uses - c
        /\ pool'[m].locked <=> (A[m].locked /\ A[m].uses > c)
        /\ pool'[m] = [uses |-> pool'[m].uses, locked |-> pool'[m].locked]
        /\ pool'[m].locked \in BOOLEAN
    BY <1>6, <2>1 DEF Released
  <2>6. pool'[m].uses = pool[m].uses /\ (A[m].uses > c <=> pool[m].uses # 0)
    BY <2>2, <2>3, <2>4, <2>5
  <2>7. pool'[m] \in Machine
    BY <2>3, <2>5, <2>6 DEF Machine
  <2>8. QED
    BY <2>4, <2>5, <2>6, <2>7
<1>9. ASSUME raced' = {}, NEW m \in Machines
      PROVE  Exact(m)'
  <2>1. /\ IsFiniteSet(Grants(m)) /\ pool[m].uses = Cardinality(Grants(m))
        /\ \A g \in Grants(m) : Exclusive(g) => pool[m].locked
        /\ \A g, h \in Grants(m) : Exclusive(g) /\ Exclusive(h) => g = h
    BY <1>9 DEF PoolInv, Exact
  <2>2. \A g \in Grants(m) : Cardinality(Grants(m)) # 0
    BY <2>1, FS_EmptySet
  <2>3. \A g \in Grants(m) : Exclusive(g) => pool'[m].locked
    BY <1>8, <2>1, <2>2
  <2>4. QED
    BY <1>7, <1>8, <2>1, <2>3 DEF Exact, Exclusive
<1>10. pool' \in [Machines -> Machine]
  BY <1>6, <1>8 DEF Released
<1>11. IdleUnlocked'
  BY <1>8 DEF IdleUnlocked
<1>12. QED
  BY <1>9, <1>10, <1>11 DEF PoolInv

\* What GetMachines acquires was unlocked when it was acquired.
LEMMA AcquiredUnlocked ==
  ASSUME NEW specs, NEW prefs, NEW ms, Acquisition(pool, specs, prefs, ms),
         NEW i \in 1..Len(specs), Len(specs) \in Nat, ms[i] \in Machines
  PROVE  /\ ~pool[ms[i]].locked
         /\ \A h \in 1..(i - 1) : ms[h] = ms[i] => ~specs[h].lock_required
PROOF
<1>1. PICK m : m = ms[i]
  OBVIOUS
<1>2. PICK A : A = Acquired(pool, specs, ms, i - 1)
  OBVIOUS
<1>3. PICK pr : pr = IF i = 1 THEN prefs ELSE {}
  OBVIOUS
<1>4. GetMachine(A, specs[i], pr, m)
  BY <1>1, <1>2, <1>3 DEF Acquisition
<1>5. PICK av : av = {n \in Machines : IsMatch(A, specs[i], n)}
  OBVIOUS
<1>6. IF av = {} THEN m = NoMachine ELSE IsMinUses(A, IF av \cap pr # {} THEN av \cap pr ELSE av, m)
  BY <1>4, <1>5 DEF GetMachine
<1>7. m # NoMachine
  BY <1>1, NMachinesAssumption DEF Machines, NoMachine
<1>8. m \in av
  BY <1>6, <1>7 DEF IsMinUses
<1>9. m \in Machines /\ ~A[m].locked
  BY <1>5, <1>8 DEF IsMatch
<1>10. A[m].locked = (pool[m].locked \/ \E h \in 1..(i - 1) : ms[h] = m /\ specs[h].lock_required)
  BY <1>2, <1>9 DEF Acquired
<1>11. QED
  BY <1>1, <1>9, <1>10

\* A start acquires exactly what the new executer then has, and nothing that
\* somebody has exclusively.
LEMMA PoolAcquired ==
  ASSUME TypeOK, PoolInv, UNCHANGED raced, NEW k \in Jobs, NEW e \in Executers,
         NEW ms, Len(ms) = Len(Needs[k]),
         Acquisition(pool, Needs[k], PreferredMachines(k), ms), Started(k, ms, e)
  PROVE  PoolInv' /\ pool' \in [Machines -> Machine]
PROOF
<1>1. e \in Executers /\ ex[e] = "none" /\ e[1] = k
  BY DEF Started
<1>2. /\ ms \in Seq(Machines) /\ ex' = [ex EXCEPT ![e] = "new"]
      /\ machines' = [machines EXCEPT ![e] = ms]
      /\ pool' = Acquired(pool, Needs[k], ms, Len(ms))
  BY DEF Started
<1>3. Holders' = Holders \cup {e} /\ e \notin Holders
  BY <1>1, <1>2 DEF Holders, TypeOK, Running
<1>4. machines'[e] = ms /\ \A f \in Holders : machines'[f] = machines[f]
  <2>1. \A f \in Executers : machines'[f] = IF f = e THEN ms ELSE machines[f]
    BY <1>2 DEF TypeOK
  <2>2. QED
    BY <1>1, <1>3, <2>1 DEF Holders, Running
<1>5. Len(ms) \in Nat /\ \A i \in 1..Len(ms) : ms[i] \in Machines
  BY <1>2, LenProperties, ElementOfSeq
<1>6. SubSeq(ms, 1, Len(ms)) = ms
  BY <1>2, WholeSubSeq
<1>7. ASSUME NEW i \in 1..Len(ms)
      PROVE  /\ ~pool[ms[i]].locked
             /\ \A h \in 1..(i - 1) : ms[h] = ms[i] => ~Needs[k][h].lock_required
  BY <1>5, AcquiredUnlocked
<1>8. ASSUME NEW m \in Machines
      PROVE  pool'[m] \in Machine /\ (pool'[m].uses = 0 => ~pool'[m].locked)
  <2>1. PICK c : c = Count(ms, m)
    OBVIOUS
  <2>2. c \in Nat
    BY <1>2, <2>1, CountType
  <2>3. pool[m].uses \in Nat /\ pool[m].locked \in BOOLEAN
    BY DEF TypeOK, Machine
  <2>4. /\ pool'[m].uses = pool[m].uses + c
         /\ pool'[m].locked
              = (pool[m].locked \/ \E i \in 1..Len(ms) : ms[i] = m /\ Needs[k][i].lock_required)
         /\ pool'[m] = [uses |-> pool'[m].uses, locked |-> pool'[m].locked]
         /\ pool'[m].locked \in BOOLEAN
    BY <1>2, <1>6, <2>1 DEF Acquired
  <2>5. pool'[m].uses \in Nat
    BY <2>2, <2>3, <2>4
  <2>6. pool'[m] \in Machine
    BY <2>4, <2>5 DEF Machine
  <2>7. pool'[m].uses = 0 => ~pool'[m].locked
    <3> SUFFICES ASSUME pool'[m].uses = 0 PROVE ~pool'[m].locked
      OBVIOUS
    <3>1. c = 0 /\ pool[m].uses = 0
      BY <2>2, <2>3, <2>4
    <3>2. Queued(ms, m) = {}
      BY <1>2, <2>1, <3>1, CountType
    <3>3. \A i \in 1..Len(ms) : ms[i] # m
      BY <3>2 DEF Queued
    <3>4. QED
      BY <2>4, <3>1, <3>3 DEF PoolInv, IdleUnlocked
  <2>8. QED
    BY <2>6, <2>7
<1>9. ASSUME raced' = {}, NEW m \in Machines
      PROVE  Exact(m)'
  <2>1. PICK G : G = Grants(m)
    OBVIOUS
  <2>2. PICK H : H = Grants(m)'
    OBVIOUS
  <2>3. PICK P : P = {e} \X Queued(ms, m)
    OBVIOUS
  <2>4. H = G \cup P /\ G \cap P = {}
    <3>1. \A g : g \in G <=> \E f \in Holders : g \in {f} \X Queued(machines[f], m)
      BY <2>1, InGrants
    <3>2. \A g : g \in H <=> \E f \in Holders \cup {e} : g \in {f} \X Queued(machines'[f], m)
      BY <1>3, <2>2, InGrantsNext
    <3>3. \A g : g \in P <=> g \in {e} \X Queued(machines'[e], m)
      BY <1>4, <2>3
    <3>4. \A g : g \in H <=> g \in G \/ g \in P
      BY <1>4, <3>1, <3>2, <3>3
    <3>5. \A f, g : g \in {f} \X Queued(machines[f], m) => g[1] = f
      OBVIOUS
    <3>6. \A g \in P : g[1] = e
      BY <2>3
    <3>7. QED
      BY <1>3, <3>1, <3>4, <3>5, <3>6
  <2>5. /\ IsFiniteSet(G) /\ pool[m].uses = Cardinality(G)
        /\ \A g \in G : Exclusive(g) => pool[m].locked
        /\ \A g, h \in G : Exclusive(g) /\ Exclusive(h) => g = h
    BY <1>9, <2>1 DEF PoolInv, Exact
  <2>6. PICK c : c = Count(ms, m)
    OBVIOUS
  <2>7. IsFiniteSet(P) /\ Cardinality(P) = c /\ c \in Nat /\ (c = 0 => P = {})
    BY <1>2, <2>3, <2>6, HeldCount, CountType
  <2>8. IsFiniteSet(H) /\ Cardinality(H) = Cardinality(G) + c /\ Cardinality(G) \in Nat
    <3>1. /\ IsFiniteSet(G \cup P)
          /\ Cardinality(G \cup P) = Cardinality(G) + Cardinality(P) - Cardinality(G \cap P)
      BY <2>5, <2>7, FS_Union
    <3>2. Cardinality(G \cap P) = 0
      BY <2>4, FS_EmptySet
    <3>3. Cardinality(G) \in Nat
      BY <2>5, FS_CardinalityType
    <3>4. QED
      BY <2>4, <2>7, <3>1, <3>2, <3>3
  <2>9. pool[m].uses \in Nat /\ pool[m].locked \in BOOLEAN
    BY DEF TypeOK, Machine
  <2>10. /\ pool'[m].uses = pool[m].uses + c
         /\ pool'[m].locked
              = (pool[m].locked \/ \E i \in 1..Len(ms) : ms[i] = m /\ Needs[k][i].lock_required)
         /\ pool'[m] = [uses |-> pool'[m].uses, locked |-> pool'[m].locked]
         /\ pool'[m].locked \in BOOLEAN
    BY <1>2, <1>6, <2>6 DEF Acquired
  <2>11. pool'[m].uses = Cardinality(H) /\ pool'[m].uses \in Nat
    BY <2>5, <2>7, <2>8, <2>9, <2>10
  <2>12. \A g \in P : /\ g = <<e, g[2]>> /\ g[2] \in 1..Len(ms) /\ ms[g[2]] = m
                      /\ Exclusive(g) <=> Needs[k][g[2]].lock_required
    BY <1>1, <2>3 DEF Queued, Exclusive
  <2>13. \A g \in H : Exclusive(g) => pool'[m].locked
    <3>1. \A g \in G : Exclusive(g) => pool'[m].locked
      BY <2>5, <2>10
    <3>2. \A g \in P : Exclusive(g) => pool'[m].locked
      BY <2>10, <2>12
    <3>3. QED
      BY <2>4, <3>1, <3>2
  <2>14. \A g, h \in H : Exclusive(g) /\ Exclusive(h) => g = h
    <3>1. \A g \in P : ~pool[m].locked
      BY <1>7, <2>12
    <3>2. \A g \in P, h \in P : Exclusive(g) /\ Exclusive(h) => g = h
      <4> SUFFICES ASSUME NEW g \in P, NEW h \in P, Exclusive(g), Exclusive(h) PROVE g = h
        OBVIOUS
      <4>1. /\ g = <<e, g[2]>> /\ g[2] \in 1..Len(ms) /\ ms[g[2]] = m /\ Needs[k][g[2]].lock_required
            /\ h = <<e, h[2]>> /\ h[2] \in 1..Len(ms) /\ ms[h[2]] = m /\ Needs[k][h[2]].lock_required
        BY <2>12
      <4>2. ~(g[2] \in 1..(h[2] - 1)) /\ ~(h[2] \in 1..(g[2] - 1))
        BY <1>7, <4>1
      <4>3. g[2] = h[2]
        BY <1>5, <4>1, <4>2
      <4>4. QED
        BY <4>1, <4>3
    <3>3. \A g \in G, h \in P : ~(Exclusive(g) /\ Exclusive(h))
      BY <2>5, <3>1
    <3>4. QED
      BY <2>4, <2>5, <3>2, <3>3
  <2>15. QED
    BY <2>2, <2>8, <2>11, <2>13, <2>14 DEF Exact, Exclusive
<1>10. pool' \in [Machines -> Machine]
  BY <1>2, <1>8 DEF Acquired
<1>11. IdleUnlocked'
  BY <1>8 DEF IdleUnlocked
<1>12. QED
  BY <1>9, <1>10, <1>11 DEF PoolInv

LEMMA PoolStep ==
  ASSUME TypeOK, StartInv, PoolInv, [Next]_vars
  PROVE  PoolInv' /\ pool' \in [Machines -> Machine]
PROOF
<1>1. CASE UNCHANGED <<pool, machines, ex, raced>>
  BY <1>1, PoolFrame DEF Holders
<1>2. CASE LoopTest \/ Wait \/ Wake \/ NoReadyJob
  BY <1>1, <1>2 DEF LoopTest, Wait, Wake, NoReadyJob, exVars, jobVars
<1>3. CASE StartReadyJob
  <2>1. PICK k : k = ready_jobs[Len(ready_jobs)]
    OBVIOUS
  <2>2. k \in Jobs /\ UNCHANGED raced
    BY <1>3, <2>1, LoopTurn DEF jobVars
  <2>3. PICK ms \in [1..Len(Needs[k]) -> Machines \cup {NoMachine}] :
          /\ Acquisition(pool, Needs[k], PreferredMachines(k), ms)
          /\ Len(ms) = Len(Needs[k])
          /\ Blocked(k, ms) \/ \E e \in Executers : Started(k, ms, e)
    BY <1>3, <2>1, LoopTurn
  <2>4. CASE Blocked(k, ms)
    BY <2>2, <2>3, <2>4, PoolRolledBack
  <2>5. ASSUME NEW e \in Executers, Started(k, ms, e)
        PROVE  PoolInv' /\ pool' \in [Machines -> Machine]
    BY <2>2, <2>3, <2>5, PoolAcquired
  <2>6. QED
    BY <2>3, <2>4, <2>5
<1>4. CASE Main
  BY <1>1, <1>4 DEF Main, BeginAddJobGroup, AddJob, GroupAdded, KillJobGroup, WaitAgain, Interrupt,
                    Stop, StopJobManager, ListExecuters, JoinExecuters, JoinManager, exVars, jobVars
<1>5. ASSUME NEW e \in Executers, Executer(e)
      PROVE  PoolInv' /\ pool' \in [Machines -> Machine]
  <2>1. ASSUME UNCHANGED <<pool, machines>>, raced \subseteq raced',
               NEW w, ex' = [ex EXCEPT ![e] = w],
               ex[e] \in {"new", "change", "take", "return", "leaked"} \cup Running
                 <=> w \in {"new", "change", "take", "return", "leaked"} \cup Running
        PROVE  PoolInv' /\ pool' \in [Machines -> Machine]
    <3>1. \A f \in Executers : ex'[f] = IF f = e THEN w ELSE ex[f]
      BY <2>1 DEF TypeOK
    <3>2. Holders' = Holders
      BY <2>1, <3>1 DEF Holders
    <3>3. QED
      BY <2>1, <3>2, PoolFrame
  <2>2. CASE Setup(e) \/ StageSucceeds(e) \/ StageFails(e)
    <3>1. PICK w \in {"change", "leaked"} : ex' = [ex EXCEPT ![e] = w]
      BY <2>2 DEF Setup, StageSucceeds, StageFails, TestChange
    <3>2. /\ ex[e] \in {"new"} \cup Running /\ UNCHANGED <<pool, machines>>
          /\ raced \subseteq raced'
      BY <2>2 DEF Setup, StageSucceeds, StageFails, jobVars
    <3>3. QED
      BY <2>1, <3>1, <3>2
  <2>3. CASE Change(e)
    <3>1. to[e] \in Running \cup Final
      BY DEF TypeOK
    <3>2. ex' = [ex EXCEPT ![e] = ex'[e]] /\ ex'[e] \in {"take", "return"} \cup Running
      BY <2>3, <3>1, ChangeType
    <3>3. PICK w \in {"take", "return"} \cup Running : ex' = [ex EXCEPT ![e] = w]
      BY <3>2
    <3>4. ex[e] = "change" /\ UNCHANGED <<pool, machines, raced>>
      BY <2>3 DEF Change
    <3>5. QED
      BY <2>1, <3>3, <3>4
  <2>4. CASE TakeMachines(e)
    <3>1. PICK w \in Running : ex' = [ex EXCEPT ![e] = w]
      BY <2>4 DEF TakeMachines, Step, Running
    <3>2. ex[e] = "take" /\ UNCHANGED <<pool, machines, raced>>
      BY <2>4 DEF TakeMachines, Step
    <3>3. QED
      BY <2>1, <3>1, <3>2
  <2>5. CASE ReturnMachines(e)
    BY <2>5, PoolReturned
  <2>6. CASE NotifyJobComplete(e) \/ NotifyGroup(e) \/ CleanedUp(e)
    <3>1. PICK w \in {"group", "clean", "done", "dead"} : ex' = [ex EXCEPT ![e] = w]
      BY <2>6 DEF NotifyJobComplete, NotifyGroup, CleanedUp, Step
    <3>2. ex[e] \in {"notify", "group", "clean"} /\ UNCHANGED <<pool, machines, raced>>
      BY <2>6 DEF NotifyJobComplete, NotifyGroup, CleanedUp, Step, jobVars
    <3>3. QED
      BY <2>1, <3>1, <3>2 DEF Running
  <2>7. CASE CleanUpJob(e)
    <3>1. ex[e] = "clean" /\ UNCHANGED <<pool, machines, raced>>
      BY <2>7 DEF CleanUpJob, jobVars
    <3>2. CASE UNCHANGED ex
      BY <1>1, <3>1, <3>2
    <3>3. CASE Step(e, "clean", "dead")
      <4>1. PICK w \in {"dead"} : ex' = [ex EXCEPT ![e] = w]
        BY <3>3 DEF Step
      <4>2. QED
        BY <2>1, <3>1, <4>1 DEF Running
    <3>4. QED
      BY <2>7, <3>2, <3>3 DEF CleanUpJob
  <2>8. QED
    BY <1>5, <2>2, <2>3, <2>4, <2>5, <2>6, <2>7 DEF Executer
<1>6. CASE UNCHANGED vars
  BY <1>1, <1>6 DEF vars, exVars, jobVars
<1>7. QED
  BY <1>2, <1>3, <1>4, <1>5, <1>6 DEF Next, Manager

-----------------------------------------------------------------------------
(* The invariant and what it implies                                       *)

LEMMA JobInvInit == Init => JobInv
PROOF
<1> SUFFICES ASSUME Init PROVE JobInv
  OBVIOUS
<1>1. \A e \in Executers : ex[e] = "none"
  BY DEF Init
<1>2. TypeOK
  <2>1. 1 \in 1..(NJobs + 1) /\ 0 \in 0..(NJobs + 1)
    BY JobsAreNumbers
  <2>2. cleanup \subseteq {"SUCCEEDED", "FAILED"}
    BY JobsAssumption DEF Init
  <2>3. pool \in [Machines -> Machine]
    BY DEF Init, Machine
  <2>4. machines \in [Executers -> Seq(Machines)] /\ job_machines \in [Jobs -> Seq(Machines)]
    BY DEF Init
  <2>5. added \subseteq Jobs /\ ready_jobs \in Seq(Jobs) /\ raced \subseteq Jobs
    BY DEF Init
  <2>6. /\ mapping \in [Jobs \cup {NoId} -> Executers \cup {Nobody}]
        /\ status \in [Jobs -> Statuses]
        /\ preferred \in [Jobs -> SUBSET Machines]
        /\ killed \in [Executers -> {"no", "now", "yes"}]
        /\ to \in [Executers -> Running \cup Final]
    BY DEF Init, Statuses, Running
  <2>7. ex \in [Executers -> Active \cup {"none", "done", "dead", "leaked"}]
    BY DEF Init
  <2>8. QED
    BY <2>1, <2>2, <2>3, <2>4, <2>5, <2>6, <2>7 DEF Init, TypeOK
<1>3. StartInv
  <2>1. OneBegun
    BY <1>1 DEF OneBegun, Begun
  <2>2. \A e \in Executers : Fits(e) /\ HasOwn(e)
    BY <1>1 DEF Fits, HasOwn, Running
  <2>3. QueueReady /\ PredsFirst /\ GroupVerdict
    BY DEF Init, QueueReady, PredsFirst, GroupVerdict
  <2>4. QED
    BY <1>1, <2>1, <2>2, <2>3 DEF StartInv
<1>4. PoolInv
  <2> SUFFICES ASSUME NEW m \in Machines
               PROVE  Exact(m) /\ ~pool[m].locked
    BY DEF PoolInv, IdleUnlocked
  <2>1. Holders = {}
    BY <1>1 DEF Holders, Running
  <2>2. Grants(m) = {}
    BY <2>1 DEF Grants
  <2>3. pool[m].uses = 0 /\ ~pool[m].locked
    BY DEF Init
  <2>4. QED
    BY <2>2, <2>3, FS_EmptySet DEF Exact
<1>5. AddsJobs
  BY DEF Init, AddsJobs
<1>6. QED
  BY <1>2, <1>3, <1>4, <1>5 DEF JobInv

LEMMA JobInvStep == JobInv /\ [Next]_vars => JobInv'
PROOF
<1> SUFFICES ASSUME JobInv, [Next]_vars PROVE JobInv'
  OBVIOUS
<1>1. TypeOK /\ AddsJobs /\ StartInv /\ PoolInv
  BY DEF JobInv
<1>2. PoolInv' /\ pool' \in [Machines -> Machine]
  BY <1>1, PoolStep
<1>3. TypeOK' /\ AddsJobs' /\ StartInv'
  BY <1>1, <1>2, TypeStep, AddsJobsStep, StartStep
<1>4. QED
  BY <1>2, <1>3 DEF JobInv

\* The JobManager's accounts in every reachable state: unless two executers of
\* a job have tested its status before either changed it, a machine has as many
\* uses as the executers that hold it, through every interleaving of starts,
\* rollbacks and completions, although a completion returns what job.machines
\* are by then; it stays locked while a job has it exclusively, and at most one
\* has.  In any case an unused machine is not locked.
THEOREM JobManagerMachinesAccounted == Spec => []MachinesAccounted
PROOF
<1>1. JobInv => MachinesAccounted
  <2> SUFFICES ASSUME JobInv PROVE MachinesAccounted
    OBVIOUS
  <2>1. TypeOK /\ IdleUnlocked /\ (raced = {} => \A m \in Machines : Exact(m))
    BY DEF JobInv, PoolInv
  <2>2. raced = {} => UsesExact
    BY <2>1 DEF Exact, UsesExact
  <2>3. ASSUME raced = {} PROVE ExclusiveKept
    <3> SUFFICES ASSUME NEW m \in Machines
                 PROVE  /\ \A g \in Grants(m) : Exclusive(g) => pool[m].locked
                        /\ Cardinality({g \in Grants(m) : Exclusive(g)}) <= 1
      BY DEF ExclusiveKept
    <3>1. Exact(m)
      BY <2>1, <2>3
    <3>2. \A g, h \in {x \in Grants(m) : Exclusive(x)} : g = h
      BY <3>1 DEF Exact
    <3>3. Cardinality({g \in Grants(m) : Exclusive(g)}) <= 1
      BY <3>2, AtMostOne
    <3>4. QED
      BY <3>1, <3>3 DEF Exact
  <2>4. QED
    BY <2>1, <2>2, <2>3 DEF MachinesAccounted, IdleUnlocked
<1>2. QED
  BY <1>1, JobInvInit, JobInvStep, PTL DEF Spec

\* However often a job gets into ready_jobs and is started (AddJob and every
\* predecessor's completion may put it there), one executer runs its commands,
\* after its predecessors have succeeded, and the group's status is that of its
\* jobs.  The only way out is the window between the test and the assignment in
\* Change: the jobs of which two executers were in it are exempted, no others.
THEOREM JobManagerJobsOnceInOrder == Spec => []JobsOnceInOrder
PROOF
<1>1. JobInv => JobsOnceInOrder
  <2> SUFFICES ASSUME JobInv PROVE JobsOnceInOrder
    OBVIOUS
  <2>1. StartInv
    BY DEF JobInv
  <2>2. RunsOnce
    <3> SUFFICES ASSUME NEW j \in Jobs \ raced
                 PROVE  Cardinality({e \in Executers : e[1] = j /\ ex[e] \notin {"none", "new", "leaked"}}) <= 1
      BY DEF RunsOnce
    <3>1. \A f, g \in {e \in Executers : e[1] = j /\ ex[e] \notin {"none", "new", "leaked"}} : f = g
      BY <2>1 DEF StartInv, OneBegun, Begun
    <3>2. QED
      BY <3>1, AtMostOne
  <2>3. QED
    BY <2>1, <2>2 DEF StartInv, JobsOnceInOrder
<1>2. QED
  BY <1>1, JobInvInit, JobInvStep, PTL DEF Spec

=============================================================================
