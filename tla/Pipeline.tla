------------------------------ MODULE Pipeline ------------------------------
(***************************************************************************)
(* The framework of bestflags (steering.py, pipeline_process.py,           *)
(* pipeline_worker.py, task.py): Steering, the build stage and the test    *)
(* stage in a ring of queues, set up by _StartExperiment.  A stage is a    *)
(* process that pulls tasks, a pool of workers and a helper process that   *)
(* gives duplicate tasks the result of the one that was worked on.         *)
(*                                                                         *)
(* A task travels as an object with its results; image and cost are the    *)
(* results of the object that is on its way.  A step is one access to a    *)
(* shared queue.                                                           *)
(***************************************************************************)
EXTENDS Generations, SequencesExt

CONSTANTS
  Checksums,       \* of images that the build command can produce
  ErrorImage,      \* the checksum reported with an image "error"
  Costs,           \* of a test
  NumProcesses,    \* workers of each stage
  POISONPILL

BUILD == "BUILD_STAGE"
TEST  == "TEST_STAGE"
Stages == {BUILD, TEST}
NotDone == -1                      \* None

ASSUME PipelineAssumption ==
  \* all below sys.maxint
  /\ Costs \subseteq Nat /\ \E m \in Costs : \A c \in Costs : c <= m
  /\ NumProcesses \in [Stages -> Nat \ {0}]
  /\ NotDone \notin Checksums \cup {ErrorImage} /\ POISONPILL \notin Tasks

\* sys.maxint of a failed test, and ERROR_STRING, which Python takes for greater.
MaxInt == 1 + CHOOSE m \in Costs : \A c \in Costs : c <= m
ErrorCost == MaxInt + 1
Results == Checksums \cup {ErrorImage, NotDone} \cup Costs \cup {MaxInt, ErrorCost}

In(s) == IF s = BUILD THEN "steering_build" ELSE "build_test"
Out(s) == IF s = BUILD THEN "build_test" ELSE "test_steering"

VARIABLES
  \* Steering
  algorithm, steer, waiting, cache,
  queue,           \* the three queues
  \* the results a task carries
  image, cost,
  \* per stage: the process, its workers and its helper
  pc, mycache,
  work_pool,       \* submitted with apply_async, not begun
  working,         \* Work runs
  putting,         \* in Worker between the two puts
  raised,          \* Work raised; apply_async drops the exception
  helper, helper_queue, work_queue, done_dict, waiting_list

steerVars  == <<algorithm, steer, waiting, cache>>
workVars   == <<work_pool, working, putting, raised>>
helperVars == <<helper, helper_queue, work_queue, done_dict, waiting_list>>
vars == <<steerVars, queue, image, cost, pc, mycache, workVars, helperVars>>

\* The identifiers of a stage: flag sets, checksums.
Ids(s) == IF s = BUILD THEN Tasks ELSE Checksums \cup {ErrorImage}

TypeOK ==
  /\ algorithm \in Algorithms
  /\ steer \in {"start", "loop", "done", "dead"}
  /\ \A i \in DOMAIN waiting :
       /\ waiting[i].pool \subseteq Tasks /\ waiting[i].parents \subseteq Tasks
       /\ waiting[i].pending \in 0..Cardinality(waiting[i].pool)
       /\ waiting[i].stucks \in 0..StopThreshold
  /\ cache \subseteq Tasks
  /\ \A q \in DOMAIN queue : queue[q] \in Seq(Tasks \cup {POISONPILL})
  /\ image \in [Tasks -> Checksums \cup {ErrorImage, NotDone}]
  /\ cost \in [Tasks -> Costs \cup {MaxInt, ErrorCost, NotDone}]
  /\ pc \in [Stages -> {"pull", "join", "joinhelper", "done"}]
  /\ \A s \in Stages : mycache[s] \subseteq Ids(s)
  /\ \A s \in Stages :
       /\ work_pool[s] \in Seq(Tasks)
       /\ Cardinality(working[s] \cup putting[s]) <= NumProcesses[s]
       /\ raised[s] \subseteq Tasks
       /\ helper_queue[s] \in Seq(Tasks \cup {POISONPILL})
       /\ work_queue[s] \in Seq(Ids(s) \X Results)
       /\ waiting_list[s] \in Seq(Tasks)
  /\ helper \in [Stages -> {"poll", "drain", "done"}]
  /\ \A s \in Stages : done_dict[s] \in [Ids(s) -> Results]

Init ==
  /\ algorithm \in Algorithms
  /\ steer = "start"
  /\ \E g \in Initial(algorithm) : waiting = <<g>>
  /\ cache = {}
  /\ queue = [q \in {"steering_build", "build_test", "test_steering"} |-> <<>>]
  /\ image = [t \in Tasks |-> NotDone]
  /\ cost = [t \in Tasks |-> NotDone]
  /\ pc = [s \in Stages |-> "pull"]
  /\ mycache = [s \in Stages |-> {}]
  /\ work_pool = [s \in Stages |-> <<>>]
  /\ working = [s \in Stages |-> {}]
  /\ putting = [s \in Stages |-> {}]
  /\ raised = [s \in Stages |-> {}]
  /\ helper = [s \in Stages |-> "poll"]
  /\ helper_queue = [s \in Stages |-> <<>>]
  /\ work_queue = [s \in Stages |-> <<>>]
  /\ done_dict = [s \in Stages |-> [i \in Ids(s) |-> NotDone]]
  /\ waiting_list = [s \in Stages |-> <<>>]

Put(q, ts) == queue' = [queue EXCEPT ![q] = @ \o ts]

-----------------------------------------------------------------------------
(* Steering                                                                *)

\* Send the initial generations.
Submit ==
  /\ steer = "start"
  /\ steer' = "loop"
  /\ \E ts \in SetToSeqs(UNION {waiting[i].pool : i \in DOMAIN waiting}) :
       /\ Put("steering_build", ts)
       /\ cache' = ToSet(ts)
  /\ UNCHANGED <<algorithm, waiting, image, cost, pc, mycache, workVars, helperVars>>

\* UpdateTask of a generation that contains the task.
UpdateTask(g) == [g EXCEPT !.pending = @ - 1]

\* What follows a generation that is done.
Successors(g) ==
  IF IsImproved(algorithm, cost, g) = {} THEN {<<>>}
  ELSE UNION {NextGenerations(algorithm, cost, h, cache) : h \in IsImproved(algorithm, cost, g)}

\* Send the new generations; an empty one fails the assertion.
Proceed(gens) ==
  /\ waiting' = Tail(waiting) \o gens
  /\ \/ /\ \A i \in DOMAIN gens : gens[i].pool # {}
        /\ \E ts \in SetToSeqs(UNION {gens[i].pool : i \in DOMAIN gens}) :
             /\ queue' = [queue EXCEPT !["test_steering"] = Tail(@), !["steering_build"] = @ \o ts]
             /\ cache' = cache \cup ToSet(ts)
        /\ UNCHANGED steer
     \/ /\ \E i \in DOMAIN gens : gens[i].pool = {}
        /\ steer' = "dead"
        /\ queue' = [queue EXCEPT !["test_steering"] = Tail(@)]
        /\ UNCHANGED cache

\* A result arrives.  At any time one generation waits: every algorithm has
\* one first generation, and a generation at most one successor.
Receive ==
  /\ steer = "loop"
  /\ waiting # <<>>
  /\ queue["test_steering"] # <<>>
  /\ \E g \in {UpdateTask(Head(waiting))} :
       \/ /\ g.pending > 0
          /\ waiting' = <<g>> \o Tail(waiting)
          /\ queue' = [queue EXCEPT !["test_steering"] = Tail(@)]
          /\ UNCHANGED <<steer, cache>>
       \/ /\ g.pending = 0
          /\ \E gens \in Successors(g) : Proceed(gens)
  /\ UNCHANGED <<algorithm, image, cost, pc, mycache, workVars, helperVars>>

Finish ==
  /\ steer = "loop"
  /\ waiting = <<>>
  /\ steer' = "done"
  /\ Put("steering_build", <<POISONPILL>>)
  /\ UNCHANGED <<algorithm, waiting, cache, image, cost, pc, mycache, workVars, helperVars>>

-----------------------------------------------------------------------------
(* Task                                                                    *)

GetIdentifier(s, t) == IF s = BUILD THEN t ELSE image[t]
GetResult(s, t) == IF s = BUILD THEN image[t] ELSE cost[t]

\* SetResult of the tasks in T.
SetResult(s, T, r) ==
  /\ image' = IF s = BUILD THEN [t \in Tasks |-> IF t \in T THEN r ELSE image[t]] ELSE image
  /\ cost' = IF s = TEST THEN [t \in Tasks |-> IF t \in T THEN r ELSE cost[t]] ELSE cost

\* What Work of a stage can find, after all tries.
Outcomes(s, t) ==
  IF s = BUILD THEN Checksums \cup {ErrorImage}
  ELSE IF image[t] = ErrorImage THEN {ErrorCost} ELSE Costs \cup {MaxInt}

-----------------------------------------------------------------------------
(* A stage                                                                 *)

\* Mutant: the workers' tasks are not remembered.
MutPull(s) ==
  /\ pc[s] = "pull"
  /\ queue[In(s)] # <<>>
  /\ \E t \in {Head(queue[In(s)])} :
       /\ t # POISONPILL
       /\ queue' = [queue EXCEPT ![In(s)] = Tail(@)]
       /\ \/ /\ GetIdentifier(s, t) \in mycache[s]
             /\ helper_queue' = [helper_queue EXCEPT ![s] = Append(@, t)]
             /\ UNCHANGED <<mycache, work_pool>>
          \/ /\ GetIdentifier(s, t) \notin mycache[s]
             /\ work_pool' = [work_pool EXCEPT ![s] = Append(@, t)]
             /\ UNCHANGED <<mycache, helper_queue>>
  /\ UNCHANGED <<steerVars, image, cost, pc, working, putting, raised, helper, work_queue, done_dict, waiting_list>>

\* A task goes to the workers, or to the helper if one like it came before.
Pull(s) ==
  /\ pc[s] = "pull"
  /\ queue[In(s)] # <<>>
  /\ \E t \in {Head(queue[In(s)])} :
       /\ t # POISONPILL
       /\ queue' = [queue EXCEPT ![In(s)] = Tail(@)]
       /\ \/ /\ GetIdentifier(s, t) \in mycache[s]
             /\ helper_queue' = [helper_queue EXCEPT ![s] = Append(@, t)]
             /\ UNCHANGED <<mycache, work_pool>>
          \/ /\ GetIdentifier(s, t) \notin mycache[s]
             /\ work_pool' = [work_pool EXCEPT ![s] = Append(@, t)]
             /\ mycache' = [mycache EXCEPT ![s] = @ \cup {GetIdentifier(s, t)}]
             /\ UNCHANGED helper_queue
  /\ UNCHANGED <<steerVars, image, cost, pc, working, putting, raised, helper, work_queue, done_dict, waiting_list>>

\* The pill is passed on before workers and helper have finished.
PullPill(s) ==
  /\ pc[s] = "pull"
  /\ queue[In(s)] # <<>>
  /\ Head(queue[In(s)]) = POISONPILL
  /\ queue' = [queue EXCEPT ![In(s)] = Tail(@), ![Out(s)] = Append(@, POISONPILL)]
  /\ pc' = [pc EXCEPT ![s] = "join"]
  /\ UNCHANGED <<steerVars, image, cost, mycache, workVars, helperVars>>

\* work_pool.join, then the helper's pill.
JoinWorkers(s) ==
  /\ pc[s] = "join"
  /\ work_pool[s] = <<>> /\ working[s] = {} /\ putting[s] = {}
  /\ pc' = [pc EXCEPT ![s] = "joinhelper"]
  /\ helper_queue' = [helper_queue EXCEPT ![s] = Append(@, POISONPILL)]
  /\ UNCHANGED <<steerVars, queue, image, cost, mycache, workVars, helper, work_queue, done_dict, waiting_list>>

JoinHelper(s) ==
  /\ pc[s] = "joinhelper"
  /\ helper[s] = "done"
  /\ pc' = [pc EXCEPT ![s] = "done"]
  /\ UNCHANGED <<steerVars, queue, image, cost, mycache, workVars, helperVars>>

-----------------------------------------------------------------------------
(* Worker                                                                  *)

\* A free process of the pool takes the next task.
Begin(s) ==
  /\ work_pool[s] # <<>>
  /\ Cardinality(working[s] \cup putting[s]) < NumProcesses[s]
  /\ working' = [working EXCEPT ![s] = @ \cup {Head(work_pool[s])}]
  /\ work_pool' = [work_pool EXCEPT ![s] = Tail(@)]
  /\ UNCHANGED <<steerVars, queue, image, cost, pc, mycache, putting, raised, helperVars>>

\* Work succeeds; the helper is told.
Work(s, t) ==
  /\ t \in working[s]
  /\ \E r \in Outcomes(s, t) :
       /\ SetResult(s, {t}, r)
       /\ work_queue' = [work_queue EXCEPT ![s] = Append(@, <<GetIdentifier(s, t), r>>)]
  /\ working' = [working EXCEPT ![s] = @ \ {t}]
  /\ putting' = [putting EXCEPT ![s] = @ \cup {t}]
  /\ UNCHANGED <<steerVars, queue, pc, mycache, work_pool, raised, helper, helper_queue, done_dict, waiting_list>>

\* Work raises: the command cannot be run, prints something else than five
\* fields, or no try of a build prints anything but "error" (checksum is
\* unbound then).
WorkRaises(s, t) ==
  /\ t \in working[s]
  /\ working' = [working EXCEPT ![s] = @ \ {t}]
  /\ raised' = [raised EXCEPT ![s] = @ \cup {t}]
  /\ UNCHANGED <<steerVars, queue, image, cost, pc, mycache, work_pool, putting, helperVars>>

PutResult(s, t) ==
  /\ t \in putting[s]
  /\ Put(Out(s), <<t>>)
  /\ putting' = [putting EXCEPT ![s] = @ \ {t}]
  /\ UNCHANGED <<steerVars, image, cost, pc, mycache, work_pool, working, raised, helperVars>>

-----------------------------------------------------------------------------
(* Helper                                                                  *)

\* A duplicate task: resolve it, or keep it until its result is known.
HelperGet(s) ==
  /\ helper[s] = "poll"
  /\ helper_queue[s] # <<>>
  /\ helper_queue' = [helper_queue EXCEPT ![s] = Tail(@)]
  /\ \E t \in {Head(helper_queue[s])} :
       \/ /\ t = POISONPILL
          /\ helper' = [helper EXCEPT ![s] = "drain"]
          /\ UNCHANGED <<queue, image, cost, waiting_list>>
       \/ /\ t # POISONPILL
          /\ \E r \in {done_dict[s][GetIdentifier(s, t)]} :
               \/ /\ r # NotDone
                  /\ SetResult(s, {t}, r)
                  /\ Put(Out(s), <<t>>)
                  /\ UNCHANGED waiting_list
               \/ /\ r = NotDone
                  /\ waiting_list' = [waiting_list EXCEPT ![s] = Append(@, t)]
                  /\ UNCHANGED <<queue, image, cost>>
          /\ UNCHANGED helper
  /\ UNCHANGED <<steerVars, pc, mycache, workVars, work_queue, done_dict>>

\* Mutant: a result does not reach the duplicates that wait for it.
MutResolved(s, id) == {}

\* The waiting duplicates of a result.
Resolved(s, id) == {t \in ToSet(waiting_list[s]) : GetIdentifier(s, t) = id}

\* The elements of seq that are in T, in the order of seq.
InOrder(seq, T) ==
  {ts \in SetToSeqs(T) : \A i, j \in DOMAIN ts : i < j =>
     \E h, k \in DOMAIN seq : h < k /\ seq[h] = ts[i] /\ seq[k] = ts[j]}

\* GetResultFromCompletedQueue, while polling and while duplicates are left.
GetResultFromCompletedQueue(s) ==
  /\ helper[s] = "poll" \/ (helper[s] = "drain" /\ waiting_list[s] # <<>>)
  /\ work_queue[s] # <<>>
  /\ work_queue' = [work_queue EXCEPT ![s] = Tail(@)]
  /\ \E m \in {Head(work_queue[s])} :
       /\ done_dict' = [done_dict EXCEPT ![s][m[1]] = m[2]]
       /\ SetResult(s, Resolved(s, m[1]), m[2])
       /\ \E ts \in InOrder(waiting_list[s], Resolved(s, m[1])) : Put(Out(s), ts)
       /\ \E ts \in InOrder(waiting_list[s], ToSet(waiting_list[s]) \ Resolved(s, m[1])) :
            waiting_list' = [waiting_list EXCEPT ![s] = ts]
  /\ UNCHANGED <<steerVars, pc, mycache, workVars, helper, helper_queue>>

HelperEnds(s) ==
  /\ helper[s] = "drain"
  /\ waiting_list[s] = <<>>
  /\ helper' = [helper EXCEPT ![s] = "done"]
  /\ UNCHANGED <<steerVars, queue, image, cost, pc, mycache, workVars,
                 helper_queue, work_queue, done_dict, waiting_list>>

-----------------------------------------------------------------------------

Stage(s) ==
  \/ Pull(s) \/ PullPill(s) \/ JoinWorkers(s) \/ JoinHelper(s)
  \/ Begin(s)
  \/ \E t \in Tasks : Work(s, t) \/ WorkRaises(s, t) \/ PutResult(s, t)
  \/ HelperGet(s) \/ GetResultFromCompletedQueue(s) \/ HelperEnds(s)

Steering == Submit \/ Receive \/ Finish

Next == Steering \/ \E s \in Stages : Stage(s)

\* Every process goes on while it can.
Spec == Init /\ [][Next]_vars /\ WF_vars(Next)

-----------------------------------------------------------------------------

InFlight(q) == ToSet(q) \ {POISONPILL}

\* Where the tasks are between Steering's two queues.
Places ==
  {InFlight(queue[q]) : q \in DOMAIN queue} \cup
  UNION {{InFlight(helper_queue[s]), ToSet(waiting_list[s]), ToSet(work_pool[s]),
          working[s], putting[s], raised[s]} : s \in Stages}
OnTheWay == UNION Places

\* Steering waits for exactly the tasks that are on their way: none gets lost
\* between processes, workers and helpers (except with an exception), and none
\* of an earlier generation is still to come.
PendingOnTheWay ==
  steer = "loop" =>
    /\ \A i \in DOMAIN waiting : waiting[i].pending = Cardinality(waiting[i].pool \cap OnTheWay)
    /\ OnTheWay \subseteq UNION {waiting[i].pool : i \in DOMAIN waiting}

\* A task that has come back carries its results, so that Steering compares no
\* cost with None, although duplicates are resolved by somebody else's result.
ResultsCarried == \A t \in cache \ OnTheWay : image[t] # NotDone /\ cost[t] # NotDone

\* Tasks with the same image have the same cost, although tests are not
\* repeatable: only the first is tested and duplicates get its result.
SameImageSameCost ==
  \A t, u \in Tasks :
    image[t] = image[u] /\ image[t] # NotDone /\ cost[t] # NotDone /\ cost[u] # NotDone => cost[t] = cost[u]

\* A stage passes the pill on before its workers and helper have finished;
\* still nothing is on its way behind a pill.
NothingBehindThePill ==
  (steer = "done" \/ \E s \in Stages : pc[s] # "pull") => OnTheWay = {}

\* Every task that Steering waits for is delivered, once, with its results and
\* before the pill.
ResultsDelivered ==
  TypeOK /\ PendingOnTheWay /\ ResultsCarried /\ SameImageSameCost /\ NothingBehindThePill

\* When a search along neighbours ends, a best task of all has only been left
\* because all its neighbours were tested.
LocalOptimum ==
  steer = "done" /\ algorithm # "GA" =>
    \E t \in Best(cost, cache) : Neighbours(algorithm, t) \subseteq cache

Ended == steer = "done" /\ \A s \in Stages : pc[s] = "done"

\* All processes end, unless a worker's exception is dropped or Steering is
\* given an empty generation.
ExperimentEnds == <>(Ended \/ steer = "dead" \/ \E s \in Stages : raised[s] # {})
=============================================================================
