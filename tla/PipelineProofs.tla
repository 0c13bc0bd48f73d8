--------------------------- MODULE PipelineProofs ---------------------------
(***************************************************************************)
(* The pipeline delivers every task that Steering waits for, and a search  *)
(* along neighbours ends at a local optimum, for any flags, algorithms,    *)
(* results and numbers of workers.                                         *)
(*                                                                         *)
(* IInv says that there are functions kind and at, of the tasks to their   *)
(* places, so that every list and set of the stages contains just the      *)
(* tasks whose place it is, each once (Located).  A step then moves tasks  *)
(* from one place to another (Place), and the lemmas on moves say what     *)
(* that does to each list and set.  The places tell which results a task   *)
(* carries (Data), and their number is the pending counter (Pending).      *)
(*                                                                         *)
(* Known is about the helper of the test stage: an image is tested once,   *)
(* and its cost is in done_dict or on the way to it.  Optimum is about the *)
(* search: the candidate is a best one of all tasks outside the generation *)
(* that is tested, which contains what is left of its neighbours.          *)
(***************************************************************************)
EXTENDS Pipeline, FiniteSetTheorems, SequenceTheorems, TLAPS

Queues == {"steering_build", "build_test", "test_steering"}

\* The results that a stage can find.
Found(s) == IF s = BUILD THEN Checksums \cup {ErrorImage} ELSE Costs \cup {MaxInt, ErrorCost}

Gens == [pool : SUBSET Tasks, pending : Nat, parents : SUBSET Tasks, stucks : 0..StopThreshold]

-----------------------------------------------------------------------------
(* The inductive invariant                                                 *)

SteerType ==
  /\ algorithm \in Algorithms
  /\ steer \in {"start", "loop", "done", "dead"}
  /\ cache \in SUBSET Tasks
  /\ waiting = <<>> \/ \E g \in Gens : waiting = <<g>> /\ g.pending <= Cardinality(g.pool)

ResultType ==
  /\ image \in [Tasks -> Found(BUILD) \cup {NotDone}]
  /\ cost \in [Tasks -> Found(TEST) \cup {NotDone}]

ProcessType ==
  /\ queue \in [Queues -> Seq(Tasks \cup {POISONPILL})]
  /\ pc \in [Stages -> {"pull", "join", "joinhelper", "done"}]
  /\ DOMAIN mycache = Stages /\ \A s \in Stages : mycache[s] \in SUBSET Ids(s)

WorkerType ==
  /\ work_pool \in [Stages -> Seq(Tasks)]
  /\ working \in [Stages -> SUBSET Tasks]
  /\ putting \in [Stages -> SUBSET Tasks]
  /\ raised \in [Stages -> SUBSET Tasks]
  /\ \A s \in Stages : Cardinality(working[s] \cup putting[s]) <= NumProcesses[s]

HelperType ==
  /\ helper \in [Stages -> {"poll", "drain", "done"}]
  /\ helper_queue \in [Stages -> Seq(Tasks \cup {POISONPILL})]
  /\ waiting_list \in [Stages -> Seq(Tasks)]
  /\ DOMAIN work_queue = Stages /\ \A s \in Stages : work_queue[s] \in Seq(Ids(s) \X Found(s))
  /\ DOMAIN done_dict = Stages /\ \A s \in Stages : done_dict[s] \in [Ids(s) -> Found(s) \cup {NotDone}]

TypeInv == SteerType /\ ResultType /\ ProcessType /\ WorkerType /\ HelperType

NoPill(seq) == \A i \in 1..Len(seq) : seq[i] # POISONPILL

\* The pill is sent when Steering is done.
Pills ==
  steer # "done" =>
    /\ \A q \in Queues : NoPill(queue[q])
    /\ \A s \in Stages : pc[s] = "pull"

Kinds == {"out", "queue", "helper", "wait", "pool", "work", "put", "raised"}
Spots == Queues \cup Stages

\* The tasks whose place is x among those of a kind.
Here(kind, at, k, x) == {t \in Tasks : kind[t] = k /\ at[t] = x}

\* The tasks between Steering's two queues.
Way(kind) == {t \in Tasks : kind[t] # "out"}

\* seq contains each task of T once, and no other.
Lists(seq, T) ==
  /\ \A i \in 1..Len(seq) : seq[i] = POISONPILL \/ seq[i] \in T
  /\ \A t \in T : \E i \in 1..Len(seq) : seq[i] = t
  /\ \A i, j \in 1..Len(seq) : seq[i] = seq[j] /\ seq[i] # POISONPILL => i = j

InLists(kind, at, k, f, X) == \A x \in X : Lists(f[x], Here(kind, at, k, x))
InSets(kind, at, k, f) == \A x \in Stages : f[x] = Here(kind, at, k, x)

\* Every task is in at most one place, and there once.
Located(kind, at) ==
  /\ InLists(kind, at, "queue", queue, Queues)
  /\ InLists(kind, at, "helper", helper_queue, Stages)
  /\ InLists(kind, at, "wait", waiting_list, Stages)
  /\ InLists(kind, at, "pool", work_pool, Stages)
  /\ InSets(kind, at, "work", working)
  /\ InSets(kind, at, "put", putting)
  /\ InSets(kind, at, "raised", raised)

InStage == {"helper", "wait", "pool", "work"}

\* Places before the build, and between the build and the test.
Early(k, x) == (k = "queue" /\ x = "steering_build") \/ (k \in InStage /\ x = BUILD)
Mid(k, x) ==
  \/ k = "put" /\ x = BUILD
  \/ k = "queue" /\ x = "build_test"
  \/ k \in InStage /\ x = TEST
\* Places after the test.
Late(k, x) == k = "out" \/ (k = "queue" /\ x = "test_steering") \/ (k = "put" /\ x = TEST)

\* Places that exist.
Fits(k, x) == (k = "queue" => x \in Queues) /\ (k \notin {"out", "queue"} => x \in Stages)

\* Which results the tasks carry.
Data(im, co, ca, kind, at) ==
  \A t \in Tasks :
    /\ Fits(kind[t], at[t])
    /\ kind[t] # "out" => t \in ca
    /\ t \notin ca => im[t] = NotDone /\ co[t] = NotDone
    /\ Early(kind[t], at[t]) => im[t] = NotDone /\ co[t] = NotDone
    /\ Mid(kind[t], at[t]) => im[t] # NotDone /\ co[t] = NotDone
    /\ Late(kind[t], at[t]) /\ t \in ca => im[t] # NotDone /\ co[t] # NotDone

Busy(kind, at) == {t \in Tasks : kind[t] \in {"pool", "work"} /\ at[t] = TEST}

\* An image is tested by one task of B at a time, and never again: what is
\* known of it is in done_dict or on its way to it.
Known(im, co, dd, wq, my, B) ==
  /\ \A t \in Tasks : co[t] # NotDone =>
       /\ im[t] \in Ids(TEST)
       /\ dd[im[t]] = co[t] \/ \E i \in 1..Len(wq) : wq[i] = <<im[t], co[t]>>
  /\ \A i, j \in 1..Len(wq) : wq[i][1] = wq[j][1] => i = j
  /\ \A i \in 1..Len(wq) : dd[wq[i][1]] = NotDone
  /\ \A t \in B :
       /\ im[t] \in my /\ dd[im[t]] = NotDone
       /\ \A i \in 1..Len(wq) : wq[i][1] # im[t]
  /\ \A t, u \in B : im[t] = im[u] => t = u
  /\ \A id \in Ids(TEST) \ my : dd[id] = NotDone /\ \A i \in 1..Len(wq) : wq[i][1] # id

\* A first generation of a search along neighbours.
Fresh(al, g) ==
  al # "GA" =>
    \/ g.parents = {}
    \/ \E b \in g.pool : g.parents = {b} /\ Neighbours(al, b) \subseteq g.pool

\* What Steering waits for.
Pending(kind) ==
  /\ steer = "start" =>
       /\ cache = {} /\ Way(kind) = {}
       /\ \E g \in Gens : waiting = <<g>> /\ Fresh(algorithm, g) /\ g.pending = Cardinality(g.pool)
  /\ steer = "loop" =>
       IF waiting = <<>> THEN Way(kind) = {}
       ELSE \A g \in Gens : waiting = <<g>> => g.pending = Cardinality(Way(kind)) /\ Way(kind) \subseteq g.pool
  /\ steer = "done" => Way(kind) = {} /\ waiting = <<>>

\* The candidate of a search is the best of the tasks outside the generation
\* that is tested, which contains the rest of the candidate's neighbours.
Searching(al, co, ca, g) ==
  /\ g.pool \subseteq ca
  /\ g.parents = {} => ca \subseteq g.pool
  /\ \A b \in g.parents :
       /\ g.parents = {b} /\ b \in ca /\ Neighbours(al, b) \subseteq ca
       /\ \A t \in ca \ g.pool : co[b] <= co[t]
       /\ b \in g.pool => ca \subseteq g.pool

Searched(al, co, ca) == \E t \in Best(co, ca) : Neighbours(al, t) \subseteq ca

Optimum ==
  algorithm # "GA" =>
    /\ waiting = <<>> /\ steer \in {"loop", "done"} => Searched(algorithm, cost, cache)
    /\ \A g \in Gens : waiting = <<g>> /\ steer = "loop" => Searching(algorithm, cost, cache, g)

Inside(kind, at) ==
  /\ Located(kind, at)
  /\ Data(image, cost, cache, kind, at)
  /\ Known(image, cost, done_dict[TEST], work_queue[TEST], mycache[TEST], Busy(kind, at))
  /\ Pending(kind)

IInv ==
  /\ TypeInv /\ Pills /\ Optimum
  /\ \E kind \in [Tasks -> Kinds], at \in [Tasks -> Spots] : Inside(kind, at)

-----------------------------------------------------------------------------
(* Constants                                                               *)

\* The stages and their queues.
LEMMA Names ==
  /\ BUILD # TEST /\ Stages = {BUILD, TEST}
  /\ BUILD \notin Queues /\ TEST \notin Queues
  /\ \A s \in Stages : In(s) \in Queues /\ Out(s) \in Queues /\ In(s) # Out(s)
  /\ In(BUILD) = "steering_build" /\ Out(BUILD) = "build_test"
  /\ In(TEST) = "build_test" /\ Out(TEST) = "test_steering"
BY DEF BUILD, TEST, Stages, Queues, In, Out

\* A failed test's cost is a number greater than all.
LEMMA MaxIntNat == MaxInt \in Nat /\ ErrorCost \in Nat
<1>1. PICK m \in Costs : \A c \in Costs : c <= m
  BY PipelineAssumption
<1>2. PICK n : n = CHOOSE x \in Costs : \A c \in Costs : c <= x
  OBVIOUS
<1>3. n \in Costs
  BY <1>1, <1>2
<1>4. n \in Nat
  BY <1>3, PipelineAssumption
<1>5. MaxInt = 1 + n
  BY <1>2, Zenon DEF MaxInt
<1>6. QED
  BY <1>4, <1>5 DEF ErrorCost

\* A stage finds results that are not NotDone; images are the identifiers of tests.
LEMMA FoundResults ==
  /\ \A s \in Stages : Found(s) \subseteq Results /\ NotDone \notin Found(s)
  /\ Found(BUILD) = Checksums \cup {ErrorImage} /\ Found(BUILD) = Ids(TEST)
  /\ Found(TEST) = Costs \cup {MaxInt, ErrorCost} /\ Found(TEST) \subseteq Nat
  /\ Ids(BUILD) = Tasks
<1>1. NotDone \notin Found(BUILD) /\ Found(BUILD) = Checksums \cup {ErrorImage} /\ Found(BUILD) = Ids(TEST)
      /\ Ids(BUILD) = Tasks /\ Found(TEST) = Costs \cup {MaxInt, ErrorCost}
  BY PipelineAssumption, Names DEF Found, Ids
<1>2. Found(TEST) \subseteq Nat /\ NotDone \notin Nat
  BY <1>1, MaxIntNat, PipelineAssumption DEF NotDone
<1>3. QED
  BY <1>1, <1>2, Names DEF Results

\* A work pool has a process.
LEMMA Processes == \A s \in Stages : NumProcesses[s] \in Nat /\ NumProcesses[s] >= 1
BY PipelineAssumption

-----------------------------------------------------------------------------
(* Queues and the tasks they contain                                       *)

\* What is put into queues.
Items == Tasks \cup {POISONPILL}

\* The pill is not taken for a task.
LEMMA PillNoTask == POISONPILL \notin Tasks
BY PipelineAssumption

\* The first task of a list leaves it.
LEMMA TakeTask ==
  ASSUME NEW q \in Seq(Items), q # <<>>, Head(q) # POISONPILL, NEW T \in SUBSET Tasks, Lists(q, T)
  PROVE  /\ Head(q) \in T
         /\ Lists(Tail(q), T \ {Head(q)})
         /\ Tail(q) \in Seq(Items)
<1>1. Len(q) \in Nat /\ Len(q) >= 1 /\ Head(q) = q[1]
  BY EmptySeq
<1>2. /\ Tail(q) \in Seq(Items) /\ Len(Tail(q)) = Len(q) - 1
      /\ \A i \in 1..Len(Tail(q)) : Tail(q)[i] = q[i + 1]
  BY HeadTailProperties
<1>3. 1 \in 1..Len(q) /\ \A i \in 1..Len(Tail(q)) : i + 1 \in 1..Len(q) /\ i + 1 # 1 /\ i \in Nat
  BY <1>1, <1>2
<1>4. Head(q) \in T
  BY <1>1, <1>3 DEF Lists
<1>5. \A i \in 1..Len(Tail(q)) : Tail(q)[i] = POISONPILL \/ Tail(q)[i] \in T \ {Head(q)}
  BY <1>1, <1>2, <1>3 DEF Lists
<1>6. ASSUME NEW t \in T \ {Head(q)}
      PROVE  \E i \in 1..Len(Tail(q)) : Tail(q)[i] = t
  <2>1. PICK k \in 1..Len(q) : q[k] = t
    BY DEF Lists
  <2>2. k # 1 /\ k - 1 \in 1..Len(Tail(q)) /\ (k - 1) + 1 = k
    BY <1>1, <1>2, <2>1
  <2>3. QED
    BY <1>2, <2>1, <2>2
<1>7. ASSUME NEW i \in 1..Len(Tail(q)), NEW j \in 1..Len(Tail(q)),
             Tail(q)[i] = Tail(q)[j], Tail(q)[i] # POISONPILL
      PROVE  i = j
  <2>1. i + 1 = j + 1
    BY <1>2, <1>3, <1>7 DEF Lists
  <2>2. QED
    BY <2>1, <1>3
<1>8. QED
  BY <1>2, <1>4, <1>5, <1>6, <1>7 DEF Lists

\* The pill leaves a list.
LEMMA TakePill ==
  ASSUME NEW q \in Seq(Items), q # <<>>, Head(q) = POISONPILL, NEW T \in SUBSET Tasks, Lists(q, T)
  PROVE  /\ Lists(Tail(q), T)
         /\ Tail(q) \in Seq(Items)
<1>1. Len(q) \in Nat /\ Len(q) >= 1 /\ Head(q) = q[1]
  BY EmptySeq
<1>2. /\ Tail(q) \in Seq(Items) /\ Len(Tail(q)) = Len(q) - 1
      /\ \A i \in 1..Len(Tail(q)) : Tail(q)[i] = q[i + 1]
  BY HeadTailProperties
<1>3. \A i \in 1..Len(Tail(q)) : i + 1 \in 1..Len(q) /\ i \in Nat
  BY <1>1, <1>2
<1>4. \A i \in 1..Len(Tail(q)) : Tail(q)[i] = POISONPILL \/ Tail(q)[i] \in T
  BY <1>2, <1>3 DEF Lists
<1>5. ASSUME NEW t \in T
      PROVE  \E i \in 1..Len(Tail(q)) : Tail(q)[i] = t
  <2>1. PICK k \in 1..Len(q) : q[k] = t
    BY DEF Lists
  <2>2. k # 1 /\ k - 1 \in 1..Len(Tail(q)) /\ (k - 1) + 1 = k
    BY <1>1, <1>2, <2>1, PillNoTask
  <2>3. QED
    BY <1>2, <2>1, <2>2
<1>6. ASSUME NEW i \in 1..Len(Tail(q)), NEW j \in 1..Len(Tail(q)),
             Tail(q)[i] = Tail(q)[j], Tail(q)[i] # POISONPILL
      PROVE  i = j
  <2>1. i + 1 = j + 1
    BY <1>2, <1>3, <1>6 DEF Lists
  <2>2. QED
    BY <2>1, <1>3
<1>7. QED
  BY <1>2, <1>4, <1>5, <1>6 DEF Lists

\* Two lists of different tasks, one after the other.
LEMMA PutTasks ==
  ASSUME NEW q \in Seq(Items), NEW r \in Seq(Items), NEW T \in SUBSET Tasks, NEW U \in SUBSET Tasks,
         Lists(q, T), Lists(r, U), T \cap U = {}
  PROVE  Lists(q \o r, T \cup U) /\ q \o r \in Seq(Items)
<1> DEFINE n == Len(q)
<1>1. Len(q) \in Nat /\ Len(r) \in Nat
  BY LenProperties
<1>2. PICK p : p = q \o r
  OBVIOUS
<1>3. /\ p \in Seq(Items) /\ Len(p) = Len(q) + Len(r)
      /\ \A i \in 1..(Len(q) + Len(r)) : p[i] = IF i <= Len(q) THEN q[i] ELSE r[i - Len(q)]
  BY <1>2, ConcatProperties
<1>4. \A i \in 1..Len(p) : \/ i \in 1..Len(q) /\ p[i] = q[i]
                           \/ i - Len(q) \in 1..Len(r) /\ p[i] = r[i - Len(q)]
  BY <1>1, <1>3
<1>5. /\ \A i \in 1..Len(q) : i \in 1..Len(p) /\ p[i] = q[i]
      /\ \A i \in 1..Len(r) : i + Len(q) \in 1..Len(p) /\ p[i + Len(q)] = r[i]
  <2>1. \A i \in 1..Len(q) : i \in 1..Len(p) /\ p[i] = q[i]
    BY <1>1, <1>3
  <2>2. ASSUME NEW i \in 1..Len(r)
        PROVE  i + Len(q) \in 1..Len(p) /\ p[i + Len(q)] = r[i]
    <3>1. i + Len(q) \in 1..(Len(q) + Len(r)) /\ ~(i + Len(q) <= Len(q)) /\ (i + Len(q)) - Len(q) = i
      BY <1>1
    <3>2. QED
      BY <3>1, <1>3
  <2>3. QED
    BY <2>1, <2>2
<1>6. \A i \in 1..Len(p) : p[i] = POISONPILL \/ p[i] \in T \cup U
  BY <1>4 DEF Lists
<1>7. \A t \in T \cup U : \E i \in 1..Len(p) : p[i] = t
  <2>1. ASSUME NEW t \in T PROVE \E i \in 1..Len(p) : p[i] = t
    BY <1>5 DEF Lists
  <2>2. ASSUME NEW t \in U PROVE \E i \in 1..Len(p) : p[i] = t
    <3>1. PICK k \in 1..Len(r) : r[k] = t
      BY DEF Lists
    <3>2. QED
      BY <3>1, <1>5
  <2>3. QED
    BY <2>1, <2>2
<1>8. ASSUME NEW i \in 1..Len(p), NEW j \in 1..Len(p), p[i] = p[j], p[i] # POISONPILL
      PROVE  i = j
  <2>1. CASE i \in 1..Len(q) /\ p[i] = q[i]
    <3>1. p[i] \in T /\ p[j] \notin U
      BY <2>1, <1>8 DEF Lists
    <3>2. j \in 1..Len(q) /\ p[j] = q[j]
      BY <3>1, <1>4, <1>8 DEF Lists
    <3>3. QED
      BY <2>1, <3>2, <1>8 DEF Lists
  <2>2. CASE i - Len(q) \in 1..Len(r) /\ p[i] = r[i - Len(q)]
    <3>1. p[i] \in U /\ p[j] \notin T
      BY <2>2, <1>8 DEF Lists
    <3>2. j - Len(q) \in 1..Len(r) /\ p[j] = r[j - Len(q)]
      BY <3>1, <1>4, <1>8 DEF Lists
    <3>3. i - Len(q) = j - Len(q)
      BY <2>2, <3>2, <1>8 DEF Lists
    <3>4. QED
      BY <3>3, <1>1
  <2>3. QED
    BY <1>4, <2>1, <2>2
<1>9. Lists(p, T \cup U)
  BY <1>6, <1>7, <1>8 DEF Lists
<1>10. QED
  BY <1>2, <1>3, <1>9

\* A list of one task.
LEMMA ListsOne ==
  ASSUME NEW t \in Tasks
  PROVE  Lists(<<t>>, {t}) /\ <<t>> \in Seq(Tasks) /\ <<t>> \in Seq(Items)
BY DEF Lists, Items

\* A list of the pill only.
LEMMA ListsPill == Lists(<<POISONPILL>>, {}) /\ <<POISONPILL>> \in Seq(Items)
BY DEF Lists, Items

\* A task that is not in a list is put to its end.
LEMMA AppendTask ==
  ASSUME NEW q \in Seq(Items), NEW T \in SUBSET Tasks, Lists(q, T), NEW t \in Tasks, t \notin T
  PROVE  Lists(Append(q, t), T \cup {t}) /\ Append(q, t) \in Seq(Items)
<1>1. Append(q, t) = q \o <<t>>
  BY AppendIsConcat DEF Items
<1>2. QED
  BY <1>1, ListsOne, PutTasks

\* The pill is put to the end of a list.
LEMMA AppendPill ==
  ASSUME NEW q \in Seq(Items), NEW T \in SUBSET Tasks, Lists(q, T)
  PROVE  Lists(Append(q, POISONPILL), T) /\ Append(q, POISONPILL) \in Seq(Items)
<1>1. Append(q, POISONPILL) = q \o <<POISONPILL>>
  BY AppendIsConcat DEF Items
<1>2. Lists(q \o <<POISONPILL>>, T \cup {}) /\ q \o <<POISONPILL>> \in Seq(Items)
  BY ListsPill, PutTasks
<1>3. T \cup {} = T
  OBVIOUS
<1>4. QED
  BY <1>1, <1>2, <1>3

\* A sequence of a set of tasks.
LEMMA SeqOfTasks ==
  ASSUME NEW T \in SUBSET Tasks, NEW ts \in SetToSeqs(T)
  PROVE  /\ Lists(ts, T) /\ ts \in Seq(Tasks) /\ ts \in Seq(Items)
         /\ NoPill(ts)
         /\ ToSet(ts) = T
<1>1. IsFiniteSet(T) /\ Cardinality(T) \in Nat
  BY GenerationsAssumption, FS_Subset, FS_CardinalityType
<1>2. PICK n \in Nat : n = Cardinality(T)
  BY <1>1
<1>3. ts \in [1..n -> T] /\ \A i, j \in 1..n : i # j => ts[i] # ts[j]
  BY <1>2 DEF SetToSeqs
<1>4. ts \in Injection(1..n, T)
  BY <1>3 DEF Injection, IsInjective
<1>5. IsFiniteSet(1..n) /\ Cardinality(1..n) = n
  BY FS_Interval
<1>6. ts \in Surjection(1..n, T)
  BY <1>1, <1>2, <1>4, <1>5, FS_Injection
<1>7. \A t \in T : \E i \in 1..n : ts[i] = t
  BY <1>6 DEF Surjection
<1>8. ts \in Seq(T) /\ Len(ts) = n
  BY <1>3
<1>9. ts \in Seq(Tasks) /\ ts \in Seq(Items)
  BY <1>8, SeqMonotonic DEF Items
<1>10. Lists(ts, T) /\ NoPill(ts)
  BY <1>3, <1>7, <1>8, PillNoTask DEF Lists, NoPill
<1>11. ToSet(ts) = T
  BY <1>3, <1>7, <1>8 DEF ToSet
<1>12. QED
  BY <1>9, <1>10, <1>11

\* A queue without pill stays so when its first task is taken,
LEMMA NoPillTail ==
  ASSUME NEW q \in Seq(Items), q # <<>>, NoPill(q)
  PROVE  NoPill(Tail(q)) /\ Head(q) # POISONPILL
<1>1. Len(q) \in Nat /\ Len(q) >= 1 /\ Head(q) = q[1]
  BY EmptySeq
<1>2. /\ Len(Tail(q)) = Len(q) - 1
      /\ \A i \in 1..Len(Tail(q)) : Tail(q)[i] = q[i + 1]
  BY HeadTailProperties
<1>3. 1 \in 1..Len(q) /\ \A i \in 1..Len(Tail(q)) : i + 1 \in 1..Len(q)
  BY <1>1, <1>2
<1>4. QED
  BY <1>1, <1>2, <1>3 DEF NoPill

\* or tasks are put into it.
LEMMA NoPillConcat ==
  ASSUME NEW q \in Seq(Items), NEW r \in Seq(Items), NoPill(q), NoPill(r)
  PROVE  NoPill(q \o r)
<1>1. /\ Len(q \o r) = Len(q) + Len(r)
      /\ \A i \in 1..(Len(q) + Len(r)) : (q \o r)[i] = IF i <= Len(q) THEN q[i] ELSE r[i - Len(q)]
  BY ConcatProperties
<1>2. Len(q) \in Nat /\ Len(r) \in Nat
  BY LenProperties
<1>3. \A i \in 1..(Len(q) + Len(r)) : IF i <= Len(q) THEN i \in 1..Len(q) ELSE i - Len(q) \in 1..Len(r)
  BY <1>2
<1>4. QED
  BY <1>1, <1>3 DEF NoPill

\* A single task is not the pill.
LEMMA NoPillOne ==
  ASSUME NEW t \in Tasks
  PROVE  NoPill(<<t>>)
<1>1. Len(<<t>>) = 1 /\ <<t>>[1] = t /\ t # POISONPILL
  BY PillNoTask
<1>2. \A i \in 1..Len(<<t>>) : i = 1
  BY <1>1
<1>3. QED
  BY <1>1, <1>2 DEF NoPill

\* The tasks of a list are those that ToSet finds.
LEMMA ListsToSet ==
  ASSUME NEW q \in Seq(Items), NEW T \in SUBSET Tasks, Lists(q, T)
  PROVE  InFlight(q) = T /\ (q \in Seq(Tasks) => ToSet(q) = T)
<1>1. DOMAIN q = 1..Len(q)
  BY LenProperties
<1>2. ToSet(q) = {q[i] : i \in 1..Len(q)}
  BY <1>1 DEF ToSet
<1>3. InFlight(q) = T
  BY <1>2, PillNoTask DEF InFlight, Lists
<1>4. ASSUME q \in Seq(Tasks)
      PROVE  ToSet(q) = T
  <2>1. \A i \in 1..Len(q) : q[i] \in Tasks
    BY <1>4, ElementOfSeq
  <2>2. QED
    BY <1>2, <2>1, PillNoTask DEF Lists
<1>5. QED
  BY <1>3, <1>4

\* An empty list lists nothing.
LEMMA EmptyLists == \A T \in SUBSET Tasks : Lists(<<>>, T) <=> T = {}
BY DEF Lists

-----------------------------------------------------------------------------
(* A task moves from one place to another                                  *)

\* f with the value v for the tasks of T.
Place(f, T, v) == [t \in Tasks |-> IF t \in T THEN v ELSE f[t]]

\* Places stay places.
LEMMA PlaceType ==
  ASSUME NEW kind \in [Tasks -> Kinds], NEW at \in [Tasks -> Spots],
         NEW T \in SUBSET Tasks, NEW k \in Kinds, NEW x \in Spots
  PROVE  /\ Place(kind, T, k) \in [Tasks -> Kinds]
         /\ Place(at, T, x) \in [Tasks -> Spots]
BY DEF Place

\* The tasks of T do not concern the places of a kind they neither leave nor enter.
LEMMA HereElse ==
  ASSUME NEW kind, NEW at, NEW T \in SUBSET Tasks, NEW k, NEW x, NEW k0, NEW k1, NEW y,
         \A t \in T : kind[t] = k0, k1 # k0, k1 # k
  PROVE  Here(Place(kind, T, k), Place(at, T, x), k1, y) = Here(kind, at, k1, y)
BY DEF Here, Place

\* Places of another kind are not affected.
LEMMA MoveElse ==
  ASSUME NEW kind, NEW at, NEW T \in SUBSET Tasks, NEW k, NEW x, NEW k0, NEW k1, NEW f, NEW X,
         \A t \in T : kind[t] = k0, k1 # k0, k1 # k
  PROVE  /\ InLists(kind, at, k1, f, X) => InLists(Place(kind, T, k), Place(at, T, x), k1, f, X)
         /\ InSets(kind, at, k1, f) => InSets(Place(kind, T, k), Place(at, T, x), k1, f)
BY HereElse DEF InLists, InSets

\* The tasks T leave the list at x0,
LEMMA MoveFrom ==
  ASSUME NEW kind, NEW at, NEW T, NEW k, NEW x, NEW k0, NEW x0, NEW f, NEW X, NEW c,
         T \subseteq Here(kind, at, k0, x0), k # k0, DOMAIN f = X, x0 \in X,
         InLists(kind, at, k0, f, X), Lists(c, Here(kind, at, k0, x0) \ T)
  PROVE  InLists(Place(kind, T, k), Place(at, T, x), k0, [f EXCEPT ![x0] = c], X)
<1>1. Here(Place(kind, T, k), Place(at, T, x), k0, x0) = Here(kind, at, k0, x0) \ T
  BY DEF Here, Place
<1>2. \A y \in X : y # x0 => Here(Place(kind, T, k), Place(at, T, x), k0, y) = Here(kind, at, k0, y)
  BY DEF Here, Place
<1>3. [f EXCEPT ![x0] = c][x0] = c /\ \A y \in X : y # x0 => [f EXCEPT ![x0] = c][y] = f[y]
  OBVIOUS
<1>4. QED
  BY <1>1, <1>2, <1>3 DEF InLists

\* and enter the one at x.
LEMMA MoveTo ==
  ASSUME NEW kind, NEW at, NEW T \in SUBSET Tasks, NEW k, NEW x, NEW k0, NEW f, NEW X, NEW c,
         \A t \in T : kind[t] = k0, k # k0, DOMAIN f = X, x \in X,
         InLists(kind, at, k, f, X), Lists(c, Here(kind, at, k, x) \cup T)
  PROVE  InLists(Place(kind, T, k), Place(at, T, x), k, [f EXCEPT ![x] = c], X)
<1>1. Here(Place(kind, T, k), Place(at, T, x), k, x) = Here(kind, at, k, x) \cup T
  BY DEF Here, Place
<1>2. \A y \in X : y # x => Here(Place(kind, T, k), Place(at, T, x), k, y) = Here(kind, at, k, y)
  BY DEF Here, Place
<1>3. [f EXCEPT ![x] = c][x] = c /\ \A y \in X : y # x => [f EXCEPT ![x] = c][y] = f[y]
  OBVIOUS
<1>4. QED
  BY <1>1, <1>2, <1>3 DEF InLists

\* The tasks T leave the set at x0,
LEMMA MoveFromSet ==
  ASSUME NEW kind, NEW at, NEW T, NEW k, NEW x, NEW k0, NEW x0 \in Stages, NEW f, NEW c,
         T \subseteq Here(kind, at, k0, x0), k # k0, DOMAIN f = Stages,
         InSets(kind, at, k0, f), c = f[x0] \ T
  PROVE  InSets(Place(kind, T, k), Place(at, T, x), k0, [f EXCEPT ![x0] = c])
<1>1. Here(Place(kind, T, k), Place(at, T, x), k0, x0) = Here(kind, at, k0, x0) \ T
  BY DEF Here, Place
<1>2. \A y \in Stages : y # x0 => Here(Place(kind, T, k), Place(at, T, x), k0, y) = Here(kind, at, k0, y)
  BY DEF Here, Place
<1>3. QED
  BY <1>1, <1>2 DEF InSets

\* and enter the one at x.
LEMMA MoveToSet ==
  ASSUME NEW kind, NEW at, NEW T \in SUBSET Tasks, NEW k, NEW x \in Stages, NEW k0, NEW f, NEW c,
         \A t \in T : kind[t] = k0, k # k0, DOMAIN f = Stages,
         InSets(kind, at, k, f), c = f[x] \cup T
  PROVE  InSets(Place(kind, T, k), Place(at, T, x), k, [f EXCEPT ![x] = c])
<1>1. Here(Place(kind, T, k), Place(at, T, x), k, x) = Here(kind, at, k, x) \cup T
  BY DEF Here, Place
<1>2. \A y \in Stages : y # x => Here(Place(kind, T, k), Place(at, T, x), k, y) = Here(kind, at, k, y)
  BY DEF Here, Place
<1>3. QED
  BY <1>1, <1>2 DEF InSets

\* A list of a place gets shorter or longer by pills only.
LEMMA SameTasks ==
  ASSUME NEW kind, NEW at, NEW k, NEW x, NEW f, NEW X, NEW c, DOMAIN f = X, x \in X,
         InLists(kind, at, k, f, X), Lists(c, Here(kind, at, k, x))
  PROVE  InLists(kind, at, k, [f EXCEPT ![x] = c], X)
BY DEF InLists

\* Tasks that change their place stay on their way.
LEMMA WaySame ==
  ASSUME NEW kind \in [Tasks -> Kinds], NEW T \in SUBSET Way(kind), NEW k \in Kinds, k # "out"
  PROVE  Way(Place(kind, T, k)) = Way(kind)
BY DEF Way, Place

\* Only tasks are in places.
LEMMA HereTasks ==
  ASSUME NEW kind, NEW at, NEW k, NEW x
  PROVE  Here(kind, at, k, x) \in SUBSET Tasks /\ \A t \in Here(kind, at, k, x) : kind[t] = k /\ at[t] = x
BY DEF Here

-----------------------------------------------------------------------------
(* The results that tasks carry                                            *)

\* f with the result r for the tasks of T.
Upd(f, T, r) == [t \in Tasks |-> IF t \in T THEN r ELSE f[t]]

\* A result reaches the tasks T, and no others.
LEMMA SetResultEffect ==
  ASSUME NEW s \in Stages, NEW T \in SUBSET Tasks, NEW r \in Found(s), ResultType, SetResult(s, T, r)
  PROVE  /\ ResultType'
         /\ s = BUILD => image' = Upd(image, T, r) /\ cost' = cost
         /\ s = TEST => cost' = Upd(cost, T, r) /\ image' = image
<1>1. s = BUILD \/ s = TEST
  BY Names
<1>2. CASE s = BUILD
  <2>1. image' = Upd(image, T, r) /\ cost' = cost /\ s # TEST
    BY <1>2, Names DEF SetResult, Upd, ResultType
  <2>2. image' \in [Tasks -> Found(BUILD) \cup {NotDone}] /\ cost' \in [Tasks -> Found(TEST) \cup {NotDone}]
    BY <1>2, <2>1 DEF ResultType, Upd
  <2>3. QED
    BY <1>2, <2>1, <2>2 DEF ResultType
<1>3. CASE s = TEST
  <2>1. cost' = Upd(cost, T, r) /\ image' = image /\ s # BUILD
    BY <1>3, Names DEF SetResult, Upd, ResultType
  <2>2. image' \in [Tasks -> Found(BUILD) \cup {NotDone}] /\ cost' \in [Tasks -> Found(TEST) \cup {NotDone}]
    BY <1>3, <2>1 DEF ResultType, Upd
  <2>3. QED
    BY <1>3, <2>1, <2>2 DEF ResultType
<1>4. QED
  BY <1>1, <1>2, <1>3

\* Queues are places of queued tasks, stages of all others.
LEMMA Fitting ==
  /\ \A q \in Queues : Fits("queue", q)
  /\ \A x : Fits("out", x)
  /\ \A s \in Stages, k \in InStage \cup {"put", "raised"} : Fits(k, s)
BY DEF Fits, InStage

\* Tasks of T go to a place with the results im2 and co2.
LEMMA DataMoves ==
  ASSUME NEW im, NEW co, NEW im2, NEW co2, NEW ca, NEW kind, NEW at,
         NEW T \in SUBSET Tasks, NEW k, NEW x,
         Data(im, co, ca, kind, at), Fits(k, x),
         \A t \in Tasks \ T : im2[t] = im[t] /\ co2[t] = co[t],
         \A t \in T : /\ t \in ca
                      /\ Early(k, x) => im2[t] = NotDone /\ co2[t] = NotDone
                      /\ Mid(k, x) => im2[t] # NotDone /\ co2[t] = NotDone
                      /\ Late(k, x) => im2[t] # NotDone /\ co2[t] # NotDone
  PROVE  Data(im2, co2, ca, Place(kind, T, k), Place(at, T, x))
<1> SUFFICES ASSUME NEW t \in Tasks
             PROVE  /\ Fits(Place(kind, T, k)[t], Place(at, T, x)[t])
                    /\ Place(kind, T, k)[t] # "out" => t \in ca
                    /\ t \notin ca => im2[t] = NotDone /\ co2[t] = NotDone
                    /\ Early(Place(kind, T, k)[t], Place(at, T, x)[t]) => im2[t] = NotDone /\ co2[t] = NotDone
                    /\ Mid(Place(kind, T, k)[t], Place(at, T, x)[t]) => im2[t] # NotDone /\ co2[t] = NotDone
                    /\ Late(Place(kind, T, k)[t], Place(at, T, x)[t]) /\ t \in ca => im2[t] # NotDone /\ co2[t] # NotDone
  BY DEF Data
<1>1. CASE t \in T
  BY <1>1 DEF Place
<1>2. CASE t \notin T
  BY <1>2 DEF Place, Data
<1>3. QED
  BY <1>1, <1>2

-----------------------------------------------------------------------------
(* What is known of the images                                             *)

\* work_queue and done_dict of the test stage, and the tasks' results.
Wq == Seq(Ids(TEST) \X Found(TEST))
Dd == [Ids(TEST) -> Found(TEST) \cup {NotDone}]
Images == [Tasks -> Ids(TEST) \cup {NotDone}]
TestCosts == [Tasks -> Found(TEST) \cup {NotDone}]

\* A task with a new image is given to the workers.
LEMMA KnownPull ==
  ASSUME NEW im \in Images, NEW co \in TestCosts, NEW dd, NEW wq, NEW my, NEW B \in SUBSET Tasks,
         Known(im, co, dd, wq, my, B), NEW t \in Tasks, im[t] \in Ids(TEST) \ my
  PROVE  Known(im, co, dd, wq, my \cup {im[t]}, B \cup {t})
<1>1. \A u \in B : im[u] # im[t]
  BY DEF Known
<1>2. \A u \in B \cup {t} :
       /\ im[u] \in my \cup {im[t]} /\ dd[im[u]] = NotDone
       /\ \A i \in 1..Len(wq) : wq[i][1] # im[u]
  BY DEF Known
<1>3. \A u, v \in B \cup {t} : im[u] = im[v] => u = v
  BY <1>1 DEF Known
<1>4. \A id \in Ids(TEST) \ (my \cup {im[t]}) : dd[id] = NotDone /\ \A i \in 1..Len(wq) : wq[i][1] # id
  BY DEF Known
<1>5. QED
  BY <1>2, <1>3, <1>4 DEF Known

\* A task that is not tested any more.
LEMMA KnownFewer ==
  ASSUME NEW im, NEW co, NEW dd, NEW wq, NEW my, NEW B, Known(im, co, dd, wq, my, B), NEW A \in SUBSET B
  PROVE  Known(im, co, dd, wq, my, A)
BY DEF Known

\* The test of a task ends.
LEMMA KnownWork ==
  ASSUME NEW im \in Images, NEW co \in TestCosts, NEW dd \in Dd, NEW wq \in Wq, NEW my, NEW B \in SUBSET Tasks,
         Known(im, co, dd, wq, my, B), NEW t \in B, my \subseteq Ids(TEST), NEW r \in Found(TEST)
  PROVE  /\ Known(im, Upd(co, {t}, r), dd, Append(wq, <<im[t], r>>), my, B \ {t})
         /\ Append(wq, <<im[t], r>>) \in Wq
<1>1. im[t] \in Ids(TEST) /\ <<im[t], r>> \in Ids(TEST) \X Found(TEST) /\ im[t] \in my /\ dd[im[t]] = NotDone
  BY DEF Known
<1>2. PICK n \in Nat : n = Len(wq)
  BY DEF Wq
<1>3. PICK w : w = Append(wq, <<im[t], r>>)
  OBVIOUS
<1>4. /\ w \in Wq /\ Len(w) = n + 1 /\ w[n + 1] = <<im[t], r>>
      /\ \A i \in 1..n : w[i] = wq[i]
  BY <1>1, <1>2, <1>3, AppendProperties DEF Wq
<1>5. \A i \in 1..Len(w) : i \in 1..n \/ i = n + 1
  BY <1>2, <1>4
<1>6. (\A i \in 1..n : i \in 1..Len(w)) /\ n + 1 \in 1..Len(w) /\ n + 1 \notin 1..n
  BY <1>2, <1>4
<1>7. w[n + 1][1] = im[t]
  BY <1>4
<1>8. \A i \in 1..n : wq[i][1] # im[t]
  BY <1>2 DEF Known
<1>9. ASSUME NEW u \in Tasks, Upd(co, {t}, r)[u] # NotDone
      PROVE  /\ im[u] \in Ids(TEST)
             /\ \/ dd[im[u]] = Upd(co, {t}, r)[u]
                \/ \E i \in 1..Len(w) : w[i] = <<im[u], Upd(co, {t}, r)[u]>>
  <2>1. CASE u = t
    <3>1. Upd(co, {t}, r)[u] = r
      BY <2>1 DEF Upd
    <3>2. QED
      BY <1>1, <1>4, <1>6, <2>1, <3>1
  <2>2. CASE u # t
    <3>1. Upd(co, {t}, r)[u] = co[u]
      BY <2>2 DEF Upd
    <3>2. im[u] \in Ids(TEST) /\ (dd[im[u]] = co[u] \/ \E i \in 1..n : wq[i] = <<im[u], co[u]>>)
      BY <1>2, <1>9, <3>1 DEF Known
    <3>3. QED
      BY <1>4, <1>6, <3>1, <3>2
  <2>3. QED
    BY <2>1, <2>2
<1>10. \A i, j \in 1..Len(w) : w[i][1] = w[j][1] => i = j
  <2>1. \A i, j \in 1..n : wq[i][1] = wq[j][1] => i = j
    BY <1>2 DEF Known
  <2>2. QED
    BY <2>1, <1>4, <1>5, <1>7, <1>8
<1>11. \A i \in 1..Len(w) : dd[w[i][1]] = NotDone
  <2>1. \A i \in 1..n : dd[wq[i][1]] = NotDone
    BY <1>2 DEF Known
  <2>2. QED
    BY <2>1, <1>1, <1>4, <1>5, <1>7
<1>12. ASSUME NEW u \in B \ {t}
       PROVE  /\ im[u] \in my /\ dd[im[u]] = NotDone
              /\ \A i \in 1..Len(w) : w[i][1] # im[u]
  <2>1. im[u] \in my /\ dd[im[u]] = NotDone /\ im[u] # im[t] /\ \A i \in 1..n : wq[i][1] # im[u]
    BY <1>2 DEF Known
  <2>2. QED
    BY <2>1, <1>4, <1>5, <1>7
<1>13. \A u, v \in B \ {t} : im[u] = im[v] => u = v
  BY DEF Known
<1>14. ASSUME NEW id \in Ids(TEST) \ my
       PROVE  dd[id] = NotDone /\ \A i \in 1..Len(w) : w[i][1] # id
  <2>1. dd[id] = NotDone /\ id # im[t] /\ \A i \in 1..n : wq[i][1] # id
    BY <1>1, <1>2 DEF Known
  <2>2. QED
    BY <2>1, <1>4, <1>5, <1>7
<1>15. Known(im, Upd(co, {t}, r), dd, w, my, B \ {t})
  BY <1>9, <1>10, <1>11, <1>12, <1>13, <1>14 DEF Known
<1>16. QED
  BY <1>3, <1>4, <1>15

\* Tasks get a cost that done_dict has for their image.
LEMMA KnownResolve ==
  ASSUME NEW im \in Images, NEW co \in TestCosts, NEW dd, NEW wq, NEW my, NEW B, NEW T \in SUBSET Tasks,
         Known(im, co, dd, wq, my, B), NEW id \in Ids(TEST), \A t \in T : im[t] = id
  PROVE  Known(im, Upd(co, T, dd[id]), dd, wq, my, B)
<1>1. ASSUME NEW u \in Tasks, Upd(co, T, dd[id])[u] # NotDone
      PROVE  /\ im[u] \in Ids(TEST)
             /\ \/ dd[im[u]] = Upd(co, T, dd[id])[u]
                \/ \E i \in 1..Len(wq) : wq[i] = <<im[u], Upd(co, T, dd[id])[u]>>
  <2>1. CASE u \in T
    BY <2>1 DEF Upd
  <2>2. CASE u \notin T
    <3>1. Upd(co, T, dd[id])[u] = co[u]
      BY <2>2 DEF Upd
    <3>2. co[u] # NotDone
      BY <1>1, <3>1
    <3>3. im[u] \in Ids(TEST) /\ (dd[im[u]] = co[u] \/ \E i \in 1..Len(wq) : wq[i] = <<im[u], co[u]>>)
      BY <3>2 DEF Known
    <3>4. QED
      BY <3>1, <3>3
  <2>3. QED
    BY <2>1, <2>2
<1>2. QED
  BY <1>1 DEF Known

\* A result reaches done_dict.
LEMMA KnownDone ==
  ASSUME NEW im \in Images, NEW co \in TestCosts, NEW dd \in Dd, NEW wq \in Wq, NEW my, NEW B \in SUBSET Tasks,
         Known(im, co, dd, wq, my, B), my \subseteq Ids(TEST), wq # <<>>
  PROVE  /\ Head(wq)[1] \in Ids(TEST) /\ Head(wq)[2] \in Found(TEST) /\ Tail(wq) \in Wq
         /\ Known(im, co, [dd EXCEPT ![Head(wq)[1]] = Head(wq)[2]], Tail(wq), my, B)
<1>1. PICK n \in Nat : n = Len(wq) /\ n >= 1 /\ Head(wq) = wq[1]
  BY EmptySeq DEF Wq
<1>2. PICK w : w = Tail(wq)
  OBVIOUS
<1>3. w \in Wq /\ Len(w) = n - 1 /\ \A i \in 1..(n - 1) : w[i] = wq[i + 1]
  BY <1>1, <1>2, HeadTailProperties DEF Wq
<1>4. PICK m \in Ids(TEST) \X Found(TEST) : m = wq[1]
  BY <1>1, ElementOfSeq DEF Wq
<1>5. m[1] \in Ids(TEST) /\ m[2] \in Found(TEST) /\ m = <<m[1], m[2]>>
  BY <1>4
<1>6. PICK d : d = [dd EXCEPT ![m[1]] = m[2]]
  OBVIOUS
<1>7. d[m[1]] = m[2] /\ \A id \in Ids(TEST) : id # m[1] => d[id] = dd[id]
  BY <1>5, <1>6 DEF Dd
<1>8. \A i \in 1..(n - 1) : i + 1 \in 1..n /\ i + 1 # 1 /\ i \in Int
  BY <1>1
<1>9. \A i, j \in 1..n : wq[i][1] = wq[j][1] => i = j
  BY <1>1 DEF Known
<1>10. 1 \in 1..n /\ \A i \in 1..(n - 1) : w[i][1] # m[1]
  BY <1>1, <1>3, <1>4, <1>8, <1>9
<1>11. dd[m[1]] = NotDone
  BY <1>1, <1>4, <1>10 DEF Known
<1>12. ASSUME NEW u \in Tasks, co[u] # NotDone
       PROVE  /\ im[u] \in Ids(TEST)
              /\ d[im[u]] = co[u] \/ \E i \in 1..Len(w) : w[i] = <<im[u], co[u]>>
  <2>1. im[u] \in Ids(TEST) /\ (dd[im[u]] = co[u] \/ \E i \in 1..n : wq[i] = <<im[u], co[u]>>)
    BY <1>1, <1>12 DEF Known
  <2>2. CASE dd[im[u]] = co[u]
    BY <1>7, <1>11, <1>12, <2>1, <2>2
  <2>3. CASE dd[im[u]] # co[u]
    <3>1. PICK i \in 1..n : wq[i] = <<im[u], co[u]>>
      BY <2>1, <2>3
    <3>2. CASE i = 1
      <4>1. m[1] = im[u] /\ m[2] = co[u]
        BY <1>4, <3>1, <3>2
      <4>2. QED
        BY <1>7, <2>1, <4>1
    <3>3. CASE i # 1
      <4>1. i - 1 \in 1..Len(w) /\ (i - 1) + 1 = i
        BY <1>1, <1>3, <3>3
      <4>2. QED
        BY <1>3, <2>1, <3>1, <4>1
    <3>4. QED
      BY <3>2, <3>3
  <2>4. QED
    BY <2>2, <2>3
<1>13. \A i, j \in 1..Len(w) : w[i][1] = w[j][1] => i = j
  <2> SUFFICES ASSUME NEW i \in 1..Len(w), NEW j \in 1..Len(w), w[i][1] = w[j][1]
               PROVE  i = j
    OBVIOUS
  <2>1. i + 1 = j + 1 /\ i \in Int /\ j \in Int
    BY <1>3, <1>8, <1>9
  <2>2. QED
    BY <2>1
<1>14. \A i \in 1..Len(w) : d[w[i][1]] = NotDone
  <2> SUFFICES ASSUME NEW i \in 1..(n - 1)
               PROVE  d[w[i][1]] = NotDone
    BY <1>3
  <2>1. w[i][1] # m[1] /\ w[i] = wq[i + 1] /\ i + 1 \in 1..Len(wq)
    BY <1>1, <1>3, <1>8, <1>10
  <2>2. w[i][1] \in Ids(TEST)
    BY <1>3, ElementOfSeq DEF Wq
  <2>3. dd[wq[i + 1][1]] = NotDone
    BY <2>1 DEF Known
  <2>4. QED
    BY <1>7, <2>1, <2>2, <2>3
<1>15. ASSUME NEW u \in B
       PROVE  /\ im[u] \in my /\ d[im[u]] = NotDone
              /\ \A i \in 1..Len(w) : w[i][1] # im[u]
  <2>1. im[u] \in my /\ dd[im[u]] = NotDone /\ \A i \in 1..n : wq[i][1] # im[u]
    BY <1>1 DEF Known
  <2>2. im[u] # m[1]
    BY <1>4, <1>10, <2>1
  <2>3. QED
    BY <1>3, <1>7, <1>8, <2>1, <2>2
<1>16. ASSUME NEW id \in Ids(TEST) \ my
       PROVE  d[id] = NotDone /\ \A i \in 1..Len(w) : w[i][1] # id
  <2>1. dd[id] = NotDone /\ \A i \in 1..n : wq[i][1] # id
    BY <1>1 DEF Known
  <2>2. id # m[1]
    BY <1>4, <1>10, <2>1
  <2>3. QED
    BY <1>3, <1>7, <1>8, <2>1, <2>2
<1>17. \A u, v \in B : im[u] = im[v] => u = v
  BY DEF Known
<1>18. Known(im, co, d, w, my, B)
  BY <1>12, <1>13, <1>14, <1>15, <1>16, <1>17 DEF Known
<1>19. QED
  BY <1>1, <1>2, <1>3, <1>4, <1>5, <1>6, <1>18

\* Tasks whose cost is not known get another image.
LEMMA KnownImage ==
  ASSUME NEW im, NEW co, NEW im2, NEW dd, NEW wq, NEW my, NEW B \in SUBSET Tasks,
         Known(im, co, dd, wq, my, B),
         \A t \in Tasks : im2[t] # im[t] => co[t] = NotDone /\ t \notin B
  PROVE  Known(im2, co, dd, wq, my, B)
<1>1. \A t \in B : im2[t] = im[t]
  OBVIOUS
<1>2. ASSUME NEW t \in Tasks, co[t] # NotDone
      PROVE  /\ im2[t] \in Ids(TEST)
             /\ dd[im2[t]] = co[t] \/ \E i \in 1..Len(wq) : wq[i] = <<im2[t], co[t]>>
  <2>1. im2[t] = im[t]
    BY <1>2
  <2>2. im[t] \in Ids(TEST) /\ (dd[im[t]] = co[t] \/ \E i \in 1..Len(wq) : wq[i] = <<im[t], co[t]>>)
    BY <1>2 DEF Known
  <2>3. QED
    BY <2>1, <2>2
<1>3. ASSUME NEW t \in B
      PROVE  /\ im2[t] \in my /\ dd[im2[t]] = NotDone
             /\ \A i \in 1..Len(wq) : wq[i][1] # im2[t]
  <2>1. im2[t] = im[t]
    BY <1>1
  <2>2. /\ im[t] \in my /\ dd[im[t]] = NotDone
        /\ \A i \in 1..Len(wq) : wq[i][1] # im[t]
    BY DEF Known
  <2>3. QED
    BY <2>1, <2>2
<1>4. ASSUME NEW t \in B, NEW u \in B, im2[t] = im2[u]
      PROVE  t = u
  BY <1>1, <1>4 DEF Known
<1>5. /\ \A i, j \in 1..Len(wq) : wq[i][1] = wq[j][1] => i = j
      /\ \A i \in 1..Len(wq) : dd[wq[i][1]] = NotDone
      /\ \A id \in Ids(TEST) \ my : dd[id] = NotDone /\ \A i \in 1..Len(wq) : wq[i][1] # id
  BY DEF Known
<1>6. QED
  BY <1>2, <1>3, <1>4, <1>5 DEF Known

\* Tasks with one image and a cost have the same cost.
LEMMA KnownOne ==
  ASSUME NEW im, NEW co, NEW dd \in Dd, NEW wq \in Wq, NEW my, NEW B,
         Known(im, co, dd, wq, my, B),
         NEW t \in Tasks, NEW u \in Tasks, im[t] = im[u], co[t] # NotDone, co[u] # NotDone
  PROVE  co[t] = co[u]
<1>1. dd[im[t]] = co[t] \/ \E i \in 1..Len(wq) : wq[i] = <<im[t], co[t]>>
  BY DEF Known
<1>2. dd[im[t]] = co[u] \/ \E i \in 1..Len(wq) : wq[i] = <<im[t], co[u]>>
  <2>1. dd[im[u]] = co[u] \/ \E i \in 1..Len(wq) : wq[i] = <<im[u], co[u]>>
    BY DEF Known
  <2>2. QED
    BY <2>1
<1>3. CASE dd[im[t]] # NotDone
  BY <1>1, <1>2, <1>3 DEF Known
<1>4. CASE dd[im[t]] = NotDone
  <2>1. PICK i \in 1..Len(wq) : wq[i] = <<im[t], co[t]>>
    BY <1>1, <1>4
  <2>2. PICK j \in 1..Len(wq) : wq[j] = <<im[t], co[u]>>
    BY <1>2, <1>4
  <2>3. wq[i][1] = wq[j][1] /\ wq[i][2] = co[t] /\ wq[j][2] = co[u]
    BY <2>1, <2>2
  <2>4. QED
    BY <2>3 DEF Known
<1>5. QED
  BY <1>3, <1>4

-----------------------------------------------------------------------------
(* What Steering knows while the stages work                               *)

\* Steering waits for the same tasks while they only change places.
LEMMA SteerStays ==
  ASSUME NEW kind, NEW kind2, SteerType, Pending(kind), UNCHANGED steerVars, Way(kind2) = Way(kind)
  PROVE  SteerType' /\ Pending(kind2)'
<1>1. algorithm' = algorithm /\ steer' = steer /\ waiting' = waiting /\ cache' = cache
  BY DEF steerVars
<1>2. SteerType'
  BY <1>1 DEF SteerType
<1>3. Pending(kind2)'
  BY <1>1 DEF Pending
<1>4. QED
  BY <1>2, <1>3

\* The costs of the tasks outside W stay.
LEMMA SearchingStays ==
  ASSUME NEW al, NEW co, NEW co2, NEW ca \in SUBSET Tasks, NEW g, NEW W, Searching(al, co, ca, g), W \subseteq g.pool,
         \A t \in Tasks \ W : co2[t] = co[t]
  PROVE  Searching(al, co2, ca, g)
<1> SUFFICES ASSUME NEW b \in g.parents, NEW t \in ca \ g.pool
             PROVE  co2[b] <= co2[t]
  BY DEF Searching
<1>1. b \notin g.pool /\ b \in ca /\ co[b] <= co[t]
  BY DEF Searching
<1>2. co2[b] = co[b] /\ co2[t] = co[t]
  BY <1>1
<1>3. QED
  BY <1>1, <1>2

\* The same with the end of a search.
LEMMA SearchedStays ==
  ASSUME NEW al, NEW co, NEW co2, NEW ca \in SUBSET Tasks, Searched(al, co, ca), \A t \in Tasks : co2[t] = co[t]
  PROVE  Searched(al, co2, ca)
BY DEF Searched, Best

\* Only costs of tasks on their way change.
LEMMA OptimumStays ==
  ASSUME NEW kind, SteerType, Pending(kind), Optimum, UNCHANGED steerVars,
         \A t \in Tasks \ Way(kind) : cost'[t] = cost[t]
  PROVE  Optimum'
<1>1. algorithm' = algorithm /\ steer' = steer /\ waiting' = waiting /\ cache' = cache
  BY DEF steerVars
<1>2. cache \in SUBSET Tasks
  BY DEF SteerType
<1>3. PICK co : co = cost
  OBVIOUS
<1>4. PICK co2 : co2 = cost'
  OBVIOUS
<1>5. ASSUME algorithm # "GA", waiting = <<>>, steer \in {"loop", "done"}
      PROVE  Searched(algorithm, co2, cache)
  <2>1. Way(kind) = {}
    BY <1>5 DEF Pending
  <2>2. \A t \in Tasks : co2[t] = co[t]
    BY <1>3, <1>4, <2>1
  <2>3. Searched(algorithm, co, cache)
    BY <1>3, <1>5 DEF Optimum
  <2>4. QED
    BY <1>2, <2>2, <2>3, SearchedStays
<1>6. ASSUME algorithm # "GA", NEW g \in Gens, waiting = <<g>>, steer = "loop"
      PROVE  Searching(algorithm, co2, cache, g)
  <2>1. Way(kind) \subseteq g.pool
    BY <1>6 DEF Pending
  <2>2. \A t \in Tasks \ Way(kind) : co2[t] = co[t]
    BY <1>3, <1>4
  <2>3. Searching(algorithm, co, cache, g)
    BY <1>3, <1>6 DEF Optimum
  <2>4. QED
    BY <1>2, <2>1, <2>2, <2>3, SearchingStays
<1>7. QED
  BY <1>1, <1>4, <1>5, <1>6 DEF Optimum

\* What is to show of an action of a stage.
LEMMA StageStep ==
  ASSUME SteerType, Optimum, ProcessType', WorkerType', HelperType', ResultType', Pills',
         UNCHANGED steerVars,
         NEW kind \in [Tasks -> Kinds], Pending(kind),
         NEW kind2 \in [Tasks -> Kinds], NEW at2 \in [Tasks -> Spots],
         Way(kind2) = Way(kind), \A t \in Tasks \ Way(kind) : cost'[t] = cost[t],
         Located(kind2, at2)',
         Data(image', cost', cache', kind2, at2),
         Known(image', cost', done_dict'[TEST], work_queue'[TEST], mycache'[TEST], Busy(kind2, at2))
  PROVE  IInv'
<1>1. SteerType' /\ Pending(kind2)'
  BY SteerStays
<1>2. Optimum'
  BY OptimumStays
<1>3. Inside(kind2, at2)'
  BY <1>1 DEF Inside
<1>4. TypeInv'
  BY <1>1 DEF TypeInv
<1>5. QED
  BY <1>2, <1>3, <1>4 DEF IInv

-----------------------------------------------------------------------------
(* The process of a stage                                                  *)

\* Types and pills, as the process of a stage takes a task.
LEMMA PullTypes ==
  ASSUME NEW s \in Stages, TypeInv, Pills, Pull(s), GetIdentifier(s, Head(queue[In(s)])) \in Ids(s)
  PROVE  /\ ProcessType' /\ WorkerType' /\ HelperType' /\ Pills'
         /\ queue[In(s)] \in Seq(Items) /\ queue[In(s)] # <<>>
         /\ Head(queue[In(s)]) \in Tasks
<1>1. PICK q : q = queue[In(s)]
  OBVIOUS
<1>2. In(s) \in Queues /\ q \in Seq(Items) /\ q # <<>>
  BY <1>1, Names DEF TypeInv, ProcessType, Pull, Items
<1>3. PICK t : t = Head(q)
  OBVIOUS
<1>4. Tail(q) \in Seq(Items) /\ t \in Tasks
  <2>1. t # POISONPILL
    BY <1>1, <1>3 DEF Pull
  <2>2. QED
    BY <1>2, <1>3, <2>1, HeadTailProperties DEF Items
<1>5. queue' = [queue EXCEPT ![In(s)] = Tail(q)]
  BY <1>1 DEF Pull
<1>6. queue' \in [Queues -> Seq(Items)]
  BY <1>2, <1>4, <1>5 DEF TypeInv, ProcessType, Items
<1>7. pc' = pc /\ steer' = steer /\ working' = working /\ putting' = putting /\ raised' = raised
      /\ helper' = helper /\ work_queue' = work_queue /\ done_dict' = done_dict /\ waiting_list' = waiting_list
  BY DEF Pull, steerVars
<1>8. Pills'
  <2>1. ASSUME steer # "done"
        PROVE  \A r \in Queues : NoPill(queue'[r])
    <3>1. NoPill(q) /\ \A r \in Queues : NoPill(queue[r])
      BY <1>1, <1>2, <2>1 DEF Pills
    <3>2. NoPill(Tail(q))
      BY <1>2, <3>1, NoPillTail
    <3>3. QED
      BY <1>2, <1>5, <3>1, <3>2 DEF TypeInv, ProcessType
  <2>2. QED
    BY <2>1, <1>7 DEF Pills
<1>9. \/ /\ GetIdentifier(s, t) \in mycache[s]
         /\ helper_queue' = [helper_queue EXCEPT ![s] = Append(@, t)]
         /\ UNCHANGED <<mycache, work_pool>>
      \/ /\ GetIdentifier(s, t) \notin mycache[s]
         /\ work_pool' = [work_pool EXCEPT ![s] = Append(@, t)]
         /\ mycache' = [mycache EXCEPT ![s] = @ \cup {GetIdentifier(s, t)}]
         /\ UNCHANGED helper_queue
  BY <1>1, <1>3 DEF Pull
<1>10. helper_queue' \in [Stages -> Seq(Items)]
  <2>1. Append(helper_queue[s], t) \in Seq(Items)
    BY <1>4 DEF TypeInv, HelperType, Items
  <2>2. QED
    BY <1>9, <2>1 DEF TypeInv, HelperType, Items
<1>11. work_pool' \in [Stages -> Seq(Tasks)]
  <2>1. Append(work_pool[s], t) \in Seq(Tasks)
    BY <1>4 DEF TypeInv, WorkerType
  <2>2. QED
    BY <1>9, <2>1 DEF TypeInv, WorkerType
<1>12. DOMAIN mycache' = Stages /\ \A r \in Stages : mycache'[r] \in SUBSET Ids(r)
  BY <1>1, <1>3, <1>9 DEF TypeInv, ProcessType
<1>13. ProcessType'
  BY <1>6, <1>7, <1>12 DEF TypeInv, ProcessType, Items
<1>14. WorkerType'
  BY <1>7, <1>11 DEF TypeInv, WorkerType
<1>15. HelperType'
  BY <1>7, <1>10 DEF TypeInv, HelperType, Items
<1>16. QED
  BY <1>1, <1>2, <1>3, <1>4, <1>8, <1>13, <1>14, <1>15

\* What a task of the queue of a stage carries.
LEMMA AtStage ==
  ASSUME NEW s \in Stages, NEW kind \in [Tasks -> Kinds], NEW at \in [Tasks -> Spots],
         NEW im \in Images, NEW co, NEW ca, Data(im, co, ca, kind, at),
         NEW t \in Tasks, (kind[t] = "queue" /\ at[t] = In(s)) \/ (kind[t] \in InStage /\ at[t] = s)
  PROVE  /\ t \in ca
         /\ co[t] = NotDone
         /\ s = BUILD => im[t] = NotDone
         /\ s = TEST => im[t] \in Ids(TEST)
<1>1. s = BUILD \/ s = TEST
  BY Names
<1>2. t \in ca
  BY DEF Data, InStage
<1>3. CASE s = BUILD
  <2>1. Early(kind[t], at[t])
    BY <1>3, Names DEF Early
  <2>2. QED
    BY <1>2, <1>3, <2>1, Names DEF Data
<1>4. CASE s = TEST
  <2>1. Mid(kind[t], at[t])
    BY <1>4, Names DEF Mid
  <2>2. co[t] = NotDone /\ im[t] # NotDone
    BY <2>1 DEF Data
  <2>3. QED
    BY <1>2, <1>4, <2>2, Names DEF Images
<1>5. QED
  BY <1>1, <1>3, <1>4

\* A task that goes on to x in stage s, or stays there, keeps what it carries.
LEMMA StageData ==
  ASSUME NEW s \in Stages, NEW kind \in [Tasks -> Kinds], NEW at \in [Tasks -> Spots],
         NEW im \in Images, NEW co, NEW ca, Data(im, co, ca, kind, at),
         NEW t \in Tasks, (kind[t] = "queue" /\ at[t] = In(s)) \/ (kind[t] \in InStage /\ at[t] = s),
         NEW k \in InStage \cup {"raised"}
  PROVE  Data(im, co, ca, Place(kind, {t}, k), Place(at, {t}, s))
<1>1. /\ t \in ca
      /\ co[t] = NotDone
      /\ s = BUILD => im[t] = NotDone
      /\ s = TEST => im[t] \in Ids(TEST)
  BY AtStage
<1>2. Early(k, s) => s = BUILD
  BY Names DEF Early, InStage
<1>3. Mid(k, s) => s = TEST /\ im[t] # NotDone
  BY <1>1, Names, FoundResults DEF Mid, InStage
<1>4. ~Late(k, s)
  BY DEF Late, InStage
<1>5. QED
  BY <1>1, <1>2, <1>3, <1>4, Fitting, DataMoves

\* Which tasks are being tested when t goes to k in stage s.
LEMMA BusyMove ==
  ASSUME NEW s, NEW kind, NEW at, NEW T \in SUBSET Tasks, NEW k, NEW x
  PROVE  /\ Busy(Place(kind, T, k), Place(at, T, x)) =
              IF k \in {"pool", "work"} /\ x = TEST THEN Busy(kind, at) \cup T ELSE Busy(kind, at) \ T
BY DEF Busy, Place

\* PipelineProcess takes a task: to the workers, or to the helper if one like
\* it came before.
LEMMA PullKeeps ==
  ASSUME NEW s \in Stages, IInv, Pull(s)
  PROVE  IInv'
<1>1. TypeInv /\ Pills /\ Optimum
  BY DEF IInv
<1>2. PICK kind \in [Tasks -> Kinds], at \in [Tasks -> Spots] : Inside(kind, at)
  BY DEF IInv
<1>3. PICK q : q = queue[In(s)]
  OBVIOUS
<1>4. In(s) \in Queues /\ q \in Seq(Items) /\ q # <<>> /\ Head(q) # POISONPILL
  BY <1>1, <1>3, Names DEF TypeInv, ProcessType, Pull, Items
<1>5. Lists(q, Here(kind, at, "queue", In(s)))
  BY <1>2, <1>3, <1>4 DEF Inside, Located, InLists
<1>6. PICK t : t = Head(q)
  OBVIOUS
<1>7. /\ t \in Tasks /\ kind[t] = "queue" /\ at[t] = In(s)
      /\ {t} \subseteq Here(kind, at, "queue", In(s))
      /\ Lists(Tail(q), Here(kind, at, "queue", In(s)) \ {t})
  BY <1>4, <1>5, <1>6, HereTasks, TakeTask
<1>8. PICK im \in Images, co \in TestCosts, ca \in {cache} : im = image /\ co = cost /\ ca = cache
  BY <1>1, FoundResults DEF TypeInv, ResultType, Images, TestCosts
<1>9. Data(im, co, ca, kind, at)
  BY <1>2, <1>8 DEF Inside
<1>10. /\ t \in ca /\ co[t] = NotDone
       /\ s = BUILD => im[t] = NotDone
       /\ s = TEST => im[t] \in Ids(TEST)
  BY <1>7, <1>9, AtStage
<1>11. GetIdentifier(s, t) \in Ids(s)
  BY <1>7, <1>8, <1>10, Names, FoundResults DEF GetIdentifier
<1>12. ProcessType' /\ WorkerType' /\ HelperType' /\ Pills'
  BY <1>1, <1>3, <1>6, <1>11, PullTypes
<1>13. /\ UNCHANGED steerVars /\ image' = image /\ cost' = cost /\ cache' = cache
       /\ working' = working /\ putting' = putting /\ raised' = raised
       /\ waiting_list' = waiting_list /\ done_dict' = done_dict /\ work_queue' = work_queue
       /\ queue' = [queue EXCEPT ![In(s)] = Tail(q)]
  BY <1>3 DEF Pull, steerVars
<1>14. ResultType'
  BY <1>1, <1>13 DEF TypeInv, ResultType
<1>15. /\ DOMAIN queue = Queues /\ DOMAIN helper_queue = Stages /\ DOMAIN work_pool = Stages
       /\ DOMAIN mycache = Stages
  BY <1>1 DEF TypeInv, ProcessType, WorkerType, HelperType
<1>16. ASSUME NEW k \in {"helper", "pool"},
              InLists(Place(kind, {t}, k), Place(at, {t}, s), "helper", helper_queue', Stages),
              InLists(Place(kind, {t}, k), Place(at, {t}, s), "pool", work_pool', Stages),
              Known(im, co, done_dict[TEST], work_queue[TEST], mycache'[TEST],
                    Busy(Place(kind, {t}, k), Place(at, {t}, s)))
       PROVE  IInv'
  <2>1. PICK kind2 \in [Tasks -> Kinds], at2 \in [Tasks -> Spots] :
          kind2 = Place(kind, {t}, k) /\ at2 = Place(at, {t}, s)
    BY <1>7, PlaceType DEF Kinds, Spots
  <2>2. Way(kind2) = Way(kind)
    BY <1>7, <2>1, WaySame DEF Way, Kinds
  <2>3. InLists(kind2, at2, "queue", queue', Queues)
    BY <1>2, <1>4, <1>7, <1>13, <1>15, <2>1, MoveFrom DEF Inside, Located
  <2>4. /\ InLists(kind2, at2, "wait", waiting_list, Stages)
        /\ InSets(kind2, at2, "work", working)
        /\ InSets(kind2, at2, "put", putting)
        /\ InSets(kind2, at2, "raised", raised)
    BY <1>2, <1>7, <2>1, MoveElse DEF Inside, Located
  <2>5. Located(kind2, at2)'
    BY <1>13, <1>16, <2>1, <2>3, <2>4 DEF Located
  <2>6. Data(im, co, ca, kind2, at2)
    BY <1>7, <1>9, <2>1, StageData DEF InStage
  <2>7. QED
    BY <1>1, <1>2, <1>8, <1>12, <1>13, <1>14, <1>16, <2>1, <2>2, <2>5, <2>6, StageStep DEF TypeInv, Inside
<1>17. CASE /\ GetIdentifier(s, t) \in mycache[s]
            /\ helper_queue' = [helper_queue EXCEPT ![s] = Append(@, t)]
            /\ UNCHANGED <<mycache, work_pool>>
  <2>1. Lists(helper_queue[s], Here(kind, at, "helper", s)) /\ helper_queue[s] \in Seq(Items)
    BY <1>1, <1>2 DEF Inside, Located, InLists, TypeInv, HelperType, Items
  <2>2. Lists(Append(helper_queue[s], t), Here(kind, at, "helper", s) \cup {t})
    BY <1>7, <2>1, HereTasks, AppendTask
  <2>3. InLists(Place(kind, {t}, "helper"), Place(at, {t}, s), "helper", helper_queue', Stages)
    BY <1>2, <1>7, <1>15, <1>17, <2>2, MoveTo DEF Inside, Located
  <2>4. InLists(Place(kind, {t}, "helper"), Place(at, {t}, s), "pool", work_pool', Stages)
    BY <1>2, <1>7, <1>17, MoveElse DEF Inside, Located
  <2>5. Busy(Place(kind, {t}, "helper"), Place(at, {t}, s)) \subseteq Busy(kind, at)
    BY <1>7, BusyMove
  <2>6. Known(im, co, done_dict[TEST], work_queue[TEST], mycache'[TEST],
              Busy(Place(kind, {t}, "helper"), Place(at, {t}, s)))
    BY <1>2, <1>8, <1>17, <2>5, KnownFewer DEF Inside
  <2>7. QED
    BY <1>16, <2>3, <2>4, <2>6
<1>18. CASE /\ GetIdentifier(s, t) \notin mycache[s]
            /\ work_pool' = [work_pool EXCEPT ![s] = Append(@, t)]
            /\ mycache' = [mycache EXCEPT ![s] = @ \cup {GetIdentifier(s, t)}]
            /\ UNCHANGED helper_queue
  <2>1. Lists(work_pool[s], Here(kind, at, "pool", s)) /\ work_pool[s] \in Seq(Items)
    BY <1>1, <1>2, SeqMonotonic DEF Inside, Located, InLists, TypeInv, WorkerType, Items
  <2>2. Lists(Append(work_pool[s], t), Here(kind, at, "pool", s) \cup {t})
    BY <1>7, <2>1, HereTasks, AppendTask
  <2>3. InLists(Place(kind, {t}, "pool"), Place(at, {t}, s), "pool", work_pool', Stages)
    BY <1>2, <1>7, <1>15, <1>18, <2>2, MoveTo DEF Inside, Located
  <2>4. InLists(Place(kind, {t}, "pool"), Place(at, {t}, s), "helper", helper_queue', Stages)
    BY <1>2, <1>7, <1>18, MoveElse DEF Inside, Located
  <2>5. Known(im, co, done_dict[TEST], work_queue[TEST], mycache[TEST], Busy(kind, at))
    BY <1>2, <1>8 DEF Inside
  <2>6. Known(im, co, done_dict[TEST], work_queue[TEST], mycache'[TEST],
              Busy(Place(kind, {t}, "pool"), Place(at, {t}, s)))
    <3>1. CASE s = TEST
      <4>1. mycache'[TEST] = mycache[TEST] \cup {im[t]} /\ im[t] \in Ids(TEST) \ mycache[TEST]
        BY <1>8, <1>10, <1>15, <1>18, <3>1, Names DEF GetIdentifier
      <4>2. Busy(Place(kind, {t}, "pool"), Place(at, {t}, s)) = Busy(kind, at) \cup {t}
        BY <1>7, <3>1, BusyMove
      <4>3. Busy(kind, at) \in SUBSET Tasks
        BY DEF Busy
      <4>4. PICK my : my = mycache[TEST]
        OBVIOUS
      <4>5. Known(im, co, done_dict[TEST], work_queue[TEST], my \cup {im[t]}, Busy(kind, at) \cup {t})
        BY <1>7, <2>5, <4>1, <4>3, <4>4, KnownPull
      <4>6. QED
        BY <4>1, <4>2, <4>4, <4>5
    <3>2. CASE s # TEST
      <4>1. mycache'[TEST] = mycache[TEST]
        BY <1>15, <1>18, <3>2
      <4>2. Busy(Place(kind, {t}, "pool"), Place(at, {t}, s)) \subseteq Busy(kind, at)
        BY <1>7, <3>2, BusyMove
      <4>3. QED
        BY <2>5, <4>1, <4>2, KnownFewer
    <3>3. QED
      BY <3>1, <3>2
  <2>7. QED
    BY <1>16, <2>3, <2>4, <2>6
<1>19. QED
  BY <1>3, <1>6, <1>17, <1>18 DEF Pull

\* The pill goes on to the next queue.
LEMMA PullPillKeeps ==
  ASSUME NEW s \in Stages, IInv, PullPill(s)
  PROVE  IInv'
<1>1. TypeInv /\ Pills /\ Optimum
  BY DEF IInv
<1>2. PICK kind \in [Tasks -> Kinds], at \in [Tasks -> Spots] : Inside(kind, at)
  BY DEF IInv
<1>3. PICK q : q = queue[In(s)]
  OBVIOUS
<1>4. In(s) \in Queues /\ q \in Seq(Items) /\ q # <<>> /\ Head(q) = POISONPILL
  BY <1>1, <1>3, Names DEF TypeInv, ProcessType, PullPill, Items
<1>5. Lists(q, Here(kind, at, "queue", In(s))) /\ InLists(kind, at, "queue", queue, Queues)
  BY <1>2, <1>3, <1>4 DEF Inside, Located, InLists
<1>6. PICK q1 : q1 = [queue EXCEPT ![In(s)] = Tail(q)]
  OBVIOUS
<1>7. DOMAIN queue = Queues /\ queue \in [Queues -> Seq(Items)]
  BY <1>1 DEF TypeInv, ProcessType, Items
<1>8. Lists(Tail(q), Here(kind, at, "queue", In(s))) /\ Tail(q) \in Seq(Items)
  BY <1>4, <1>5, HereTasks, TakePill
<1>9. InLists(kind, at, "queue", q1, Queues) /\ q1 \in [Queues -> Seq(Items)] /\ DOMAIN q1 = Queues
  BY <1>4, <1>5, <1>6, <1>7, <1>8, SameTasks
<1>10. PICK r : r = q1[Out(s)]
  OBVIOUS
<1>11. Out(s) \in Queues /\ r \in Seq(Items) /\ Lists(r, Here(kind, at, "queue", Out(s)))
  BY <1>9, <1>10, Names DEF InLists
<1>12. queue' = [q1 EXCEPT ![Out(s)] = Append(r, POISONPILL)]
  <2>1. r = queue[Out(s)] /\ In(s) \in Queues /\ Out(s) \in Queues /\ In(s) # Out(s)
    BY <1>4, <1>6, <1>7, <1>10, <1>11, Names
  <2>2. queue' = [queue EXCEPT ![In(s)] = Tail(q), ![Out(s)] = Append(r, POISONPILL)]
    BY <1>3, <2>1 DEF PullPill
  <2>3. QED
    BY <1>6, <1>7, <2>1, <2>2
<1>13. Lists(Append(r, POISONPILL), Here(kind, at, "queue", Out(s))) /\ Append(r, POISONPILL) \in Seq(Items)
  BY <1>11, HereTasks, AppendPill
<1>14. InLists(kind, at, "queue", queue', Queues)
  BY <1>9, <1>11, <1>12, <1>13, SameTasks
<1>15. queue' \in [Queues -> Seq(Items)]
  BY <1>9, <1>11, <1>12, <1>13
<1>16. pc' = [pc EXCEPT ![s] = "join"] /\ UNCHANGED <<steerVars, image, cost, mycache, workVars, helperVars>>
  BY DEF PullPill
<1>17. /\ algorithm' = algorithm /\ steer' = steer /\ waiting' = waiting /\ cache' = cache
       /\ working' = working /\ putting' = putting /\ raised' = raised /\ work_pool' = work_pool
       /\ helper' = helper /\ helper_queue' = helper_queue
       /\ waiting_list' = waiting_list /\ done_dict' = done_dict /\ work_queue' = work_queue
       /\ image' = image /\ cost' = cost /\ mycache' = mycache
  BY <1>16 DEF steerVars, workVars, helperVars
<1>18. ProcessType'
  BY <1>1, <1>15, <1>16, <1>17 DEF TypeInv, ProcessType, Items
<1>19. ResultType' /\ WorkerType' /\ HelperType'
  BY <1>1, <1>17 DEF TypeInv, ResultType, WorkerType, HelperType
<1>20. Pills'
  <2>1. steer = "done"
    <3>1. SUFFICES ASSUME steer # "done" PROVE FALSE
      OBVIOUS
    <3>2. NoPill(q)
      BY <1>1, <1>3, <1>4, <3>1 DEF Pills
    <3>3. QED
      BY <1>4, <3>2, NoPillTail
  <2>2. QED
    BY <2>1, <1>17 DEF Pills
<1>21. Located(kind, at)'
  BY <1>2, <1>14, <1>17 DEF Inside, Located
<1>22. QED
  BY <1>1, <1>2, <1>16, <1>17, <1>18, <1>19, <1>20, <1>21, StageStep DEF TypeInv, Inside

\* The helper gets its pill when the workers are done.
LEMMA JoinWorkersKeeps ==
  ASSUME NEW s \in Stages, IInv, JoinWorkers(s)
  PROVE  IInv'
<1>1. TypeInv /\ Pills /\ Optimum
  BY DEF IInv
<1>2. PICK kind \in [Tasks -> Kinds], at \in [Tasks -> Spots] : Inside(kind, at)
  BY DEF IInv
<1>3. PICK q : q = helper_queue[s]
  OBVIOUS
<1>4. q \in Seq(Items) /\ DOMAIN helper_queue = Stages /\ helper_queue \in [Stages -> Seq(Items)]
  BY <1>1, <1>3 DEF TypeInv, HelperType, Items
<1>5. Lists(q, Here(kind, at, "helper", s)) /\ InLists(kind, at, "helper", helper_queue, Stages)
  BY <1>2, <1>3 DEF Inside, Located, InLists
<1>6. Lists(Append(q, POISONPILL), Here(kind, at, "helper", s)) /\ Append(q, POISONPILL) \in Seq(Items)
  BY <1>4, <1>5, HereTasks, AppendPill
<1>7. helper_queue' = [helper_queue EXCEPT ![s] = Append(q, POISONPILL)]
  BY <1>3 DEF JoinWorkers
<1>8. InLists(kind, at, "helper", helper_queue', Stages) /\ helper_queue' \in [Stages -> Seq(Items)]
  BY <1>4, <1>5, <1>6, <1>7, SameTasks
<1>9. /\ pc[s] = "join" /\ pc' = [pc EXCEPT ![s] = "joinhelper"]
      /\ algorithm' = algorithm /\ steer' = steer /\ waiting' = waiting /\ cache' = cache
      /\ working' = working /\ putting' = putting /\ raised' = raised /\ work_pool' = work_pool
      /\ queue' = queue /\ helper' = helper
      /\ waiting_list' = waiting_list /\ done_dict' = done_dict /\ work_queue' = work_queue
      /\ image' = image /\ cost' = cost /\ mycache' = mycache
  BY DEF JoinWorkers, steerVars, workVars
<1>10. ProcessType'
  BY <1>1, <1>9 DEF TypeInv, ProcessType
<1>11. ResultType' /\ WorkerType'
  BY <1>1, <1>9 DEF TypeInv, ResultType, WorkerType
<1>12. HelperType'
  BY <1>1, <1>8, <1>9 DEF TypeInv, HelperType, Items
<1>13. Pills'
  BY <1>1, <1>9 DEF Pills
<1>14. Located(kind, at)'
  BY <1>2, <1>8, <1>9 DEF Inside, Located
<1>15. QED
  BY <1>1, <1>2, <1>9, <1>10, <1>11, <1>12, <1>13, <1>14, StageStep DEF TypeInv, Inside, steerVars

\* The process of a stage ends.
LEMMA JoinHelperKeeps ==
  ASSUME NEW s \in Stages, IInv, JoinHelper(s)
  PROVE  IInv'
<1>1. TypeInv /\ Pills /\ Optimum
  BY DEF IInv
<1>2. PICK kind \in [Tasks -> Kinds], at \in [Tasks -> Spots] : Inside(kind, at)
  BY DEF IInv
<1>3. /\ pc[s] = "joinhelper" /\ pc' = [pc EXCEPT ![s] = "done"]
      /\ algorithm' = algorithm /\ steer' = steer /\ waiting' = waiting /\ cache' = cache
      /\ working' = working /\ putting' = putting /\ raised' = raised /\ work_pool' = work_pool
      /\ queue' = queue /\ helper' = helper /\ helper_queue' = helper_queue
      /\ waiting_list' = waiting_list /\ done_dict' = done_dict /\ work_queue' = work_queue
      /\ image' = image /\ cost' = cost /\ mycache' = mycache
  BY DEF JoinHelper, steerVars, workVars, helperVars
<1>4. ProcessType'
  BY <1>1, <1>3 DEF TypeInv, ProcessType
<1>5. ResultType' /\ WorkerType' /\ HelperType'
  BY <1>1, <1>3 DEF TypeInv, ResultType, WorkerType, HelperType
<1>6. Pills'
  BY <1>1, <1>3 DEF Pills
<1>7. Located(kind, at)'
  BY <1>2, <1>3 DEF Inside, Located
<1>8. QED
  BY <1>1, <1>2, <1>3, <1>4, <1>5, <1>6, <1>7, StageStep DEF TypeInv, Inside, steerVars

\* The helper ends when no duplicate waits.
LEMMA HelperEndsKeeps ==
  ASSUME NEW s \in Stages, IInv, HelperEnds(s)
  PROVE  IInv'
<1>1. TypeInv /\ Pills /\ Optimum
  BY DEF IInv
<1>2. PICK kind \in [Tasks -> Kinds], at \in [Tasks -> Spots] : Inside(kind, at)
  BY DEF IInv
<1>3. /\ helper' = [helper EXCEPT ![s] = "done"]
      /\ algorithm' = algorithm /\ steer' = steer /\ waiting' = waiting /\ cache' = cache
      /\ working' = working /\ putting' = putting /\ raised' = raised /\ work_pool' = work_pool
      /\ queue' = queue /\ pc' = pc /\ helper_queue' = helper_queue
      /\ waiting_list' = waiting_list /\ done_dict' = done_dict /\ work_queue' = work_queue
      /\ image' = image /\ cost' = cost /\ mycache' = mycache
  BY DEF HelperEnds, steerVars, workVars
<1>4. HelperType'
  BY <1>1, <1>3 DEF TypeInv, HelperType
<1>5. ResultType' /\ WorkerType' /\ ProcessType'
  BY <1>1, <1>3 DEF TypeInv, ResultType, WorkerType, ProcessType
<1>6. Pills'
  BY <1>1, <1>3 DEF Pills
<1>7. Located(kind, at)'
  BY <1>2, <1>3 DEF Inside, Located
<1>8. QED
  BY <1>1, <1>2, <1>3, <1>4, <1>5, <1>6, <1>7, StageStep DEF TypeInv, Inside, steerVars

-----------------------------------------------------------------------------
(* The workers                                                             *)

\* There are finitely many tasks.
LEMMA FiniteTasks == \A T \in SUBSET Tasks : IsFiniteSet(T) /\ Cardinality(T) \in Nat
BY GenerationsAssumption, FS_Subset, FS_CardinalityType

\* What the actions of the workers leave alone.
Elsewhere ==
  /\ algorithm' = algorithm /\ steer' = steer /\ waiting' = waiting /\ cache' = cache
  /\ pc' = pc /\ mycache' = mycache
  /\ helper' = helper /\ helper_queue' = helper_queue
  /\ waiting_list' = waiting_list /\ done_dict' = done_dict

\* A worker takes a task; no more work at once than there are processes.
LEMMA BeginKeeps ==
  ASSUME NEW s \in Stages, IInv, Begin(s)
  PROVE  IInv'
<1>1. TypeInv /\ Pills /\ Optimum
  BY DEF IInv
<1>2. PICK kind \in [Tasks -> Kinds], at \in [Tasks -> Spots] : Inside(kind, at)
  BY DEF IInv
<1>3. PICK q : q = work_pool[s]
  OBVIOUS
<1>4. q \in Seq(Tasks) /\ q # <<>> /\ DOMAIN work_pool = Stages /\ DOMAIN working = Stages
  BY <1>1, <1>3 DEF TypeInv, WorkerType, Begin
<1>5. PICK t \in Tasks : t = Head(q) /\ Tail(q) \in Seq(Tasks)
  BY <1>4, HeadTailProperties
<1>6. Lists(q, Here(kind, at, "pool", s)) /\ q \in Seq(Items) /\ Head(q) # POISONPILL
  BY <1>2, <1>3, <1>4, <1>5, SeqMonotonic, PillNoTask DEF Inside, Located, InLists, Items
<1>7. /\ kind[t] = "pool" /\ at[t] = s /\ {t} \subseteq Here(kind, at, "pool", s)
      /\ Lists(Tail(q), Here(kind, at, "pool", s) \ {t})
  <2>1. PICK T : T = Here(kind, at, "pool", s)
    OBVIOUS
  <2>2. T \in SUBSET Tasks /\ \A u \in T : kind[u] = "pool" /\ at[u] = s
    BY <2>1, HereTasks
  <2>3. t \in T /\ Lists(Tail(q), T \ {t})
    BY <1>4, <1>5, <1>6, <2>1, <2>2, TakeTask
  <2>4. QED
    BY <2>1, <2>2, <2>3
<1>8. PICK w : w = working[s]
  OBVIOUS
<1>9. /\ work_pool' = [work_pool EXCEPT ![s] = Tail(q)]
      /\ working' = [working EXCEPT ![s] = w \cup {t}]
      /\ Cardinality(w \cup putting[s]) < NumProcesses[s]
  BY <1>3, <1>5, <1>8 DEF Begin
<1>10. /\ Elsewhere /\ UNCHANGED steerVars
       /\ queue' = queue /\ work_queue' = work_queue /\ image' = image /\ cost' = cost
       /\ putting' = putting /\ raised' = raised
  BY DEF Begin, steerVars, helperVars, Elsewhere
<1>11. WorkerType'
  <2>1. w \in SUBSET Tasks /\ putting[s] \in SUBSET Tasks
    BY <1>1, <1>8 DEF TypeInv, WorkerType
  <2>2. IsFiniteSet(w \cup putting[s]) /\ Cardinality(w \cup putting[s]) \in Nat
    BY <2>1, FiniteTasks
  <2>3. (w \cup {t}) \cup putting[s] = (w \cup putting[s]) \cup {t}
    OBVIOUS
  <2>4. Cardinality((w \cup {t}) \cup putting[s]) <= Cardinality(w \cup putting[s]) + 1
        /\ Cardinality((w \cup {t}) \cup putting[s]) \in Nat
    <3>1. PICK u : u = w \cup putting[s]
      OBVIOUS
    <3>2. IsFiniteSet(u) /\ Cardinality(u) \in Nat
      BY <2>2, <3>1
    <3>3. Cardinality(u \cup {t}) = IF t \in u THEN Cardinality(u) ELSE Cardinality(u) + 1
      BY <3>2, FS_AddElement
    <3>4. QED
      BY <2>3, <3>1, <3>2, <3>3
  <2>5. Cardinality((w \cup {t}) \cup putting[s]) <= NumProcesses[s]
    BY <1>9, <2>2, <2>4, Processes
  <2>6. \A r \in Stages : Cardinality(working'[r] \cup putting[r]) <= NumProcesses[r]
    BY <1>1, <1>4, <1>9, <2>5 DEF TypeInv, WorkerType
  <2>7. working' \in [Stages -> SUBSET Tasks] /\ work_pool' \in [Stages -> Seq(Tasks)]
    BY <1>1, <1>5, <1>9, <2>1 DEF TypeInv, WorkerType
  <2>8. QED
    BY <1>1, <1>10, <2>6, <2>7 DEF TypeInv, WorkerType
<1>12. ResultType' /\ ProcessType' /\ HelperType' /\ Pills'
  BY <1>1, <1>10 DEF TypeInv, ResultType, ProcessType, HelperType, Pills, Elsewhere
<1>13. PICK kind2 \in [Tasks -> Kinds], at2 \in [Tasks -> Spots] :
         kind2 = Place(kind, {t}, "work") /\ at2 = Place(at, {t}, s)
  BY PlaceType DEF Kinds, Spots
<1>14. Way(kind2) = Way(kind)
  BY <1>7, <1>13, WaySame DEF Way, Kinds
<1>15. InLists(kind2, at2, "pool", work_pool', Stages)
  BY <1>2, <1>4, <1>7, <1>9, <1>13, MoveFrom DEF Inside, Located
<1>16. InSets(kind2, at2, "work", working')
  BY <1>2, <1>4, <1>7, <1>8, <1>9, <1>13, MoveToSet DEF Inside, Located
<1>17. /\ InLists(kind2, at2, "queue", queue, Queues)
       /\ InLists(kind2, at2, "helper", helper_queue, Stages)
       /\ InLists(kind2, at2, "wait", waiting_list, Stages)
       /\ InSets(kind2, at2, "put", putting)
       /\ InSets(kind2, at2, "raised", raised)
  BY <1>2, <1>7, <1>13, MoveElse DEF Inside, Located
<1>18. Located(kind2, at2)'
  BY <1>10, <1>15, <1>16, <1>17 DEF Located, Elsewhere
<1>19. PICK im \in Images, co \in TestCosts, ca \in {cache} : im = image /\ co = cost /\ ca = cache
  BY <1>1, FoundResults DEF TypeInv, ResultType, Images, TestCosts
<1>20. Data(im, co, ca, kind2, at2)
  BY <1>2, <1>7, <1>13, <1>19, StageData DEF InStage, Inside
<1>21. Busy(kind2, at2) = Busy(kind, at)
  BY <1>7, <1>13, BusyMove DEF Busy
<1>22. QED
  BY <1>1, <1>2, <1>10, <1>11, <1>12, <1>14, <1>18, <1>19, <1>20, <1>21, StageStep DEF TypeInv, Inside, Elsewhere

\* A stage finds one of its results.
LEMMA OutcomesFound ==
  ASSUME NEW s \in Stages, NEW t \in Tasks
  PROVE  Outcomes(s, t) \subseteq Found(s)
BY Names, FoundResults DEF Outcomes

\* Work sets the result of a task and tells the helper.
LEMMA WorkKeeps ==
  ASSUME NEW s \in Stages, NEW t \in Tasks, IInv, Work(s, t)
  PROVE  IInv'
<1>1. TypeInv /\ Pills /\ Optimum
  BY DEF IInv
<1>2. PICK kind \in [Tasks -> Kinds], at \in [Tasks -> Spots] : Inside(kind, at)
  BY DEF IInv
<1>3. PICK r \in Found(s) :
        /\ SetResult(s, {t}, r)
        /\ work_queue' = [work_queue EXCEPT ![s] = Append(@, <<GetIdentifier(s, t), r>>)]
  BY OutcomesFound DEF Work
<1>4. PICK w : w = working[s]
  OBVIOUS
<1>5. PICK p : p = putting[s]
  OBVIOUS
<1>6. /\ t \in w /\ working' = [working EXCEPT ![s] = w \ {t}] /\ putting' = [putting EXCEPT ![s] = p \cup {t}]
  BY <1>4, <1>5 DEF Work
<1>7. /\ Elsewhere /\ UNCHANGED steerVars
      /\ queue' = queue /\ work_pool' = work_pool /\ raised' = raised
  BY DEF Work, steerVars, Elsewhere
<1>8. kind[t] = "work" /\ at[t] = s /\ {t} \subseteq Here(kind, at, "work", s)
  BY <1>2, <1>4, <1>6, HereTasks DEF Inside, Located, InSets
<1>9. PICK im \in Images, co \in TestCosts, ca \in {cache} : im = image /\ co = cost /\ ca = cache
  BY <1>1, FoundResults DEF TypeInv, ResultType, Images, TestCosts
<1>10. Data(im, co, ca, kind, at)
  BY <1>2, <1>9 DEF Inside
<1>11. /\ t \in ca /\ co[t] = NotDone
       /\ s = BUILD => im[t] = NotDone
       /\ s = TEST => im[t] \in Ids(TEST)
  BY <1>8, <1>10, AtStage DEF InStage
<1>12. PICK id \in Ids(s) : id = GetIdentifier(s, t)
  BY <1>9, <1>11, Names, FoundResults DEF GetIdentifier
<1>13. /\ ResultType'
       /\ s = BUILD => image' = Upd(im, {t}, r) /\ cost' = co
       /\ s = TEST => cost' = Upd(co, {t}, r) /\ image' = im
  BY <1>1, <1>3, <1>9, SetResultEffect DEF TypeInv
<1>14. PICK im2, co2 : im2 = image' /\ co2 = cost'
  OBVIOUS
<1>15. WorkerType'
  <2>1. DOMAIN working = Stages /\ DOMAIN putting = Stages /\ w \in SUBSET Tasks /\ p \in SUBSET Tasks
    BY <1>1, <1>4, <1>5 DEF TypeInv, WorkerType
  <2>2. (w \ {t}) \cup (p \cup {t}) = w \cup p
    BY <1>6
  <2>3. \A x \in Stages : working'[x] \cup putting'[x] = working[x] \cup putting[x]
    BY <1>4, <1>5, <1>6, <2>1, <2>2
  <2>4. \A x \in Stages : Cardinality(working'[x] \cup putting'[x]) <= NumProcesses[x]
    BY <1>1, <2>3 DEF TypeInv, WorkerType
  <2>5. working' \in [Stages -> SUBSET Tasks] /\ putting' \in [Stages -> SUBSET Tasks]
    BY <1>1, <1>6, <2>1 DEF TypeInv, WorkerType
  <2>6. QED
    BY <1>1, <1>7, <2>4, <2>5 DEF TypeInv, WorkerType
<1>16. HelperType'
  <2>1. PICK q \in Seq(Ids(s) \X Found(s)) : q = work_queue[s]
    BY <1>1 DEF TypeInv, HelperType
  <2>2. Append(q, <<id, r>>) \in Seq(Ids(s) \X Found(s))
    OBVIOUS
  <2>3. work_queue' = [work_queue EXCEPT ![s] = Append(q, <<id, r>>)]
    BY <1>3, <1>12, <2>1
  <2>4. DOMAIN work_queue' = Stages /\ \A x \in Stages : work_queue'[x] \in Seq(Ids(x) \X Found(x))
    BY <1>1, <2>2, <2>3 DEF TypeInv, HelperType
  <2>5. QED
    BY <1>1, <1>7, <2>4 DEF TypeInv, HelperType, Elsewhere
<1>17. ProcessType' /\ Pills'
  BY <1>1, <1>7 DEF TypeInv, ProcessType, Pills, Elsewhere
<1>18. PICK kind2 \in [Tasks -> Kinds], at2 \in [Tasks -> Spots] :
         kind2 = Place(kind, {t}, "put") /\ at2 = Place(at, {t}, s)
  BY PlaceType DEF Kinds, Spots
<1>19. Way(kind2) = Way(kind) /\ t \in Way(kind)
  BY <1>8, <1>18, WaySame DEF Way, Kinds
<1>20. Located(kind2, at2)'
  <2>1. DOMAIN working = Stages /\ DOMAIN putting = Stages
    BY <1>1 DEF TypeInv, WorkerType
  <2>2. InSets(kind2, at2, "work", working')
    BY <1>2, <1>4, <1>6, <1>8, <1>18, <2>1, MoveFromSet DEF Inside, Located
  <2>3. InSets(kind2, at2, "put", putting')
    BY <1>2, <1>5, <1>6, <1>8, <1>18, <2>1, MoveToSet DEF Inside, Located
  <2>4. /\ InLists(kind2, at2, "queue", queue, Queues)
        /\ InLists(kind2, at2, "helper", helper_queue, Stages)
        /\ InLists(kind2, at2, "wait", waiting_list, Stages)
        /\ InLists(kind2, at2, "pool", work_pool, Stages)
        /\ InSets(kind2, at2, "raised", raised)
    BY <1>2, <1>8, <1>18, MoveElse DEF Inside, Located
  <2>5. QED
    BY <1>7, <2>2, <2>3, <2>4 DEF Located, Elsewhere
<1>21. Data(im2, co2, ca, kind2, at2)
  <2>1. \A u \in Tasks \ {t} : im2[u] = im[u] /\ co2[u] = co[u]
    BY <1>13, <1>14, Names DEF Upd
  <2>2. ~Early("put", s)
    BY DEF Early, InStage
  <2>3. Mid("put", s) => im2[t] # NotDone /\ co2[t] = NotDone
    BY <1>11, <1>13, <1>14, FoundResults DEF Mid, InStage, Upd
  <2>4. Late("put", s) => im2[t] # NotDone /\ co2[t] # NotDone
    <3>1. Late("put", s) => s = TEST
      BY DEF Late
    <3>2. s = TEST => im2[t] \in Ids(TEST) /\ co2[t] = r /\ r \in Found(TEST)
      BY <1>11, <1>13, <1>14 DEF Upd
    <3>3. QED
      BY <3>1, <3>2, FoundResults, Names
  <2>5. Fits("put", s)
    BY Fitting
  <2>6. QED
    BY <1>10, <1>11, <1>18, <2>1, <2>2, <2>3, <2>4, <2>5, DataMoves
<1>22. Busy(kind2, at2) = Busy(kind, at) \ {t}
  BY <1>18, BusyMove
<1>23. Known(im2, co2, done_dict[TEST], work_queue'[TEST], mycache[TEST], Busy(kind2, at2))
  <2>1. PICK dd \in Dd, wq \in Wq, my \in SUBSET Ids(TEST), B \in SUBSET Tasks :
          dd = done_dict[TEST] /\ wq = work_queue[TEST] /\ my = mycache[TEST] /\ B = Busy(kind, at)
    BY <1>1, Names DEF TypeInv, HelperType, ProcessType, Dd, Wq, Busy
  <2>2. Known(im, co, dd, wq, my, B)
    BY <1>2, <1>9, <2>1 DEF Inside
  <2>3. DOMAIN work_queue = Stages /\ TEST \in Stages
    BY <1>1, Names DEF TypeInv, HelperType
  <2>4. CASE s = BUILD
    <3>1. work_queue'[TEST] = wq
      BY <1>3, <2>1, <2>3, <2>4, Names
    <3>2. t \notin B
      BY <1>8, <2>1, <2>4, Names DEF Busy
    <3>3. B \ {t} = B
      BY <3>2
    <3>4. co2 = co /\ \A u \in Tasks : im2[u] # im[u] => u = t
      BY <1>13, <1>14, <2>4 DEF Upd
    <3>5. Known(im2, co, dd, wq, my, B)
      BY <1>11, <2>2, <3>2, <3>4, KnownImage
    <3>6. QED
      BY <1>22, <2>1, <3>1, <3>3, <3>4, <3>5
  <2>5. CASE s = TEST
    <3>1. id = im[t]
      BY <1>9, <1>12, <2>5, Names DEF GetIdentifier
    <3>2. work_queue'[TEST] = Append(wq, <<im[t], r>>)
      BY <1>3, <1>12, <2>1, <2>3, <2>5, <3>1
    <3>3. t \in B
      BY <1>8, <2>1, <2>5 DEF Busy
    <3>4. co2 = Upd(co, {t}, r) /\ im2 = im
      BY <1>13, <1>14, <2>5
    <3>5. Known(im, Upd(co, {t}, r), dd, Append(wq, <<im[t], r>>), my, B \ {t})
      BY <2>2, <2>5, <3>3, KnownWork
    <3>6. QED
      BY <1>22, <2>1, <3>2, <3>4, <3>5
  <2>6. QED
    BY <2>4, <2>5, Names
<1>24. \A u \in Tasks \ Way(kind) : cost'[u] = cost[u]
  BY <1>9, <1>13, <1>19, Names DEF Upd
<1>25. /\ Known(image', cost', done_dict'[TEST], work_queue'[TEST], mycache'[TEST], Busy(kind2, at2))
       /\ Data(image', cost', cache', kind2, at2)
  BY <1>7, <1>9, <1>14, <1>21, <1>23 DEF Elsewhere
<1>26. QED
  BY <1>1, <1>2, <1>7, <1>13, <1>15, <1>16, <1>17, <1>19, <1>20, <1>24, <1>25, StageStep DEF TypeInv, Inside

\* The task of a Work that raises stays where it is for ever.
LEMMA WorkRaisesKeeps ==
  ASSUME NEW s \in Stages, NEW t \in Tasks, IInv, WorkRaises(s, t)
  PROVE  IInv'
<1>1. TypeInv /\ Pills /\ Optimum
  BY DEF IInv
<1>2. PICK kind \in [Tasks -> Kinds], at \in [Tasks -> Spots] : Inside(kind, at)
  BY DEF IInv
<1>3. PICK w : w = working[s]
  OBVIOUS
<1>4. PICK p : p = raised[s]
  OBVIOUS
<1>5. /\ t \in w /\ working' = [working EXCEPT ![s] = w \ {t}] /\ raised' = [raised EXCEPT ![s] = p \cup {t}]
  BY <1>3, <1>4 DEF WorkRaises
<1>6. /\ Elsewhere /\ UNCHANGED steerVars
      /\ queue' = queue /\ work_pool' = work_pool /\ putting' = putting
      /\ work_queue' = work_queue /\ image' = image /\ cost' = cost
  BY DEF WorkRaises, steerVars, helperVars, Elsewhere
<1>7. kind[t] = "work" /\ at[t] = s /\ {t} \subseteq Here(kind, at, "work", s)
  BY <1>2, <1>3, <1>5, HereTasks DEF Inside, Located, InSets
<1>8. PICK im \in Images, co \in TestCosts, ca \in {cache} : im = image /\ co = cost /\ ca = cache
  BY <1>1, FoundResults DEF TypeInv, ResultType, Images, TestCosts
<1>9. DOMAIN working = Stages /\ DOMAIN raised = Stages /\ w \in SUBSET Tasks /\ p \in SUBSET Tasks
  BY <1>1, <1>3, <1>4 DEF TypeInv, WorkerType
<1>10. WorkerType'
  <2>1. putting[s] \in SUBSET Tasks
    BY <1>1 DEF TypeInv, WorkerType
  <2>2. (w \ {t}) \cup putting[s] \in SUBSET (w \cup putting[s])
        /\ IsFiniteSet(w \cup putting[s]) /\ Cardinality(w \cup putting[s]) \in Nat
        /\ Cardinality((w \ {t}) \cup putting[s]) \in Nat
    BY <1>9, <2>1, FiniteTasks
  <2>3. Cardinality((w \ {t}) \cup putting[s]) <= Cardinality(w \cup putting[s])
    BY <2>2, FS_Subset
  <2>4. Cardinality(w \cup putting[s]) <= NumProcesses[s]
    BY <1>1, <1>3 DEF TypeInv, WorkerType
  <2>5. Cardinality((w \ {t}) \cup putting[s]) <= NumProcesses[s]
    BY <2>2, <2>3, <2>4, Processes
  <2>6. \A x \in Stages : Cardinality(working'[x] \cup putting[x]) <= NumProcesses[x]
    BY <1>1, <1>5, <1>9, <2>5 DEF TypeInv, WorkerType
  <2>7. working' \in [Stages -> SUBSET Tasks] /\ raised' \in [Stages -> SUBSET Tasks]
    BY <1>1, <1>5, <1>9 DEF TypeInv, WorkerType
  <2>8. QED
    BY <1>1, <1>6, <2>6, <2>7 DEF TypeInv, WorkerType
<1>11. ResultType' /\ ProcessType' /\ HelperType' /\ Pills'
  BY <1>1, <1>6 DEF TypeInv, ResultType, ProcessType, HelperType, Pills, Elsewhere
<1>12. PICK kind2 \in [Tasks -> Kinds], at2 \in [Tasks -> Spots] :
         kind2 = Place(kind, {t}, "raised") /\ at2 = Place(at, {t}, s)
  BY PlaceType DEF Kinds, Spots
<1>13. Way(kind2) = Way(kind)
  BY <1>7, <1>12, WaySame DEF Way, Kinds
<1>14. Located(kind2, at2)'
  <2>1. InSets(kind2, at2, "work", working')
    BY <1>2, <1>3, <1>5, <1>7, <1>9, <1>12, MoveFromSet DEF Inside, Located
  <2>2. InSets(kind2, at2, "raised", raised')
    <3>1. InSets(kind, at, "raised", raised) /\ \A u \in {t} : kind[u] = "work"
      BY <1>2, <1>7 DEF Inside, Located
    <3>2. PICK c : c = raised[s] \cup {t}
      OBVIOUS
    <3>3. raised' = [raised EXCEPT ![s] = c]
      BY <1>4, <1>5, <3>2
    <3>4. QED
      BY <1>9, <1>12, <3>1, <3>2, <3>3, MoveToSet
  <2>3. /\ InLists(kind2, at2, "queue", queue, Queues)
        /\ InLists(kind2, at2, "helper", helper_queue, Stages)
        /\ InLists(kind2, at2, "wait", waiting_list, Stages)
        /\ InLists(kind2, at2, "pool", work_pool, Stages)
        /\ InSets(kind2, at2, "put", putting)
    BY <1>2, <1>7, <1>12, MoveElse DEF Inside, Located
  <2>4. QED
    BY <1>6, <2>1, <2>2, <2>3 DEF Located, Elsewhere
<1>15. Data(im, co, ca, kind2, at2)
  BY <1>2, <1>7, <1>8, <1>12, StageData DEF InStage, Inside
<1>16. Known(im, co, done_dict[TEST], work_queue[TEST], mycache[TEST], Busy(kind2, at2))
  <2>1. Busy(kind2, at2) \in SUBSET Busy(kind, at)
    BY <1>12, BusyMove
  <2>2. QED
    BY <1>2, <1>8, <2>1, KnownFewer DEF Inside
<1>17. /\ Known(image', cost', done_dict'[TEST], work_queue'[TEST], mycache'[TEST], Busy(kind2, at2))
       /\ Data(image', cost', cache', kind2, at2)
  BY <1>6, <1>8, <1>15, <1>16 DEF Elsewhere
<1>18. QED
  BY <1>1, <1>2, <1>6, <1>10, <1>11, <1>13, <1>14, <1>17, StageStep DEF TypeInv, Inside

\* A worker puts its task into the next queue.
LEMMA PutResultKeeps ==
  ASSUME NEW s \in Stages, NEW t \in Tasks, IInv, PutResult(s, t)
  PROVE  IInv'
<1>1. TypeInv /\ Pills /\ Optimum
  BY DEF IInv
<1>2. PICK kind \in [Tasks -> Kinds], at \in [Tasks -> Spots] : Inside(kind, at)
  BY DEF IInv
<1>3. PICK p : p = putting[s]
  OBVIOUS
<1>4. PICK q : q = queue[Out(s)]
  OBVIOUS
<1>5. /\ t \in p /\ putting' = [putting EXCEPT ![s] = p \ {t}]
      /\ queue' = [queue EXCEPT ![Out(s)] = q \o <<t>>]
  BY <1>3, <1>4 DEF PutResult, Put
<1>6. /\ Elsewhere /\ UNCHANGED steerVars
      /\ work_pool' = work_pool /\ working' = working /\ raised' = raised
      /\ work_queue' = work_queue /\ image' = image /\ cost' = cost
  BY DEF PutResult, steerVars, helperVars, Elsewhere
<1>7. kind[t] = "put" /\ at[t] = s /\ {t} \subseteq Here(kind, at, "put", s)
  BY <1>2, <1>3, <1>5, HereTasks DEF Inside, Located, InSets
<1>8. PICK im \in Images, co \in TestCosts, ca \in {cache} : im = image /\ co = cost /\ ca = cache
  BY <1>1, FoundResults DEF TypeInv, ResultType, Images, TestCosts
<1>9. DOMAIN putting = Stages /\ DOMAIN queue = Queues /\ p \in SUBSET Tasks /\ q \in Seq(Items) /\ Out(s) \in Queues
  BY <1>1, <1>3, <1>4, Names DEF TypeInv, WorkerType, ProcessType, Items
<1>10. Lists(q \o <<t>>, Here(kind, at, "queue", Out(s)) \cup {t}) /\ q \o <<t>> \in Seq(Items)
  <2>1. PICK T : T = Here(kind, at, "queue", Out(s))
    OBVIOUS
  <2>2. Lists(q, T) /\ T \in SUBSET Tasks /\ t \notin T
    BY <1>2, <1>4, <1>7, <1>9, <2>1, HereTasks DEF Inside, Located, InLists
  <2>3. Lists(<<t>>, {t}) /\ <<t>> \in Seq(Items) /\ T \cap {t} = {} /\ {t} \in SUBSET Tasks
    BY <2>2, ListsOne
  <2>4. QED
    BY <1>9, <2>1, <2>2, <2>3, PutTasks
<1>11. ProcessType'
  <2>1. queue' \in [Queues -> Seq(Items)]
    BY <1>1, <1>5, <1>9, <1>10 DEF TypeInv, ProcessType, Items
  <2>2. QED
    BY <1>1, <1>6, <2>1 DEF TypeInv, ProcessType, Elsewhere, Items
<1>12. WorkerType'
  <2>1. working[s] \in SUBSET Tasks
    BY <1>1 DEF TypeInv, WorkerType
  <2>2. working[s] \cup (p \ {t}) \in SUBSET (working[s] \cup p)
        /\ IsFiniteSet(working[s] \cup p) /\ Cardinality(working[s] \cup p) \in Nat
        /\ Cardinality(working[s] \cup (p \ {t})) \in Nat
    BY <1>9, <2>1, FiniteTasks
  <2>3. Cardinality(working[s] \cup (p \ {t})) <= Cardinality(working[s] \cup p)
    BY <2>2, FS_Subset
  <2>4. Cardinality(working[s] \cup p) <= NumProcesses[s]
    BY <1>1, <1>3 DEF TypeInv, WorkerType
  <2>5. Cardinality(working[s] \cup (p \ {t})) <= NumProcesses[s]
    BY <2>2, <2>3, <2>4, Processes
  <2>6. \A x \in Stages : Cardinality(working[x] \cup putting'[x]) <= NumProcesses[x]
    BY <1>1, <1>5, <1>9, <2>5 DEF TypeInv, WorkerType
  <2>7. putting' \in [Stages -> SUBSET Tasks]
    BY <1>1, <1>5, <1>9 DEF TypeInv, WorkerType
  <2>8. QED
    BY <1>1, <1>6, <2>6, <2>7 DEF TypeInv, WorkerType
<1>13. ResultType' /\ HelperType'
  BY <1>1, <1>6 DEF TypeInv, ResultType, HelperType, Elsewhere
<1>14. Pills'
  <2>1. ASSUME steer # "done"
        PROVE  \A r \in Queues : NoPill(queue'[r])
    <3>1. NoPill(q) /\ \A r \in Queues : NoPill(queue[r])
      BY <1>1, <1>4, <1>9, <2>1 DEF Pills
    <3>2. NoPill(<<t>>) /\ <<t>> \in Seq(Items)
      BY ListsOne, NoPillOne
    <3>3. NoPill(q \o <<t>>)
      BY <1>9, <3>1, <3>2, NoPillConcat
    <3>4. QED
      BY <1>5, <1>9, <3>1, <3>3
  <2>2. steer' = steer /\ pc' = pc
    BY <1>6 DEF Elsewhere
  <2>3. ASSUME steer # "done"
        PROVE  \A r \in Stages : pc[r] = "pull"
    BY <1>1, <2>3 DEF Pills
  <2>4. QED
    BY <2>1, <2>2, <2>3 DEF Pills
<1>15. PICK kind2 \in [Tasks -> Kinds], at2 \in [Tasks -> Spots] :
         kind2 = Place(kind, {t}, "queue") /\ at2 = Place(at, {t}, Out(s))
  <2>1. "queue" \in Kinds /\ Out(s) \in Spots /\ {t} \in SUBSET Tasks
    BY <1>9 DEF Kinds, Spots
  <2>2. QED
    BY <2>1, PlaceType
<1>16. Way(kind2) = Way(kind)
  BY <1>7, <1>15, WaySame DEF Way, Kinds
<1>17. Located(kind2, at2)'
  <2>1. InSets(kind2, at2, "put", putting')
    BY <1>2, <1>3, <1>5, <1>7, <1>9, <1>15, MoveFromSet DEF Inside, Located
  <2>2. InLists(kind2, at2, "queue", queue', Queues)
    BY <1>2, <1>5, <1>7, <1>9, <1>10, <1>15, MoveTo DEF Inside, Located
  <2>3. /\ InLists(kind2, at2, "helper", helper_queue, Stages)
        /\ InLists(kind2, at2, "wait", waiting_list, Stages)
        /\ InLists(kind2, at2, "pool", work_pool, Stages)
        /\ InSets(kind2, at2, "work", working)
        /\ InSets(kind2, at2, "raised", raised)
    BY <1>2, <1>7, <1>15, MoveElse DEF Inside, Located
  <2>4. QED
    BY <1>6, <2>1, <2>2, <2>3 DEF Located, Elsewhere
<1>18. Data(im, co, ca, kind2, at2)
  <2>1. Data(im, co, ca, kind, at)
    BY <1>2, <1>8 DEF Inside
  <2>2. t \in ca
    BY <1>7, <2>1 DEF Data
  <2>3. ~Early("queue", Out(s))
    BY Names DEF Early, InStage, Queues
  <2>4. Mid("queue", Out(s)) => Mid(kind[t], at[t])
    BY <1>7, Names DEF Mid, InStage
  <2>5. Mid("queue", Out(s)) => im[t] # NotDone /\ co[t] = NotDone
    BY <2>1, <2>4 DEF Data
  <2>6. Late("queue", Out(s)) => Late(kind[t], at[t])
    BY <1>7, Names DEF Late
  <2>7. Late("queue", Out(s)) => im[t] # NotDone /\ co[t] # NotDone
    BY <2>1, <2>2, <2>6 DEF Data
  <2>8. Fits("queue", Out(s))
    BY Names, Fitting
  <2>9. QED
    BY <1>15, <2>1, <2>2, <2>3, <2>5, <2>7, <2>8, DataMoves
<1>19. Known(im, co, done_dict[TEST], work_queue[TEST], mycache[TEST], Busy(kind2, at2))
  <2>1. Busy(kind2, at2) \in SUBSET Busy(kind, at)
    BY <1>15, BusyMove
  <2>2. QED
    BY <1>2, <1>8, <2>1, KnownFewer DEF Inside
<1>20. /\ Known(image', cost', done_dict'[TEST], work_queue'[TEST], mycache'[TEST], Busy(kind2, at2))
       /\ Data(image', cost', cache', kind2, at2)
  BY <1>6, <1>8, <1>18, <1>19 DEF Elsewhere
<1>21. QED
  BY <1>1, <1>2, <1>6, <1>11, <1>12, <1>13, <1>14, <1>16, <1>17, <1>20, StageStep DEF TypeInv, Inside

-----------------------------------------------------------------------------
(* The helper                                                              *)

\* Tasks of a stage are put into its output queue.
LEMMA Delivered ==
  ASSUME NEW s \in Stages, TypeInv, Pills, NEW kind, NEW at, InLists(kind, at, "queue", queue, Queues),
         NEW k0, k0 # "queue", NEW T \in SUBSET Tasks, \A t \in T : kind[t] = k0,
         NEW ts \in Seq(Items), Lists(ts, T), NoPill(ts), Put(Out(s), ts),
         steer' = steer, pc' = pc, mycache' = mycache
  PROVE  /\ ProcessType' /\ Pills'
         /\ InLists(Place(kind, T, "queue"), Place(at, T, Out(s)), "queue", queue', Queues)
<1>1. PICK q : q = queue[Out(s)]
  OBVIOUS
<1>2. queue' = [queue EXCEPT ![Out(s)] = q \o ts]
  BY <1>1 DEF Put
<1>3. DOMAIN queue = Queues /\ q \in Seq(Items) /\ Out(s) \in Queues
  BY <1>1, Names DEF TypeInv, ProcessType, Items
<1>4. PICK H : H = Here(kind, at, "queue", Out(s))
  OBVIOUS
<1>5. Lists(q, H) /\ H \in SUBSET Tasks /\ H \cap T = {}
  BY <1>1, <1>3, <1>4, HereTasks DEF InLists
<1>6. Lists(q \o ts, H \cup T) /\ q \o ts \in Seq(Items)
  BY <1>3, <1>5, PutTasks
<1>7. InLists(Place(kind, T, "queue"), Place(at, T, Out(s)), "queue", queue', Queues)
  BY <1>2, <1>3, <1>4, <1>6, MoveTo
<1>8. queue' \in [Queues -> Seq(Items)]
  BY <1>2, <1>3, <1>6 DEF TypeInv, ProcessType, Items
<1>9. ProcessType'
  BY <1>8 DEF TypeInv, ProcessType, Items
<1>10. ASSUME steer # "done"
       PROVE  (\A r \in Queues : NoPill(queue'[r])) /\ \A r \in Stages : pc[r] = "pull"
  <2>1. NoPill(q) /\ (\A r \in Queues : NoPill(queue[r])) /\ \A r \in Stages : pc[r] = "pull"
    BY <1>1, <1>3, <1>10 DEF Pills
  <2>2. NoPill(q \o ts)
    BY <1>3, <2>1, NoPillConcat
  <2>3. QED
    BY <1>2, <1>3, <2>1, <2>2
<1>11. Pills'
  BY <1>10 DEF Pills
<1>12. QED
  BY <1>7, <1>9, <1>11

\* What the actions of the helper leave alone.
Outside ==
  /\ algorithm' = algorithm /\ steer' = steer /\ waiting' = waiting /\ cache' = cache
  /\ pc' = pc /\ mycache' = mycache
  /\ work_pool' = work_pool /\ working' = working /\ putting' = putting /\ raised' = raised

\* The helper resolves a duplicate, or keeps it until its result is known.
LEMMA HelperGetKeeps ==
  ASSUME NEW s \in Stages, IInv, HelperGet(s)
  PROVE  IInv'
<1>1. TypeInv /\ Pills /\ Optimum
  BY DEF IInv
<1>2. PICK kind \in [Tasks -> Kinds], at \in [Tasks -> Spots] : Inside(kind, at)
  BY DEF IInv
<1>3. PICK hq : hq = helper_queue[s]
  OBVIOUS
<1>4. PICK t : t = Head(hq)
  OBVIOUS
<1>5. /\ hq # <<>> /\ helper_queue' = [helper_queue EXCEPT ![s] = Tail(hq)]
      /\ Outside /\ UNCHANGED steerVars /\ work_queue' = work_queue /\ done_dict' = done_dict
  BY <1>3 DEF HelperGet, Outside, steerVars, workVars
<1>6. \/ /\ t = POISONPILL
         /\ helper' = [helper EXCEPT ![s] = "drain"]
         /\ UNCHANGED <<queue, image, cost, waiting_list>>
      \/ /\ t # POISONPILL /\ helper' = helper
         /\ done_dict[s][GetIdentifier(s, t)] # NotDone
         /\ SetResult(s, {t}, done_dict[s][GetIdentifier(s, t)])
         /\ Put(Out(s), <<t>>)
         /\ UNCHANGED waiting_list
      \/ /\ t # POISONPILL /\ helper' = helper
         /\ waiting_list' = [waiting_list EXCEPT ![s] = Append(@, t)]
         /\ UNCHANGED <<queue, image, cost>>
  BY <1>3, <1>4 DEF HelperGet
<1>7. /\ hq \in Seq(Items) /\ DOMAIN helper_queue = Stages /\ DOMAIN waiting_list = Stages
      /\ helper_queue \in [Stages -> Seq(Items)]
  BY <1>1, <1>3 DEF TypeInv, HelperType, Items
<1>8. PICK H \in SUBSET Tasks : H = Here(kind, at, "helper", s)
  BY HereTasks
<1>9. Lists(hq, H)
  BY <1>2, <1>3, <1>8 DEF Inside, Located, InLists
<1>10. WorkerType'
  BY <1>1, <1>5 DEF TypeInv, WorkerType, Outside
<1>11. Tail(hq) \in Seq(Items) /\ helper_queue' \in [Stages -> Seq(Items)]
  <2>1. Tail(hq) \in Seq(Items)
    BY <1>5, <1>7, HeadTailProperties
  <2>2. QED
    BY <1>5, <1>7, <2>1
<1>12. PICK im \in Images, co \in TestCosts, ca \in {cache} : im = image /\ co = cost /\ ca = cache
  BY <1>1, FoundResults DEF TypeInv, ResultType, Images, TestCosts
<1>13. Data(im, co, ca, kind, at)
  BY <1>2, <1>12 DEF Inside
<1>14. PICK dd \in Dd, wq \in Wq, my \in SUBSET Ids(TEST), B \in SUBSET Tasks :
         dd = done_dict[TEST] /\ wq = work_queue[TEST] /\ my = mycache[TEST] /\ B = Busy(kind, at)
  BY <1>1, Names DEF TypeInv, HelperType, ProcessType, Dd, Wq, Busy
<1>15. Known(im, co, dd, wq, my, B)
  BY <1>2, <1>12, <1>14 DEF Inside
<1>16. CASE /\ t = POISONPILL
            /\ helper' = [helper EXCEPT ![s] = "drain"]
            /\ UNCHANGED <<queue, image, cost, waiting_list>>
  <2>1. Lists(Tail(hq), H)
    BY <1>4, <1>5, <1>7, <1>9, <1>16, TakePill
  <2>2. InLists(kind, at, "helper", helper_queue', Stages)
    BY <1>2, <1>5, <1>7, <1>8, <2>1, SameTasks DEF Inside, Located
  <2>3. Located(kind, at)'
    BY <1>2, <1>5, <1>16, <2>2 DEF Inside, Located, Outside
  <2>4. HelperType'
    BY <1>1, <1>5, <1>11, <1>16 DEF TypeInv, HelperType, Items
  <2>5. ResultType' /\ ProcessType' /\ Pills'
    BY <1>1, <1>5, <1>16 DEF TypeInv, ResultType, ProcessType, Pills, Outside
  <2>6. /\ Known(image', cost', done_dict'[TEST], work_queue'[TEST], mycache'[TEST], Busy(kind, at))
        /\ Data(image', cost', cache', kind, at)
    BY <1>5, <1>12, <1>13, <1>14, <1>15, <1>16 DEF Outside
  <2>7. QED
    BY <1>1, <1>2, <1>5, <1>10, <1>16, <2>3, <2>4, <2>5, <2>6, StageStep DEF TypeInv, Inside
<1>17. ASSUME t # POISONPILL
       PROVE  /\ t \in Tasks /\ kind[t] = "helper" /\ at[t] = s /\ t \in H
              /\ Lists(Tail(hq), H \ {t})
  <2>1. t \in H /\ Lists(Tail(hq), H \ {t})
    BY <1>4, <1>5, <1>7, <1>9, <1>17, TakeTask
  <2>2. \A u \in H : kind[u] = "helper" /\ at[u] = s
    BY <1>8, HereTasks
  <2>3. QED
    BY <2>1, <2>2
<1>18. ASSUME t # POISONPILL
       PROVE  /\ t \in ca /\ co[t] = NotDone
              /\ s = BUILD => im[t] = NotDone
              /\ s = TEST => im[t] \in Ids(TEST)
  BY <1>13, <1>17, <1>18, AtStage DEF InStage
<1>19. ASSUME t # POISONPILL
       PROVE  t \notin B
  BY <1>14, <1>17, <1>19 DEF Busy
<1>20. CASE /\ t # POISONPILL /\ helper' = helper
            /\ done_dict[s][GetIdentifier(s, t)] # NotDone
            /\ SetResult(s, {t}, done_dict[s][GetIdentifier(s, t)])
            /\ Put(Out(s), <<t>>)
            /\ UNCHANGED waiting_list
  <2>1. PICK id \in Ids(s) : id = GetIdentifier(s, t)
    BY <1>12, <1>17, <1>18, <1>20, Names, FoundResults DEF GetIdentifier
  <2>2. PICK r \in Found(s) : r = done_dict[s][id]
    BY <1>1, <1>20, <2>1 DEF TypeInv, HelperType
  <2>3. SetResult(s, {t}, r) /\ {t} \in SUBSET Tasks
    BY <1>17, <1>20, <2>1, <2>2
  <2>4. /\ ResultType'
        /\ s = BUILD => image' = Upd(im, {t}, r) /\ cost' = co
        /\ s = TEST => cost' = Upd(co, {t}, r) /\ image' = im
    BY <1>1, <1>12, <2>3, SetResultEffect DEF TypeInv
  <2>5. PICK im2, co2 : im2 = image' /\ co2 = cost'
    OBVIOUS
  <2>6. PICK kind2 \in [Tasks -> Kinds], at2 \in [Tasks -> Spots] :
          kind2 = Place(kind, {t}, "queue") /\ at2 = Place(at, {t}, Out(s))
    <3>1. "queue" \in Kinds /\ Out(s) \in Spots
      BY Names DEF Kinds, Spots
    <3>2. QED
      BY <2>3, <3>1, PlaceType
  <2>7. Way(kind2) = Way(kind) /\ t \in Way(kind)
    BY <1>17, <1>20, <2>6, WaySame DEF Way, Kinds
  <2>8. ProcessType' /\ Pills' /\ InLists(kind2, at2, "queue", queue', Queues)
    <3>1. Lists(<<t>>, {t}) /\ <<t>> \in Seq(Items) /\ NoPill(<<t>>)
      BY <1>17, <1>20, ListsOne, NoPillOne
    <3>2. InLists(kind, at, "queue", queue, Queues) /\ \A u \in {t} : kind[u] = "helper"
      BY <1>2, <1>17, <1>20 DEF Inside, Located
    <3>3. steer' = steer /\ pc' = pc /\ mycache' = mycache
      BY <1>5 DEF Outside
    <3>4. QED
      BY <1>1, <1>20, <2>3, <2>6, <3>1, <3>2, <3>3, Delivered
  <2>9. InLists(kind2, at2, "helper", helper_queue', Stages)
    BY <1>2, <1>5, <1>7, <1>8, <1>17, <1>20, <2>6, MoveFrom DEF Inside, Located
  <2>10. /\ InLists(kind2, at2, "wait", waiting_list, Stages)
         /\ InLists(kind2, at2, "pool", work_pool, Stages)
         /\ InSets(kind2, at2, "work", working)
         /\ InSets(kind2, at2, "put", putting)
         /\ InSets(kind2, at2, "raised", raised)
    BY <1>2, <1>17, <1>20, <2>3, <2>6, MoveElse DEF Inside, Located
  <2>11. Located(kind2, at2)'
    BY <1>5, <1>20, <2>8, <2>9, <2>10 DEF Located, Outside
  <2>12. HelperType'
    BY <1>1, <1>5, <1>11, <1>20 DEF TypeInv, HelperType, Items
  <2>13. Data(im2, co2, ca, kind2, at2)
    <3>1. \A u \in Tasks \ {t} : im2[u] = im[u] /\ co2[u] = co[u]
      BY <2>4, <2>5, Names DEF Upd
    <3>2. ~Early("queue", Out(s))
      BY Names DEF Early, InStage, Queues
    <3>3. Mid("queue", Out(s)) => s = BUILD
      BY Names DEF Mid, InStage
    <3>4. s = BUILD => im2[t] # NotDone /\ co2[t] = NotDone
      BY <1>17, <1>18, <1>20, <2>4, <2>5, FoundResults DEF Upd
    <3>5. Late("queue", Out(s)) => s = TEST
      BY Names DEF Late, Queues
    <3>6. s = TEST => im2[t] \in Ids(TEST) /\ co2[t] = r /\ r \in Found(TEST)
      BY <1>17, <1>18, <1>20, <2>4, <2>5 DEF Upd
    <3>7. s = TEST => im2[t] # NotDone /\ co2[t] # NotDone
      BY <3>6, FoundResults, Names
    <3>8. Fits("queue", Out(s))
      BY Names, Fitting
    <3>9. QED
      BY <1>13, <1>18, <1>20, <2>3, <2>6, <3>1, <3>2, <3>3, <3>4, <3>5, <3>7, <3>8, DataMoves
  <2>14. Busy(kind2, at2) = B
    <3>1. Busy(kind2, at2) = B \ {t}
      BY <1>14, <2>3, <2>6, BusyMove
    <3>2. QED
      BY <1>19, <1>20, <3>1
  <2>15. Known(im2, co2, dd, wq, my, B)
    <3>1. CASE s = BUILD
      <4>1. co2 = co /\ \A u \in Tasks : im2[u] # im[u] => u = t
        BY <2>4, <2>5, <3>1 DEF Upd
      <4>2. QED
        BY <1>15, <1>18, <1>19, <1>20, <4>1, KnownImage
    <3>2. CASE s = TEST
      <4>1. id = im[t] /\ id \in Ids(TEST) /\ r = dd[id] /\ co2 = Upd(co, {t}, dd[id]) /\ im2 = im
        BY <1>12, <1>14, <2>1, <2>2, <2>4, <2>5, <3>2, Names DEF GetIdentifier
      <4>2. QED
        BY <1>15, <2>3, <4>1, KnownResolve
    <3>3. QED
      BY <3>1, <3>2, Names
  <2>16. \A u \in Tasks \ Way(kind) : cost'[u] = cost[u]
    BY <1>12, <2>4, <2>7, Names DEF Upd
  <2>17. /\ Known(image', cost', done_dict'[TEST], work_queue'[TEST], mycache'[TEST], Busy(kind2, at2))
         /\ Data(image', cost', cache', kind2, at2)
    BY <1>5, <1>12, <1>14, <2>5, <2>13, <2>14, <2>15 DEF Outside
  <2>18. QED
    BY <1>1, <1>2, <1>5, <1>10, <2>4, <2>7, <2>8, <2>11, <2>12, <2>16, <2>17, StageStep DEF TypeInv, Inside
<1>21. CASE /\ t # POISONPILL /\ helper' = helper
            /\ waiting_list' = [waiting_list EXCEPT ![s] = Append(@, t)]
            /\ UNCHANGED <<queue, image, cost>>
  <2>1. t \in Tasks /\ {t} \in SUBSET Tasks
    BY <1>17, <1>21
  <2>2. PICK kind2 \in [Tasks -> Kinds], at2 \in [Tasks -> Spots] :
          kind2 = Place(kind, {t}, "wait") /\ at2 = Place(at, {t}, s)
    <3>1. "wait" \in Kinds /\ s \in Spots
      BY DEF Kinds, Spots
    <3>2. QED
      BY <2>1, <3>1, PlaceType
  <2>3. Way(kind2) = Way(kind)
    BY <1>17, <1>21, <2>2, WaySame DEF Way, Kinds
  <2>4. PICK wl : wl = waiting_list[s]
    OBVIOUS
  <2>5. PICK L \in SUBSET Tasks : L = Here(kind, at, "wait", s)
    BY HereTasks
  <2>6. wl \in Seq(Tasks) /\ wl \in Seq(Items) /\ Lists(wl, L) /\ t \notin L
    <3>1. wl \in Seq(Tasks) /\ Lists(wl, L)
      BY <1>1, <1>2, <2>4, <2>5 DEF Inside, Located, InLists, TypeInv, HelperType
    <3>2. t \notin L
      BY <1>17, <1>21, <2>5, HereTasks
    <3>3. QED
      BY <3>1, <3>2, SeqMonotonic DEF Items
  <2>7. Lists(Append(wl, t), L \cup {t}) /\ Append(wl, t) \in Seq(Tasks)
    <3>1. Lists(Append(wl, t), L \cup {t})
      BY <2>1, <2>6, AppendTask
    <3>2. QED
      BY <2>1, <2>6, <3>1, AppendProperties
  <2>8. waiting_list' = [waiting_list EXCEPT ![s] = Append(wl, t)]
    BY <1>21, <2>4
  <2>9. InLists(kind2, at2, "wait", waiting_list', Stages)
    <3>1. InLists(kind, at, "wait", waiting_list, Stages)
      BY <1>2 DEF Inside, Located
    <3>2. \A u \in {t} : kind[u] = "helper"
      BY <1>17, <1>21
    <3>3. QED
      BY <1>7, <2>1, <2>2, <2>5, <2>7, <2>8, <3>1, <3>2, MoveTo
  <2>10. InLists(kind2, at2, "helper", helper_queue', Stages)
    BY <1>2, <1>5, <1>7, <1>8, <1>17, <1>21, <2>2, MoveFrom DEF Inside, Located
  <2>11. /\ InLists(kind2, at2, "queue", queue, Queues)
         /\ InLists(kind2, at2, "pool", work_pool, Stages)
         /\ InSets(kind2, at2, "work", working)
         /\ InSets(kind2, at2, "put", putting)
         /\ InSets(kind2, at2, "raised", raised)
    BY <1>2, <1>17, <1>21, <2>1, <2>2, MoveElse DEF Inside, Located
  <2>12. Located(kind2, at2)'
    BY <1>5, <1>21, <2>9, <2>10, <2>11 DEF Located, Outside
  <2>13. waiting_list' \in [Stages -> Seq(Tasks)]
    BY <1>1, <2>7, <2>8 DEF TypeInv, HelperType
  <2>14. HelperType'
    BY <1>1, <1>5, <1>11, <1>21, <2>13 DEF TypeInv, HelperType, Items
  <2>15. ResultType' /\ ProcessType' /\ Pills'
    BY <1>1, <1>5, <1>21 DEF TypeInv, ResultType, ProcessType, Pills, Outside
  <2>16. Data(im, co, ca, kind2, at2)
    BY <1>13, <1>17, <1>21, <2>2, StageData DEF InStage
  <2>17. Known(im, co, dd, wq, my, Busy(kind2, at2))
    <3>1. Busy(kind2, at2) \in SUBSET B
      BY <1>14, <2>1, <2>2, BusyMove
    <3>2. QED
      BY <1>15, <3>1, KnownFewer
  <2>18. /\ Known(image', cost', done_dict'[TEST], work_queue'[TEST], mycache'[TEST], Busy(kind2, at2))
         /\ Data(image', cost', cache', kind2, at2)
    BY <1>5, <1>12, <1>14, <1>21, <2>16, <2>17 DEF Outside
  <2>19. QED
    BY <1>1, <1>2, <1>5, <1>10, <1>21, <2>3, <2>12, <2>14, <2>15, <2>18, StageStep DEF TypeInv, Inside
<1>22. QED
  BY <1>6, <1>16, <1>20, <1>21

\* A result reaches the helper and the duplicates that wait for it.
LEMMA GetResultKeeps ==
  ASSUME NEW s \in Stages, IInv, GetResultFromCompletedQueue(s)
  PROVE  IInv'
<1>1. TypeInv /\ Pills /\ Optimum
  BY DEF IInv
<1>2. PICK kind \in [Tasks -> Kinds], at \in [Tasks -> Spots] : Inside(kind, at)
  BY DEF IInv
<1>3. PICK ws \in Seq(Ids(s) \X Found(s)) : ws = work_queue[s] /\ ws # <<>>
  BY <1>1 DEF TypeInv, HelperType, GetResultFromCompletedQueue
<1>4. PICK m \in Ids(s) \X Found(s) : m = Head(ws)
  BY <1>3, HeadTailProperties
<1>5. m[1] \in Ids(s) /\ m[2] \in Found(s)
  BY <1>4
<1>6. PICK id \in Ids(s), r \in Found(s) : id = m[1] /\ r = m[2]
  BY <1>5
<1>7. PICK T : T = Resolved(s, id)
  OBVIOUS
<1>8. PICK wl \in Seq(Tasks) : wl = waiting_list[s]
  BY <1>1 DEF TypeInv, HelperType
<1>9. PICK W \in SUBSET Tasks : W = Here(kind, at, "wait", s)
  BY HereTasks
<1>10. Lists(wl, W) /\ wl \in Seq(Items) /\ ToSet(wl) = W
  <2>1. Lists(wl, W) /\ wl \in Seq(Items)
    BY <1>2, <1>8, <1>9, SeqMonotonic DEF Inside, Located, InLists, Items
  <2>2. QED
    BY <2>1, ListsToSet
<1>11. T \subseteq W /\ T \in SUBSET Tasks /\ W \ T \in SUBSET Tasks /\ \A t \in T : GetIdentifier(s, t) = id
  BY <1>7, <1>8, <1>10 DEF Resolved
<1>12. /\ work_queue' = [work_queue EXCEPT ![s] = Tail(ws)]
       /\ done_dict' = [done_dict EXCEPT ![s][id] = r]
       /\ SetResult(s, T, r)
       /\ \E ts \in InOrder(wl, T) : Put(Out(s), ts)
       /\ \E ts \in InOrder(wl, W \ T) : waiting_list' = [waiting_list EXCEPT ![s] = ts]
       /\ Outside /\ UNCHANGED steerVars /\ helper' = helper /\ helper_queue' = helper_queue
  BY <1>3, <1>4, <1>6, <1>7, <1>8, <1>10 DEF GetResultFromCompletedQueue, Outside, steerVars, workVars
<1>13. PICK ts \in SetToSeqs(T) : Put(Out(s), ts)
  BY <1>12 DEF InOrder
<1>14. PICK us \in SetToSeqs(W \ T) : waiting_list' = [waiting_list EXCEPT ![s] = us]
  BY <1>12 DEF InOrder
<1>15. Lists(ts, T) /\ ts \in Seq(Items) /\ NoPill(ts)
  BY <1>11, SeqOfTasks
<1>16. Lists(us, W \ T) /\ us \in Seq(Tasks)
  BY <1>11, SeqOfTasks
<1>17. \A t \in T : kind[t] = "wait" /\ at[t] = s
  BY <1>9, <1>11, HereTasks
<1>18. PICK im \in Images, co \in TestCosts, ca \in {cache} : im = image /\ co = cost /\ ca = cache
  BY <1>1, FoundResults DEF TypeInv, ResultType, Images, TestCosts
<1>19. Data(im, co, ca, kind, at)
  BY <1>2, <1>18 DEF Inside
<1>20. PICK dd \in Dd, wq \in Wq, my \in SUBSET Ids(TEST), B \in SUBSET Tasks :
         dd = done_dict[TEST] /\ wq = work_queue[TEST] /\ my = mycache[TEST] /\ B = Busy(kind, at)
  BY <1>1, Names DEF TypeInv, HelperType, ProcessType, Dd, Wq, Busy
<1>21. Known(im, co, dd, wq, my, B)
  BY <1>2, <1>18, <1>20 DEF Inside
<1>22. ASSUME NEW t \in T
       PROVE  /\ t \in ca /\ co[t] = NotDone
              /\ s = BUILD => im[t] = NotDone
              /\ s = TEST => im[t] \in Ids(TEST)
              /\ t \notin B
  <2>1. t \in Tasks /\ kind[t] = "wait" /\ at[t] = s
    BY <1>11, <1>17
  <2>2. t \notin B
    BY <1>20, <2>1 DEF Busy
  <2>3. QED
    BY <1>19, <2>1, <2>2, AtStage DEF InStage
<1>23. /\ ResultType'
       /\ s = BUILD => image' = Upd(im, T, r) /\ cost' = co
       /\ s = TEST => cost' = Upd(co, T, r) /\ image' = im
  BY <1>1, <1>11, <1>12, <1>18, SetResultEffect DEF TypeInv
<1>24. PICK im2, co2 : im2 = image' /\ co2 = cost'
  OBVIOUS
<1>25. PICK kind2 \in [Tasks -> Kinds], at2 \in [Tasks -> Spots] :
         kind2 = Place(kind, T, "queue") /\ at2 = Place(at, T, Out(s))
  <2>1. "queue" \in Kinds /\ Out(s) \in Spots
    BY Names DEF Kinds, Spots
  <2>2. QED
    BY <1>11, <2>1, PlaceType
<1>26. Way(kind2) = Way(kind) /\ T \subseteq Way(kind)
  <2>1. T \in SUBSET Way(kind)
    BY <1>11, <1>17 DEF Way
  <2>2. QED
    BY <1>25, <2>1, WaySame DEF Kinds
<1>27. ProcessType' /\ Pills' /\ InLists(kind2, at2, "queue", queue', Queues)
  <2>1. InLists(kind, at, "queue", queue, Queues)
    BY <1>2 DEF Inside, Located
  <2>2. steer' = steer /\ pc' = pc /\ mycache' = mycache
    BY <1>12 DEF Outside
  <2>3. \A t \in T : kind[t] = "wait"
    BY <1>17
  <2>4. QED
    BY <1>1, <1>11, <1>13, <1>15, <1>25, <2>1, <2>2, <2>3, Delivered
<1>28. InLists(kind2, at2, "wait", waiting_list', Stages)
  <2>1. InLists(kind, at, "wait", waiting_list, Stages) /\ DOMAIN waiting_list = Stages
    BY <1>1, <1>2 DEF Inside, Located, TypeInv, HelperType
  <2>2. QED
    BY <1>9, <1>11, <1>14, <1>16, <1>25, <2>1, MoveFrom
<1>29. /\ InLists(kind2, at2, "helper", helper_queue, Stages)
       /\ InLists(kind2, at2, "pool", work_pool, Stages)
       /\ InSets(kind2, at2, "work", working)
       /\ InSets(kind2, at2, "put", putting)
       /\ InSets(kind2, at2, "raised", raised)
  BY <1>2, <1>11, <1>17, <1>25, MoveElse DEF Inside, Located
<1>30. Located(kind2, at2)'
  BY <1>12, <1>27, <1>28, <1>29 DEF Located, Outside
<1>31. WorkerType'
  BY <1>1, <1>12 DEF TypeInv, WorkerType, Outside
<1>32. HelperType'
  <2>1. waiting_list' \in [Stages -> Seq(Tasks)]
    BY <1>1, <1>14, <1>16 DEF TypeInv, HelperType
  <2>2. Tail(ws) \in Seq(Ids(s) \X Found(s))
    BY <1>3, HeadTailProperties
  <2>3. DOMAIN work_queue' = Stages /\ \A x \in Stages : work_queue'[x] \in Seq(Ids(x) \X Found(x))
    BY <1>1, <1>12, <2>2 DEF TypeInv, HelperType
  <2>4. PICK d \in [Ids(s) -> Found(s) \cup {NotDone}] : d = done_dict[s]
    BY <1>1 DEF TypeInv, HelperType
  <2>5. [d EXCEPT ![id] = r] \in [Ids(s) -> Found(s) \cup {NotDone}]
    OBVIOUS
  <2>6. done_dict' = [done_dict EXCEPT ![s] = [d EXCEPT ![id] = r]]
    BY <1>12, <2>4
  <2>7. DOMAIN done_dict' = Stages /\ \A x \in Stages : done_dict'[x] \in [Ids(x) -> Found(x) \cup {NotDone}]
    BY <1>1, <2>5, <2>6 DEF TypeInv, HelperType
  <2>8. QED
    BY <1>1, <1>12, <2>1, <2>3, <2>7 DEF TypeInv, HelperType
<1>33. Data(im2, co2, ca, kind2, at2)
  <2>1. \A u \in Tasks \ T : im2[u] = im[u] /\ co2[u] = co[u]
    BY <1>23, <1>24, Names DEF Upd
  <2>2. ~Early("queue", Out(s))
    BY Names DEF Early, InStage, Queues
  <2>3. Mid("queue", Out(s)) => s = BUILD
    BY Names DEF Mid, InStage
  <2>4. s = BUILD => \A u \in T : im2[u] # NotDone /\ co2[u] = NotDone
    BY <1>11, <1>22, <1>23, <1>24, FoundResults DEF Upd
  <2>5. Late("queue", Out(s)) => s = TEST
    BY Names DEF Late, Queues
  <2>6. s = TEST => \A u \in T : im2[u] \in Ids(TEST) /\ co2[u] = r /\ r \in Found(TEST)
    BY <1>11, <1>22, <1>23, <1>24 DEF Upd
  <2>7. s = TEST => \A u \in T : im2[u] # NotDone /\ co2[u] # NotDone
    BY <2>6, FoundResults, Names
  <2>8. Fits("queue", Out(s))
    BY Names, Fitting
  <2>9. \A u \in T :
          /\ u \in ca
          /\ Early("queue", Out(s)) => im2[u] = NotDone /\ co2[u] = NotDone
          /\ Mid("queue", Out(s)) => im2[u] # NotDone /\ co2[u] = NotDone
          /\ Late("queue", Out(s)) => im2[u] # NotDone /\ co2[u] # NotDone
    BY <1>22, <2>2, <2>3, <2>4, <2>5, <2>7
  <2>10. QED
    BY <1>11, <1>19, <1>25, <2>1, <2>8, <2>9, DataMoves
<1>34. Busy(kind2, at2) = B
  <2>1. Busy(kind2, at2) = B \ T
    BY <1>11, <1>20, <1>25, BusyMove
  <2>2. QED
    BY <1>22, <2>1
<1>35. Known(im2, co2, done_dict'[TEST], work_queue'[TEST], my, B)
  <2>1. DOMAIN work_queue = Stages /\ DOMAIN done_dict = Stages /\ TEST \in Stages
    BY <1>1, Names DEF TypeInv, HelperType
  <2>2. CASE s = BUILD
    <3>1. co2 = co /\ \A u \in Tasks : im2[u] # im[u] => u \in T
      BY <1>23, <1>24, <2>2 DEF Upd
    <3>2. Known(im2, co, dd, wq, my, B)
      BY <1>21, <1>22, <3>1, KnownImage
    <3>3. work_queue'[TEST] = wq /\ done_dict'[TEST] = dd
      BY <1>12, <1>20, <2>1, <2>2, Names
    <3>4. QED
      BY <3>1, <3>2, <3>3
  <2>3. CASE s = TEST
    <3>1. ws = wq /\ Head(wq)[1] = id /\ Head(wq)[2] = r /\ wq # <<>>
      BY <1>3, <1>4, <1>6, <1>20, <2>3
    <3>2. PICK d : d = [dd EXCEPT ![id] = r]
      OBVIOUS
    <3>3. Known(im, co, d, Tail(wq), my, B)
      BY <1>21, <3>1, <3>2, KnownDone
    <3>4. d[id] = r /\ id \in Ids(TEST)
      BY <1>6, <2>3, <3>2 DEF Dd
    <3>5. \A t \in T : im[t] = id
      BY <1>11, <1>18, <2>3, Names DEF GetIdentifier
    <3>6. Known(im, Upd(co, T, d[id]), d, Tail(wq), my, B)
      BY <1>11, <3>3, <3>4, <3>5, KnownResolve
    <3>7. work_queue'[TEST] = Tail(wq)
      BY <1>12, <2>1, <2>3, <3>1
    <3>8. done_dict'[TEST] = d
      BY <1>12, <1>20, <2>1, <2>3, <3>2
    <3>9. co2 = Upd(co, T, d[id]) /\ im2 = im
      BY <1>23, <1>24, <2>3, <3>4
    <3>10. QED
      BY <3>6, <3>7, <3>8, <3>9
  <2>4. QED
    BY <2>2, <2>3, Names
<1>36. \A u \in Tasks \ Way(kind) : cost'[u] = cost[u]
  BY <1>18, <1>23, <1>26, Names DEF Upd
<1>37. /\ Known(image', cost', done_dict'[TEST], work_queue'[TEST], mycache'[TEST], Busy(kind2, at2))
       /\ Data(image', cost', cache', kind2, at2)
  BY <1>12, <1>18, <1>20, <1>24, <1>33, <1>34, <1>35 DEF Outside
<1>38. QED
  BY <1>1, <1>2, <1>12, <1>23, <1>26, <1>27, <1>30, <1>31, <1>32, <1>36, <1>37, StageStep DEF TypeInv, Inside

-----------------------------------------------------------------------------
(* Flag sets and generations                                               *)

\* Values of flags are numbers from 0 on.
LEMMA FlagValuesInt == \A s \in Specs : FlagValues(s) \subseteq Int
BY FlagsAssumption DEF FlagValues

\* A spec gets another value of its own.
LEMMA FlagExcept ==
  ASSUME NEW f \in FlagSet, NEW s \in Specs, NEW v \in FlagValues(s) \cup {Off}
  PROVE  [f EXCEPT ![s] = v] \in FlagSet
<1>1. PICK V : V = (UNION {FlagValues(x) : x \in Specs}) \cup {Off}
  OBVIOUS
<1>2. f \in [Specs -> V] /\ \A x \in Specs : f[x] \in FlagValues(x) \cup {Off}
  BY <1>1 DEF FlagSet
<1>3. v \in V
  BY <1>1
<1>4. PICK g : g = [f EXCEPT ![s] = v]
  OBVIOUS
<1>5. g \in [Specs -> V] /\ \A x \in Specs : g[x] \in FlagValues(x) \cup {Off}
  BY <1>2, <1>3, <1>4
<1>6. g \in FlagSet
  BY <1>1, <1>5 DEF FlagSet
<1>7. QED
  BY <1>4, <1>6

\* The flag set the elimination starts with is a task,
LEMMA AllFlagsTask == AllFlags \in Tasks /\ \A s \in Specs : AllFlags[s] \in FlagValues(s)
<1>1. PICK V : V = (UNION {FlagValues(x) : x \in Specs}) \cup {Off}
  OBVIOUS
<1>2. \A s \in Specs : AllFlags[s] \in FlagValues(s)
  BY FlagsAssumption DEF AllFlags, FlagValues
<1>3. \A s \in Specs : AllFlags[s] \in V
  BY <1>1, <1>2
<1>4. AllFlags \in [Specs -> V]
  BY <1>3 DEF AllFlags
<1>5. QED
  BY <1>1, <1>2, <1>4 DEF FlagSet, Tasks

\* and so are the neighbours along a flag,
LEMMA ClimbTasks ==
  ASSUME NEW f \in Tasks, NEW s \in Specs
  PROVE  ClimbNext(f, s) \subseteq Tasks
<1> SUFFICES ASSUME NEW g \in ClimbNext(f, s) PROVE g \in Tasks
  OBVIOUS
<1>1. f \in FlagSet /\ f[s] \in FlagValues(s) \cup {Off}
  BY DEF Tasks, FlagSet
<1>2. PICK v : /\ g = [f EXCEPT ![s] = v]
               /\ v \in IF f[s] = Off THEN {IF s \in Numeric THEN Start[s] ELSE 0}
                        ELSE IF s \notin Numeric THEN {Off}
                        ELSE {w \in {f[s] + 1} : w < End[s]} \cup {IF f[s] > Start[s] THEN f[s] - 1 ELSE Off}
  BY DEF ClimbNext
<1>3. v \in FlagValues(s) \cup {Off}
  <2>1. CASE s \notin Numeric
    BY <1>2, <2>1 DEF FlagValues
  <2>2. CASE s \in Numeric
    <3>1. FlagValues(s) = Start[s]..End[s] /\ Start[s] \in Nat /\ End[s] \in Nat /\ 0 < Start[s] /\ Start[s] + 2 <= End[s]
      BY <2>2, FlagsAssumption DEF FlagValues
    <3>2. CASE f[s] = Off
      BY <1>2, <2>2, <3>1, <3>2
    <3>3. CASE f[s] # Off
      <4>1. f[s] \in Start[s]..End[s]
        BY <1>1, <3>1, <3>3
      <4>2. v \in {w \in {f[s] + 1} : w < End[s]} \cup {IF f[s] > Start[s] THEN f[s] - 1 ELSE Off}
        BY <1>2, <2>2, <3>3
      <4>3. CASE v = f[s] + 1 /\ v < End[s]
        BY <3>1, <4>1, <4>3
      <4>4. CASE v = IF f[s] > Start[s] THEN f[s] - 1 ELSE Off
        BY <3>1, <4>1, <4>4
      <4>5. QED
        BY <4>2, <4>3, <4>4
    <3>4. QED
      BY <3>2, <3>3
  <2>3. QED
    BY <2>1, <2>2
<1>4. QED
  BY <1>1, <1>2, <1>3, FlagExcept DEF Tasks

\* a flag set with one flag decreased,
LEMMA DecreaseTask ==
  ASSUME NEW f \in Tasks, NEW s \in Specs, f[s] # Off
  PROVE  DecreaseFlag(f, s) \in Tasks
<1>1. f \in FlagSet /\ f[s] \in FlagValues(s)
  BY DEF Tasks, FlagSet
<1>2. PICK v : v = IF s \in Numeric /\ f[s] # Start[s] THEN f[s] - 1 ELSE Off
  OBVIOUS
<1>3. v \in FlagValues(s) \cup {Off}
  <2>1. CASE s \in Numeric /\ f[s] # Start[s]
    <3>1. FlagValues(s) = Start[s]..End[s] /\ Start[s] \in Nat /\ End[s] \in Nat
      BY <2>1, FlagsAssumption DEF FlagValues
    <3>2. QED
      BY <1>1, <1>2, <2>1, <3>1
  <2>2. CASE ~(s \in Numeric /\ f[s] # Start[s])
    BY <1>2, <2>2
  <2>3. QED
    BY <2>1, <2>2
<1>4. DecreaseFlag(f, s) = [f EXCEPT ![s] = v]
  BY <1>2 DEF DecreaseFlag
<1>5. QED
  BY <1>1, <1>3, <1>4, FlagExcept DEF Tasks

\* all neighbours,
LEMMA NeighbourTasks ==
  ASSUME NEW al, NEW t \in Tasks
  PROVE  Neighbours(al, t) \in SUBSET Tasks
<1>1. CASE al = "HillClimb"
  BY <1>1, ClimbTasks DEF Neighbours
<1>2. CASE al # "HillClimb"
  BY <1>2, DecreaseTask DEF Neighbours, Enabled
<1>3. QED
  BY <1>1, <1>2

\* and what the genetic algorithm makes of tasks.
LEMMA ChildrenTasks == \A R : Children(R) \subseteq Tasks
BY DEF Children, ReproduceWith, RandomMutate, Tasks

\* A new generation waits for all its tasks.
LEMMA GenerationType ==
  ASSUME NEW P \in SUBSET Tasks, NEW R \in SUBSET Tasks, NEW n \in 0..StopThreshold
  PROVE  /\ Generation(P, R, n) \in Gens
         /\ Generation(P, R, n).pool = P /\ Generation(P, R, n).parents = R
         /\ Generation(P, R, n).pending = Cardinality(P)
BY FiniteTasks DEF Generation, Gens

\* The first generation.
LEMMA InitialType ==
  ASSUME NEW al \in Algorithms, NEW g \in Initial(al)
  PROVE  g \in Gens /\ g.pending = Cardinality(g.pool) /\ Fresh(al, g)
<1>1. al \in {"GA", "HillClimb", "Elimination"} /\ 0 \in 0..StopThreshold
  BY GenerationsAssumption
<1>2. CASE al = "GA"
  <2>1. PICK S \in SUBSET Tasks : g = Generation(S, {}, 0)
    BY <1>2 DEF Initial
  <2>2. PICK E \in SUBSET Tasks : E = {}
    OBVIOUS
  <2>3. g = Generation(S, E, 0)
    BY <2>1, <2>2
  <2>4. g \in Gens /\ g.pool = S /\ g.pending = Cardinality(S)
    BY <1>1, <2>3, GenerationType
  <2>5. QED
    BY <1>2, <2>4 DEF Fresh
<1>3. CASE al = "HillClimb"
  <2>1. PICK f \in Tasks : g = Generation({f}, {}, 0)
    BY <1>3 DEF Initial
  <2>2. PICK P \in SUBSET Tasks : P = {f}
    OBVIOUS
  <2>3. PICK E \in SUBSET Tasks : E = {}
    OBVIOUS
  <2>4. g = Generation(P, E, 0)
    BY <2>1, <2>2, <2>3
  <2>5. g \in Gens /\ g.pool = P /\ g.parents = E /\ g.pending = Cardinality(P)
    BY <1>1, <2>4, GenerationType
  <2>6. QED
    BY <2>3, <2>5 DEF Fresh
<1>4. CASE al = "Elimination"
  <2>1. PICK P : P = {AllFlags} \cup {DecreaseFlag(AllFlags, s) : s \in Specs}
    OBVIOUS
  <2>2. g = Generation(P, {AllFlags}, 0)
    <3>1. al # "GA" /\ al # "HillClimb"
      BY <1>4
    <3>2. Initial(al) = {Generation({AllFlags} \cup {DecreaseFlag(AllFlags, s) : s \in Specs}, {AllFlags}, 0)}
      BY <1>4, <3>1, Zenon DEF Initial
    <3>3. QED
      BY <2>1, <3>2
  <2>3. ASSUME NEW s \in Specs
        PROVE  AllFlags[s] # Off
    <3>1. AllFlags[s] \in FlagValues(s)
      BY AllFlagsTask
    <3>2. FlagValues(s) \subseteq Nat
      BY FlagsAssumption DEF FlagValues
    <3>3. QED
      BY <3>1, <3>2 DEF Off
  <2>4. \A s \in Specs : DecreaseFlag(AllFlags, s) \in Tasks
    BY <2>3, AllFlagsTask, DecreaseTask
  <2>5. P \in SUBSET Tasks /\ {AllFlags} \in SUBSET Tasks /\ AllFlags \in P
    BY <2>1, <2>4, AllFlagsTask
  <2>6. g \in Gens /\ g.pool = P /\ g.parents = {AllFlags} /\ g.pending = Cardinality(P)
    BY <1>1, <2>2, <2>5, GenerationType
  <2>7. Neighbours(al, AllFlags) \subseteq P
    BY <1>4, <2>1 DEF Neighbours, Enabled
  <2>8. QED
    BY <2>5, <2>6, <2>7 DEF Fresh
<1>5. QED
  BY <1>1, <1>2, <1>3, <1>4

\* What Next of an algorithm returns: nothing, when the best task has no
\* neighbours, or a generation of new tasks.
Follows(al, co, g, ca, gens) ==
  \/ /\ gens = <<>>
     /\ al # "GA" => \E b \in Best(co, g.pool \ g.parents) : Neighbours(al, b) = {}
  \/ \E h \in Gens :
       /\ gens = <<h>> /\ h.pool \cap ca = {} /\ h.pending = Cardinality(h.pool)
       /\ al # "GA" => \E b \in Best(co, g.pool) \cup Best(co, g.pool \ g.parents) :
                         h.parents = {b} /\ h.pool = Neighbours(al, b) \ ca

\* Next of every algorithm.
LEMMA NextGeneration ==
  ASSUME NEW al \in {"GA", "HillClimb", "Elimination"}, NEW co, NEW g \in Gens, NEW ca \in SUBSET Tasks,
         NEW gens \in NextGenerations(al, co, g, ca)
  PROVE  Follows(al, co, g, ca, gens)
<1>1. /\ g.pool \in SUBSET Tasks /\ g.parents \in SUBSET Tasks /\ g.stucks \in 0..StopThreshold
      /\ 0 \in 0..StopThreshold
  BY GenerationsAssumption DEF Gens
<1>2. ASSUME NEW b \in Best(co, g.pool) \cup Best(co, g.pool \ g.parents),
             gens = <<Generation(NewTasks(Neighbours(al, b), ca), {b}, 0)>>
      PROVE  \E h \in Gens :
              /\ gens = <<h>> /\ h.pool \cap ca = {} /\ h.pending = Cardinality(h.pool)
              /\ al # "GA" => \E x \in Best(co, g.pool) \cup Best(co, g.pool \ g.parents) :
                                h.parents = {x} /\ h.pool = Neighbours(al, x) \ ca
  <2>1. b \in Tasks
    BY <1>1 DEF Best
  <2>2. PICK P \in SUBSET Tasks : P = Neighbours(al, b) \ ca
    BY <2>1, NeighbourTasks
  <2>3. PICK h : h = Generation(P, {b}, 0)
    OBVIOUS
  <2>4. h \in Gens /\ h.pool = P /\ h.parents = {b} /\ h.pending = Cardinality(P)
    BY <1>1, <2>1, <2>3, GenerationType
  <2>5. gens = <<h>>
    BY <1>2, <2>2, <2>3 DEF NewTasks
  <2>6. QED
    BY <2>2, <2>4, <2>5
<1>3. CASE al = "GA"
  <2>1. CASE gens = <<>>
    BY <1>3, <2>1 DEF Follows
  <2>2. CASE gens # <<>>
    <3>1. PICK R \in Retained(co, g) : \E C \in SUBSET NewTasks(Children(R), ca) : gens = <<Generation(C, R, g.stucks)>>
      BY <1>3, <2>2 DEF NextGenerations
    <3>7. PICK C \in SUBSET NewTasks(Children(R), ca) : gens = <<Generation(C, R, g.stucks)>>
      BY <3>1
    <3>2. R \in SUBSET Tasks
      BY <1>1 DEF Retained
    <3>3. C \in SUBSET Tasks /\ C \cap ca = {}
      BY ChildrenTasks DEF NewTasks
    <3>4. PICK h : h = Generation(C, R, g.stucks)
      OBVIOUS
    <3>5. h \in Gens /\ h.pool = C /\ h.pending = Cardinality(C)
      BY <1>1, <3>2, <3>3, <3>4, GenerationType
    <3>6. QED
      BY <1>3, <3>7, <3>3, <3>4, <3>5 DEF Follows
  <2>3. QED
    BY <2>1, <2>2
<1>4. CASE al = "HillClimb"
  <2>1. PICK b \in Best(co, g.pool) : gens = <<Generation(NewTasks(Neighbours(al, b), ca), {b}, 0)>>
    BY <1>4 DEF NextGenerations
  <2>2. QED
    BY <1>2, <2>1 DEF Follows
<1>5. CASE al = "Elimination"
  <2>1. PICK b \in Best(co, g.pool \ g.parents) :
          gens = IF Enabled(b) = {} THEN <<>>
                 ELSE <<Generation(NewTasks(Neighbours(al, b), ca), {b}, 0)>>
    BY <1>5 DEF NextGenerations
  <2>2. CASE Enabled(b) = {}
    <3>1. Neighbours(al, b) = {}
      BY <1>5, <2>2 DEF Neighbours
    <3>2. QED
      BY <2>1, <2>2, <3>1 DEF Follows
  <2>3. CASE Enabled(b) # {}
    BY <1>2, <2>1, <2>3 DEF Follows
  <2>4. QED
    BY <2>2, <2>3
<1>6. QED
  BY <1>3, <1>4, <1>5

-----------------------------------------------------------------------------
(* The search                                                              *)

\* The next candidate is a best one of all tasks tested.
LEMMA NextIsBest ==
  ASSUME NEW al, NEW co \in [Tasks -> Int], NEW ca \in SUBSET Tasks, NEW g, g.pool \in SUBSET Tasks,
         Searching(al, co, ca, g), g.parents = {} \/ Improves(co, g.pool, g.parents),
         NEW b \in Best(co, g.pool) \cup Best(co, g.pool \ g.parents)
  PROVE  b \in Best(co, ca)
<1>1. g.pool \subseteq ca /\ b \in g.pool
  BY DEF Searching, Best
<1>2. CASE g.parents = {}
  <2>1. ca \subseteq g.pool /\ g.pool \ g.parents = g.pool
    BY <1>2 DEF Searching
  <2>2. QED
    BY <1>1, <2>1 DEF Best
<1>3. CASE g.parents # {}
  <2>1. PICK p \in g.parents : TRUE
    BY <1>3
  <2>2. g.parents = {p} /\ p \in ca /\ \A t \in ca \ g.pool : co[p] <= co[t]
    BY <2>1 DEF Searching
  <2>3. PICK u \in g.pool : co[u] < co[p]
    BY <1>3, <2>2 DEF Improves
  <2>4. co[p] \in Int /\ co[u] \in Int /\ co[b] \in Int /\ u # p
    BY <1>1, <2>2, <2>3
  <2>5. co[b] <= co[u] /\ \A t \in g.pool \ {p} : co[b] <= co[t]
    BY <2>2, <2>3, <2>4 DEF Best
  <2>6. ASSUME NEW t \in ca
        PROVE  co[b] <= co[t]
    <3>1. co[t] \in Int
      OBVIOUS
    <3>2. CASE t \in g.pool /\ t # p
      BY <2>5, <3>2
    <3>3. CASE t = p
      BY <2>3, <2>4, <2>5, <3>3
    <3>4. CASE t \notin g.pool
      BY <2>2, <2>3, <2>4, <2>5, <3>1, <3>4
    <3>5. QED
      BY <3>2, <3>3, <3>4
  <2>7. QED
    BY <1>1, <2>6 DEF Best
<1>4. QED
  BY <1>2, <1>3

\* Without an improvement the candidate is the local optimum.
LEMMA NoneIsBetter ==
  ASSUME NEW al, NEW co \in [Tasks -> Int], NEW ca \in SUBSET Tasks, NEW g, g.pool \in SUBSET Tasks,
         Searching(al, co, ca, g), g.parents # {}, ~Improves(co, g.pool, g.parents)
  PROVE  Searched(al, co, ca)
<1>1. PICK p \in g.parents : TRUE
  OBVIOUS
<1>2. /\ g.parents = {p} /\ p \in ca /\ Neighbours(al, p) \subseteq ca
      /\ \A t \in ca \ g.pool : co[p] <= co[t]
  BY <1>1 DEF Searching
<1>3. ASSUME NEW t \in ca
      PROVE  co[p] <= co[t]
  <2>1. CASE t \in g.pool
    <3>1. ~(co[t] < co[p]) /\ co[t] \in Int /\ co[p] \in Int
      BY <1>2, <2>1 DEF Improves
    <3>2. QED
      BY <3>1
  <2>2. CASE t \notin g.pool
    BY <1>2, <2>2
  <2>3. QED
    BY <2>1, <2>2
<1>4. QED
  BY <1>2, <1>3 DEF Searched, Best

\* The generation of a candidate that is better than all others.
LEMMA SearchingNext ==
  ASSUME NEW al, NEW co, NEW ca \in SUBSET Tasks, NEW g, NEW b \in Best(co, ca),
         g.parents = {b}, g.pool = Neighbours(al, b) \ ca
  PROVE  Searching(al, co, ca \cup g.pool, g)
<1>1. b \in ca /\ \A t \in ca : co[b] <= co[t]
  BY DEF Best
<1>2. Neighbours(al, b) \subseteq ca \cup g.pool /\ b \notin g.pool /\ (ca \cup g.pool) \ g.pool \subseteq ca
  BY <1>1
<1>3. QED
  BY <1>1, <1>2 DEF Searching

\* What a generation that is done is followed by.
LEMMA SuccessorsAre ==
  ASSUME SteerType, NEW g \in Gens, NEW gens \in Successors(g)
  PROVE  \/ /\ gens = <<>>
            /\ algorithm # "GA" => g.parents # {} /\ ~Improves(cost, g.pool, g.parents)
         \/ \E h \in Gens :
              /\ h.pool = g.pool /\ h.parents = g.parents
              /\ algorithm # "GA" => g.parents = {} \/ Improves(cost, g.pool, g.parents)
              /\ gens \in NextGenerations(algorithm, cost, h, cache)
<1>1. /\ g.pool \in SUBSET Tasks /\ g.parents \in SUBSET Tasks /\ g.stucks \in 0..StopThreshold /\ g.pending \in Nat
      /\ StopThreshold \in Nat
  BY GenerationsAssumption DEF Gens
<1>2. g = [pool |-> g.pool, pending |-> g.pending, parents |-> g.parents, stucks |-> g.stucks]
  BY DEF Gens
<1>3. ASSUME NEW n \in 0..StopThreshold
      PROVE  /\ [g EXCEPT !.stucks = n] \in Gens
             /\ [g EXCEPT !.stucks = n].pool = g.pool
             /\ [g EXCEPT !.stucks = n].parents = g.parents
  BY DEF Gens
<1>4. CASE g.parents = {} \/ Improves(cost, g.pool, g.parents)
  <2>1. PICK n \in 0..StopThreshold : n = 0
    BY <1>1
  <2>2. PICK h : h = [g EXCEPT !.stucks = n]
    OBVIOUS
  <2>3. IsImproved(algorithm, cost, g) = {h}
    BY <1>4, <2>1, <2>2 DEF IsImproved
  <2>4. gens \in NextGenerations(algorithm, cost, h, cache)
    BY <2>3 DEF Successors
  <2>5. h \in Gens /\ h.pool = g.pool /\ h.parents = g.parents
    BY <1>3, <2>2
  <2>6. QED
    BY <1>4, <2>4, <2>5
<1>5. CASE ~(g.parents = {} \/ Improves(cost, g.pool, g.parents))
  <2>1. CASE algorithm = "GA" /\ g.stucks < StopThreshold
    <3>1. PICK n \in 0..StopThreshold : n = g.stucks + 1
      BY <1>1, <2>1
    <3>2. PICK h : h = [g EXCEPT !.stucks = n]
      OBVIOUS
    <3>3. IsImproved(algorithm, cost, g) = {h}
      BY <1>5, <2>1, <3>1, <3>2 DEF IsImproved
    <3>4. gens \in NextGenerations(algorithm, cost, h, cache)
      BY <3>3 DEF Successors
    <3>5. QED
      BY <1>3, <2>1, <3>2, <3>4
  <2>2. CASE ~(algorithm = "GA" /\ g.stucks < StopThreshold)
    <3>1. IsImproved(algorithm, cost, g) = {}
      BY <1>5, <2>2 DEF IsImproved
    <3>2. gens = <<>>
      BY <3>1 DEF Successors
    <3>3. QED
      BY <1>5, <3>2
  <2>3. QED
    BY <2>1, <2>2
<1>6. QED
  BY <1>4, <1>5

\* The successor of a search, and what it means for it.
LEMMA SearchGoesOn ==
  ASSUME SteerType, ResultType, NEW g \in Gens, NEW gens \in Successors(g)
  PROVE  \/ /\ gens = <<>>
            /\ algorithm # "GA" /\ Searching(algorithm, cost, cache, g) => Searched(algorithm, cost, cache)
         \/ \E h \in Gens :
              /\ gens = <<h>> /\ h.pool \cap cache = {} /\ h.pending = Cardinality(h.pool)
              /\ algorithm # "GA" /\ Searching(algorithm, cost, cache, g) =>
                   Searching(algorithm, cost, cache \cup h.pool, h)
<1>1. PICK al \in {"GA", "HillClimb", "Elimination"} : al = algorithm
  BY GenerationsAssumption DEF SteerType
<1>2. PICK co \in [Tasks -> Int] : co = cost
  <2>1. Found(TEST) \cup {NotDone} \subseteq Int
    BY FoundResults DEF NotDone
  <2>2. QED
    BY <2>1 DEF ResultType
<1>3. PICK ca \in SUBSET Tasks : ca = cache
  BY DEF SteerType
<1>4. g.pool \in SUBSET Tasks /\ g.parents \in SUBSET Tasks
  BY DEF Gens
<1>5. CASE /\ gens = <<>>
           /\ algorithm # "GA" => g.parents # {} /\ ~Improves(cost, g.pool, g.parents)
  <2>1. ASSUME algorithm # "GA", Searching(algorithm, cost, cache, g)
        PROVE  Searched(al, co, ca)
    BY <1>1, <1>2, <1>3, <1>4, <1>5, <2>1, NoneIsBetter
  <2>2. QED
    BY <1>1, <1>2, <1>3, <1>5, <2>1
<1>6. CASE \E h \in Gens :
             /\ h.pool = g.pool /\ h.parents = g.parents
             /\ algorithm # "GA" => g.parents = {} \/ Improves(cost, g.pool, g.parents)
             /\ gens \in NextGenerations(algorithm, cost, h, cache)
  <2>1. PICK h \in Gens :
             /\ h.pool = g.pool /\ h.parents = g.parents
             /\ al # "GA" => g.parents = {} \/ Improves(co, g.pool, g.parents)
             /\ gens \in NextGenerations(al, co, h, ca)
    BY <1>1, <1>2, <1>3, <1>6
  <2>2. ASSUME al # "GA", Searching(al, co, ca, g),
               NEW b \in Best(co, h.pool) \cup Best(co, h.pool \ h.parents)
        PROVE  b \in Best(co, ca)
    BY <1>4, <2>1, <2>2, NextIsBest
  <2>3. CASE /\ gens = <<>>
             /\ al # "GA" => \E b \in Best(co, h.pool \ h.parents) : Neighbours(al, b) = {}
    <3>1. ASSUME al # "GA", Searching(al, co, ca, g)
          PROVE  Searched(al, co, ca)
      BY <2>2, <2>3, <3>1 DEF Searched
    <3>2. QED
      BY <1>1, <1>2, <1>3, <2>3, <3>1
  <2>4. CASE \E k \in Gens :
              /\ gens = <<k>> /\ k.pool \cap ca = {} /\ k.pending = Cardinality(k.pool)
              /\ al # "GA" => \E b \in Best(co, h.pool) \cup Best(co, h.pool \ h.parents) :
                                k.parents = {b} /\ k.pool = Neighbours(al, b) \ ca
    <3>1. PICK k \in Gens :
              /\ gens = <<k>> /\ k.pool \cap ca = {} /\ k.pending = Cardinality(k.pool)
              /\ al # "GA" => \E b \in Best(co, h.pool) \cup Best(co, h.pool \ h.parents) :
                                k.parents = {b} /\ k.pool = Neighbours(al, b) \ ca
      BY <2>4
    <3>2. ASSUME al # "GA", Searching(al, co, ca, g)
          PROVE  Searching(al, co, ca \cup k.pool, k)
      <4>1. PICK b \in Best(co, h.pool) \cup Best(co, h.pool \ h.parents) :
              k.parents = {b} /\ k.pool = Neighbours(al, b) \ ca
        BY <3>1, <3>2
      <4>2. b \in Best(co, ca)
        BY <2>2, <3>2
      <4>3. QED
        BY <4>1, <4>2, SearchingNext
    <3>3. QED
      BY <1>1, <1>2, <1>3, <3>1, <3>2
  <2>5. Follows(al, co, h, ca, gens)
    BY <2>1, NextGeneration
  <2>6. QED
    BY <2>3, <2>4, <2>5 DEF Follows
<1>7. QED
  BY <1>5, <1>6, SuccessorsAre

-----------------------------------------------------------------------------
(* Steering                                                                *)

\* One generation waits.
LEMMA OneGeneration ==
  ASSUME NEW g \in Gens
  PROVE  /\ <<g>> # <<>> /\ Head(<<g>>) = g /\ Tail(<<g>>) = <<>>
         /\ <<g>> \o <<>> = <<g>> /\ <<>> \o <<g>> = <<g>>
         /\ UNION {<<g>>[i].pool : i \in DOMAIN <<g>>} = g.pool
         /\ \A h : <<g>> = <<h>> => h = g
<1>1. <<g>> \in Seq(Gens) /\ <<>> \in Seq(Gens) /\ Len(<<g>>) = 1 /\ <<g>>[1] = g /\ DOMAIN <<g>> = {1}
  OBVIOUS
<1>2. <<g>> \o <<>> = <<g>> /\ <<>> \o <<g>> = <<g>>
  BY <1>1, ConcatEmptySeq
<1>3. {<<g>>[i].pool : i \in DOMAIN <<g>>} = {g.pool}
  BY <1>1
<1>4. UNION {<<g>>[i].pool : i \in DOMAIN <<g>>} = g.pool
  BY <1>3
<1>5. <<g>> # <<>> /\ Head(<<g>>) = g /\ Tail(<<g>>) = <<>>
  BY <1>1
<1>6. QED
  BY <1>1, <1>2, <1>4, <1>5

\* None waits.
LEMMA NoGeneration ==
  /\ <<>> \o <<>> = <<>> /\ DOMAIN <<>> = {}
  /\ \A gens : gens = <<>> => UNION {gens[i].pool : i \in DOMAIN gens} = {}
<1>1. <<>> \in Seq(Gens) /\ DOMAIN <<>> = {}
  OBVIOUS
<1>2. <<>> \o <<>> = <<>>
  BY <1>1, ConcatEmptySeq
<1>3. ASSUME NEW gens, gens = <<>>
      PROVE  UNION {gens[i].pool : i \in DOMAIN gens} = {}
  <2>1. DOMAIN gens = {}
    BY <1>1, <1>3
  <2>2. QED
    BY <2>1
<1>4. QED
  BY <1>1, <1>2, <1>3

\* A generation with one result more.
LEMMA UpdatedTask ==
  ASSUME NEW g \in Gens, g.pending >= 1
  PROVE  /\ UpdateTask(g) \in Gens
         /\ UpdateTask(g).pool = g.pool /\ UpdateTask(g).parents = g.parents
         /\ UpdateTask(g).pending = g.pending - 1
<1>1. g.pending \in Nat
  BY DEF Gens
<1>2. PICK n \in Nat : n = g.pending - 1
  BY <1>1
<1>3. UpdateTask(g) = [g EXCEPT !.pending = n]
  BY <1>2 DEF UpdateTask
<1>4. QED
  BY <1>2, <1>3 DEF Gens

\* The places inside the stages.
Rooms(kind, at) ==
  /\ InLists(kind, at, "helper", helper_queue, Stages)
  /\ InLists(kind, at, "wait", waiting_list, Stages)
  /\ InLists(kind, at, "pool", work_pool, Stages)
  /\ InSets(kind, at, "work", working)
  /\ InSets(kind, at, "put", putting)
  /\ InSets(kind, at, "raised", raised)

\* What is to show of an action of Steering.
LEMMA SteeringStep ==
  ASSUME TypeInv, UNCHANGED <<image, cost, pc, mycache, workVars, helperVars>>,
         NEW kind \in [Tasks -> Kinds], NEW at \in [Tasks -> Spots],
         SteerType', Optimum', Pending(kind)', queue' \in [Queues -> Seq(Items)],
         steer' # "done" => \A q \in Queues : NoPill(queue'[q]),
         steer # "done", Pills,
         InLists(kind, at, "queue", queue', Queues), Rooms(kind, at),
         Data(image, cost, cache', kind, at),
         Known(image, cost, done_dict[TEST], work_queue[TEST], mycache[TEST], Busy(kind, at))
  PROVE  IInv'
<1>1. /\ image' = image /\ cost' = cost /\ pc' = pc /\ mycache' = mycache
      /\ work_pool' = work_pool /\ working' = working /\ putting' = putting /\ raised' = raised
      /\ helper' = helper /\ helper_queue' = helper_queue /\ work_queue' = work_queue
      /\ done_dict' = done_dict /\ waiting_list' = waiting_list
  BY DEF workVars, helperVars
<1>2. ResultType' /\ WorkerType' /\ HelperType' /\ ProcessType'
  BY <1>1 DEF TypeInv, ResultType, WorkerType, HelperType, ProcessType, Items
<1>3. Pills'
  BY <1>1 DEF Pills
<1>4. Located(kind, at)'
  BY <1>1 DEF Located, Rooms
<1>5. Inside(kind, at)'
  BY <1>1, <1>4 DEF Inside
<1>6. QED
  BY <1>2, <1>3, <1>5 DEF IInv, TypeInv

\* w is one new generation of the tasks P, or none.
New(w, P) ==
  \/ w = <<>> /\ P = {}
  \/ \E h \in Gens : w = <<h>> /\ h.pool = P /\ h.pending = Cardinality(P)

\* New tasks are sent: they are the only ones on their way.
LEMMA SendKeeps ==
  ASSUME TypeInv, Pills, steer # "done", UNCHANGED <<image, cost, pc, mycache, workVars, helperVars>>,
         NEW kind \in [Tasks -> Kinds], NEW at \in [Tasks -> Spots], Way(kind) = {},
         NEW q \in [Queues -> Seq(Items)], \A x \in Queues : NoPill(q[x]),
         InLists(kind, at, "queue", q, Queues), Rooms(kind, at),
         Data(image, cost, cache, kind, at),
         Known(image, cost, done_dict[TEST], work_queue[TEST], mycache[TEST], Busy(kind, at)),
         NEW P \in SUBSET Tasks, P \cap cache = {}, NEW ts \in SetToSeqs(P),
         queue' = [q EXCEPT !["steering_build"] = @ \o ts],
         cache' = cache \cup P, steer' = "loop", algorithm' = algorithm, Optimum', New(waiting', P)
  PROVE  IInv'
<1>1. Lists(ts, P) /\ ts \in Seq(Items) /\ NoPill(ts)
  BY SeqOfTasks
<1>2. PICK b : b = q["steering_build"]
  OBVIOUS
<1>3. "steering_build" \in Queues /\ "steering_build" \in Spots /\ {"queue", "out"} \subseteq Kinds
  BY DEF Queues, Spots, Kinds
<1>4. b \in Seq(Items) /\ Lists(b, Here(kind, at, "queue", "steering_build")) /\ NoPill(b)
  BY <1>2, <1>3 DEF InLists
<1>5. \A t \in P : kind[t] = "out"
  BY DEF Way
<1>6. P \cap Here(kind, at, "queue", "steering_build") = {}
  BY <1>5 DEF Here
<1>7. Lists(b \o ts, Here(kind, at, "queue", "steering_build") \cup P) /\ b \o ts \in Seq(Items)
  BY <1>1, <1>4, <1>6, HereTasks, PutTasks
<1>8. queue' = [q EXCEPT !["steering_build"] = b \o ts]
  BY <1>2
<1>9. PICK kind2 \in [Tasks -> Kinds], at2 \in [Tasks -> Spots] :
        kind2 = Place(kind, P, "queue") /\ at2 = Place(at, P, "steering_build")
  BY <1>3, PlaceType
<1>10. InLists(kind2, at2, "queue", queue', Queues)
  <2>1. PICK c : c = b \o ts
    OBVIOUS
  <2>2. Lists(c, Here(kind, at, "queue", "steering_build") \cup P) /\ queue' = [q EXCEPT !["steering_build"] = c]
        /\ DOMAIN q = Queues
    BY <1>7, <1>8, <2>1
  <2>3. InLists(kind2, at2, "queue", [q EXCEPT !["steering_build"] = c], Queues)
    BY <1>3, <1>5, <1>9, <2>2, MoveTo
  <2>4. QED
    BY <2>2, <2>3
<1>11. Rooms(kind2, at2)
  BY <1>5, <1>9, MoveElse DEF Rooms
<1>12. queue' \in [Queues -> Seq(Items)]
  BY <1>3, <1>7, <1>8
<1>13. \A x \in Queues : NoPill(queue'[x])
  <2>1. NoPill(b \o ts)
    BY <1>1, <1>4, NoPillConcat
  <2>2. QED
    BY <1>3, <1>8, <2>1
<1>14. PICK im, co, ca : im = image /\ co = cost /\ ca = cache
  OBVIOUS
<1>15. \A t \in P : im[t] = NotDone /\ co[t] = NotDone
  BY <1>14 DEF Data
<1>16. Data(im, co, ca, kind, at)
  BY <1>14
<1>17. /\ ~Mid("queue", "steering_build") /\ ~Late("queue", "steering_build")
       /\ Fits("queue", "steering_build")
  BY <1>3, Fitting DEF Mid, Late, InStage
<1>18. Data(im, co, ca \cup P, kind2, at2)
  <2>1. \A t \in P : kind2[t] = "queue" /\ at2[t] = "steering_build"
    BY <1>9 DEF Place
  <2>2. \A t \in Tasks \ P : kind2[t] = kind[t] /\ at2[t] = at[t] /\ (t \in ca \cup P <=> t \in ca)
    BY <1>9 DEF Place
  <2>3. QED
    BY <1>15, <1>16, <1>17, <2>1, <2>2 DEF Data
<1>19. Busy(kind2, at2) \subseteq Busy(kind, at)
  BY <1>9, BusyMove
<1>20. Known(image, cost, done_dict[TEST], work_queue[TEST], mycache[TEST], Busy(kind2, at2))
  BY <1>19, KnownFewer
<1>21. Way(kind2) = P
  BY <1>9 DEF Way, Place
<1>22. Pending(kind2)'
  <2>1. CASE waiting' = <<>>
    <3>1. P = {}
      BY <2>1, OneGeneration DEF New
    <3>2. QED
      BY <1>21, <2>1, <3>1 DEF Pending
  <2>2. CASE waiting' # <<>>
    <3>1. PICK h \in Gens : waiting' = <<h>> /\ h.pool = P /\ h.pending = Cardinality(P)
      BY <2>2 DEF New
    <3>2. \A g \in Gens : waiting' = <<g>> => g = h
      BY <3>1, OneGeneration
    <3>3. QED
      BY <1>21, <2>2, <3>1, <3>2 DEF Pending
  <2>3. QED
    BY <2>1, <2>2
<1>23. Cardinality(P) \in Nat
  BY GenerationsAssumption, FS_Subset, FS_CardinalityType
<1>24. waiting' = <<>> \/ \E g \in Gens : waiting' = <<g>> /\ g.pending <= Cardinality(g.pool)
  BY <1>23 DEF New
<1>25. SteerType'
  BY <1>24 DEF TypeInv, SteerType
<1>26. QED
  BY <1>10, <1>11, <1>12, <1>13, <1>14, <1>18, <1>20, <1>22, <1>25, SteeringStep

\* Steering sends the first generation.
LEMMA SubmitKeeps ==
  ASSUME IInv, Submit
  PROVE  IInv'
<1>1. TypeInv /\ Pills /\ Optimum /\ steer = "start" /\ steer # "done"
  BY DEF IInv, Submit
<1>2. PICK kind \in [Tasks -> Kinds], at \in [Tasks -> Spots] : Inside(kind, at)
  BY DEF IInv
<1>3. PICK g \in Gens : waiting = <<g>> /\ Fresh(algorithm, g) /\ g.pending = Cardinality(g.pool)
  BY <1>1, <1>2 DEF Inside, Pending
<1>4. cache = {} /\ Way(kind) = {}
  BY <1>1, <1>2 DEF Inside, Pending
<1>5. PICK P \in SUBSET Tasks : P = g.pool
  BY DEF Gens
<1>6. UNION {waiting[i].pool : i \in DOMAIN waiting} = P
  <2>1. UNION {<<g>>[i].pool : i \in DOMAIN <<g>>} = P
    BY <1>5, OneGeneration
  <2>2. QED
    BY <1>3, <2>1
<1>7. PICK ts \in SetToSeqs(P) : Put("steering_build", ts) /\ cache' = ToSet(ts)
  BY <1>6 DEF Submit
<1>8. cache' = P /\ P \cap cache = {} /\ cache' = cache \cup P
  BY <1>4, <1>7, SeqOfTasks
<1>9. /\ steer' = "loop" /\ algorithm' = algorithm /\ waiting' = waiting
      /\ UNCHANGED <<image, cost, pc, mycache, workVars, helperVars>> /\ cost' = cost
      /\ queue' = [queue EXCEPT !["steering_build"] = @ \o ts]
  BY <1>7 DEF Submit, Put
<1>10. PICK q \in [Queues -> Seq(Items)] : q = queue
  BY <1>1 DEF TypeInv, ProcessType, Items
<1>11. \A x \in Queues : NoPill(q[x])
  BY <1>1, <1>10 DEF Pills
<1>12. InLists(kind, at, "queue", q, Queues) /\ Rooms(kind, at)
  BY <1>2, <1>10 DEF Inside, Located, Rooms
<1>13. algorithm # "GA" => Searching(algorithm, cost, P, g)
  BY <1>3, <1>5 DEF Fresh, Searching
<1>14. Optimum'
  <2>1. \A h \in Gens : waiting' = <<h>> => h = g
    BY <1>3, <1>9, OneGeneration
  <2>2. waiting' # <<>>
    BY <1>3, <1>9, OneGeneration
  <2>3. QED
    BY <1>8, <1>9, <1>13, <2>1, <2>2 DEF Optimum
<1>15. queue' = [q EXCEPT !["steering_build"] = @ \o ts]
  BY <1>9, <1>10
<1>16. New(waiting', P)
  BY <1>3, <1>5, <1>9 DEF New
<1>17. /\ Data(image, cost, cache, kind, at)
       /\ Known(image, cost, done_dict[TEST], work_queue[TEST], mycache[TEST], Busy(kind, at))
  BY <1>2 DEF Inside
<1>18. QED
  BY <1>1, <1>4, <1>8, <1>9, <1>11, <1>12, <1>14, <1>15, <1>16, <1>17, SendKeeps

\* Steering sends the pill.
LEMMA FinishKeeps ==
  ASSUME IInv, Finish
  PROVE  IInv'
<1>1. TypeInv /\ Pills /\ Optimum /\ steer = "loop" /\ steer # "done" /\ waiting = <<>>
  BY DEF IInv, Finish
<1>2. PICK kind \in [Tasks -> Kinds], at \in [Tasks -> Spots] : Inside(kind, at)
  BY DEF IInv
<1>3. /\ steer' = "done" /\ algorithm' = algorithm /\ waiting' = waiting /\ cache' = cache /\ cost' = cost
      /\ UNCHANGED <<image, cost, pc, mycache, workVars, helperVars>>
      /\ queue' = [queue EXCEPT !["steering_build"] = @ \o <<POISONPILL>>]
  BY DEF Finish, Put
<1>4. PICK q \in [Queues -> Seq(Items)] : q = queue
  BY <1>1 DEF TypeInv, ProcessType, Items
<1>5. PICK b : b = q["steering_build"]
  OBVIOUS
<1>6. "steering_build" \in Queues
  BY DEF Queues
<1>7. b \in Seq(Items) /\ Lists(b, Here(kind, at, "queue", "steering_build"))
  BY <1>2, <1>4, <1>5, <1>6 DEF Inside, Located, InLists
<1>8. PICK p : p = b \o <<POISONPILL>>
  OBVIOUS
<1>9. Lists(p, Here(kind, at, "queue", "steering_build")) /\ p \in Seq(Items)
  <2>1. Append(b, POISONPILL) = b \o <<POISONPILL>>
    BY <1>7, AppendIsConcat DEF Items
  <2>2. QED
    BY <1>7, <1>8, <2>1, HereTasks, AppendPill
<1>10. queue' = [q EXCEPT !["steering_build"] = p]
  BY <1>3, <1>4, <1>5, <1>8
<1>11. InLists(kind, at, "queue", queue', Queues)
  BY <1>2, <1>4, <1>6, <1>9, <1>10, SameTasks DEF Inside, Located
<1>12. queue' \in [Queues -> Seq(Items)]
  BY <1>6, <1>9, <1>10
<1>13. Way(kind) = {}
  BY <1>1, <1>2 DEF Inside, Pending
<1>14. Pending(kind)'
  BY <1>1, <1>3, <1>13 DEF Pending
<1>15. SteerType' /\ Optimum'
  BY <1>1, <1>3 DEF TypeInv, SteerType, Optimum
<1>16. /\ Rooms(kind, at) /\ Data(image, cost, cache', kind, at)
       /\ Known(image, cost, done_dict[TEST], work_queue[TEST], mycache[TEST], Busy(kind, at))
  BY <1>2, <1>3 DEF Inside, Located, Rooms
<1>17. QED
  BY <1>1, <1>3, <1>11, <1>12, <1>14, <1>15, <1>16, SteeringStep

\* The first result has been taken from the queue: one task less is on its way.
Taken(kind, kind1, at1, q) ==
  /\ q = [queue EXCEPT !["test_steering"] = Tail(@)]
  /\ \A x \in Queues : NoPill(q[x])
  /\ InLists(kind1, at1, "queue", q, Queues) /\ Rooms(kind1, at1)
  /\ Data(image, cost, cache, kind1, at1)
  /\ Known(image, cost, done_dict[TEST], work_queue[TEST], mycache[TEST], Busy(kind1, at1))
  /\ \E t \in Way(kind) : Way(kind1) = Way(kind) \ {t}

\* Steering takes a result.
LEMMA TakeResult ==
  ASSUME TypeInv, Pills, steer # "done", queue["test_steering"] # <<>>,
         NEW kind \in [Tasks -> Kinds], NEW at \in [Tasks -> Spots], Inside(kind, at)
  PROVE  \E kind1 \in [Tasks -> Kinds], at1 \in [Tasks -> Spots], q \in [Queues -> Seq(Items)] :
           Taken(kind, kind1, at1, q)
<1>1. "test_steering" \in Queues /\ "test_steering" \in Spots /\ {"queue", "out"} \subseteq Kinds
  BY DEF Queues, Spots, Kinds
<1>2. PICK q0 \in [Queues -> Seq(Items)] : q0 = queue
  BY DEF TypeInv, ProcessType, Items
<1>3. PICK r : r = q0["test_steering"]
  OBVIOUS
<1>4. /\ r \in Seq(Items) /\ r # <<>> /\ Lists(r, Here(kind, at, "queue", "test_steering"))
      /\ \A x \in Queues : NoPill(q0[x])
  BY <1>1, <1>2, <1>3 DEF Inside, Located, InLists, Pills
<1>5. NoPill(r)
  BY <1>1, <1>3, <1>4
<1>6. NoPill(Tail(r)) /\ Head(r) # POISONPILL
  BY <1>4, <1>5, NoPillTail
<1>7. PICK t : t = Head(r)
  OBVIOUS
<1>8. PICK c : c = Tail(r)
  OBVIOUS
<1>9. /\ t \in Here(kind, at, "queue", "test_steering")
      /\ Lists(c, Here(kind, at, "queue", "test_steering") \ {t})
      /\ c \in Seq(Items)
  BY <1>4, <1>6, <1>7, <1>8, HereTasks, TakeTask
<1>10. /\ t \in Tasks /\ {t} \in SUBSET Tasks /\ kind[t] = "queue"
       /\ {t} \subseteq Here(kind, at, "queue", "test_steering")
  BY <1>9, HereTasks
<1>11. \A u \in {t} : kind[u] = "queue"
  BY <1>10
<1>12. PICK kind1 \in [Tasks -> Kinds], at1 \in [Tasks -> Spots] :
         kind1 = Place(kind, {t}, "out") /\ at1 = Place(at, {t}, "test_steering")
  BY <1>1, <1>10, PlaceType
<1>13. PICK q \in [Queues -> Seq(Items)] : q = [q0 EXCEPT !["test_steering"] = c]
  BY <1>1, <1>9
<1>14. InLists(kind1, at1, "queue", q, Queues)
  <2>1. DOMAIN q0 = Queues /\ InLists(kind, at, "queue", q0, Queues)
    BY <1>2 DEF Inside, Located
  <2>2. QED
    BY <1>1, <1>9, <1>10, <1>12, <1>13, <2>1, MoveFrom
<1>15. Rooms(kind1, at1)
  BY <1>10, <1>11, <1>12, MoveElse DEF Inside, Located, Rooms
<1>16. q = [queue EXCEPT !["test_steering"] = Tail(@)]
  BY <1>2, <1>3, <1>8, <1>13
<1>17. \A x \in Queues : NoPill(q[x])
  BY <1>1, <1>4, <1>6, <1>8, <1>13
<1>18. PICK im, co, ca : im = image /\ co = cost /\ ca = cache
  OBVIOUS
<1>19. Data(im, co, ca, kind1, at1)
  <2>1. Data(im, co, ca, kind, at) /\ t \in ca
    BY <1>10, <1>18 DEF Inside, Data
  <2>2. ~Mid("out", "test_steering") /\ ~Early("out", "test_steering") /\ Fits("out", "test_steering")
    BY Fitting DEF Mid, Early, InStage
  <2>3. im[t] # NotDone /\ co[t] # NotDone
    <3>1. Late(kind[t], at[t])
      BY <1>9, HereTasks DEF Late
    <3>2. QED
      BY <1>10, <2>1, <3>1 DEF Data
  <2>4. QED
    BY <1>10, <1>12, <2>1, <2>2, <2>3, DataMoves
<1>20. Busy(kind1, at1) \subseteq Busy(kind, at)
  BY <1>10, <1>12, BusyMove
<1>21. Known(image, cost, done_dict[TEST], work_queue[TEST], mycache[TEST], Busy(kind1, at1))
  BY <1>20, KnownFewer DEF Inside
<1>22. t \in Way(kind) /\ Way(kind1) = Way(kind) \ {t}
  BY <1>10, <1>12 DEF Way, Place
<1>23. Taken(kind, kind1, at1, q)
  BY <1>14, <1>15, <1>16, <1>17, <1>18, <1>19, <1>21, <1>22 DEF Taken
<1>24. QED
  BY <1>23

\* Steering has taken the result and sends nothing.
LEMMA TakenKeeps ==
  ASSUME TypeInv, Pills, steer # "done", UNCHANGED <<image, cost, pc, mycache, workVars, helperVars>>,
         NEW kind, NEW kind1 \in [Tasks -> Kinds], NEW at1 \in [Tasks -> Spots], NEW q \in [Queues -> Seq(Items)],
         Taken(kind, kind1, at1, q), queue' = q, cache' = cache,
         SteerType', Optimum', Pending(kind1)'
  PROVE  IInv'
<1>1. /\ InLists(kind1, at1, "queue", queue', Queues) /\ Rooms(kind1, at1)
      /\ Data(image, cost, cache', kind1, at1)
      /\ Known(image, cost, done_dict[TEST], work_queue[TEST], mycache[TEST], Busy(kind1, at1))
      /\ queue' \in [Queues -> Seq(Items)] /\ \A x \in Queues : NoPill(queue'[x])
  BY DEF Taken
<1>2. QED
  BY <1>1, SteeringStep

\* The last result of a generation arrives, and gens follows.
LEMMA ProceedKeeps ==
  ASSUME TypeInv, Pills, steer = "loop", UNCHANGED <<algorithm, image, cost, pc, mycache, workVars, helperVars>>,
         NEW kind, NEW kind1 \in [Tasks -> Kinds], NEW at1 \in [Tasks -> Spots], NEW q \in [Queues -> Seq(Items)],
         Taken(kind, kind1, at1, q), Way(kind1) = {},
         NEW w \in Gens, waiting = <<w>>,
         NEW g \in Gens, algorithm # "GA" => Searching(algorithm, cost, cache, g),
         NEW gens \in Successors(g), Proceed(gens)
  PROVE  IInv'
<1>1. SteerType /\ ResultType /\ steer # "done" /\ algorithm' = algorithm /\ cost' = cost
      /\ UNCHANGED <<image, cost, pc, mycache, workVars, helperVars>>
  BY DEF TypeInv
<1>2. waiting' = <<>> \o gens
  BY OneGeneration DEF Proceed
<1>3. q = [queue EXCEPT !["test_steering"] = Tail(@)]
  BY DEF Taken
<1>4. ASSUME NEW P \in SUBSET Tasks, P \cap cache = {}, UNION {gens[i].pool : i \in DOMAIN gens} = P,
             NEW ts \in SetToSeqs(UNION {gens[i].pool : i \in DOMAIN gens}),
             queue' = [queue EXCEPT !["test_steering"] = Tail(@), !["steering_build"] = @ \o ts],
             cache' = cache \cup ToSet(ts), steer' = steer,
             New(waiting', P), Optimum'
      PROVE  IInv'
  <2>1. ts \in SetToSeqs(P) /\ ToSet(ts) = P
    <3>1. ts \in SetToSeqs(P)
      BY <1>4
    <3>2. QED
      BY <3>1, SeqOfTasks
  <2>2. queue' = [q EXCEPT !["steering_build"] = @ \o ts]
    BY <1>3, <1>4
  <2>3. cache' = cache \cup P /\ steer' = "loop"
    BY <1>4, <2>1
  <2>4. /\ InLists(kind1, at1, "queue", q, Queues) /\ Rooms(kind1, at1)
        /\ Data(image, cost, cache, kind1, at1)
        /\ Known(image, cost, done_dict[TEST], work_queue[TEST], mycache[TEST], Busy(kind1, at1))
        /\ \A x \in Queues : NoPill(q[x])
    BY DEF Taken
  <2>5. QED
    BY <1>1, <1>4, <2>1, <2>2, <2>3, <2>4, SendKeeps
<1>5. CASE /\ gens = <<>>
           /\ algorithm # "GA" /\ Searching(algorithm, cost, cache, g) => Searched(algorithm, cost, cache)
  <2>1. waiting' = <<>> /\ UNION {gens[i].pool : i \in DOMAIN gens} = {} /\ DOMAIN gens = {}
    BY <1>2, <1>5, NoGeneration
  <2>2. PICK ts \in SetToSeqs(UNION {gens[i].pool : i \in DOMAIN gens}) :
          /\ queue' = [queue EXCEPT !["test_steering"] = Tail(@), !["steering_build"] = @ \o ts]
          /\ cache' = cache \cup ToSet(ts) /\ steer' = steer
    BY <2>1 DEF Proceed
  <2>3. PICK P \in SUBSET Tasks : P = {}
    OBVIOUS
  <2>4. ts \in SetToSeqs(P)
    BY <2>1, <2>3
  <2>5. ToSet(ts) = P
    BY <2>4, SeqOfTasks
  <2>6. cache' = cache
    BY <2>2, <2>3, <2>5
  <2>7. Optimum'
    <3>1. \A h \in Gens : waiting' # <<h>>
      BY <2>1, OneGeneration
    <3>2. QED
      BY <1>1, <1>5, <2>6, <3>1 DEF Optimum
  <2>8. New(waiting', P)
    BY <2>1, <2>3 DEF New
  <2>9. P \cap cache = {} /\ UNION {gens[i].pool : i \in DOMAIN gens} = P
    BY <2>1, <2>3
  <2>10. QED
    BY <1>4, <2>2, <2>7, <2>8, <2>9
<1>6. CASE \E h \in Gens :
             /\ gens = <<h>> /\ h.pool \cap cache = {} /\ h.pending = Cardinality(h.pool)
             /\ algorithm # "GA" /\ Searching(algorithm, cost, cache, g) =>
                  Searching(algorithm, cost, cache \cup h.pool, h)
  <2>1. PICK h \in Gens :
          /\ gens = <<h>> /\ h.pool \cap cache = {} /\ h.pending = Cardinality(h.pool)
          /\ algorithm # "GA" /\ Searching(algorithm, cost, cache, g) =>
               Searching(algorithm, cost, cache \cup h.pool, h)
    BY <1>6
  <2>2. PICK P \in SUBSET Tasks : P = h.pool
    BY DEF Gens
  <2>3. waiting' = <<h>> /\ UNION {gens[i].pool : i \in DOMAIN gens} = P
    <3>1. <<>> \o <<h>> = <<h>> /\ UNION {<<h>>[i].pool : i \in DOMAIN <<h>>} = P
      BY <2>2, OneGeneration
    <3>2. QED
      BY <1>2, <2>1, <3>1
  <2>4. waiting' # <<>> /\ \A k \in Gens : waiting' = <<k>> => k = h
    BY <2>3, OneGeneration
  <2>5. New(waiting', P)
    BY <2>1, <2>2, <2>3 DEF New
  <2>6. CASE /\ \A i \in DOMAIN gens : gens[i].pool # {}
             /\ \E ts \in SetToSeqs(UNION {gens[i].pool : i \in DOMAIN gens}) :
                  /\ queue' = [queue EXCEPT !["test_steering"] = Tail(@), !["steering_build"] = @ \o ts]
                  /\ cache' = cache \cup ToSet(ts)
             /\ UNCHANGED steer
    <3>1. PICK ts \in SetToSeqs(UNION {gens[i].pool : i \in DOMAIN gens}) :
            /\ queue' = [queue EXCEPT !["test_steering"] = Tail(@), !["steering_build"] = @ \o ts]
            /\ cache' = cache \cup ToSet(ts) /\ steer' = steer
      BY <2>6
    <3>2. ts \in SetToSeqs(P)
      BY <2>3
    <3>3. ToSet(ts) = P
      BY <3>2, SeqOfTasks
    <3>4. Optimum'
      BY <1>1, <2>1, <2>2, <2>4, <3>1, <3>3 DEF Optimum
    <3>5. P \cap cache = {}
      BY <2>1, <2>2
    <3>6. QED
      BY <1>4, <2>3, <2>5, <3>1, <3>4, <3>5
  <2>7. CASE /\ steer' = "dead"
             /\ queue' = [queue EXCEPT !["test_steering"] = Tail(@)]
             /\ UNCHANGED cache
    <3>1. queue' = q /\ cache' = cache
      BY <1>3, <2>7
    <3>2. Optimum' /\ Pending(kind1)'
      BY <2>4, <2>7 DEF Optimum, Pending
    <3>3. Cardinality(h.pool) \in Nat
      BY <2>2, GenerationsAssumption, FS_Subset, FS_CardinalityType
    <3>4. waiting' = <<h>> /\ h.pending <= Cardinality(h.pool)
      BY <2>1, <2>3, <3>3
    <3>5. SteerType'
      BY <1>1, <2>7, <3>1, <3>4 DEF SteerType
    <3>6. QED
      BY <1>1, <3>1, <3>2, <3>5, TakenKeeps
  <2>8. QED
    BY <2>6, <2>7 DEF Proceed
<1>7. QED
  BY <1>1, <1>5, <1>6, SearchGoesOn

\* Steering handles a result: it waits for more, or goes on to the next
\* generation.
LEMMA ReceiveKeeps ==
  ASSUME IInv, Receive
  PROVE  IInv'
<1>1. /\ TypeInv /\ Pills /\ Optimum /\ steer = "loop" /\ steer # "done" /\ SteerType
      /\ waiting # <<>> /\ queue["test_steering"] # <<>>
      /\ UNCHANGED <<algorithm, image, cost, pc, mycache, workVars, helperVars>>
      /\ UNCHANGED <<image, cost, pc, mycache, workVars, helperVars>> /\ algorithm' = algorithm /\ cost' = cost
  BY DEF IInv, TypeInv, Receive
<1>2. PICK kind \in [Tasks -> Kinds], at \in [Tasks -> Spots] : Inside(kind, at)
  BY DEF IInv
<1>3. PICK kind1 \in [Tasks -> Kinds], at1 \in [Tasks -> Spots], q \in [Queues -> Seq(Items)] :
        Taken(kind, kind1, at1, q)
  BY <1>1, <1>2, TakeResult
<1>4. PICK w \in Gens : waiting = <<w>> /\ w.pending <= Cardinality(w.pool)
  BY <1>1 DEF SteerType
<1>5. w.pending = Cardinality(Way(kind)) /\ Way(kind) \subseteq w.pool
  BY <1>1, <1>2, <1>4 DEF Inside, Pending
<1>6. PICK W \in SUBSET Tasks : W = Way(kind)
  BY DEF Way
<1>7. PICK t \in W : Way(kind1) = W \ {t}
  BY <1>3, <1>6 DEF Taken
<1>8. IsFiniteSet(W) /\ Cardinality(W) \in Nat /\ IsFiniteSet(W \ {t}) /\ Cardinality(W \ {t}) \in Nat
      /\ Cardinality(W \ {t}) = Cardinality(W) - 1
  BY GenerationsAssumption, FS_Subset, FS_CardinalityType, FS_RemoveElement
<1>9. w.pending >= 1 /\ w.pending - 1 = Cardinality(Way(kind1)) /\ Way(kind1) \subseteq w.pool
  BY <1>5, <1>6, <1>7, <1>8
<1>10. PICK g : g = UpdateTask(w)
  OBVIOUS
<1>11. g \in Gens /\ g.pool = w.pool /\ g.parents = w.parents /\ g.pending = Cardinality(Way(kind1))
  BY <1>9, <1>10, UpdatedTask
<1>12. Head(waiting) = w /\ Tail(waiting) = <<>>
  BY <1>4, OneGeneration
<1>13. algorithm # "GA" => Searching(algorithm, cost, cache, g)
  <2>1. algorithm # "GA" => Searching(algorithm, cost, cache, w)
    BY <1>1, <1>4 DEF Optimum
  <2>2. QED
    BY <1>11, <2>1 DEF Searching
<1>14. CASE /\ g.pending > 0
            /\ waiting' = <<g>> \o Tail(waiting)
            /\ queue' = [queue EXCEPT !["test_steering"] = Tail(@)]
            /\ UNCHANGED <<steer, cache>>
  <2>1. waiting' = <<g>>
    BY <1>11, <1>12, <1>14, OneGeneration
  <2>2. waiting' # <<>> /\ \A h \in Gens : waiting' = <<h>> => h = g
    BY <1>11, <2>1, OneGeneration
  <2>3. Optimum' /\ Pending(kind1)'
    BY <1>1, <1>9, <1>11, <1>13, <1>14, <2>2 DEF Optimum, Pending
  <2>4. g.pending <= Cardinality(g.pool)
    <3>1. PICK C : C = Cardinality(w.pool)
      OBVIOUS
    <3>2. C \in Nat
      <4>1. w.pool \in SUBSET Tasks
        BY DEF Gens
      <4>2. QED
        BY <3>1, <4>1, GenerationsAssumption, FS_Subset, FS_CardinalityType
    <3>3. w.pending <= C /\ g.pending = w.pending - 1 /\ w.pending \in Nat
      BY <1>4, <1>9, <1>11, <3>1 DEF Gens
    <3>4. g.pending <= C
      BY <3>2, <3>3
    <3>5. QED
      BY <1>11, <3>1, <3>4
  <2>5. SteerType'
    BY <1>1, <1>11, <1>14, <2>1, <2>4 DEF SteerType
  <2>6. queue' = q /\ cache' = cache
    BY <1>3, <1>14 DEF Taken
  <2>7. QED
    BY <1>1, <1>3, <2>3, <2>5, <2>6, TakenKeeps
<1>15. CASE g.pending = 0 /\ \E gens \in Successors(g) : Proceed(gens)
  <2>1. PICK gens \in Successors(g) : Proceed(gens)
    BY <1>15
  <2>2. Way(kind1) = {}
    <3>1. Cardinality(W \ {t}) = 0
      BY <1>7, <1>11, <1>15
    <3>2. W \ {t} = {}
      BY <1>8, <3>1, FS_EmptySet
    <3>3. QED
      BY <1>7, <3>2
  <2>3. QED
    BY <1>1, <1>3, <1>4, <1>11, <1>13, <2>1, <2>2, ProceedKeeps
<1>16. QED
  BY <1>10, <1>12, <1>14, <1>15 DEF Receive

-----------------------------------------------------------------------------
(* The invariant holds                                                     *)

\* At first nothing is on its way and nothing is known.
LEMMA InitKeeps == Init => IInv
<1> SUFFICES ASSUME Init
             PROVE  IInv
  OBVIOUS
<1>1. PICK g \in Gens : waiting = <<g>> /\ g.pending = Cardinality(g.pool) /\ Fresh(algorithm, g)
  <2>1. PICK al \in Algorithms : al = algorithm
    BY DEF Init
  <2>2. PICK h \in Initial(al) : waiting = <<h>>
    BY <2>1 DEF Init
  <2>3. h \in Gens /\ h.pending = Cardinality(h.pool) /\ Fresh(al, h)
    BY <2>1, InitialType
  <2>4. QED
    BY <2>1, <2>2, <2>3
<1>2. Cardinality(g.pool) \in Nat
  <2>1. g.pool \in SUBSET Tasks
    BY DEF Gens
  <2>2. QED
    BY <2>1, GenerationsAssumption, FS_Subset, FS_CardinalityType
<1>3. g.pending <= Cardinality(g.pool)
  BY <1>1, <1>2
<1>4. SteerType
  BY <1>1, <1>3 DEF Init, SteerType
<1>5. ResultType
  BY DEF Init, ResultType
<1>6. ProcessType
  BY DEF Init, ProcessType, Queues
<1>7. WorkerType
  <2>1. \A s \in Stages : working[s] \cup putting[s] = {}
    BY DEF Init
  <2>2. \A s \in Stages : Cardinality(working[s] \cup putting[s]) = 0
    BY <2>1, FS_EmptySet
  <2>3. \A s \in Stages : Cardinality(working[s] \cup putting[s]) <= NumProcesses[s]
    BY <2>2, Processes
  <2>4. QED
    BY <2>3 DEF Init, WorkerType
<1>8. HelperType
  BY DEF Init, HelperType
<1>9. Pills
  <2>1. NoPill(<<>>)
    BY DEF NoPill
  <2>2. QED
    BY <2>1 DEF Init, Pills, Queues
<1>10. waiting # <<>> /\ steer = "start"
  BY <1>1, OneGeneration DEF Init
<1>11. Optimum
  BY <1>10 DEF Optimum
<1>12. PICK kind \in [Tasks -> Kinds], at \in [Tasks -> Spots] :
         kind = [t \in Tasks |-> "out"] /\ at = [t \in Tasks |-> BUILD]
  BY Names DEF Kinds, Spots
<1>13. \A k, x : k # "out" => Here(kind, at, k, x) = {}
  BY <1>12 DEF Here
<1>14. Way(kind) = {} /\ Busy(kind, at) = {}
  BY <1>12 DEF Way, Busy
<1>15. \A k, x : k # "out" => Lists(<<>>, Here(kind, at, k, x))
  BY <1>13, EmptyLists
<1>16. Located(kind, at)
  <2>1. InLists(kind, at, "queue", queue, Queues)
    BY <1>15 DEF Init, InLists, Queues
  <2>2. /\ InLists(kind, at, "helper", helper_queue, Stages)
        /\ InLists(kind, at, "wait", waiting_list, Stages)
        /\ InLists(kind, at, "pool", work_pool, Stages)
    BY <1>15 DEF Init, InLists
  <2>3. /\ InSets(kind, at, "work", working)
        /\ InSets(kind, at, "put", putting)
        /\ InSets(kind, at, "raised", raised)
    BY <1>13 DEF Init, InSets
  <2>4. QED
    BY <2>1, <2>2, <2>3 DEF Located
<1>17. Data(image, cost, cache, kind, at)
  BY <1>12, Fitting DEF Init, Data, Early, Mid, InStage
<1>18. Known(image, cost, done_dict[TEST], work_queue[TEST], mycache[TEST], Busy(kind, at))
  <2>1. TEST \in Stages
    BY Names
  <2>2. /\ \A t \in Tasks : cost[t] = NotDone
        /\ work_queue[TEST] = <<>>
        /\ \A id \in Ids(TEST) : done_dict[TEST][id] = NotDone
    BY <2>1 DEF Init
  <2>3. Len(<<>>) = 0 /\ 1..0 = {}
    OBVIOUS
  <2>4. QED
    BY <1>14, <2>2, <2>3 DEF Known
<1>19. Pending(kind)
  BY <1>1, <1>10, <1>14 DEF Init, Pending
<1>20. Inside(kind, at)
  BY <1>16, <1>17, <1>18, <1>19 DEF Inside
<1>21. QED
  BY <1>4, <1>5, <1>6, <1>7, <1>8, <1>9, <1>11, <1>20 DEF IInv, TypeInv

\* A step of something else.
LEMMA StutterKeeps ==
  ASSUME IInv, UNCHANGED vars
  PROVE  IInv'
<1>1. /\ algorithm' = algorithm /\ steer' = steer /\ waiting' = waiting /\ cache' = cache
      /\ UNCHANGED steerVars /\ queue' = queue /\ image' = image /\ cost' = cost /\ pc' = pc /\ mycache' = mycache
      /\ work_pool' = work_pool /\ working' = working /\ putting' = putting /\ raised' = raised
      /\ helper' = helper /\ helper_queue' = helper_queue /\ work_queue' = work_queue
      /\ done_dict' = done_dict /\ waiting_list' = waiting_list
  BY DEF vars, steerVars, workVars, helperVars
<1>2. SteerType' /\ ResultType' /\ ProcessType' /\ WorkerType' /\ HelperType' /\ Pills' /\ Optimum'
  BY <1>1 DEF IInv, TypeInv, SteerType, ResultType, ProcessType, WorkerType, HelperType, Pills, Optimum
<1>3. PICK kind \in [Tasks -> Kinds], at \in [Tasks -> Spots] : Inside(kind, at)
  BY DEF IInv
<1>4. Located(kind, at)'
  BY <1>1, <1>3 DEF Inside, Located
<1>5. Pending(kind)'
  BY <1>1, <1>3 DEF Inside, Pending
<1>6. Inside(kind, at)'
  BY <1>1, <1>3, <1>4, <1>5 DEF Inside
<1>7. QED
  BY <1>2, <1>6 DEF IInv, TypeInv

\* All steps of a stage.
LEMMA StageKeeps ==
  ASSUME NEW s \in Stages, IInv, Stage(s)
  PROVE  IInv'
<1>1. CASE Pull(s)
  BY <1>1, PullKeeps
<1>2. CASE PullPill(s)
  BY <1>2, PullPillKeeps
<1>3. CASE JoinWorkers(s)
  BY <1>3, JoinWorkersKeeps
<1>4. CASE JoinHelper(s)
  BY <1>4, JoinHelperKeeps
<1>5. CASE Begin(s)
  BY <1>5, BeginKeeps
<1>6. ASSUME NEW t \in Tasks, Work(s, t)
      PROVE  IInv'
  BY <1>6, WorkKeeps
<1>7. ASSUME NEW t \in Tasks, WorkRaises(s, t)
      PROVE  IInv'
  BY <1>7, WorkRaisesKeeps
<1>8. ASSUME NEW t \in Tasks, PutResult(s, t)
      PROVE  IInv'
  BY <1>8, PutResultKeeps
<1>9. CASE HelperGet(s)
  BY <1>9, HelperGetKeeps
<1>10. CASE GetResultFromCompletedQueue(s)
  BY <1>10, GetResultKeeps
<1>11. CASE HelperEnds(s)
  BY <1>11, HelperEndsKeeps
<1>12. QED
  BY <1>1, <1>2, <1>3, <1>4, <1>5, <1>6, <1>7, <1>8, <1>9, <1>10, <1>11 DEF Stage

\* Whatever steps Steering, the processes of the two stages, their workers
\* and their helpers take, every task is in one place, carries the results of
\* the stages behind it, and is waited for.
THEOREM Invariant == Spec => []IInv
<1>1. ASSUME IInv, [Next]_vars
      PROVE  IInv'
  <2>1. CASE Steering
    BY <1>1, <2>1, SubmitKeeps, ReceiveKeeps, FinishKeeps DEF Steering
  <2>2. ASSUME NEW s \in Stages, Stage(s)
        PROVE  IInv'
    BY <1>1, <2>2, StageKeeps
  <2>3. CASE UNCHANGED vars
    BY <1>1, <2>3, StutterKeeps
  <2>4. QED
    BY <1>1, <2>1, <2>2, <2>3 DEF Next
<1>2. QED
  BY <1>1, InitKeeps, PTL DEF Spec

-----------------------------------------------------------------------------
(* What the invariant implies                                              *)

\* All variables have their types.
LEMMA Types == IInv => TypeOK
<1> SUFFICES ASSUME IInv
             PROVE  TypeOK
  OBVIOUS
<1>1. SteerType /\ ResultType /\ ProcessType /\ WorkerType /\ HelperType
  BY DEF IInv, TypeInv
<1>2. \A i \in DOMAIN waiting :
        /\ waiting[i].pool \subseteq Tasks /\ waiting[i].parents \subseteq Tasks
        /\ waiting[i].pending \in 0..Cardinality(waiting[i].pool)
        /\ waiting[i].stucks \in 0..StopThreshold
  <2>1. CASE waiting = <<>>
    <3>1. DOMAIN waiting = {}
      BY <2>1, NoGeneration
    <3>2. QED
      BY <3>1
  <2>2. CASE \E g \in Gens : waiting = <<g>> /\ g.pending <= Cardinality(g.pool)
    <3>1. PICK g \in Gens : waiting = <<g>> /\ g.pending <= Cardinality(g.pool)
      BY <2>2
    <3>2. /\ g.pool \in SUBSET Tasks /\ g.parents \in SUBSET Tasks /\ g.pending \in Nat
          /\ g.stucks \in 0..StopThreshold
      BY DEF Gens
    <3>3. PICK C : C = Cardinality(g.pool)
      OBVIOUS
    <3>4. C \in Nat
      BY <3>2, <3>3, GenerationsAssumption, FS_Subset, FS_CardinalityType
    <3>5. g.pending \in 0..C
      BY <3>1, <3>2, <3>3, <3>4
    <3>6. \A i \in DOMAIN waiting : waiting[i] = g
      BY <3>1
    <3>7. QED
      BY <3>2, <3>3, <3>5, <3>6
  <2>3. QED
    BY <1>1, <2>1, <2>2 DEF SteerType
<1>3. /\ algorithm \in Algorithms /\ steer \in {"start", "loop", "done", "dead"} /\ cache \subseteq Tasks
      /\ \A q \in DOMAIN queue : queue[q] \in Seq(Tasks \cup {POISONPILL})
      /\ pc \in [Stages -> {"pull", "join", "joinhelper", "done"}]
      /\ \A s \in Stages : mycache[s] \subseteq Ids(s)
      /\ helper \in [Stages -> {"poll", "drain", "done"}]
  BY <1>1 DEF SteerType, ProcessType, HelperType
<1>4. /\ image \in [Tasks -> Checksums \cup {ErrorImage, NotDone}]
      /\ cost \in [Tasks -> Costs \cup {MaxInt, ErrorCost, NotDone}]
  <2>1. /\ Found(BUILD) \cup {NotDone} = Checksums \cup {ErrorImage, NotDone}
        /\ Found(TEST) \cup {NotDone} = Costs \cup {MaxInt, ErrorCost, NotDone}
    BY FoundResults
  <2>2. QED
    BY <1>1, <2>1 DEF ResultType
<1>5. ASSUME NEW s \in Stages
      PROVE  /\ work_pool[s] \in Seq(Tasks)
             /\ Cardinality(working[s] \cup putting[s]) <= NumProcesses[s]
             /\ raised[s] \subseteq Tasks
             /\ helper_queue[s] \in Seq(Tasks \cup {POISONPILL})
             /\ work_queue[s] \in Seq(Ids(s) \X Results)
             /\ waiting_list[s] \in Seq(Tasks)
             /\ done_dict[s] \in [Ids(s) -> Results]
  <2>1. Found(s) \subseteq Results /\ Found(s) \cup {NotDone} \subseteq Results
    BY FoundResults DEF Results
  <2>2. done_dict[s] \in [Ids(s) -> Results]
    BY <1>1, <2>1 DEF HelperType
  <2>3. Ids(s) \X Found(s) \subseteq Ids(s) \X Results
    BY <2>1
  <2>4. work_queue[s] \in Seq(Ids(s) \X Found(s))
    BY <1>1 DEF HelperType
  <2>5. work_queue[s] \in Seq(Ids(s) \X Results)
    BY <2>3, <2>4, SeqMonotonic
  <2>6. QED
    BY <1>1, <2>2, <2>5 DEF WorkerType, HelperType
<1>6. QED
  BY <1>2, <1>3, <1>4, <1>5 DEF TypeOK

\* The tasks in the lists and sets of all places.
LEMMA WayIs ==
  ASSUME TypeInv, NEW kind \in [Tasks -> Kinds], NEW at \in [Tasks -> Spots], Located(kind, at),
         \A t \in Tasks : Fits(kind[t], at[t])
  PROVE  OnTheWay = Way(kind)
<1>1. ASSUME NEW q \in Queues
      PROVE  InFlight(queue[q]) = Here(kind, at, "queue", q)
  <2>1. queue[q] \in Seq(Items) /\ Lists(queue[q], Here(kind, at, "queue", q))
    BY DEF TypeInv, ProcessType, Items, Located, InLists
  <2>2. QED
    BY <2>1, ListsToSet, HereTasks
<1>2. ASSUME NEW s \in Stages
      PROVE  /\ InFlight(helper_queue[s]) = Here(kind, at, "helper", s)
             /\ ToSet(waiting_list[s]) = Here(kind, at, "wait", s)
             /\ ToSet(work_pool[s]) = Here(kind, at, "pool", s)
             /\ working[s] = Here(kind, at, "work", s)
             /\ putting[s] = Here(kind, at, "put", s)
             /\ raised[s] = Here(kind, at, "raised", s)
  <2>1. helper_queue[s] \in Seq(Items) /\ Lists(helper_queue[s], Here(kind, at, "helper", s))
    BY DEF TypeInv, HelperType, Items, Located, InLists
  <2>2. waiting_list[s] \in Seq(Tasks) /\ Lists(waiting_list[s], Here(kind, at, "wait", s))
    BY DEF TypeInv, HelperType, Located, InLists
  <2>3. work_pool[s] \in Seq(Tasks) /\ Lists(work_pool[s], Here(kind, at, "pool", s))
    BY DEF TypeInv, WorkerType, Located, InLists
  <2>4. waiting_list[s] \in Seq(Items) /\ work_pool[s] \in Seq(Items)
    BY <2>2, <2>3, SeqMonotonic DEF Items
  <2>5. InFlight(helper_queue[s]) = Here(kind, at, "helper", s)
    BY <2>1, ListsToSet, HereTasks
  <2>6. ToSet(waiting_list[s]) = Here(kind, at, "wait", s)
    BY <2>2, <2>4, ListsToSet, HereTasks
  <2>7. ToSet(work_pool[s]) = Here(kind, at, "pool", s)
    BY <2>3, <2>4, ListsToSet, HereTasks
  <2>8. QED
    BY <2>5, <2>6, <2>7 DEF Located, InSets
<1>3. DOMAIN queue = Queues
  BY DEF TypeInv, ProcessType
<1>4. ASSUME NEW S \in Places
      PROVE  S \subseteq Way(kind)
  <2>1. CASE \E q \in Queues : S = InFlight(queue[q])
    BY <1>1, <2>1 DEF Here, Way
  <2>2. CASE \E s \in Stages : S \in {InFlight(helper_queue[s]), ToSet(waiting_list[s]), ToSet(work_pool[s]),
                                     working[s], putting[s], raised[s]}
    BY <1>2, <2>2 DEF Here, Way
  <2>3. QED
    BY <1>3, <2>1, <2>2 DEF Places
<1>5. ASSUME NEW t \in Way(kind)
      PROVE  t \in OnTheWay
  <2>1. t \in Tasks /\ kind[t] # "out" /\ t \in Here(kind, at, kind[t], at[t]) /\ Fits(kind[t], at[t])
    BY DEF Way, Here
  <2>2. CASE kind[t] = "queue"
    <3>1. at[t] \in Queues /\ t \in InFlight(queue[at[t]])
      BY <1>1, <2>1, <2>2 DEF Fits
    <3>2. InFlight(queue[at[t]]) \in Places
      BY <1>3, <3>1 DEF Places
    <3>3. QED
      BY <3>1, <3>2 DEF OnTheWay
  <2>3. CASE kind[t] # "queue"
    <3>1. PICK s \in Stages : s = at[t]
      BY <2>1, <2>3 DEF Fits
    <3>2. kind[t] \in {"helper", "wait", "pool", "work", "put", "raised"}
      BY <2>1, <2>3 DEF Kinds
    <3>3. \E S \in {InFlight(helper_queue[s]), ToSet(waiting_list[s]), ToSet(work_pool[s]),
                     working[s], putting[s], raised[s]} : t \in S
      BY <1>2, <2>1, <3>1, <3>2
    <3>4. {InFlight(helper_queue[s]), ToSet(waiting_list[s]), ToSet(work_pool[s]),
           working[s], putting[s], raised[s]} \subseteq Places
      BY DEF Places
    <3>5. QED
      BY <3>3, <3>4 DEF OnTheWay
  <2>4. QED
    BY <2>2, <2>3
<1>6. QED
  BY <1>4, <1>5 DEF OnTheWay

\* The pending counter is the number of tasks of the generation on their way.
LEMMA Waits == IInv => PendingOnTheWay
<1> SUFFICES ASSUME IInv, steer = "loop"
             PROVE  /\ \A i \in DOMAIN waiting : waiting[i].pending = Cardinality(waiting[i].pool \cap OnTheWay)
                    /\ OnTheWay \subseteq UNION {waiting[i].pool : i \in DOMAIN waiting}
  BY DEF PendingOnTheWay
<1>1. PICK kind \in [Tasks -> Kinds], at \in [Tasks -> Spots] : Inside(kind, at)
  BY DEF IInv
<1>2. OnTheWay = Way(kind)
  BY <1>1, WayIs DEF IInv, Inside, Data
<1>3. CASE waiting = <<>>
  <2>1. Way(kind) = {} /\ DOMAIN waiting = {}
    BY <1>1, <1>3, NoGeneration DEF Inside, Pending
  <2>2. QED
    BY <1>2, <2>1
<1>4. CASE \E g \in Gens : waiting = <<g>> /\ g.pending <= Cardinality(g.pool)
  <2>1. PICK g \in Gens : waiting = <<g>>
    BY <1>4
  <2>2. waiting # <<>> /\ UNION {waiting[i].pool : i \in DOMAIN waiting} = g.pool
    BY <2>1, OneGeneration
  <2>3. g.pending = Cardinality(Way(kind)) /\ Way(kind) \subseteq g.pool
    BY <1>1, <2>1, <2>2 DEF Inside, Pending
  <2>4. g.pool \cap OnTheWay = Way(kind)
    BY <1>2, <2>3
  <2>5. \A i \in DOMAIN waiting : waiting[i] = g
    BY <2>1
  <2>6. QED
    BY <1>2, <2>2, <2>3, <2>4, <2>5
<1>5. QED
  BY <1>3, <1>4 DEF IInv, TypeInv, SteerType

\* A task that is not on its way has been tested, or was never sent.
LEMMA Carried == IInv => ResultsCarried
<1> SUFFICES ASSUME IInv, NEW t \in cache \ OnTheWay
             PROVE  image[t] # NotDone /\ cost[t] # NotDone
  BY DEF ResultsCarried
<1>1. PICK kind \in [Tasks -> Kinds], at \in [Tasks -> Spots] : Inside(kind, at)
  BY DEF IInv
<1>2. t \in Tasks
  BY DEF IInv, TypeInv, SteerType
<1>3. OnTheWay = Way(kind)
  BY <1>1, WayIs DEF IInv, Inside, Data
<1>4. Late(kind[t], at[t])
  BY <1>2, <1>3 DEF Way, Late
<1>5. PICK im, co, ca : im = image /\ co = cost /\ ca = cache
  OBVIOUS
<1>6. Data(im, co, ca, kind, at)
  BY <1>1, <1>5 DEF Inside
<1>7. QED
  BY <1>2, <1>4, <1>5, <1>6 DEF Data

\* The test of an image gives all tasks with the image their cost.
LEMMA OneCost == IInv => SameImageSameCost
<1> SUFFICES ASSUME IInv, NEW t \in Tasks, NEW u \in Tasks,
                    image[t] = image[u], cost[t] # NotDone, cost[u] # NotDone
             PROVE  cost[t] = cost[u]
  BY DEF SameImageSameCost
<1>1. PICK kind \in [Tasks -> Kinds], at \in [Tasks -> Spots] : Inside(kind, at)
  BY DEF IInv
<1>2. PICK dd \in Dd, wq \in Wq : dd = done_dict[TEST] /\ wq = work_queue[TEST]
  BY Names DEF IInv, TypeInv, HelperType, Dd, Wq
<1>3. PICK im, co : im = image /\ co = cost
  OBVIOUS
<1>4. PICK my, B : Known(im, co, dd, wq, my, B)
  BY <1>1, <1>2, <1>3 DEF Inside
<1>5. co[t] = co[u]
  BY <1>2, <1>3, <1>4, KnownOne
<1>6. QED
  BY <1>3, <1>5

\* When the pill is on its way, nothing else is.
LEMMA PillIsLast == IInv => NothingBehindThePill
<1> SUFFICES ASSUME IInv, steer = "done" \/ \E s \in Stages : pc[s] # "pull"
             PROVE  OnTheWay = {}
  BY DEF NothingBehindThePill
<1>1. PICK kind \in [Tasks -> Kinds], at \in [Tasks -> Spots] : Inside(kind, at)
  BY DEF IInv
<1>2. OnTheWay = Way(kind)
  BY <1>1, WayIs DEF IInv, Inside, Data
<1>3. steer = "done"
  BY DEF IInv, Pills
<1>4. QED
  BY <1>1, <1>2, <1>3 DEF Inside, Pending

\* Every task that Steering waits for comes back to it, once, with its results
\* and before the pill, whatever the searches, the workers and the helpers do,
\* for any flags, sizes of the pools, results and numbers of images: the
\* pending counter of a generation is the number of its tasks between
\* processes, a task that came back has been tested, and tasks with one image
\* have one cost.
THEOREM DeliversResults == Spec => []ResultsDelivered
<1>1. IInv => ResultsDelivered
  BY Types, Waits, Carried, OneCost, PillIsLast DEF ResultsDelivered
<1>2. QED
  BY <1>1, Invariant, PTL

\* A hill climb, or an iterative elimination, that ends has tested all
\* neighbours of a best task of all it has tested, for any flags and costs.
THEOREM EndsAtLocalOptimum == Spec => []LocalOptimum
<1>1. ASSUME IInv
      PROVE  LocalOptimum
  <2> SUFFICES ASSUME steer = "done", algorithm # "GA"
               PROVE  Searched(algorithm, cost, cache)
    BY DEF LocalOptimum, Searched
  <2>1. waiting = <<>>
    BY <1>1 DEF IInv, Inside, Pending
  <2>2. QED
    BY <1>1, <2>1 DEF IInv, Optimum
<1>2. QED
  BY <1>1, Invariant, PTL

=============================================================================
