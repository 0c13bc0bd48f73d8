--------------------------- MODULE BrCacheReader ---------------------------
(***************************************************************************)
(* Schedv2._read_br_cache (crosperf/schedv2.py): the benchmark_runs are    *)
(* split into segments, one BenchmarkRunCacheReader thread reads the cache *)
(* for each, and the ones with a hit are appended to _cached_br_list;      *)
(* afterwards __init__ puts all others into the label lists.               *)
(*                                                                         *)
(* The lock around append is lock_on('_cached_br_list'), which can be two  *)
(* objects for two readers; append is atomic by itself and is modelled     *)
(* without the lock.                                                       *)
(***************************************************************************)
EXTENDS Integers, Sequences, FiniteSets

CONSTANT Sizes         \* the numbers of benchmark_runs considered

ASSUME SizesAssumption == Sizes \subseteq Nat

LargerOf(a, b)  == IF a >= b THEN a ELSE b
SmallerOf(a, b) == IF a <= b THEN a ELSE b

\* Up to four benchmark_runs are read by the main thread itself.
Threaded(n) == n > 4

\* n_threads and benchmarkruns_per_thread, with Python's integer division.
NThreads(n) == IF Threaded(n) THEN LargerOf(2, SmallerOf(20, (n + 3) \div 4)) ELSE 1
PerThread(n) == (n + NThreads(n) - 1) \div NThreads(n)

\* Segment i: a slice is cut off at the end of the list, the last one takes
\* the rest.
Segment(n, i) ==
  ((i - 1) * PerThread(n) + 1) ..
  (IF i < NThreads(n) THEN SmallerOf(i * PerThread(n), n) ELSE n)

VARIABLES
  size,          \* len(experiment.benchmark_runs)
  next,          \* per reader: the br it reads next
  dead,          \* readers that an exception ended
  has_read,      \* br.cache_has_been_read
  hit,           \* br.cache_hit
  cached,        \* _cached_br_list
  pending,       \* the brs that __init__ put into the label lists
  main           \* "reading", "joined" or "exited"

vars == <<size, next, dead, has_read, hit, cached, pending, main>>

Readers == 1..NThreads(size)
Brs == 1..size

TypeOK ==
  /\ size \in Sizes
  /\ next \in [Readers -> Nat]
  /\ dead \subseteq Readers
  /\ has_read \subseteq Brs
  /\ hit \subseteq Brs
  /\ cached \in Seq(Brs)
  /\ pending \subseteq Brs
  /\ main \in {"reading", "joined", "exited"}

Init ==
  /\ size \in Sizes
  /\ next = [r \in Readers |-> (r - 1) * PerThread(size) + 1]
  /\ dead = {}
  /\ has_read = {} /\ hit = {}
  /\ cached = <<>>
  /\ pending = {}
  /\ main = "reading"

\* Reader r's for loop has a br left.
Reading(r) == main = "reading" /\ r \notin dead /\ next[r] \in Segment(size, r)

advance(r) == next' = [next EXCEPT ![r] = @ + 1]

\* ReadCache finds a result: the br joins _cached_br_list.
ReadHit(r) ==
  /\ Reading(r) /\ advance(r)
  /\ has_read' = has_read \cup {next[r]}
  /\ hit' = hit \cup {next[r]}
  /\ cached' = Append(cached, next[r])
  /\ UNCHANGED <<size, dead, pending, main>>

ReadMiss(r) ==
  /\ Reading(r) /\ advance(r)
  /\ has_read' = has_read \cup {next[r]}
  /\ UNCHANGED <<size, dead, hit, cached, pending, main>>

\* ReadCache raises RuntimeError: the br stays unread, the loop goes on.
ReadError(r) ==
  /\ Reading(r) /\ advance(r)
  /\ UNCHANGED <<size, dead, has_read, hit, cached, pending, main>>

\* LogFatal in ReadCache, or an exception other than RuntimeError: it ends a
\* reader thread without anybody noticing, and the program when the main
\* thread is the reader.
ReadFatal(r) ==
  /\ Reading(r)
  /\ IF Threaded(size)
     THEN dead' = dead \cup {r} /\ UNCHANGED main
     ELSE main' = "exited" /\ UNCHANGED dead
  /\ UNCHANGED <<size, next, has_read, hit, cached, pending>>

\* Mutants: brs whose cache could not be read are left out of the label lists;
\* the main thread waits for segments to be read instead of threads to end.
MutJoinUnread ==
  /\ main = "reading" /\ \A r \in Readers : ~Reading(r)
  /\ pending' = has_read \ hit
  /\ main' = "joined"
  /\ UNCHANGED <<size, next, dead, has_read, hit, cached>>
MutJoinDead ==
  /\ main = "reading" /\ \A r \in Readers : next[r] \notin Segment(size, r)
  /\ pending' = {b \in Brs : \A i \in 1..Len(cached) : cached[i] # b}
  /\ main' = "joined"
  /\ UNCHANGED <<size, next, dead, has_read, hit, cached>>

\* join() of every reader, then the brs not in _cached_br_list are mapped.
Join ==
  /\ main = "reading" /\ \A r \in Readers : ~Reading(r)
  /\ pending' = {b \in Brs : \A i \in 1..Len(cached) : cached[i] # b}
  /\ main' = "joined"
  /\ UNCHANGED <<size, next, dead, has_read, hit, cached>>

Read(r) == ReadHit(r) \/ ReadMiss(r) \/ ReadError(r) \/ ReadFatal(r)

Next == (\E r \in Readers : Read(r)) \/ Join

Spec == Init /\ [][Next]_vars /\ WF_vars(Next)

-----------------------------------------------------------------------------
\* schedv2.py:302 asserts the sum of the segments' lengths; what is needed is
\* that every br is in exactly one segment.
SegmentsPartition ==
  \A b \in Brs : \E i \in Readers :
    /\ b \in Segment(size, i)
    /\ \A j \in Readers : b \in Segment(size, j) => i = j

\* Whatever the readers find, and although errors and dead readers leave brs
\* unread, each br goes to exactly one of the cached list (once) and the label
\* lists, and it is in the cached list exactly if its cache hit.
EveryBrPlaced ==
  main = "joined" =>
    /\ \A b \in Brs : b \in pending <=> b \notin hit
    /\ \A b \in hit : Cardinality({i \in 1..Len(cached) : cached[i] = b}) = 1

\* Every br is read by one reader at most and ends in exactly one list.
EveryBrOnce == TypeOK /\ SegmentsPartition /\ EveryBrPlaced

\* The main thread gets past the joins, unless it was ended itself.
ReadingEnds == <>(main # "reading")
=============================================================================
