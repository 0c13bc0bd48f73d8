------------------------- MODULE BenchmarkRunProofs -------------------------
(***************************************************************************)
(* What a benchmark run takes from the cache, and how it ends.             *)
(*                                                                         *)
(* The readers of the cache and the cache itself are right for any number  *)
(* of benchmark runs and of stores by others, whatever dies when; a run    *)
(* has its outcome on record and its machine released, for any number of   *)
(* retries.                                                                *)
(*                                                                         *)
(* ReadersInv is about the readers alone; it is used for BrCacheReader     *)
(* and, since every step of ResultsCache is one of its steps or none, for  *)
(* ResultsCache.                                                           *)
(*                                                                         *)
(* StoreInv is about the directories.  A store that no other one overlaps  *)
(* finds its directory removed, and fills it alone (Stages); of two stores *)
(* at work in a directory both are marked (Marked); hence a directory with *)
(* the files of two runs is the work of a marked store (Mixed).  ReadInv   *)
(* relates what a reader has in its hands to the directory it has chosen,  *)
(* as long as nobody has changed that.                                     *)
(***************************************************************************)
EXTENDS ResultsCache, BenchmarkRun, FiniteSetTheorems, SequenceTheorems, TLAPS

\* What reader r has not read yet is in no list.
Unread == \A r \in Readers : \A b \in Segment(size, r) : b >= next[r] => b \notin hit

\* cached is hit, every br once.
CachedOnce ==
  /\ \A i \in 1..Len(cached) : cached[i] \in hit
  /\ \A b \in hit : \E i \in 1..Len(cached) : cached[i] = b
  /\ \A i, j \in 1..Len(cached) : cached[i] = cached[j] => i = j

Placed == main = "joined" => pending = Brs \ hit

ReadersInv == TypeOK /\ Unread /\ CachedOnce /\ Placed

-----------------------------------------------------------------------------

Working == {"rm", "removed", "copy"}

\* The files that a store writes.
Wanted == IF setting.telemetry THEN {"results"} ELSE Files

StoreTypes ==
  /\ setting \in Settings
  /\ run = [w \in Writers |-> run[w]] /\ \A w \in Others : run[w] \in OtherRuns
  /\ spc \in [Writers -> Working \cup {"idle", "done", "failed"}]
  /\ todo \in [Writers -> SUBSET Files]
  /\ dirs = [k \in DOMAIN dirs |-> dirs[k]]
  /\ \A k \in DOMAIN dirs : dirs[k] \in [Files -> Writers \cup {NoFile}]

\* Where a store has not written anything yet.
Early == {"idle", "rm", "removed"}

\* A file is in the directory of its run; the own brs store after the readers.
InPlace ==
  /\ \A k \in DOMAIN dirs, f \in Files, w \in Writers :
       dirs[k][f] = w => Key(w) = k /\ spc[w] \notin Early /\ (w \in Brs => main = "joined")
  /\ \A w \in Brs : spc[w] \in {"copy", "done"} => main = "joined"

Marked ==
  \A v, w \in Writers :
    v # w /\ spc[v] \in Working /\ Key(v) = Key(w) =>
      /\ spc[w] \in Working => w \in overlapped
      /\ spc[w] # "idle" => w \in overlapped \cup superseded

\* Where a store is that no other one overlaps.
Stage(w) ==
  LET k == Key(w) IN
  /\ spc[w] = "rm" => Exists(k) /\ w \notin unremoved /\ \A f \in Files : dirs[k][f] # NoFile => f \in todo[w]
  /\ spc[w] = "removed" => (Exists(k) <=> w \in unremoved)
  /\ spc[w] = "copy" =>
       /\ Exists(k) /\ w \notin unremoved /\ todo[w] \subseteq Wanted
       /\ \A f \in Files : dirs[k][f] = IF f \in Wanted \ todo[w] THEN w ELSE NoFile
  /\ spc[w] = "done" /\ w \notin superseded =>
       /\ Exists(k)
       /\ \A f \in Files :
            IF w \in unremoved THEN dirs[k][f] # w
            ELSE dirs[k][f] = IF f \in Wanted THEN w ELSE NoFile

Stages == \A w \in Writers : w \notin overlapped => Stage(w)

Mixed ==
  \A k \in DOMAIN dirs :
    LET v == dirs[k]["results"] w == dirs[k]["tarball"]
    IN  v # NoFile /\ w # NoFile /\ v # w => v \in overlapped \/ w \in overlapped

StoreInv == StoreTypes /\ InPlace /\ Marked /\ Stages /\ Mixed

-----------------------------------------------------------------------------

ReadTypes ==
  /\ step \in [Readers -> {"glob", "load", "untar"}]
  /\ found = [r \in Readers |-> found[r]]
  /\ parts \in [Brs -> [results : Others \cup {NoFile}, tarball : Others \cup {NoFile}, calm : BOOLEAN]]

\* The conditions hold for what is in directory k.
Matching(b, k) ==
  /\ k.case = b
  /\ setting.type = "local" => k.sum = "s1"
  /\ setting.type = "trybot" => k.sum = "p1"
  /\ "machines" \in setting.conds => k.specs = "x1"
  /\ "same_machine" \in setting.conds => k.id = "m1"
  /\ "false" \notin setting.conds

\* What reader r has in its hands.
Hand(r) ==
  LET k == found[r] v == parts[next[r]].results IN
  /\ step[r] # "glob" => Matching(next[r], k) /\ (r \notin disturbed => Exists(k))
  /\ step[r] = "untar" => /\ v \in Others /\ Key(v) = k /\ ~setting.telemetry
                          /\ r \notin disturbed => dirs[k]["results"] = v

Hands == \A r \in Readers : Reading(r) => Hand(r)

NoTarball == \A r \in Readers : \A b \in Segment(size, r) : b >= next[r] => parts[b].tarball = NoFile

\* What a hit is made of.
Right(b) ==
  /\ parts[b].results # NoFile
  /\ setting.telemetry <=> parts[b].tarball = NoFile
  /\ "succeeded" \in setting.conds => run[parts[b].results].retval = 0
  /\ \A f \in Files : parts[b][f] # NoFile => Matching(b, Key(parts[b][f]))
  /\ parts[b].calm /\ parts[b].tarball \notin {NoFile, parts[b].results} =>
       {parts[b].results, parts[b].tarball} \cap overlapped # {}

\* While the readers are at work, the own brs only clear.
Clearing == main = "reading" => \A w \in Brs : spc[w] # "idle" => "false" \in setting.conds

ReadInv == ReadTypes /\ Hands /\ NoTarball /\ Clearing /\ \A b \in hit : Right(b)

CacheInv == ReadersInv /\ StoreInv /\ ReadInv

-----------------------------------------------------------------------------
(* The readers                                                             *)

LEMMA NThreadsType == \A n \in Nat : NThreads(n) \in Nat /\ NThreads(n) >= 1
BY DEF NThreads, Threaded, LargerOf, SmallerOf

\* Products of the number of a segment and its length.
LEMMA Products ==
  ASSUME NEW i \in Nat, NEW j \in Nat, i < j, NEW p \in Nat
  PROVE  i * p \in Nat /\ (j - 1) * p >= i * p
PROOF
<1>1. PICK k \in Nat : j - 1 = i + k
  OBVIOUS
<1>2. k * p \in Nat /\ i * p \in Nat
  OBVIOUS
<1>3. (i + k) * p = i * p + k * p
  OBVIOUS
<1>4. QED
  BY <1>1, <1>2, <1>3

LEMMA SegmentInBrs ==
  ASSUME NEW n \in Nat, NEW i \in 1..NThreads(n)
  PROVE  Segment(n, i) \subseteq 1..n
PROOF
<1> DEFINE p == PerThread(n) t == NThreads(n)
<1>1. t \in Nat /\ t >= 1
  BY NThreadsType
<1> HIDE DEF t
<1>2. p \in Nat
  BY <1>1 DEF PerThread, t
<1> HIDE DEF p
<1>3. i \in Nat /\ i - 1 \in Nat /\ (i - 1) * p \in Nat /\ i * p \in Nat
  BY <1>1, <1>2 DEF t
<1>4. QED
  BY <1>1, <1>2, <1>3 DEF Segment, SmallerOf, p, t

\* Every br is in one segment, and in no other.
LEMMA Partition ==
  ASSUME NEW n \in Nat, NEW b \in 1..n
  PROVE  \E i \in 1..NThreads(n) :
           /\ b \in Segment(n, i)
           /\ \A j \in 1..NThreads(n) : b \in Segment(n, j) => i = j
PROOF
<1> DEFINE p == PerThread(n) t == NThreads(n)
<1>1. t \in Nat /\ t >= 1
  BY NThreadsType
<1>2. p \in Nat /\ p >= 1
  <2> HIDE DEF t
  <2>1. n + t - 1 >= t
    BY <1>1
  <2>2. p = (n + t - 1) \div t
    BY DEF PerThread, p, t
  <2>3. QED
    BY <1>1, <2>1, <2>2
<1>3. \A i \in 1..t : Segment(n, i) = ((i - 1) * p + 1) .. (IF i < t THEN SmallerOf(i * p, n) ELSE n)
  BY DEF Segment
<1> HIDE DEF p, t
<1>4. ASSUME NEW i \in 1..t, NEW j \in 1..t, b \in Segment(n, i), b \in Segment(n, j), i < j
      PROVE  FALSE
  <2>1. i * p \in Nat /\ (j - 1) * p \in Nat /\ (j - 1) * p >= i * p
    <3>1. i \in Nat /\ j \in Nat /\ j - 1 \in Nat
      BY <1>1
    <3>2. QED
      BY <1>2, <1>4, <3>1, Products
  <2>2. b <= i * p
    BY <1>1, <1>2, <1>3, <1>4, <2>1 DEF SmallerOf
  <2>3. b >= (j - 1) * p + 1
    <3>1. Segment(n, j) = ((j - 1) * p + 1) .. (IF j < t THEN SmallerOf(j * p, n) ELSE n)
      BY <1>3
    <3>2. b \in ((j - 1) * p + 1) .. (IF j < t THEN SmallerOf(j * p, n) ELSE n)
      BY <1>4, <3>1
    <3> HIDE DEF p, t
    <3>3. QED
      BY <2>1, <3>2
  <2>4. QED
    BY <2>1, <2>2, <2>3
<1>5. \E i \in 1..t : b \in Segment(n, i)
  <2>1. CASE b > (t - 1) * p
    <3>1. (t - 1) * p \in Nat
      BY <1>1, <1>2
    <3>2. b \in Segment(n, t)
      BY <1>1, <1>3, <2>1, <3>1
    <3>3. QED
      BY <1>1, <3>2
  <2>2. CASE b <= (t - 1) * p
    <3> DEFINE q == (b - 1) \div p
    <3>1. q \in Nat /\ q * p <= b - 1 /\ b - 1 < q * p + p
      BY <1>2
    <3> HIDE DEF q
    <3>2. q < t - 1
      <4> SUFFICES ASSUME q >= t - 1 PROVE FALSE
        BY <1>1, <3>1
      <4>1. q * p >= (t - 1) * p
        <5>1. t - 1 \in Nat /\ q + 1 \in Nat /\ t - 1 < q + 1
          BY <1>1, <3>1
        <5>2. ((q + 1) - 1) * p >= (t - 1) * p
          BY <1>2, <5>1, Products
        <5>3. (q + 1) - 1 = q
          BY <3>1
        <5>4. QED
          BY <5>2, <5>3
      <4>2. q * p \in Nat /\ (t - 1) * p \in Nat
        BY <1>1, <1>2, <3>1
      <4>3. QED
        BY <2>2, <3>1, <4>1, <4>2
    <3>3. q + 1 \in 1..t /\ q + 1 < t /\ (q + 1) - 1 = q
      BY <1>1, <3>1, <3>2
    <3>4. (q + 1) * p = q * p + p /\ q * p \in Nat
      BY <1>2, <3>1
    <3>5. b \in (q * p + 1) .. SmallerOf((q + 1) * p, n)
      BY <1>2, <3>1, <3>4 DEF SmallerOf
    <3>6. b \in Segment(n, q + 1)
      BY <1>3, <3>3, <3>5
    <3>7. QED
      BY <3>3, <3>6
  <2>3. QED
    BY <1>1, <1>2, <2>1, <2>2
<1>6. PICK i \in 1..t : b \in Segment(n, i)
  BY <1>5
<1>7. ASSUME NEW j \in 1..t, b \in Segment(n, j) PROVE i = j
  <2>1. ~(i < j) /\ ~(j < i)
    BY <1>4, <1>6, <1>7
  <2>2. QED
    BY <1>1, <2>1
<1>8. QED
  BY <1>6, <1>7 DEF t

LEMMA InitReaders == Init => ReadersInv
PROOF
<1> SUFFICES ASSUME Init PROVE ReadersInv
  OBVIOUS
<1>1. size \in Nat
  BY SizesAssumption DEF Init
<1>2. next \in [Readers -> Nat]
  <2>1. PerThread(size) \in Nat
    BY <1>1, NThreadsType DEF PerThread
  <2>2. \A r \in Readers : (r - 1) * PerThread(size) + 1 \in Nat
    <3> SUFFICES ASSUME NEW r \in Readers PROVE (r - 1) * PerThread(size) + 1 \in Nat
      OBVIOUS
    <3>1. r - 1 \in Nat
      BY <1>1, NThreadsType DEF Readers
    <3>2. QED
      BY <2>1, <3>1
  <2>3. QED
    BY <2>2 DEF Init
<1>3. TypeOK
  BY <1>2 DEF Init, TypeOK
<1>4. QED
  BY <1>3 DEF Init, ReadersInv, Unread, CachedOnce, Placed

\* What every reader needs of the segments.
LEMMA OwnSegment ==
  ASSUME TypeOK, NEW r \in Readers, Reading(r)
  PROVE  /\ next[r] \in Brs /\ next[r] \in Segment(size, r)
         /\ \A q \in Readers : q # r => next[r] \notin Segment(size, q)
PROOF
<1>1. size \in Nat
  BY SizesAssumption DEF TypeOK
<1>2. next[r] \in Segment(size, r) /\ next[r] \in Brs
  BY <1>1, SegmentInBrs DEF Reading, Readers, Brs
<1>3. QED
  BY <1>1, <1>2, Partition DEF Readers, Brs

LEMMA ReadKeeps ==
  ASSUME ReadersInv, NEW r \in Readers, Read(r)
  PROVE  ReadersInv'
PROOF
<1>1. /\ next[r] \in Brs /\ next[r] \in Segment(size, r)
      /\ \A q \in Readers : q # r => next[r] \notin Segment(size, q)
      /\ Reading(r) /\ main = "reading" /\ size' = size
  BY OwnSegment DEF ReadersInv, Read, ReadHit, ReadMiss, ReadError, ReadFatal, Reading
<1>2. Readers' = Readers /\ Brs' = Brs
  BY <1>1 DEF Readers, Brs
<1>3. CASE ReadHit(r)
  <2>1. /\ next' = [next EXCEPT ![r] = @ + 1]
        /\ has_read' = has_read \cup {next[r]} /\ hit' = hit \cup {next[r]}
        /\ cached' = Append(cached, next[r])
        /\ UNCHANGED <<size, dead, pending, main>>
    BY <1>3 DEF ReadHit, advance
  <2>2. TypeOK'
    BY <1>1, <1>2, <2>1 DEF ReadersInv, TypeOK
  <2>3. Unread'
    <3> SUFFICES ASSUME NEW q \in Readers, NEW b \in Segment(size, q), b >= next'[q]
                 PROVE  b \notin hit'
      BY <1>1, <1>2 DEF Unread
    <3>1. b \in Nat /\ next[r] \in Nat
      BY <1>1, SizesAssumption, SegmentInBrs DEF ReadersInv, TypeOK, Readers, Brs
    <3>2. b # next[r] /\ b >= next[q]
      BY <1>1, <2>1, <3>1 DEF ReadersInv, TypeOK
    <3>3. QED
      BY <2>1, <3>2 DEF ReadersInv, Unread
  <2>4. CachedOnce'
    <3>1. next[r] \notin hit
      BY <1>1 DEF ReadersInv, Unread, TypeOK
    <3>2. /\ Len(cached') = Len(cached) + 1 /\ Len(cached) \in Nat
          /\ \A i \in 1..Len(cached) : cached'[i] = cached[i]
          /\ cached'[Len(cached) + 1] = next[r]
      BY <1>1, <2>1 DEF ReadersInv, TypeOK
    <3>3. \A i \in 1..Len(cached') : i \in 1..Len(cached) \/ i = Len(cached) + 1
      BY <3>2
    <3>4. \A i \in 1..Len(cached') : cached'[i] \in hit'
      BY <2>1, <3>2, <3>3 DEF ReadersInv, CachedOnce
    <3>5. \A b \in hit' : \E i \in 1..Len(cached') : cached'[i] = b
      BY <2>1, <3>2 DEF ReadersInv, CachedOnce
    <3>6. \A i, j \in 1..Len(cached') : cached'[i] = cached'[j] => i = j
      BY <3>1, <3>2, <3>3 DEF ReadersInv, CachedOnce
    <3>7. QED
      BY <3>4, <3>5, <3>6 DEF CachedOnce
  <2>5. QED
    BY <1>1, <2>1, <2>2, <2>3, <2>4 DEF ReadersInv, Placed
<1>4. CASE ReadMiss(r) \/ ReadError(r)
  <2>1. /\ next' = [next EXCEPT ![r] = @ + 1]
        /\ has_read' \subseteq has_read \cup {next[r]}
        /\ UNCHANGED <<size, dead, hit, cached, pending, main>>
    BY <1>4 DEF ReadMiss, ReadError, advance
  <2>2. TypeOK'
    BY <1>1, <1>2, <2>1 DEF ReadersInv, TypeOK
  <2>3. Unread'
    <3> SUFFICES ASSUME NEW q \in Readers, NEW b \in Segment(size, q), b >= next'[q]
                 PROVE  b \notin hit'
      BY <1>1, <1>2 DEF Unread
    <3>1. b \in Nat /\ next[r] \in Nat
      BY <1>1, SizesAssumption, SegmentInBrs DEF ReadersInv, TypeOK, Readers, Brs
    <3>2. b >= next[q]
      BY <1>1, <2>1, <3>1 DEF ReadersInv, TypeOK
    <3>3. QED
      BY <2>1, <3>2 DEF ReadersInv, Unread
  <2>4. QED
    BY <1>1, <2>1, <2>2, <2>3 DEF ReadersInv, CachedOnce, Placed
<1>5. CASE ReadFatal(r)
  <2>1. UNCHANGED <<size, next, has_read, hit, cached, pending>> /\ dead' \subseteq Readers
        /\ main' \in {"reading", "exited"}
    BY <1>1, <1>5 DEF ReadFatal, ReadersInv, TypeOK
  <2>2. TypeOK'
    BY <1>2, <2>1 DEF ReadersInv, TypeOK
  <2>3. QED
    BY <1>2, <2>1, <2>2 DEF ReadersInv, Unread, CachedOnce, Placed
<1>6. QED
  BY <1>3, <1>4, <1>5 DEF Read

LEMMA NextReaders == ReadersInv /\ [Next]_vars => ReadersInv'
PROOF
<1> SUFFICES ASSUME ReadersInv, [Next]_vars PROVE ReadersInv'
  OBVIOUS
<1>1. CASE UNCHANGED vars
  BY <1>1 DEF vars, ReadersInv, TypeOK, Unread, CachedOnce, Placed, Readers, Brs
<1>2. CASE Join
  <2>1. UNCHANGED <<size, next, dead, has_read, hit, cached>> /\ main' = "joined"
        /\ pending' = {b \in Brs : \A i \in 1..Len(cached) : cached[i] # b}
    BY <1>2 DEF Join
  <2>2. pending' = Brs \ hit
    BY <2>1 DEF ReadersInv, CachedOnce, TypeOK
  <2>3. QED
    BY <2>1, <2>2 DEF ReadersInv, TypeOK, Unread, CachedOnce, Placed, Readers, Brs
<1>3. CASE \E r \in Readers : Read(r)
  BY <1>3, ReadKeeps
<1>4. QED
  BY <1>1, <1>2, <1>3 DEF Next

LEMMA ReadersOnce == ReadersInv => EveryBrOnce
PROOF
<1> SUFFICES ASSUME ReadersInv PROVE EveryBrOnce
  OBVIOUS
<1>1. SegmentsPartition
  BY Partition, SizesAssumption DEF SegmentsPartition, ReadersInv, TypeOK, Readers, Brs
<1>2. EveryBrPlaced
  <2> SUFFICES ASSUME main = "joined"
               PROVE  /\ \A b \in Brs : b \in pending <=> b \notin hit
                      /\ \A b \in hit : Cardinality({i \in 1..Len(cached) : cached[i] = b}) = 1
    BY DEF EveryBrPlaced
  <2>1. \A b \in Brs : b \in pending <=> b \notin hit
    BY DEF ReadersInv, Placed
  <2>2. ASSUME NEW b \in hit
        PROVE  Cardinality({i \in 1..Len(cached) : cached[i] = b}) = 1
    <3>1. PICK i \in 1..Len(cached) : cached[i] = b
      BY DEF ReadersInv, CachedOnce
    <3>2. {j \in 1..Len(cached) : cached[j] = b} = {i}
      BY <3>1 DEF ReadersInv, CachedOnce
    <3>3. QED
      BY <3>2, FS_Singleton
  <2>3. QED
    BY <2>1, <2>2
<1>3. QED
  BY <1>1, <1>2 DEF EveryBrOnce, ReadersInv

\* For any number of benchmark runs, and whatever the readers find: every br is
\* read by one reader at most, and ends either in the cached list, once, if its
\* cache hit, or in the label lists.
THEOREM CacheReadersEveryBrOnce == Spec => []EveryBrOnce
PROOF
<1>1. Spec => Init /\ [][Next]_vars
  BY PTL DEF Spec
<1>2. QED
  BY <1>1, InitReaders, NextReaders, ReadersOnce, PTL

\* A step of the cache is one of a reader, the join, or none of these.
LEMMA CacheStepReads == [CacheNext]_all_vars => [Next]_vars
PROOF
<1>1. \A r \in Readers : ReadResult(r) => Read(r) \/ UNCHANGED vars
  BY DEF ReadResult, SharedMissing, KeyFails, KeyDies, BeginClear, EndClear, FindNone, Find, Vanished, LoadDies,
         Load, Untar, UntarFails, Accept, Read
<1>2. \A w \in Writers : StoreStep(w) => UNCHANGED vars
  BY DEF StoreStep, BeginStore, RmDir, RmFails, MoveOnto, CutShort, Unlink, Copy
<1>3. UNCHANGED all_vars => UNCHANGED vars
  BY DEF all_vars
<1>4. QED
  BY <1>1, <1>2, <1>3 DEF CacheNext, JoinReaders, Next

\* The same for the readers together with the stores.
THEOREM CacheEveryBrOnce == CacheSpec => []EveryBrOnce
PROOF
<1>1. CacheSpec => Init /\ [][CacheNext]_all_vars
  BY PTL DEF CacheSpec, CacheInit
<1>2. QED
  BY <1>1, CacheStepReads, InitReaders, NextReaders, ReadersOnce, PTL

-----------------------------------------------------------------------------
(* The directories                                                         *)

LEMMA InitStore == CacheInit => StoreInv
PROOF
<1> SUFFICES ASSUME CacheInit PROVE StoreInv
  OBVIOUS
<1>1. DOMAIN dirs = {}
  BY DEF CacheInit
<1>2. \A w \in Writers : spc[w] = "idle"
  BY DEF CacheInit
<1>3. StoreTypes
  <2>1. dirs = [k \in DOMAIN dirs |-> dirs[k]]
    BY DEF CacheInit
  <2>2. PICK other \in [Others -> OtherRuns] :
           run = [w \in Writers |-> IF w \in Others THEN other[w] ELSE Mine(w)]
    BY DEF CacheInit
  <2>3. run = [w \in Writers |-> run[w]] /\ \A w \in Others : run[w] \in OtherRuns
    BY <2>2 DEF Writers
  <2>4. QED
    BY <1>1, <2>1, <2>3 DEF CacheInit, StoreTypes
<1>4. Brs \subseteq Writers
  BY DEF Writers
<1>5. QED
  BY <1>1, <1>2, <1>3, <1>4
  DEF StoreInv, InPlace, Marked, Stages, Stage, Mixed, Early, Working

\* A step that leaves the directories and the stores alone; the main thread may
\* go on.
LEMMA SameStore ==
  ASSUME StoreInv, UNCHANGED <<setting, dirs, store_vars, size>>,
         main' = "reading" => main = "reading", main = "joined" => main' = "joined"
  PROVE  StoreInv'
PROOF
<1>1. /\ UNCHANGED <<setting, dirs, run, spc, todo, overlapped, superseded, unremoved, Brs, Writers, Wanted>>
      /\ \A w : Key(w)' = Key(w)
      /\ \A k : Exists(k)' = Exists(k)
  BY DEF store_vars, Brs, Writers, Wanted, Key, Exists
<1>2. StoreTypes'
  BY <1>1 DEF StoreInv, StoreTypes
<1>3. InPlace'
  BY <1>1 DEF StoreInv, InPlace
<1>4. Marked'
  BY <1>1 DEF StoreInv, Marked
<1>5. Stages'
  BY <1>1 DEF StoreInv, Stages, Stage
<1>6. Mixed'
  BY <1>1 DEF StoreInv, Mixed
<1>7. QED
  BY <1>2, <1>3, <1>4, <1>5, <1>6 DEF StoreInv

LEMMA BeginRemoveStore ==
  ASSUME StoreInv, NEW w \in Writers, spc[w] = "idle", BeginRemove(w),
         UNCHANGED <<vars, setting, dir_vars>>,
         run' = [v \in Writers |-> run'[v]],
         \A v \in Writers : v # w \/ v \in Others => run'[v] = run[v],
         main = "joined" \/ run' = run
  PROVE  StoreInv'
PROOF
<1> DEFINE k == WriteKey(run'[w])
<1>1. /\ UNCHANGED <<setting, dirs, main, Brs, Writers, Wanted>>
      /\ \A x : Exists(x)' = Exists(x)
  BY DEF vars, dir_vars, Brs, Writers, Wanted, Exists
<1>2. Key(w)' = k /\ \A v \in Writers \ {w} : Key(v)' = Key(v)
  BY DEF Key
<1>3. /\ spc' = [spc EXCEPT ![w] = IF Exists(k) THEN "rm" ELSE "removed"]
      /\ todo' = [todo EXCEPT ![w] = IF Exists(k) THEN Present(k) ELSE {}]
      /\ overlapped \subseteq overlapped' /\ superseded \subseteq superseded'
      /\ unremoved' = unremoved \ {w}
      /\ \A v \in Busy(k) : v \in overlapped' /\ w \in overlapped'
      /\ \A v \in Writers \ {w} : Key(v) = k /\ spc[v] # "idle" => v \in superseded'
  BY DEF BeginRemove
<1> HIDE DEF k
<1>4. /\ spc'[w] \in {"rm", "removed"} /\ (Exists(k) <=> spc'[w] = "rm")
      /\ \A v \in Writers \ {w} : spc'[v] = spc[v] /\ todo'[v] = todo[v]
      /\ Exists(k) => todo'[w] = Present(k)
  BY <1>3 DEF StoreInv, StoreTypes
<1>5. StoreTypes'
  <2>1. Present(k) \subseteq Files
    BY DEF Present
  <2>2. spc' \in [Writers -> Working \cup {"idle", "done", "failed"}] /\ todo' \in [Writers -> SUBSET Files]
    BY <1>3, <2>1 DEF StoreInv, StoreTypes, Working
  <2>3. Others \subseteq Writers
    BY DEF Writers
  <2>4. QED
    BY <1>1, <2>2, <2>3 DEF StoreInv, StoreTypes
<1>6. InPlace'
  <2>1. ASSUME NEW x \in DOMAIN dirs, NEW f \in Files, NEW v \in Writers, dirs[x][f] = v
        PROVE  Key(v)' = x /\ spc'[v] \notin Early /\ (v \in Brs => main = "joined")
    BY <1>2, <1>4, <2>1 DEF StoreInv, InPlace, Early
  <2>2. \A v \in Brs : spc'[v] \in {"copy", "done"} => main = "joined"
    BY <1>4 DEF StoreInv, InPlace, Writers
  <2>3. QED
    BY <1>1, <2>1, <2>2 DEF InPlace
<1>7. Marked'
  <2> SUFFICES ASSUME NEW v \in Writers, NEW u \in Writers, v # u, spc'[v] \in Working, Key(v)' = Key(u)'
               PROVE  /\ spc'[u] \in Working => u \in overlapped'
                      /\ spc'[u] # "idle" => u \in overlapped' \cup superseded'
    BY <1>1 DEF Marked
  <2>1. CASE v # w /\ u # w
    BY <1>2, <1>3, <1>4, <2>1 DEF StoreInv, Marked
  <2>2. CASE v = w
    <3>1. Key(u) = k /\ spc'[u] = spc[u]
      BY <1>2, <1>4, <2>2
    <3>2. spc[u] \in Working => u \in Busy(k)
      BY <3>1 DEF Busy, Working
    <3>3. QED
      BY <1>3, <2>2, <3>1, <3>2
  <2>3. CASE u = w
    <3>1. v \in Busy(k)
      BY <1>2, <1>4, <2>3 DEF Busy, Working
    <3>2. QED
      BY <1>3, <2>3, <3>1
  <2>4. QED
    BY <2>1, <2>2, <2>3
<1>8. Stages'
  <2> SUFFICES ASSUME NEW v \in Writers, v \notin overlapped' PROVE Stage(v)'
    BY <1>1 DEF Stages
  <2>1. CASE v # w
    BY <1>1, <1>2, <1>3, <1>4, <2>1 DEF StoreInv, Stages, Stage
  <2>2. CASE v = w
    BY <1>1, <1>2, <1>3, <1>4, <2>2 DEF Stage, Present
  <2>3. QED
    BY <2>1, <2>2
<1>9. Mixed'
  BY <1>1, <1>3 DEF StoreInv, Mixed
<1>10. QED
  BY <1>5, <1>6, <1>7, <1>8, <1>9 DEF StoreInv

\* Store w goes on in its directory: what remains to be shown of it.
LEMMA WorkStore ==
  ASSUME StoreInv, NEW w \in Writers, spc[w] \in Working, NEW k, k = Key(w),
         UNCHANGED <<setting, run, overlapped, superseded, main, size>>,
         spc'[w] # "idle", \A v \in Writers \ {w} : spc'[v] = spc[v] /\ todo'[v] = todo[v],
         \A x : x # k => /\ x \in DOMAIN dirs' <=> x \in DOMAIN dirs
                         /\ x \in DOMAIN dirs => dirs'[x] = dirs[x],
         \A v \in Writers \ {w} : v \in unremoved' <=> v \in unremoved,
         k \in DOMAIN dirs' => \A f \in Files : dirs'[k][f] = w => spc'[w] \notin Early,
         StoreTypes',
         k \in DOMAIN dirs' => \A f \in Files : dirs'[k][f] \in {NoFile, w} \/ (Exists(k) /\ dirs'[k][f] = dirs[k][f]),
         w \in Brs => /\ spc'[w] \in {"copy", "done"} => main = "joined"
                      /\ k \in DOMAIN dirs' => \A f \in Files : dirs'[k][f] = w => main = "joined",
         w \notin overlapped => Stage(w)',
         k \in DOMAIN dirs' => \/ w \in overlapped
                               \/ \A f \in Files : dirs'[k][f] \in {NoFile, w}
                               \/ Exists(k) /\ \A f \in Files : dirs'[k][f] \in {NoFile, dirs[k][f]}
  PROVE  StoreInv'
PROOF
<1>1. /\ UNCHANGED <<Brs, Writers, Wanted>> /\ \A v : Key(v)' = Key(v)
      /\ \A x : Exists(x)' <=> x \in DOMAIN dirs'
  BY DEF Brs, Writers, Wanted, Key, Exists
<1>2. InPlace'
  <2>1. ASSUME NEW x \in DOMAIN dirs', NEW f \in Files, NEW v \in Writers, dirs'[x][f] = v
        PROVE  Key(v) = x /\ spc'[v] \notin Early /\ (v \in Brs => main = "joined")
    <3>1. v # NoFile
      BY OthersAssumption DEF Writers, Brs, NoFile
    <3>2. CASE x # k \/ v # w
      <4>1. x \in DOMAIN dirs /\ dirs[x][f] = v
        BY <2>1, <3>1, <3>2 DEF Exists
      <4>2. Key(v) = x /\ spc[v] \notin Early /\ (v \in Brs => main = "joined")
        BY <4>1 DEF StoreInv, InPlace
      <4>3. v # w
        <5>1. v = w => x = k
          BY <4>2
        <5>2. QED
          BY <3>2, <5>1
      <4>4. spc'[v] = spc[v] /\ main' = main
        BY <4>3
      <4>5. QED
        BY <4>2, <4>4
    <3>3. CASE x = k /\ v = w
      BY <2>1, <3>3
    <3>4. QED
      BY <3>2, <3>3
  <2>2. \A v \in Brs : spc'[v] \in {"copy", "done"} => main = "joined"
    BY DEF StoreInv, InPlace, Writers
  <2>3. QED
    BY <1>1, <2>1, <2>2 DEF InPlace
<1>3. Marked'
  <2> SUFFICES ASSUME NEW v \in Writers, NEW u \in Writers, v # u, spc'[v] \in Working, Key(v) = Key(u)
               PROVE  /\ spc'[u] \in Working => u \in overlapped
                      /\ spc'[u] # "idle" => u \in overlapped \cup superseded
    BY <1>1 DEF Marked
  <2>1. spc[v] \in Working /\ (spc'[u] \in Working => spc[u] \in Working) /\ (spc'[u] # "idle" => spc[u] # "idle")
    BY DEF Working
  <2>2. QED
    BY <2>1 DEF StoreInv, Marked
<1>4. Stages'
  <2> SUFFICES ASSUME NEW v \in Writers, v \notin overlapped, v # w PROVE Stage(v)'
    BY <1>1 DEF Stages
  <2>1. CASE Key(v) # k
    <3>1. Stage(v)
      BY DEF StoreInv, Stages
    <3>2. Exists(Key(v))' = Exists(Key(v)) /\ (Exists(Key(v)) => dirs'[Key(v)] = dirs[Key(v)])
      BY <1>1, <2>1 DEF Exists
    <3>3. QED
      BY <1>1, <3>1, <3>2 DEF Stage
  <2>2. CASE Key(v) = k
    <3>1. spc[v] \notin Working /\ (spc[v] = "done" => v \in superseded)
      BY <2>2 DEF StoreInv, Marked
    <3>2. QED
      BY <1>1, <3>1 DEF Stage, Working
  <2>3. QED
    BY <2>1, <2>2
<1>5. Mixed'
  <2> SUFFICES ASSUME NEW x \in DOMAIN dirs',
                      dirs'[x]["results"] # NoFile, dirs'[x]["tarball"] # NoFile,
                      dirs'[x]["results"] # dirs'[x]["tarball"]
               PROVE  dirs'[x]["results"] \in overlapped \/ dirs'[x]["tarball"] \in overlapped
    BY DEF Mixed
  <2>1. CASE x # k
    BY <2>1 DEF StoreInv, Mixed
  <2>2. CASE x = k
    <3>1. "results" \in Files /\ "tarball" \in Files
      BY DEF Files
    <3>2. CASE Exists(k) /\ \A f \in Files : dirs'[k][f] \in {NoFile, dirs[k][f]}
      BY <2>2, <3>1, <3>2 DEF StoreInv, Mixed, Exists
    <3>3. CASE \A f \in Files : dirs'[k][f] \in {NoFile, w}
      BY <2>2, <3>1, <3>3
    <3>4. CASE w \in overlapped
      <4>1. CASE dirs'[k]["results"] = w \/ dirs'[k]["tarball"] = w
        BY <2>2, <3>4, <4>1
      <4>2. CASE dirs'[k]["results"] # w /\ dirs'[k]["tarball"] # w
        BY <2>2, <3>1, <4>2 DEF StoreInv, Mixed, Exists
      <4>3. QED
        BY <4>1, <4>2
    <3>5. QED
      BY <2>2, <3>2, <3>3, <3>4
  <2>3. QED
    BY <2>1, <2>2
<1>6. QED
  BY <1>2, <1>3, <1>4, <1>5 DEF StoreInv

\* One file of a directory is set.
LEMMA SetFileStore ==
  ASSUME StoreInv, NEW k \in DOMAIN dirs, NEW f \in Files, NEW w \in Writers \cup {NoFile}, SetFile(k, f, w)
  PROVE  /\ DOMAIN dirs' = DOMAIN dirs /\ dirs' = [x \in DOMAIN dirs' |-> dirs'[x]]
         /\ \A x \in DOMAIN dirs : dirs'[x] \in [Files -> Writers \cup {NoFile}]
         /\ \A x \in DOMAIN dirs : x # k => dirs'[x] = dirs[x]
         /\ dirs'[k][f] = w /\ \A g \in Files : g # f => dirs'[k][g] = dirs[k][g]
PROOF
<1> DEFINE e == [dirs[k] EXCEPT ![f] = w]
<1>1. dirs[k] \in [Files -> Writers \cup {NoFile}] /\ dirs = [x \in DOMAIN dirs |-> dirs[x]]
  BY DEF StoreInv, StoreTypes
<1>2. e \in [Files -> Writers \cup {NoFile}] /\ e[f] = w /\ \A g \in Files : g # f => e[g] = dirs[k][g]
  BY <1>1
<1>3. dirs' = [dirs EXCEPT ![k] = e]
  BY DEF SetFile
<1> HIDE DEF e
<1>4. dirs' = [x \in DOMAIN dirs |-> IF x = k THEN e ELSE dirs[x]]
  BY <1>1, <1>3
<1>5. DOMAIN dirs' = DOMAIN dirs /\ dirs' = [x \in DOMAIN dirs' |-> dirs'[x]] /\ dirs'[k] = e
  BY <1>4
<1>6. \A x \in DOMAIN dirs : x # k => dirs'[x] = dirs[x]
  BY <1>4
<1>7. QED
  BY <1>1, <1>2, <1>5, <1>6 DEF StoreInv, StoreTypes

LEMMA WriterFacts ==
  /\ \A w \in Writers : w # NoFile /\ (w \in Others <=> w \notin Brs)
  /\ "results" \in Files /\ "tarball" \in Files /\ Files = {"results", "tarball"}
  /\ "results" \in Wanted /\ Wanted \subseteq Files
BY OthersAssumption DEF Writers, Brs, NoFile, Files, Wanted

LEMMA UnlinkStore ==
  ASSUME StoreInv, NEW w \in Writers, NEW f \in Files, Unlink(w, f)
  PROVE  StoreInv'
PROOF
<1> PICK k : k = Key(w)
  OBVIOUS
<1>1. /\ spc[w] = "rm" /\ spc' = spc /\ todo' = [todo EXCEPT ![w] = @ \ {f}]
      /\ UNCHANGED <<setting, run, overlapped, superseded, unremoved, main, size>>
      /\ IF Exists(k) THEN SetFile(k, f, NoFile) ELSE UNCHANGED dirs
  BY DEF Unlink, vars
<1>2. /\ spc[w] \in Working /\ spc'[w] # "idle" /\ UNCHANGED Writers
      /\ \A v \in Writers \ {w} : spc'[v] = spc[v] /\ todo'[v] = todo[v]
      /\ todo'[w] = todo[w] \ {f} /\ todo' \in [Writers -> SUBSET Files]
  BY <1>1 DEF StoreInv, StoreTypes, Working, Writers, Brs
<1>3. Key(w)' = k
  BY <1>1 DEF Key
<1>4. \A g \in Files : Exists(k) => dirs[k][g] # w
  BY <1>1 DEF StoreInv, InPlace, Early, Exists
<1>5. /\ DOMAIN dirs' = DOMAIN dirs /\ dirs' = [x \in DOMAIN dirs' |-> dirs'[x]]
      /\ \A x \in DOMAIN dirs : dirs'[x] \in [Files -> Writers \cup {NoFile}]
      /\ \A x \in DOMAIN dirs : x # k => dirs'[x] = dirs[x]
      /\ k \in DOMAIN dirs => dirs'[k][f] = NoFile /\ \A g \in Files : g # f => dirs'[k][g] = dirs[k][g]
  <2>1. CASE Exists(k)
    <3>1. NoFile \in Writers \cup {NoFile} /\ SetFile(k, f, NoFile) /\ k \in DOMAIN dirs
      BY <1>1, <2>1 DEF Exists
    <3>2. QED
      BY <3>1, SetFileStore
  <2>2. CASE ~Exists(k)
    BY <1>1, <2>2 DEF StoreInv, StoreTypes, Exists
  <2>3. QED
    BY <2>1, <2>2
<1>6. StoreTypes'
  BY <1>1, <1>2, <1>5 DEF StoreInv, StoreTypes
<1>7. k \in DOMAIN dirs' => \A g \in Files : dirs'[k][g] \in {NoFile, dirs[k][g]} /\ Exists(k)
  BY <1>5 DEF Exists
<1>8. w \notin overlapped => Stage(w)'
  <2> SUFFICES ASSUME w \notin overlapped PROVE Stage(w)'
    OBVIOUS
  <2>1. Exists(k) /\ w \notin unremoved /\ \A g \in Files : dirs[k][g] # NoFile => g \in todo[w]
    BY <1>1 DEF StoreInv, Stages, Stage
  <2>2. Exists(k)' /\ \A g \in Files : dirs'[k][g] # NoFile => g \in todo'[w]
    BY <1>2, <1>5, <2>1 DEF Exists
  <2>3. spc'[w] = "rm" /\ w \notin unremoved'
    BY <1>1, <2>1
  <2>4. QED
    BY <1>3, <2>2, <2>3 DEF Stage
<1>9. k \in DOMAIN dirs' => \A g \in Files : dirs'[k][g] # w
  BY <1>4, <1>7, WriterFacts
<1>10. QED
  BY <1>1, <1>2, <1>4, <1>5, <1>6, <1>7, <1>8, <1>9, WorkStore

LEMMA RmDirStore ==
  ASSUME StoreInv, NEW w \in Writers, RmDir(w)
  PROVE  StoreInv'
PROOF
<1> PICK k : k = Key(w)
  OBVIOUS
<1>1. /\ spc[w] = "rm" /\ todo[w] = {} /\ spc' = [spc EXCEPT ![w] = "removed"] /\ todo' = todo
      /\ UNCHANGED <<setting, run, overlapped, superseded, unremoved, main, size>>
      /\ IF Exists(k) /\ Present(k) = {}
         THEN Remove(k) ELSE UNCHANGED dirs
  BY DEF RmDir, vars, dir_vars
<1>2. /\ spc[w] \in Working /\ spc'[w] = "removed" /\ spc'[w] \in Working /\ UNCHANGED Writers
      /\ \A v \in Writers \ {w} : spc'[v] = spc[v] /\ todo'[v] = todo[v]
      /\ spc' \in [Writers -> Working \cup {"idle", "done", "failed"}]
  BY <1>1 DEF StoreInv, StoreTypes, Working, Writers, Brs
<1>3. Key(w)' = k
  BY <1>1 DEF Key
<1>4. \A g \in Files : Exists(k) => dirs[k][g] # w
  BY <1>1 DEF StoreInv, InPlace, Early, Exists
<1>5. /\ dirs' = [x \in DOMAIN dirs' |-> dirs'[x]]
      /\ DOMAIN dirs' \subseteq DOMAIN dirs
      /\ \A x \in DOMAIN dirs' : dirs'[x] = dirs[x]
      /\ \A x : x # k => (x \in DOMAIN dirs' <=> x \in DOMAIN dirs)
      /\ Exists(k) /\ Present(k) = {} => k \notin DOMAIN dirs'
  <2>1. CASE Exists(k) /\ Present(k) = {}
    BY <1>1, <2>1 DEF Remove
  <2>2. CASE ~(Exists(k) /\ Present(k) = {})
    BY <1>1, <2>2 DEF StoreInv, StoreTypes
  <2>3. QED
    BY <2>1, <2>2
<1>6. StoreTypes'
  BY <1>1, <1>2, <1>5 DEF StoreInv, StoreTypes
<1>7. k \in DOMAIN dirs' => Exists(k) /\ dirs'[k] = dirs[k]
  BY <1>5 DEF Exists
<1>8. w \notin overlapped => Stage(w)'
  <2> SUFFICES ASSUME w \notin overlapped PROVE Stage(w)'
    OBVIOUS
  <2>1. Exists(k) /\ w \notin unremoved /\ \A g \in Files : dirs[k][g] # NoFile => g \in todo[w]
    BY <1>1 DEF StoreInv, Stages, Stage
  <2>2. Present(k) = {}
    BY <1>1, <2>1 DEF Present
  <2>3. ~Exists(k)'
    BY <1>5, <2>1, <2>2 DEF Exists
  <2>4. QED
    BY <1>1, <1>2, <1>3, <2>1, <2>3 DEF Stage
<1>9. k \in DOMAIN dirs' => \A g \in Files : dirs'[k][g] # w
  BY <1>4, <1>7
<1>10. \A x : x # k /\ x \in DOMAIN dirs => dirs'[x] = dirs[x]
  BY <1>5
<1>11. QED
  BY <1>1, <1>2, <1>4, <1>5, <1>6, <1>7, <1>8, <1>9, <1>10, WorkStore

LEMMA RmFailsStore ==
  ASSUME StoreInv, NEW w \in Writers, RmFails(w)
  PROVE  StoreInv'
PROOF
<1> PICK k : k = Key(w)
  OBVIOUS
<1>1. /\ spc[w] = "rm" /\ spc' = [spc EXCEPT ![w] = "removed"] /\ todo' = [todo EXCEPT ![w] = {}]
      /\ unremoved' = unremoved \cup {w}
      /\ UNCHANGED <<setting, run, overlapped, superseded, main, size, dirs>>
  BY DEF RmFails, vars, dir_vars
<1>2. /\ spc[w] \in Working /\ spc'[w] = "removed" /\ UNCHANGED Writers
      /\ \A v \in Writers \ {w} : spc'[v] = spc[v] /\ todo'[v] = todo[v]
      /\ spc' \in [Writers -> Working \cup {"idle", "done", "failed"}]
      /\ todo' \in [Writers -> SUBSET Files]
  BY <1>1 DEF StoreInv, StoreTypes, Working, Writers, Brs
<1>3. Key(w)' = k /\ Exists(k)' = Exists(k)
  BY <1>1 DEF Key, Exists
<1>4. StoreTypes'
  BY <1>1, <1>2 DEF StoreInv, StoreTypes
<1>5. k \in DOMAIN dirs' => Exists(k) /\ dirs'[k] = dirs[k] /\ \A g \in Files : dirs[k][g] # w
  BY <1>1 DEF StoreInv, InPlace, Early, Exists
<1>6. w \notin overlapped => Stage(w)'
  <2> SUFFICES ASSUME w \notin overlapped PROVE Stage(w)'
    OBVIOUS
  <2>1. Exists(k)
    BY <1>1 DEF StoreInv, Stages, Stage
  <2>2. QED
    BY <1>1, <1>2, <1>3, <2>1 DEF Stage
<1>7. QED
  BY <1>1, <1>2, <1>4, <1>5, <1>6, WorkStore

LEMMA MoveOntoStore ==
  ASSUME StoreInv, NEW w \in Writers, MoveOnto(w)
  PROVE  StoreInv'
PROOF
<1> PICK k : k = Key(w)
  OBVIOUS
<1>1. /\ spc[w] = "removed" /\ (w \in Brs => main = "joined")
      /\ UNCHANGED <<setting, run, overlapped, superseded, unremoved, main, size>>
      /\ IF Exists(k)
         THEN spc' = [spc EXCEPT ![w] = "done"] /\ UNCHANGED <<todo, dirs>>
         ELSE /\ spc' = [spc EXCEPT ![w] = "copy"]
              /\ todo' = [todo EXCEPT ![w] = Wanted]
              /\ Create(k)
  BY WriterFacts DEF MoveOnto, vars, Wanted
<1>2. /\ spc[w] \in Working /\ UNCHANGED <<Writers, Wanted>>
      /\ \A v \in Writers \ {w} : spc'[v] = spc[v] /\ todo'[v] = todo[v]
      /\ spc' \in [Writers -> Working \cup {"idle", "done", "failed"}]
      /\ spc'[w] = IF Exists(k) THEN "done" ELSE "copy"
      /\ todo' \in [Writers -> SUBSET Files] /\ (~Exists(k) => todo'[w] = Wanted)
  <2>1. spc[w] \in Working /\ UNCHANGED <<Writers, Wanted>>
    BY <1>1 DEF Working, Writers, Brs, Wanted
  <2>2. CASE Exists(k)
    BY <1>1, <2>1, <2>2 DEF StoreInv, StoreTypes
  <2>3. CASE ~Exists(k)
    <3>1. Wanted \in SUBSET Files /\ "copy" \in Working
      BY WriterFacts DEF Working
    <3>2. QED
      BY <1>1, <2>1, <2>3, <3>1 DEF StoreInv, StoreTypes
  <2>4. QED
    BY <2>2, <2>3
<1>3. Key(w)' = k
  BY <1>1 DEF Key
<1>4. w \notin overlapped => (Exists(k) <=> w \in unremoved)
  BY <1>1 DEF StoreInv, Stages, Stage
<1>5. Exists(k) => \A f \in Files : dirs[k][f] # w
  BY <1>1 DEF StoreInv, InPlace, Early, Exists
<1>6. /\ dirs' = [x \in DOMAIN dirs' |-> dirs'[x]]
      /\ DOMAIN dirs' = DOMAIN dirs \cup {k}
      /\ \A x \in DOMAIN dirs : dirs'[x] = dirs[x]
      /\ k \notin DOMAIN dirs => dirs'[k] = [f \in Files |-> NoFile]
  <2>1. CASE Exists(k)
    BY <1>1, <2>1 DEF StoreInv, StoreTypes, Exists
  <2>2. CASE ~Exists(k)
    BY <1>1, <2>2 DEF Create, Exists
  <2>3. QED
    BY <2>1, <2>2
<1>7. StoreTypes'
  BY <1>1, <1>2, <1>6 DEF StoreInv, StoreTypes
<1>8. w \notin overlapped => Stage(w)'
  <2> SUFFICES ASSUME w \notin overlapped PROVE Stage(w)'
    OBVIOUS
  <2>1. CASE Exists(k)
    <3>1. spc'[w] = "done" /\ Exists(k)' /\ w \in unremoved' /\ \A g \in Files : dirs'[k][g] # w
      BY <1>1, <1>2, <1>4, <1>5, <1>6, <2>1 DEF Exists
    <3>2. QED
      BY <1>3, <3>1 DEF Stage
  <2>2. CASE ~Exists(k)
    <3>1. /\ spc'[w] = "copy" /\ Exists(k)' /\ w \notin unremoved' /\ todo'[w] = Wanted
          /\ \A g \in Files : dirs'[k][g] = NoFile
      BY <1>1, <1>2, <1>4, <1>6, <2>2 DEF Exists
    <3>2. QED
      BY <1>2, <1>3, <3>1 DEF Stage
  <2>3. QED
    BY <2>1, <2>2
<1>9. \A f \in Files : dirs'[k][f] \in {NoFile, w} \/ (Exists(k) /\ dirs'[k][f] = dirs[k][f])
  BY <1>6 DEF Exists
<1>10. \/ \A f \in Files : dirs'[k][f] \in {NoFile, w}
       \/ Exists(k) /\ \A f \in Files : dirs'[k][f] \in {NoFile, dirs[k][f]}
  BY <1>6 DEF Exists
<1>11. spc'[w] # "idle" /\ \A x : x # k => /\ x \in DOMAIN dirs' <=> x \in DOMAIN dirs
                                           /\ x \in DOMAIN dirs => dirs'[x] = dirs[x]
  BY <1>1, <1>2, <1>6
<1>12. spc'[w] \notin Early
  BY <1>2 DEF Early
<1>13. QED
  BY <1>1, <1>2, <1>7, <1>8, <1>9, <1>10, <1>11, <1>12, WorkStore

LEMMA CopyStore ==
  ASSUME StoreInv, NEW w \in Writers, NEW f \in Files, Copy(w, f)
  PROVE  StoreInv'
PROOF
<1> PICK k : k = Key(w)
  OBVIOUS
<1>1. /\ spc[w] = "copy" /\ f \in todo[w]
      /\ UNCHANGED <<setting, run, overlapped, superseded, unremoved, main, size>>
      /\ IF Exists(k)
         THEN /\ SetFile(k, f, w)
              /\ todo' = [todo EXCEPT ![w] = @ \ {f}]
              /\ spc' = IF todo'[w] = {} THEN [spc EXCEPT ![w] = "done"] ELSE spc
         ELSE spc' = [spc EXCEPT ![w] = "failed"] /\ UNCHANGED <<todo, dirs>>
  BY DEF Copy, vars
<1>2. /\ spc[w] \in Working /\ spc'[w] # "idle" /\ UNCHANGED <<Writers, Wanted>>
      /\ \A v \in Writers \ {w} : spc'[v] = spc[v] /\ todo'[v] = todo[v]
      /\ spc' \in [Writers -> Working \cup {"idle", "done", "failed"}]
      /\ todo' \in [Writers -> SUBSET Files]
      /\ Exists(k) => /\ todo'[w] = todo[w] \ {f}
                      /\ spc'[w] = IF todo'[w] = {} THEN "done" ELSE "copy"
      /\ ~Exists(k) => spc'[w] = "failed"
  BY <1>1 DEF StoreInv, StoreTypes, Working, Writers, Brs, Wanted
<1>3. Key(w)' = k
  BY <1>1 DEF Key
<1>4. w \notin overlapped =>
        /\ Exists(k) /\ w \notin unremoved /\ todo[w] \subseteq Wanted
        /\ \A g \in Files : dirs[k][g] = IF g \in Wanted \ todo[w] THEN w ELSE NoFile
  BY <1>1 DEF StoreInv, Stages, Stage
<1>5. /\ dirs' = [x \in DOMAIN dirs' |-> dirs'[x]]
      /\ DOMAIN dirs' = DOMAIN dirs
      /\ \A x \in DOMAIN dirs : dirs'[x] \in [Files -> Writers \cup {NoFile}]
      /\ \A x \in DOMAIN dirs : x # k => dirs'[x] = dirs[x]
      /\ k \in DOMAIN dirs => dirs'[k][f] = w /\ \A g \in Files : g # f => dirs'[k][g] = dirs[k][g]
  <2>1. CASE Exists(k)
    <3>1. w \in Writers \cup {NoFile} /\ SetFile(k, f, w) /\ k \in DOMAIN dirs
      BY <1>1, <2>1 DEF Exists
    <3>2. QED
      BY <3>1, SetFileStore
  <2>2. CASE ~Exists(k)
    BY <1>1, <2>2 DEF StoreInv, StoreTypes, Exists
  <2>3. QED
    BY <2>1, <2>2
<1>6. StoreTypes'
  BY <1>1, <1>2, <1>5 DEF StoreInv, StoreTypes
<1>7. w \notin overlapped => \A g \in Files : dirs'[k][g] = IF g \in Wanted \ todo'[w] THEN w ELSE NoFile
  BY <1>1, <1>2, <1>4, <1>5 DEF Exists
<1>8. w \notin overlapped => Stage(w)'
  <2> SUFFICES ASSUME w \notin overlapped PROVE Stage(w)'
    OBVIOUS
  <2>1. /\ Exists(k)' /\ w \notin unremoved' /\ todo'[w] \subseteq Wanted
        /\ \A g \in Files : dirs'[k][g] = IF g \in Wanted \ todo'[w] THEN w ELSE NoFile
        /\ spc'[w] = IF todo'[w] = {} THEN "done" ELSE "copy"
    BY <1>1, <1>2, <1>4, <1>5, <1>7 DEF Exists
  <2>2. QED
    BY <1>2, <1>3, <2>1 DEF Stage
<1>9. spc'[w] \notin Early
  BY <1>2 DEF Early
<1>10. w \in Brs => main = "joined"
  BY <1>1 DEF StoreInv, InPlace
<1>11. k \in DOMAIN dirs' => \A g \in Files : dirs'[k][g] \in {NoFile, w} \/ (Exists(k) /\ dirs'[k][g] = dirs[k][g])
  BY <1>5 DEF Exists
<1>12. w \in overlapped \/ \A g \in Files : dirs'[k][g] \in {NoFile, w}
  BY <1>7
<1>13. \A x : x # k => /\ x \in DOMAIN dirs' <=> x \in DOMAIN dirs
                       /\ x \in DOMAIN dirs => dirs'[x] = dirs[x]
  BY <1>1, <1>5
<1>14. QED
  BY <1>1, <1>2, <1>6, <1>8, <1>9, <1>10, <1>11, <1>12, <1>13, WorkStore

LEMMA CutShortStore ==
  ASSUME StoreInv, NEW w \in Writers, CutShort(w)
  PROVE  StoreInv'
PROOF
<1> PICK k : k = Key(w)
  OBVIOUS
<1>1. /\ spc[w] \in Working /\ spc' = [spc EXCEPT ![w] = "failed"] /\ todo' = todo /\ dirs' = dirs
      /\ UNCHANGED <<setting, run, overlapped, superseded, unremoved, main, size>>
  BY DEF CutShort, vars, dir_vars, Working
<1>2. /\ spc'[w] = "failed" /\ spc'[w] \notin Early /\ UNCHANGED Writers
      /\ \A v \in Writers \ {w} : spc'[v] = spc[v] /\ todo'[v] = todo[v]
      /\ spc' \in [Writers -> Working \cup {"idle", "done", "failed"}]
  BY <1>1 DEF StoreInv, StoreTypes, Writers, Brs, Early
<1>3. StoreTypes' /\ Stage(w)'
  BY <1>1, <1>2 DEF StoreInv, StoreTypes, Stage
<1>4. w \in Brs /\ k \in DOMAIN dirs' => \A g \in Files : dirs'[k][g] = w => main = "joined"
  BY <1>1 DEF StoreInv, InPlace
<1>5. k \in DOMAIN dirs' => Exists(k) /\ dirs'[k] = dirs[k]
  BY <1>1 DEF Exists
<1>6. \A x : x # k => /\ x \in DOMAIN dirs' <=> x \in DOMAIN dirs
                       /\ x \in DOMAIN dirs => dirs'[x] = dirs[x]
  BY <1>1
<1>7. QED
  BY <1>1, <1>2, <1>3, <1>4, <1>5, <1>6, WorkStore

LEMMA BeginStoreStore ==
  ASSUME ReadersInv, StoreInv, NEW w \in Writers, BeginStore(w)
  PROVE  StoreInv'
PROOF
<1>1. spc[w] = "idle" /\ BeginRemove(w) /\ UNCHANGED <<vars, setting, dir_vars>>
  BY DEF BeginStore
<1>2. run = [v \in Writers |-> run[v]]
  BY DEF StoreInv, StoreTypes
<1>3. CASE w \in Others /\ UNCHANGED run
  BY <1>1, <1>2, <1>3, BeginRemoveStore
<1>4. CASE ~(w \in Others /\ UNCHANGED run)
  <2>1. w \in pending /\ main = "joined"
    BY <1>4 DEF BeginStore
  <2>2. PICK id \in Ids, rv \in {0, 1} : run' = [run EXCEPT ![w] = [@ EXCEPT !.id = id, !.retval = rv]]
    BY <1>4 DEF BeginStore
  <2> DEFINE e == [run[w] EXCEPT !.id = id, !.retval = rv]
  <2>3. run' = [run EXCEPT ![w] = e]
    BY <2>2
  <2> HIDE DEF e
  <2>4. run' = [v \in Writers |-> run'[v]] /\ \A v \in Writers : v # w => run'[v] = run[v]
    BY <1>2, <2>3
  <2>5. w \in Brs
    BY <2>1 DEF ReadersInv, TypeOK
  <2>6. QED
    BY <1>1, <2>1, <2>4, <2>5, WriterFacts, BeginRemoveStore
<1>5. QED
  BY <1>3, <1>4

LEMMA EndClearStore ==
  ASSUME ReadersInv, StoreInv, NEW r \in Readers, EndClear(r)
  PROVE  StoreInv'
PROOF
<1> PICK w : w = next[r]
  OBVIOUS
<1>1. /\ spc[w] = "removed" /\ spc' = [spc EXCEPT ![w] = "idle"] /\ main = "reading"
      /\ UNCHANGED <<setting, dirs, run, todo, overlapped, superseded, unremoved, main, size>>
      /\ w \in Brs
  BY OwnSegment DEF EndClear, ReadMiss, Reading, dir_vars, ReadersInv
<1>2. w \in Writers
  BY <1>1 DEF Writers
<1>3. /\ UNCHANGED <<Brs, Writers, Wanted>>
      /\ \A v : Key(v)' = Key(v)
      /\ \A k : Exists(k)' = Exists(k)
  BY <1>1 DEF Brs, Writers, Wanted, Key, Exists
<1>4. /\ spc' \in [Writers -> Working \cup {"idle", "done", "failed"}]
      /\ spc'[w] = "idle" /\ \A v \in Writers \ {w} : spc'[v] = spc[v]
  BY <1>1, <1>2 DEF StoreInv, StoreTypes
<1>5. StoreTypes'
  BY <1>1, <1>3, <1>4 DEF StoreInv, StoreTypes
<1>6. InPlace'
  <2>1. \A k \in DOMAIN dirs, f \in Files : dirs[k][f] # w
    BY <1>1, <1>2 DEF StoreInv, InPlace, Early
  <2>2. Brs \subseteq Writers
    BY DEF Writers
  <2>3. QED
    BY <1>1, <1>3, <1>4, <2>1, <2>2 DEF StoreInv, InPlace
<1>7. Marked'
  <2>1. "idle" \notin Working
    BY DEF Working
  <2>2. QED
    BY <1>1, <1>3, <1>4, <2>1 DEF StoreInv, Marked
<1>8. Stages'
  BY <1>1, <1>3, <1>4 DEF StoreInv, Stages, Stage
<1>9. Mixed'
  BY <1>1 DEF StoreInv, Mixed
<1>10. QED
  BY <1>5, <1>6, <1>7, <1>8, <1>9 DEF StoreInv

\* The steps of a reader that do not touch the directories.
OnlyReads(r) ==
  \/ SharedMissing(r) \/ KeyFails(r) \/ KeyDies(r) \/ FindNone(r) \/ Find(r) \/ Vanished(r) \/ LoadDies(r)
  \/ Load(r) \/ Untar(r) \/ UntarFails(r)

LEMMA OnlyReadsLeave ==
  ASSUME NEW r \in Readers, OnlyReads(r)
  PROVE  /\ Reading(r) /\ UNCHANGED <<setting, dirs, store_vars, size>>
         /\ main = "reading" /\ main' \in {"reading", "exited"}
         /\ Read(r) \/ UNCHANGED vars
PROOF
<1>1. Reading(r) /\ UNCHANGED <<setting, dirs, store_vars>> /\ (Read(r) \/ UNCHANGED vars)
  BY DEF OnlyReads, SharedMissing, KeyFails, KeyDies, FindNone, Find, Vanished, LoadDies, Load, Untar, UntarFails,
         cache_vars, dir_vars, At, Searching, Accept, Read
<1>2. main = "reading"
  BY <1>1 DEF Reading
<1>3. size' = size /\ main' \in {"reading", "exited"}
  BY <1>1, <1>2 DEF Read, ReadHit, ReadMiss, ReadError, ReadFatal, vars
<1>4. QED
  BY <1>1, <1>2, <1>3

LEMMA NextStore == ReadersInv /\ StoreInv /\ [CacheNext]_all_vars => StoreInv'
PROOF
<1> SUFFICES ASSUME ReadersInv, StoreInv, [CacheNext]_all_vars PROVE StoreInv'
  OBVIOUS
<1>1. CASE UNCHANGED all_vars
  BY <1>1, SameStore DEF all_vars, vars, cache_vars, dir_vars
<1>2. CASE JoinReaders
  BY <1>2, SameStore DEF JoinReaders, Join, cache_vars, dir_vars
<1>3. ASSUME NEW r \in Readers, ReadResult(r) PROVE StoreInv'
  <2>1. CASE OnlyReads(r)
    BY <2>1, OnlyReadsLeave, SameStore
  <2>2. CASE BeginClear(r)
    <3>1. /\ Reading(r) /\ spc[next[r]] = "idle" /\ BeginRemove(next[r]) /\ run' = run
          /\ UNCHANGED <<vars, setting, dir_vars>>
      BY <2>2 DEF BeginClear
    <3>2. next[r] \in Writers
      BY <3>1, OwnSegment DEF Writers, ReadersInv
    <3>3. run = [v \in Writers |-> run[v]]
      BY DEF StoreInv, StoreTypes
    <3>4. QED
      BY <3>1, <3>2, <3>3, BeginRemoveStore
  <2>3. CASE EndClear(r)
    BY <2>3, EndClearStore
  <2>4. QED
    BY <1>3, <2>1, <2>2, <2>3 DEF ReadResult, OnlyReads
<1>4. ASSUME NEW w \in Writers, StoreStep(w) PROVE StoreInv'
  BY <1>4, BeginStoreStore, RmDirStore, RmFailsStore, MoveOntoStore, CutShortStore, UnlinkStore, CopyStore DEF StoreStep
<1>5. QED
  BY <1>1, <1>2, <1>3, <1>4 DEF CacheNext

-----------------------------------------------------------------------------
(* What readers get                                                        *)

LEMMA InitRead == CacheInit => ReadInv
PROOF
<1> SUFFICES ASSUME CacheInit PROVE ReadInv
  OBVIOUS
<1>1. /\ step = [r \in Readers |-> "glob"] /\ found = [r \in Readers |-> NoDir]
      /\ parts = [b \in Brs |-> NoParts] /\ hit = {} /\ spc = [w \in Writers |-> "idle"]
      /\ size \in Nat
  BY SizesAssumption DEF CacheInit, Init
<1>2. ReadTypes
  BY <1>1 DEF ReadTypes, NoParts
<1>3. Hands
  BY <1>1 DEF Hands, Hand
<1>4. NoTarball
  BY <1>1, SegmentInBrs DEF NoTarball, NoParts, Readers, Brs
<1>5. Clearing
  BY <1>1 DEF Clearing, Writers
<1>6. QED
  BY <1>1, <1>2, <1>3, <1>4, <1>5 DEF ReadInv

LEMMA NextClearing == ReadersInv /\ StoreInv /\ Clearing /\ [CacheNext]_all_vars => Clearing'
PROOF
<1> SUFFICES ASSUME ReadersInv, StoreInv, Clearing, [CacheNext]_all_vars PROVE Clearing'
  OBVIOUS
<1>1. UNCHANGED Brs /\ Brs \subseteq Writers /\ UNCHANGED setting
  BY DEF Brs, Writers, all_vars, cache_vars, vars, CacheNext, JoinReaders, Join, ReadResult, StoreStep,
         SharedMissing, KeyFails, KeyDies, BeginClear, EndClear, FindNone, Find, Vanished, LoadDies, Load, Untar,
         UntarFails, Accept, ReadHit, ReadMiss, ReadError, ReadFatal, BeginStore, RmDir, RmFails, MoveOnto, CutShort,
         Unlink, Copy
<1>2. CASE UNCHANGED spc /\ (main' = "reading" => main = "reading")
  BY <1>1, <1>2 DEF Clearing
<1>3. CASE JoinReaders
  BY <1>3 DEF JoinReaders, Join, Clearing
<1>4. ASSUME NEW r \in Readers, ReadResult(r) PROVE Clearing'
  <2>1. CASE OnlyReads(r)
    BY <1>2, <2>1, OnlyReadsLeave DEF store_vars
  <2>2. CASE BeginClear(r)
    BY <1>1, <2>2 DEF BeginClear, Clearing
  <2>3. CASE EndClear(r)
    <3>1. spc' = [spc EXCEPT ![next[r]] = "idle"] /\ main' = main
      BY <2>3 DEF EndClear, ReadMiss
    <3>2. \A w \in Brs : spc'[w] # "idle" => spc[w] # "idle"
      BY <1>1, <3>1 DEF StoreInv, StoreTypes
    <3>3. QED
      BY <1>1, <3>1, <3>2 DEF Clearing
  <2>4. QED
    BY <1>4, <2>1, <2>2, <2>3 DEF ReadResult, OnlyReads
<1>5. ASSUME NEW w \in Writers, StoreStep(w) PROVE Clearing'
  <2>1. main' = main
    BY <1>5 DEF StoreStep, BeginStore, RmDir, RmFails, MoveOnto, CutShort, Unlink, Copy, vars
  <2>2. CASE BeginStore(w)
    <3>1. w \in Others \/ main = "joined"
      BY <2>2 DEF BeginStore
    <3>2. \A v \in Writers : v # w => spc'[v] = spc[v]
      BY <2>2 DEF BeginStore, BeginRemove, StoreInv, StoreTypes
    <3>3. QED
      BY <1>1, <2>1, <3>1, <3>2, WriterFacts DEF Clearing
  <2>3. CASE \E f \in Files : Unlink(w, f)
    BY <1>1, <2>1, <2>3 DEF Unlink, Clearing
  <2>4. CASE RmDir(w) \/ RmFails(w) \/ MoveOnto(w) \/ CutShort(w) \/ \E f \in Files : Copy(w, f)
    <3>1. spc[w] # "idle" /\ \A v \in Writers : v # w => spc'[v] = spc[v]
      BY <2>4 DEF RmDir, RmFails, MoveOnto, CutShort, Copy, StoreInv, StoreTypes
    <3>2. QED
      BY <1>1, <2>1, <3>1 DEF Clearing
  <2>5. QED
    BY <1>5, <2>2, <2>3, <2>4 DEF StoreStep
<1>6. CASE UNCHANGED all_vars
  BY <1>2, <1>6 DEF all_vars, vars, cache_vars, store_vars
<1>7. QED
  BY <1>3, <1>4, <1>5, <1>6 DEF CacheNext

\* Stores and clears change directories, never what was read.
LEMMA StoreKeepsRead ==
  ASSUME ReadersInv, StoreInv, ReadInv, Clearing', UNCHANGED <<vars, setting, read_vars>>,
         overlapped \subseteq overlapped', \A v \in Others : run'[v] = run[v],
         disturbed \subseteq disturbed',
         \A k \in DOMAIN dirs : \/ \A r \in Readers : step[r] # "glob" /\ found[r] = k => r \in disturbed'
                                \/ k \in DOMAIN dirs' /\ dirs'[k] = dirs[k]
  PROVE  ReadInv'
PROOF
<1>1. /\ UNCHANGED <<size, next, hit, main, dead, setting, step, found, parts, Readers, Brs>>
      /\ \A v \in Others : Key(v)' = Key(v)
      /\ \A r \in Readers : Reading(r)' = Reading(r)
  BY DEF vars, read_vars, Readers, Brs, Key, Reading
<1>2. ReadTypes' /\ NoTarball'
  BY <1>1 DEF ReadInv, ReadTypes, NoTarball
<1>3. Hands'
  <2> SUFFICES ASSUME NEW r \in Readers, Reading(r) PROVE Hand(r)'
    BY <1>1 DEF Hands
  <2>1. Hand(r)
    BY DEF ReadInv, Hands
  <2>2. step[r] # "glob" /\ r \notin disturbed' =>
          r \notin disturbed /\ found[r] \in DOMAIN dirs /\ found[r] \in DOMAIN dirs' /\ dirs'[found[r]] = dirs[found[r]]
    BY <2>1 DEF Hand, Exists
  <2>3. \A b, k : Matching(b, k)' = Matching(b, k)
    BY <1>1 DEF Matching
  <2>4. QED
    BY <1>1, <2>1, <2>2, <2>3 DEF Hand, Exists
<1>4. ASSUME NEW b \in hit PROVE Right(b)'
  <2>1. Right(b) /\ b \in Brs
    BY DEF ReadInv, ReadersInv, TypeOK
  <2>2. \A f \in Files : parts[b][f] \in Others \cup {NoFile}
    BY <2>1, WriterFacts DEF ReadInv, ReadTypes
  <2>3. parts[b].results \in Others
    BY <2>1 DEF Right, ReadInv, ReadTypes
  <2>4. \A k : Matching(b, k)' = Matching(b, k)
    BY <1>1 DEF Matching
  <2>5. \A f \in Files : parts[b][f] # NoFile => Matching(b, Key(parts[b][f]))'
    <3> SUFFICES ASSUME NEW f \in Files, parts[b][f] # NoFile PROVE Matching(b, Key(parts[b][f]))'
      OBVIOUS
    <3>1. Matching(b, Key(parts[b][f]))
      BY <2>1 DEF Right
    <3>2. run'[parts'[b][f]] = run[parts[b][f]]
      BY <1>1, <2>2
    <3>3. QED
      BY <1>1, <3>1, <3>2 DEF Matching, Key
  <2>6. QED
    BY <1>1, <2>1, <2>3, <2>5 DEF Right
<1>5. QED
  BY <1>1, <1>2, <1>3, <1>4 DEF ReadInv

\* Reader r goes on: what remains to be shown of it.
LEMMA ReaderStep ==
  ASSUME ReadersInv, StoreInv, ReadInv, Clearing', NEW r \in Readers, Reading(r),
         NEW c, c = next[r],
         Read(r) \/ UNCHANGED vars,
         UNCHANGED <<setting, run, overlapped, dirs>>,
         step' \in [Readers -> {"glob", "load", "untar"}], found' = [q \in Readers |-> found'[q]],
         \A q \in Readers \ {r} : /\ step'[q] = step[q] /\ found'[q] = found[q]
                                  /\ q \in disturbed' <=> q \in disturbed,
         parts' \in [Brs -> [results : Others \cup {NoFile}, tarball : Others \cup {NoFile}, calm : BOOLEAN]],
         \A b \in Brs : b # next[r] => parts'[b] = parts[b],
         step'[r] = "glob" \/ Hand(r)',
         next' = next => parts'[next[r]].tarball = NoFile,
         c \in hit' => Right(c)'
  PROVE  ReadInv'
PROOF
<1>1. /\ next[r] \in Brs /\ next[r] \in Segment(size, r) /\ next[r] \in Nat
      /\ \A q \in Readers : q # r => next[r] \notin Segment(size, q)
  BY OwnSegment DEF ReadersInv, TypeOK
<1>2. /\ UNCHANGED <<size, Readers, Brs>>
      /\ \A v : Key(v)' = Key(v)
      /\ hit' \subseteq hit \cup {next[r]} /\ dead \subseteq dead' /\ main = "reading"
      /\ next' = next \/ next' = [next EXCEPT ![r] = @ + 1]
  BY DEF Read, ReadHit, ReadMiss, ReadError, ReadFatal, advance, vars, Readers, Brs, Key, Reading
<1>3. /\ \A q \in Readers : q # r => next'[q] = next[q]
      /\ \A q \in Readers : next'[q] \in Nat /\ next'[q] >= next[q] /\ next[q] \in Nat
      /\ next' = next \/ next'[r] = next[r] + 1
  <2>1. next \in [Readers -> Nat]
    BY DEF ReadersInv, TypeOK
  <2>2. CASE next' = next
    BY <2>1, <2>2
  <2>3. CASE next' = [next EXCEPT ![r] = @ + 1]
    BY <2>1, <2>3
  <2>4. QED
    BY <1>2, <2>2, <2>3
<1>4. ReadTypes'
  BY <1>2 DEF ReadTypes
<1>5. \A q \in Readers : \A b \in Segment(size, q) : b \in Brs /\ b \in Nat
  BY SegmentInBrs, SizesAssumption DEF ReadersInv, TypeOK, Readers, Brs
<1>6. NoTarball'
  <2> SUFFICES ASSUME NEW q \in Readers, NEW b \in Segment(size, q), b >= next'[q]
               PROVE  parts'[b].tarball = NoFile
    BY <1>2 DEF NoTarball
  <2>1. b \in Brs /\ b \in Nat /\ b >= next[q]
    BY <1>3, <1>5
  <2>2. parts[b].tarball = NoFile
    BY <2>1 DEF ReadInv, NoTarball
  <2>3. CASE b # next[r]
    BY <2>1, <2>2, <2>3
  <2>4. CASE b = next[r]
    <3>1. q = r
      BY <1>1, <2>4
    <3>2. next' = next
      BY <1>1, <1>3, <2>1, <2>4, <3>1
    <3>3. QED
      BY <2>4, <3>2
  <2>5. QED
    BY <2>3, <2>4
<1>7. Hands'
  <2> SUFFICES ASSUME NEW q \in Readers, Reading(q)' PROVE Hand(q)'
    BY <1>2 DEF Hands
  <2>1. CASE q # r
    <3>1. Reading(q) /\ next'[q] = next[q]
      BY <1>2, <1>3, <2>1 DEF Reading
    <3>2. Hand(q)
      BY <3>1 DEF ReadInv, Hands
    <3>3. next[q] \in Brs /\ next[q] # next[r]
      BY <1>1, <2>1, <3>1, OwnSegment DEF ReadersInv
    <3>4. parts'[next[q]] = parts[next[q]]
      BY <3>3
    <3>5. \A b, k : Matching(b, k)' = Matching(b, k)
      BY DEF Matching
    <3>6. QED
      BY <1>2, <2>1, <3>1, <3>2, <3>4, <3>5 DEF Hand, Exists
  <2>2. CASE q = r
    BY <2>2 DEF Hand
  <2>3. QED
    BY <2>1, <2>2
<1>8. ASSUME NEW b \in hit' PROVE Right(b)'
  <2>1. CASE b = next[r]
    BY <1>8, <2>1
  <2>2. CASE b # next[r]
    <3>1. Right(b) /\ b \in Brs
      BY <1>2, <2>2 DEF ReadInv, ReadersInv, TypeOK
    <3>2. parts'[b] = parts[b]
      BY <2>2, <3>1
    <3>3. ASSUME NEW f \in Files, parts[b][f] # NoFile PROVE Matching(b, Key(parts[b][f]))'
      <4>1. Matching(b, Key(parts[b][f]))
        BY <3>1, <3>3 DEF Right
      <4>2. QED
        BY <3>2, <4>1 DEF Matching, Key
    <3>4. QED
      BY <3>1, <3>2, <3>3 DEF Right
  <2>3. QED
    BY <2>1, <2>2
<1>9. QED
  BY <1>4, <1>6, <1>7, <1>8 DEF ReadInv

\* A directory that GetCacheDirForRead may return satisfies the conditions.
LEMMA CandidateMatches ==
  ASSUME StoreInv, NEW b, NEW k \in CandidateDirs(b), "false" \notin setting.conds
  PROVE  Matching(b, k) /\ k \in DOMAIN dirs
PROOF
<1>1. PICK home : k \in Glob(ReadPattern(Mine(b), setting.conds, home))
  BY DEF CandidateDirs
<1> DEFINE pattern == ReadPattern(Mine(b), setting.conds, home)
<1>2. /\ k \in DOMAIN dirs /\ k.case = pattern.case
      /\ pattern["sum"] \in {Any, k["sum"]} /\ pattern["specs"] \in {Any, k["specs"]}
      /\ pattern["id"] \in {Any, k["id"]}
  BY <1>1 DEF Glob
<1>3. "checksums" \in setting.conds /\ setting.type \in {"local", "trybot", "official"}
  BY SettingsAssumption DEF StoreInv, StoreTypes, ImageTypes
<1>4. /\ setting.type = "local" => Checksum(Mine(b)) = "s1"
      /\ setting.type = "trybot" => Checksum(Mine(b)) = "p1"
  BY DEF Checksum, Mine
<1>5. /\ pattern.case = b /\ pattern["sum"] = Checksum(Mine(b))
      /\ "machines" \in setting.conds => pattern["specs"] = "x1"
      /\ "same_machine" \in setting.conds => pattern["id"] = "m1"
  BY <1>3 DEF ReadPattern, Mine
<1> HIDE DEF pattern
<1>6. k["sum"] = k.sum /\ k["specs"] = k.specs /\ k["id"] = k.id
  OBVIOUS
<1>7. QED
  BY <1>2, <1>4, <1>5, <1>6 DEF Matching, Any

\* What Load and Untar put into the result.
LEMMA TakeFacts ==
  ASSUME ReadInv, NEW r \in Readers, NEW b \in Brs, b = next[r], NEW f \in Files, Take(r, f),
         NEW v \in Others \cup {NoFile}, v = dirs[found[r]][f]
  PROVE  /\ parts' \in [Brs -> [results : Others \cup {NoFile}, tarball : Others \cup {NoFile}, calm : BOOLEAN]]
         /\ \A c \in Brs : c # b => parts'[c] = parts[c]
         /\ parts'[b][f] = v /\ \A g \in Files : g # f => parts'[b][g] = parts[b][g]
         /\ parts'[b].calm <=> r \notin disturbed
PROOF
<1> DEFINE calm == r \notin disturbed
           e1 == [parts[b] EXCEPT ![f] = v]
           e == [e1 EXCEPT !.calm = calm]
           Part == [results : Others \cup {NoFile}, tarball : Others \cup {NoFile}, calm : BOOLEAN]
<1>1. parts \in [Brs -> Part]
  BY DEF ReadInv, ReadTypes
<1>2. parts' = [parts EXCEPT ![b] = e]
  BY DEF Take
<1>3. e1 \in Part /\ e1[f] = v /\ \A g \in Files : g # f => e1[g] = parts[b][g]
  <2>1. CASE f = "results"
    BY <1>1, <2>1, WriterFacts
  <2>2. CASE f = "tarball"
    BY <1>1, <2>2, WriterFacts
  <2>3. QED
    BY <2>1, <2>2, WriterFacts
<1> HIDE DEF e1
<1>4. calm \in BOOLEAN
  OBVIOUS
<1> HIDE DEF calm
<1>5. e \in Part /\ e.calm = calm /\ \A g \in Files : e[g] = e1[g]
  <2>1. e \in Part /\ e.calm = calm
    BY <1>3, <1>4
  <2>2. e["results"] = e1["results"] /\ e["tarball"] = e1["tarball"]
    BY <1>3
  <2>3. QED
    BY <2>1, <2>2, WriterFacts
<1> HIDE DEF e
<1>6. parts' \in [Brs -> Part] /\ parts'[b] = e /\ \A c \in Brs : c # b => parts'[c] = parts[c]
  BY <1>1, <1>2, <1>5
<1>7. QED
  BY <1>3, <1>5, <1>6 DEF calm

\* The readers only meet results of others.
LEMMA DirHas ==
  ASSUME StoreInv, main = "reading", NEW k \in DOMAIN dirs, NEW f \in Files
  PROVE  dirs[k][f] \in Others \cup {NoFile} /\ (dirs[k][f] # NoFile => Key(dirs[k][f]) = k)
PROOF
<1>1. dirs[k][f] \in Writers \cup {NoFile}
  BY DEF StoreInv, StoreTypes
<1>2. CASE dirs[k][f] \in Writers
  <2>1. PICK w \in Writers : w = dirs[k][f]
    BY <1>2
  <2>2. Key(w) = k /\ (w \in Brs => main = "joined")
    BY <2>1 DEF StoreInv, InPlace
  <2>3. w \in Others
    BY <2>2, WriterFacts
  <2>4. QED
    BY <2>1, <2>2, <2>3
<1>3. QED
  BY <1>1, <1>2

\* Before br next[r] is read it has neither a hit nor a tarball.
LEMMA Before ==
  ASSUME ReadersInv, ReadInv, NEW r \in Readers, Reading(r)
  PROVE  next[r] \in Brs /\ next[r] \notin hit /\ parts[next[r]].tarball = NoFile /\ Hand(r)
PROOF
<1>1. next[r] \in Brs /\ next[r] \in Segment(size, r) /\ next[r] \in Nat /\ next[r] >= next[r]
  BY OwnSegment DEF ReadersInv, TypeOK
<1>2. QED
  BY <1>1 DEF ReadersInv, Unread, ReadInv, NoTarball, Hands

\* A reader leaves its br without a hit.
LEMMA ReadsNothing ==
  ASSUME ReadersInv, StoreInv, ReadInv, Clearing', NEW r \in Readers, Reading(r), Read(r), hit' = hit,
         UNCHANGED <<setting, run, overlapped, dirs, found, parts, disturbed>>,
         step' = [step EXCEPT ![r] = "glob"]
  PROVE  ReadInv'
PROOF
<1> PICK c : c = next[r]
  OBVIOUS
<1>1. c \notin hit /\ parts[c].tarball = NoFile
  BY Before
<1>2. /\ step' \in [Readers -> {"glob", "load", "untar"}] /\ step'[r] = "glob"
      /\ \A q \in Readers \ {r} : step'[q] = step[q]
      /\ found' = [q \in Readers |-> found'[q]]
      /\ parts' \in [Brs -> [results : Others \cup {NoFile}, tarball : Others \cup {NoFile}, calm : BOOLEAN]]
  BY DEF ReadInv, ReadTypes
<1>3. QED
  BY <1>1, <1>2, ReaderStep

LEMMA MissRead ==
  ASSUME ReadersInv, StoreInv, ReadInv, Clearing', NEW r \in Readers,
         \/ SharedMissing(r) \/ KeyFails(r) \/ KeyDies(r) \/ FindNone(r)
         \/ Vanished(r) \/ LoadDies(r) \/ UntarFails(r)
  PROVE  ReadInv'
PROOF
<1>1. /\ Reading(r) /\ Read(r) /\ hit' = hit
      /\ UNCHANGED <<setting, run, overlapped, dirs, found, parts, disturbed>>
      /\ step' = [step EXCEPT ![r] = "glob"] \/ (step' = step /\ step[r] = "glob")
  <2>1. /\ Reading(r) /\ UNCHANGED <<setting, store_vars, dir_vars, found, parts>>
        /\ ReadMiss(r) \/ ReadFatal(r) \/ ReadError(r)
        /\ step' = [step EXCEPT ![r] = "glob"] \/ (step' = step /\ step[r] = "glob")
    BY DEF SharedMissing, KeyFails, KeyDies, FindNone, Vanished, LoadDies, UntarFails, At, Searching, to,
           cache_vars, read_vars
  <2>2. Read(r) /\ hit' = hit
    BY <2>1 DEF Read, ReadMiss, ReadFatal, ReadError
  <2>3. QED
    BY <2>1, <2>2 DEF store_vars, dir_vars
<1>2. step' = [step EXCEPT ![r] = "glob"]
  <2>1. step \in [Readers -> {"glob", "load", "untar"}]
    BY DEF ReadInv, ReadTypes
  <2>2. QED
    BY <1>1, <2>1
<1>3. QED
  BY <1>1, <1>2, ReadsNothing

LEMMA EndClearRead ==
  ASSUME ReadersInv, StoreInv, ReadInv, Clearing', NEW r \in Readers, EndClear(r)
  PROVE  ReadInv'
PROOF
<1>1. /\ Reading(r) /\ ReadMiss(r) /\ spc[next[r]] = "removed" /\ main = "reading"
      /\ UNCHANGED <<setting, run, overlapped, dirs, found, parts, disturbed, step>>
  BY DEF EndClear, Reading, read_vars, dir_vars
<1>2. Read(r) /\ hit' = hit
  BY <1>1 DEF Read, ReadMiss
<1>3. next[r] \in Brs /\ Hand(r)
  BY <1>1, Before
<1>4. "false" \in setting.conds
  BY <1>1, <1>3 DEF ReadInv, Clearing
<1>5. step[r] = "glob"
  BY <1>3, <1>4 DEF Hand, Matching
<1>6. step' = [step EXCEPT ![r] = "glob"]
  BY <1>1, <1>5 DEF ReadInv, ReadTypes
<1>7. QED
  BY <1>1, <1>2, <1>6, ReadsNothing

LEMMA FindRead ==
  ASSUME ReadersInv, StoreInv, ReadInv, Clearing', NEW r \in Readers, Find(r)
  PROVE  ReadInv'
PROOF
<1> PICK c : c = next[r]
  OBVIOUS
<1>1. /\ Reading(r) /\ "false" \notin setting.conds /\ step' = [step EXCEPT ![r] = "load"]
      /\ disturbed' = disturbed \ {r} /\ UNCHANGED <<vars, setting, parts, run, overlapped, dirs>>
  BY DEF Find, Searching, to, store_vars
<1>2. PICK k \in CandidateDirs(c) : found' = [found EXCEPT ![r] = k]
  BY DEF Find
<1>3. c \notin hit /\ parts[c].tarball = NoFile
  BY <1>1, Before
<1>4. /\ step' \in [Readers -> {"glob", "load", "untar"}] /\ step'[r] = "load"
      /\ \A q \in Readers \ {r} : step'[q] = step[q]
      /\ parts' \in [Brs -> [results : Others \cup {NoFile}, tarball : Others \cup {NoFile}, calm : BOOLEAN]]
  BY <1>1 DEF ReadInv, ReadTypes
<1>5. /\ found' = [q \in Readers |-> found'[q]] /\ found'[r] = k
      /\ \A q \in Readers \ {r} : found'[q] = found[q]
  BY <1>2 DEF ReadInv, ReadTypes
<1>6. Matching(c, k) /\ k \in DOMAIN dirs
  BY <1>1, CandidateMatches
<1>7. next' = next /\ hit' = hit
  BY <1>1 DEF vars
<1>8. Hand(r)'
  <2>1. Matching(c, k)' /\ next'[r] = c /\ Exists(k)'
    BY <1>1, <1>6, <1>7 DEF Matching, Exists
  <2>2. QED
    BY <1>4, <1>5, <2>1 DEF Hand
<1>9. \A q \in Readers \ {r} : q \in disturbed' <=> q \in disturbed
  BY <1>1
<1>10. QED
  BY <1>1, <1>3, <1>4, <1>5, <1>7, <1>8, <1>9, ReaderStep

\* What makes br c's result right when it is accepted.
LEMMA AcceptedRight ==
  ASSUME NEW c, NEW k, NEW v \in Others, NEW t \in Others \cup {NoFile},
         UNCHANGED <<setting, run, overlapped>>, Matching(c, k), Key(v) = k,
         parts'[c]["results"] = v, parts'[c]["tarball"] = t,
         setting.telemetry <=> t = NoFile, t # NoFile => Key(t) = k,
         "succeeded" \in setting.conds => run[v].retval = 0,
         parts'[c].calm /\ t \notin {NoFile, v} => {v, t} \cap overlapped # {}
  PROVE  Right(c)'
PROOF
<1>1. parts'[c].results = v /\ parts'[c].tarball = t /\ v # NoFile
  BY WriterFacts DEF Writers
<1>2. ASSUME NEW f \in Files, parts'[c][f] # NoFile PROVE Matching(c, Key(parts[c][f]))'
  <2>1. Key(parts[c][f])' = k
    <3>1. f = "results" \/ f = "tarball"
      BY DEF Files
    <3>2. WriteKey(run[parts'[c][f]]) = k
      BY <1>2, <3>1 DEF Key
    <3>3. QED
      BY <3>2 DEF Key
  <2>2. QED
    BY <2>1 DEF Matching
<1>3. QED
  BY <1>1, <1>2 DEF Right

LEMMA AcceptReads ==
  ASSUME NEW r \in Readers, NEW v, Accept(r, v)
  PROVE  Read(r) /\ (hit' = hit \/ ("succeeded" \in setting.conds => run[v].retval = 0))
BY DEF Accept, Read, ReadMiss

LEMMA LoadRead ==
  ASSUME ReadersInv, StoreInv, ReadInv, Clearing', NEW r \in Readers, Load(r)
  PROVE  ReadInv'
PROOF
<1> PICK c, k, v : c = next[r] /\ k = found[r] /\ v = dirs[k]["results"]
  OBVIOUS
<1>1. /\ Reading(r) /\ main = "reading" /\ step[r] = "load" /\ k \in DOMAIN dirs /\ v # NoFile
      /\ Take(r, "results") /\ UNCHANGED <<setting, found, run, overlapped, dirs, disturbed>>
      /\ IF setting.telemetry THEN Accept(r, v) /\ step' = [step EXCEPT ![r] = "glob"]
                              ELSE UNCHANGED vars /\ step' = [step EXCEPT ![r] = "untar"]
  BY DEF Load, At, Readable, Exists, to, Reading, store_vars, dir_vars
<1>2. c \in Brs /\ c \notin hit /\ parts[c].tarball = NoFile /\ Matching(c, k)
  BY <1>1, Before DEF Hand
<1>3. "results" \in Files /\ "tarball" \in Files
  BY DEF Files
<1>4. v \in Others /\ Key(v) = k
  BY <1>1, <1>3, DirHas
<1>5. /\ parts' \in [Brs -> [results : Others \cup {NoFile}, tarball : Others \cup {NoFile}, calm : BOOLEAN]]
      /\ \A b \in Brs : b # c => parts'[b] = parts[b]
      /\ parts'[c]["results"] = v /\ parts'[c]["tarball"] = NoFile
  <2>1. v \in Others \cup {NoFile}
    BY <1>4
  <2>2. parts'[c]["results"] = v /\ parts'[c]["tarball"] = parts[c]["tarball"]
    BY <1>1, <1>2, <1>3, <2>1, TakeFacts
  <2>3. parts[c]["tarball"] = NoFile
    BY <1>2
  <2>4. QED
    BY <1>1, <1>2, <1>3, <2>1, <2>2, <2>3, TakeFacts
<1>6. /\ step' \in [Readers -> {"glob", "load", "untar"}]
      /\ step'[r] = IF setting.telemetry THEN "glob" ELSE "untar"
      /\ \A q \in Readers \ {r} : step'[q] = step[q]
      /\ found' = [q \in Readers |-> found'[q]]
  BY <1>1 DEF ReadInv, ReadTypes
<1>7. parts'[c].tarball = NoFile /\ parts'[c].results = v
  BY <1>5
<1>8. CASE setting.telemetry
  <2>1. Read(r) /\ (hit' = hit \/ ("succeeded" \in setting.conds => run[v].retval = 0))
    BY <1>1, <1>8, AcceptReads
  <2>2. c \in hit' => Right(c)'
    BY <1>1, <1>2, <1>4, <1>5, <1>8, <2>1, AcceptedRight
  <2>3. QED
    BY <1>1, <1>5, <1>6, <1>7, <1>8, <2>1, <2>2, ReaderStep
<1>9. CASE ~setting.telemetry
  <2>1. next' = next /\ hit' = hit
    BY <1>1, <1>9 DEF vars
  <2>2. Hand(r)'
    <3>1. /\ next'[r] = c /\ found'[r] = k /\ parts'[c].results = v
          /\ Matching(c, k)' /\ Exists(k)' /\ Key(v)' = k /\ dirs'[k]["results"] = v
      BY <1>1, <1>2, <1>4, <1>7, <2>1 DEF Matching, Exists, Key
    <3>2. QED
      BY <1>1, <1>4, <1>9, <3>1 DEF Hand
  <2>3. QED
    BY <1>1, <1>2, <1>5, <1>6, <1>7, <1>9, <2>1, <2>2, ReaderStep
<1>10. QED
  BY <1>8, <1>9

LEMMA UntarRead ==
  ASSUME ReadersInv, StoreInv, ReadInv, Clearing', NEW r \in Readers, Untar(r)
  PROVE  ReadInv'
PROOF
<1> PICK c, k, v, t : c = next[r] /\ k = found[r] /\ v = parts[c]["results"] /\ t = dirs[k]["tarball"]
  OBVIOUS
<1>1. /\ Reading(r) /\ main = "reading" /\ step[r] = "untar" /\ k \in DOMAIN dirs /\ t # NoFile
      /\ Take(r, "tarball") /\ UNCHANGED <<setting, found, run, overlapped, dirs, disturbed>>
      /\ Accept(r, v) /\ step' = [step EXCEPT ![r] = "glob"]
  BY DEF Untar, At, Readable, Exists, to, Reading, store_vars, dir_vars
<1>2. /\ c \in Brs /\ c \notin hit /\ Matching(c, k)
      /\ v \in Others /\ Key(v) = k /\ ~setting.telemetry
      /\ r \notin disturbed => dirs[k]["results"] = v
  BY <1>1, Before DEF Hand
<1>3. "results" \in Files /\ "tarball" \in Files
  BY DEF Files
<1>4. t \in Others /\ Key(t) = k
  BY <1>1, <1>3, DirHas
<1>5. /\ parts' \in [Brs -> [results : Others \cup {NoFile}, tarball : Others \cup {NoFile}, calm : BOOLEAN]]
      /\ \A b \in Brs : b # c => parts'[b] = parts[b]
      /\ parts'[c]["results"] = v /\ parts'[c]["tarball"] = t
      /\ parts'[c].calm <=> r \notin disturbed
  <2>1. t \in Others \cup {NoFile}
    BY <1>4
  <2>2. QED
    BY <1>1, <1>2, <1>3, <2>1, TakeFacts
<1>6. /\ step' \in [Readers -> {"glob", "load", "untar"}] /\ step'[r] = "glob"
      /\ \A q \in Readers \ {r} : step'[q] = step[q]
      /\ found' = [q \in Readers |-> found'[q]]
  BY <1>1 DEF ReadInv, ReadTypes
<1>7. Read(r) /\ (hit' = hit \/ ("succeeded" \in setting.conds => run[v].retval = 0))
  BY <1>1, AcceptReads
<1>8. parts'[c].calm /\ t \notin {NoFile, v} => {v, t} \cap overlapped # {}
  <2> SUFFICES ASSUME r \notin disturbed, t # v PROVE v \in overlapped \/ t \in overlapped
    BY <1>5
  <2>1. dirs[k]["results"] = v /\ v # NoFile
    BY <1>2, WriterFacts DEF Writers
  <2>2. QED
    BY <1>1, <2>1 DEF StoreInv, Mixed
<1>9. c \in hit' => Right(c)'
  BY <1>1, <1>2, <1>4, <1>5, <1>7, <1>8, AcceptedRight
<1>10. next' # next
  <2>1. next' = [next EXCEPT ![r] = @ + 1]
    BY <1>1 DEF Accept, ReadHit, ReadMiss, advance
  <2>2. QED
    BY <2>1 DEF ReadersInv, TypeOK
<1>11. QED
  BY <1>1, <1>5, <1>6, <1>7, <1>9, <1>10, ReaderStep

LEMMA StoreStepRead ==
  ASSUME ReadersInv, StoreInv, ReadInv, Clearing', NEW w \in Writers, StoreStep(w)
  PROVE  ReadInv'
PROOF
<1> PICK k : k = Key(w)
  OBVIOUS
<1>1. UNCHANGED <<vars, setting, read_vars>>
  BY DEF StoreStep, BeginStore, RmDir, RmFails, MoveOnto, CutShort, Unlink, Copy
<1>2. CASE BeginStore(w)
  <2>1. overlapped \subseteq overlapped' /\ disturbed' = disturbed /\ dirs' = dirs
    BY <1>2 DEF BeginStore, BeginRemove, dir_vars
  <2>2. \A v \in Others : run'[v] = run[v]
    <3>1. run' = run \/ w \in Brs
      BY <1>2 DEF BeginStore, ReadersInv, TypeOK
    <3>2. w \in Brs => \A v \in Writers : v # w => run'[v] = run[v]
      BY <1>2 DEF BeginStore, StoreInv, StoreTypes
    <3>3. QED
      BY <3>1, <3>2, WriterFacts DEF Writers
  <2>3. QED
    BY <1>1, <2>1, <2>2, StoreKeepsRead
<1>3. CASE ~BeginStore(w)
  <2>1. run' = run /\ overlapped' = overlapped
    <3>1. CASE RmFails(w)
      BY <3>1 DEF RmFails
    <3>2. CASE ~RmFails(w)
      BY <1>3, <3>2 DEF StoreStep, RmDir, MoveOnto, CutShort, Unlink, Copy
    <3>3. QED
      BY <3>1, <3>2
  <2>2. /\ dirs' = dirs /\ disturbed' = disturbed
        \/ /\ disturbed' = disturbed \cup {r \in Readers : step[r] # "glob" /\ found[r] = k}
           /\ \A x \in DOMAIN dirs : x # k => x \in DOMAIN dirs' /\ dirs'[x] = dirs[x]
    <3>1. CASE CutShort(w) \/ RmFails(w)
      BY <3>1 DEF CutShort, RmFails, dir_vars
    <3>2. CASE RmDir(w)
      <4>1. CASE Exists(k) /\ Present(k) = {}
        BY <3>2, <4>1 DEF RmDir, Remove, Disturb
      <4>2. CASE ~(Exists(k) /\ Present(k) = {})
        BY <3>2, <4>2 DEF RmDir, dir_vars
      <4>3. QED
        BY <4>1, <4>2
    <3>3. CASE MoveOnto(w)
      BY <3>3 DEF MoveOnto, Create, Disturb, Exists
    <3>4. CASE \E f \in Files : Unlink(w, f) \/ Copy(w, f)
      <4>1. PICK f \in Files : Unlink(w, f) \/ Copy(w, f)
        BY <3>4
      <4>2. CASE ~Exists(k)
        <5>1. dirs' = dirs
          BY <4>1, <4>2 DEF Unlink, Copy
        <5>2. disturbed' = disturbed \/ Disturb(k)
          BY <4>1 DEF Unlink, Copy
        <5>3. QED
          BY <5>1, <5>2 DEF Disturb
      <4>3. CASE Exists(k)
        <5>1. (SetFile(k, f, NoFile) \/ SetFile(k, f, w)) /\ Disturb(k)
          BY <4>1, <4>3 DEF Unlink, Copy
        <5>2. \A x \in DOMAIN dirs : x # k => x \in DOMAIN dirs' /\ dirs'[x] = dirs[x]
          <6>1. k \in DOMAIN dirs /\ w \in Writers \cup {NoFile} /\ NoFile \in Writers \cup {NoFile}
            BY <4>3 DEF Exists
          <6>2. QED
            BY <5>1, <6>1, SetFileStore
        <5>3. QED
          BY <5>1, <5>2 DEF Disturb
      <4>4. QED
        BY <4>2, <4>3
    <3>5. QED
      BY <1>3, <3>1, <3>2, <3>3, <3>4 DEF StoreStep
  <2>3. disturbed \subseteq disturbed'
    BY <2>2
  <2>4. \A x \in DOMAIN dirs : \/ \A r \in Readers : step[r] # "glob" /\ found[r] = x => r \in disturbed'
                               \/ x \in DOMAIN dirs' /\ dirs'[x] = dirs[x]
    BY <2>2
  <2>5. QED
    BY <1>1, <2>1, <2>3, <2>4, StoreKeepsRead
<1>4. QED
  BY <1>2, <1>3

LEMMA NextRead == ReadersInv /\ StoreInv /\ ReadInv /\ [CacheNext]_all_vars => ReadInv'
PROOF
<1> SUFFICES ASSUME ReadersInv, StoreInv, ReadInv, [CacheNext]_all_vars PROVE ReadInv'
  OBVIOUS
<1>1. Clearing'
  BY NextClearing DEF ReadInv
<1>2. CASE UNCHANGED all_vars
  <2>1. UNCHANGED <<vars, setting, read_vars>> /\ UNCHANGED <<overlapped, run, disturbed, dirs>>
    BY <1>2 DEF all_vars, cache_vars, store_vars, dir_vars
  <2>2. QED
    BY <1>1, <2>1, StoreKeepsRead
<1>3. CASE JoinReaders
  <2>1. /\ UNCHANGED <<size, next, hit, setting, run, overlapped, step, found, parts, Readers, Brs>> /\ main' = "joined"
        /\ \A v : Key(v)' = Key(v)
    BY <1>3 DEF JoinReaders, Join, cache_vars, read_vars, store_vars, Readers, Brs, Key
  <2>2. ReadTypes' /\ NoTarball'
    BY <2>1 DEF ReadInv, ReadTypes, NoTarball
  <2>3. Hands'
    BY <2>1 DEF Hands, Reading
  <2>4. ASSUME NEW b \in hit PROVE Right(b)'
    <3>1. Right(b)
      BY DEF ReadInv
    <3>2. \A x : Matching(b, x)' = Matching(b, x)
      BY <2>1 DEF Matching
    <3>3. QED
      BY <2>1, <3>1, <3>2 DEF Right, Matching, Key
  <2>5. QED
    BY <1>1, <2>1, <2>2, <2>3, <2>4 DEF ReadInv
<1>4. ASSUME NEW r \in Readers, ReadResult(r) PROVE ReadInv'
  <2>1. CASE BeginClear(r)
    <3>1. UNCHANGED <<vars, setting, read_vars>> /\ UNCHANGED <<run, dirs, disturbed>>
          /\ overlapped \subseteq overlapped'
      BY <2>1 DEF BeginClear, BeginRemove, dir_vars
    <3>2. QED
      BY <1>1, <3>1, StoreKeepsRead
  <2>2. QED
    BY <1>1, <1>4, <2>1, MissRead, EndClearRead, FindRead, LoadRead, UntarRead DEF ReadResult
<1>5. ASSUME NEW w \in Writers, StoreStep(w) PROVE ReadInv'
  BY <1>1, <1>5, StoreStepRead
<1>6. QED
  BY <1>2, <1>3, <1>4, <1>5 DEF CacheNext

LEMMA InitCache == CacheInit => CacheInv
PROOF BY InitReaders, InitStore, InitRead DEF CacheInv, CacheInit

LEMMA NextCache == CacheInv /\ [CacheNext]_all_vars => CacheInv'
PROOF BY CacheStepReads, NextReaders, NextStore, NextRead DEF CacheInv

-----------------------------------------------------------------------------
(* The theorems                                                            *)

LEMMA HitsAreRight == CacheInv => HitsRight
PROOF
<1> SUFFICES ASSUME CacheInv, NEW b \in hit
             PROVE  /\ \A w \in Sources(b) :
                         LET r == run[w] mine == Mine(b) IN
                         /\ r.case = b
                         /\ setting.type = "local" => r.type = "local" /\ r.sum = mine.sum
                         /\ setting.type = "trybot" => r.type = "trybot" /\ r.path = mine.path
                         /\ "machines" \in setting.conds => r.specs = mine.specs
                         /\ "same_machine" \in setting.conds => r.id = mine.id
                         /\ "succeeded" \in setting.conds /\ w = parts[b].results => r.retval = 0
                         /\ "false" \notin setting.conds
                    /\ parts[b].results # NoFile
                    /\ parts[b].tarball # NoFile \/ setting.telemetry
                    /\ Cardinality(Sources(b)) > 1 /\ parts[b].calm => Sources(b) \cap overlapped # {}
  BY DEF HitsRight, HitMatches, HitWhole
<1>1. Right(b) /\ b \in Brs
  BY DEF CacheInv, ReadInv, ReadersInv, TypeOK
<1>2. parts[b] \in [results : Others \cup {NoFile}, tarball : Others \cup {NoFile}, calm : BOOLEAN]
  BY <1>1 DEF CacheInv, ReadInv, ReadTypes
<1> PICK v, t : v = parts[b].results /\ t = parts[b].tarball
  OBVIOUS
<1>3. Sources(b) = {v, t} \ {NoFile}
  <2>1. parts[b]["results"] = v /\ parts[b]["tarball"] = t
    OBVIOUS
  <2>2. QED
    BY <2>1 DEF Sources, Files
<1>4. v # NoFile /\ (setting.telemetry <=> t = NoFile)
  BY <1>1 DEF Right
<1>5. ASSUME NEW w \in Sources(b)
      PROVE  LET r == run[w] mine == Mine(b) IN
             /\ r.case = b
             /\ setting.type = "local" => r.type = "local" /\ r.sum = mine.sum
             /\ setting.type = "trybot" => r.type = "trybot" /\ r.path = mine.path
             /\ "machines" \in setting.conds => r.specs = mine.specs
             /\ "same_machine" \in setting.conds => r.id = mine.id
             /\ "succeeded" \in setting.conds /\ w = parts[b].results => r.retval = 0
             /\ "false" \notin setting.conds
  <2> PICK r : r = run[w]
    OBVIOUS
  <2>1. w \in Others /\ Matching(b, WriteKey(r))
    <3>1. PICK f \in Files : w = parts[b][f] /\ w # NoFile
      BY <1>5 DEF Sources
    <3>2. w \in Others
      BY <1>2, <1>3, <1>5
    <3>3. QED
      BY <1>1, <3>1, <3>2 DEF Right, Key
  <2>2. r \in OtherRuns
    BY <2>1 DEF CacheInv, StoreInv, StoreTypes
  <2>3. r.type \in {"local", "trybot", "official"} /\ r.sum \notin {"*", "p1"} /\ r.path \notin {"*", "s1"}
    BY <2>2, RunsAssumption DEF ImageTypes, Any
  <2>4. /\ r.type = "local" => Checksum(r) = r.sum
        /\ r.type = "trybot" => Checksum(r) = r.path
        /\ r.type = "official" => Checksum(r) = "*"
    BY DEF Checksum, Any
  <2>5. /\ WriteKey(r).case = r.case /\ WriteKey(r).sum = Checksum(r)
        /\ WriteKey(r).specs = r.specs /\ WriteKey(r).id = r.id
    BY DEF WriteKey
  <2>6. Mine(b).sum = "s1" /\ Mine(b).path = "p1" /\ Mine(b).specs = "x1" /\ Mine(b).id = "m1"
    BY DEF Mine
  <2>7. "succeeded" \in setting.conds /\ w = parts[b].results => r.retval = 0
    BY <1>1 DEF Right
  <2>8. QED
    BY <2>1, <2>3, <2>4, <2>5, <2>6, <2>7 DEF Matching
<1>6. Cardinality(Sources(b)) > 1 /\ parts[b].calm => Sources(b) \cap overlapped # {}
  <2> SUFFICES ASSUME Cardinality(Sources(b)) > 1, parts[b].calm PROVE Sources(b) \cap overlapped # {}
    OBVIOUS
  <2>1. t \notin {NoFile, v}
    <3> SUFFICES ASSUME t \in {NoFile, v} PROVE FALSE
      OBVIOUS
    <3>1. Sources(b) = {v}
      BY <1>3, <1>4
    <3>2. Cardinality({v}) = 1
      BY FS_Singleton
    <3>3. QED
      BY <3>1, <3>2
  <2>2. {v, t} \cap overlapped # {}
    BY <1>1, <2>1 DEF Right
  <2>3. QED
    BY <1>3, <1>4, <2>1, <2>2
<1>7. QED
  BY <1>4, <1>5, <1>6

\* For any number of benchmark runs and of stores by others, at any time and cut
\* short anywhere: what ReadResult accepts is a run of the same test that meets
\* the conditions, it is complete, and it is made of two runs only if a store was
\* at work in the directory during the read or two stores were at a time.
THEOREM CacheHitsRight == CacheSpec => []HitsRight
PROOF
<1>1. CacheSpec => CacheInit /\ [][CacheNext]_all_vars
  BY PTL DEF CacheSpec
<1>2. QED
  BY <1>1, InitCache, NextCache, HitsAreRight, PTL

LEMMA StoresAreKept == CacheInv => StoredKept
PROOF
<1> SUFFICES ASSUME CacheInv, NEW w \in Writers, spc[w] = "done", w \notin overlapped, w \notin superseded
             PROVE  /\ Exists(Key(w))
                    /\ IF w \in unremoved
                       THEN \A f \in Files : dirs[Key(w)][f] # w
                       ELSE /\ dirs[Key(w)]["results"] = w
                            /\ dirs[Key(w)]["tarball"] = IF setting.telemetry THEN NoFile ELSE w
  BY DEF StoredKept
<1>1. /\ Exists(Key(w))
      /\ \A f \in Files :
           IF w \in unremoved THEN dirs[Key(w)][f] # w
           ELSE dirs[Key(w)][f] = IF f \in Wanted THEN w ELSE NoFile
  BY DEF CacheInv, StoreInv, Stages, Stage
<1>2. QED
  BY <1>1 DEF Wanted, Files

\* For any number of benchmark runs and of stores by others: a store that
\* succeeded without another one at work in its directory, or after it, stays
\* complete in the cache; if the rm of its old directory gave up, nothing of it
\* is there.
THEOREM CacheStoresKept == CacheSpec => []StoredKept
PROOF
<1>1. CacheSpec => CacheInit /\ [][CacheNext]_all_vars
  BY PTL DEF CacheSpec
<1>2. QED
  BY <1>1, InitCache, NextCache, StoresAreKept, PTL

-----------------------------------------------------------------------------
(* How a br ends.  The invariant says what either thread can be about to   *)
(* record (Recording), what Terminate() has recorded (TermMarked), and     *)
(* what the timeline looks like that Terminate() has not touched           *)
(* (Undisturbed).                                                          *)

Outcomes == {"SUCCEEDED", "FAILED"}

\* What run() is about to append at each place.
Recording ==
  \/ recording["run"] = Nothing
  \/ recording["run"] = "WAITING" /\ pc = "acquire"
  \/ recording["run"] = "IMAGING" /\ pc = "image"
  \/ recording["run"] = "RUNNING" /\ pc = "pin"
  \/ recording["run"] \in Outcomes /\ pc = "finally"

\* From its second step on Terminate() has set the flag; when it is over the
\* br is marked, by it or before it came to its test.
TermMarked ==
  /\ recording["term"] = Nothing \/ (recording["term"] = "FAILED" /\ tpc = "done")
  /\ terminated <=> tpc \notin {"idle", "flag"}
  /\ tpc = "done" => recording["term"] = "FAILED" \/ Recorded("FAILED")
  /\ tpc = "raised" => Recorded("FAILED")

NoOutcome == \A i \in 1..Len(events) : events[i] \notin Outcomes

\* The one outcome of a br, about to be recorded or recorded last.
Outcome ==
  \/ /\ recording["run"] \in Outcomes
     /\ NoOutcome
     /\ recording["run"] = "SUCCEEDED" => retval = 0
  \/ /\ recording["run"] = Nothing
     /\ LastEvent \in Outcomes
     /\ \A i \in 1..(Len(events) - 1) : events[i] \notin Outcomes
     /\ LastEvent = "SUCCEEDED" => retval = 0

Ending == {"finally", "ended", "cleared"}

Undisturbed ==
  tpc = "idle" =>
    /\ pc \notin Ending => NoOutcome /\ exc = IF pc = "except" THEN "Exception" ELSE "none"
    /\ pc \in Ending /\ exc # "SystemExit" => exc = "none" /\ Outcome

\* Of the tests begun after Terminate() there is none, or at most one for each
\* attempt so far.
BeforeTest == {"read", "branch", "acquire", "imaging", "image", "running", "pin", "test"}
LateTests ==
  /\ telemetry \/ late = 0
  /\ late <= attempt + 1
  /\ pc \in BeforeTest => late <= attempt

RunInv == RunTypeOK /\ Recording /\ TermMarked /\ Undisturbed /\ MachineReleased /\ LateTests

-----------------------------------------------------------------------------

LEMMA InitRun == RunInit => RunInv
PROOF
<1> SUFFICES ASSUME RunInit PROVE RunInv
  OBVIOUS
<1>1. events \in Seq(Events) /\ events # <<>> /\ Len(events) = 1 /\ events[1] = "PENDING"
  BY DEF RunInit, Events
<1>2. NoOutcome
  BY <1>1 DEF NoOutcome, Outcomes
<1>3. RunTypeOK
  <2>1. scheduled \in BOOLEAN /\ cache_only \in BOOLEAN /\ telemetry \in BOOLEAN /\ cache \in {"unread", "hit", "miss"}
    BY Zenon DEF RunInit
  <2>2. recording \in [Threads -> Events \cup {Nothing}]
    BY DEF RunInit
  <2>3. retval \in {0, 1, NoResult} /\ attempt \in 0..Retries
    BY RetriesAssumption DEF RunInit, NoResult
  <2>4. exc \in Exceptions /\ pc \in RunPc /\ tpc \in TermPc
    BY DEF RunInit, Exceptions, RunPc, TermPc
  <2>5. terminated \in BOOLEAN /\ ct_terminated \in BOOLEAN /\ machine \in BOOLEAN
    BY DEF RunInit
  <2>6. output \in BOOLEAN /\ finally_raised \in BOOLEAN /\ late \in Nat
    BY DEF RunInit
  <2>7. QED
    BY <1>1, <2>1, <2>2, <2>3, <2>4, <2>5, <2>6 DEF RunTypeOK
<1>4. Recording /\ TermMarked /\ MachineReleased
  BY DEF RunInit, Recording, TermMarked, MachineReleased, Threads
<1>5. Undisturbed
  BY <1>2 DEF RunInit, Undisturbed, Ending
<1>6. LateTests
  BY DEF RunInit, LateTests
<1>7. QED
  BY <1>3, <1>4, <1>5, <1>6 DEF RunInv

\* The steps of run() that append nothing, and those of Terminate().
RunSilent ==
  \/ ReadCache \/ Branch \/ AcquireMachine \/ RecordImaging \/ ImageMachine
  \/ RecordRunning \/ PrepareDut \/ StartTest \/ EndTest \/ CollectResult \/ StoreResult
  \/ CheckTerminated \/ RecordOutcome \/ RecordFailed \/ Except \/ Finally \/ ClearActive

TermSilent ==
  \/ CallTerminate \/ SetTerminated \/ TerminateCommand \/ CheckLastEvent \/ RecordTerminated

LEMMA NextCases ==
  RunNext <=> RunSilent \/ TermSilent \/ AppendEvent("run") \/ AppendEvent("term")
BY Zenon DEF RunNext, RunStep, TerminateStep, RunSilent, TermSilent

\* What an appended event changes.
LEMMA AppendFacts ==
  ASSUME RunTypeOK, NEW t \in Threads, AppendEvent(t)
  PROVE  /\ events' \in Seq(Events) /\ events' # <<>>
         /\ Len(events) \in Nat \ {0}
         /\ Len(events') = Len(events) + 1
         /\ \A i \in 1..Len(events) : events'[i] = events[i]
         /\ LastEvent' = recording[t]
         /\ \A e \in Events : Recorded(e)' <=> Recorded(e) \/ e = recording[t]
PROOF
<1>1. recording[t] \in Events /\ events \in Seq(Events)
  BY DEF RunTypeOK, AppendEvent
<1>2. events' = Append(events, recording[t])
  BY DEF AppendEvent
<1>3. /\ events' \in Seq(Events) /\ events' # <<>>
      /\ Len(events') = Len(events) + 1
      /\ \A i \in 1..Len(events) : events'[i] = events[i]
      /\ events'[Len(events) + 1] = recording[t]
  BY <1>1, <1>2, AppendProperties
<1>4. Len(events) \in Nat \ {0}
  BY <1>1 DEF RunTypeOK
<1>5. LastEvent' = recording[t]
  BY <1>3 DEF LastEvent
<1>6. \A e \in Events : Recorded(e)' <=> Recorded(e) \/ e = recording[t]
  BY <1>3, <1>4 DEF Recorded
<1>7. QED
  BY <1>3, <1>4, <1>5, <1>6

LEMMA AppendInv ==
  ASSUME RunInv, NEW t \in Threads, AppendEvent(t)
  PROVE  RunInv'
PROOF
<1> USE DEF RunInv
<1>1. RunTypeOK'
  BY AppendFacts DEF AppendEvent, RunTypeOK, own_vars
<1>2. "FAILED" \in Events
  BY DEF Events
<1>3. recording'[t] = Nothing /\ \A u \in Threads \ {t} : recording'[u] = recording[u]
  BY DEF AppendEvent, RunTypeOK
<1>4. Recording' /\ MachineReleased' /\ LateTests'
  BY <1>3 DEF AppendEvent, Recording, MachineReleased, LateTests, Threads, own_vars
<1>5. TermMarked'
  <2>1. Recorded("FAILED")' <=> Recorded("FAILED") \/ recording[t] = "FAILED"
    BY <1>2, AppendFacts
  <2>2. QED
    BY <1>3, <2>1 DEF AppendEvent, TermMarked, Threads
<1>6. Undisturbed'
  <2> SUFFICES ASSUME tpc = "idle" PROVE Undisturbed'
    BY DEF Undisturbed, AppendEvent, own_vars
  <2>1. t = "run"
    BY DEF TermMarked, AppendEvent, Threads
  <2>2. CASE recording["run"] \in Outcomes
    <3>1. pc = "finally" /\ pc' = "finally" /\ exc' = exc /\ retval' = retval
      BY <2>2 DEF Recording, AppendEvent, Outcomes, Nothing, own_vars
    <3>2. exc # "SystemExit" => NoOutcome /\ (recording["run"] = "SUCCEEDED" => retval = 0) /\ exc = "none"
      BY <2>2, <3>1 DEF Undisturbed, Outcome, Ending, Outcomes, Nothing
    <3>3. exc # "SystemExit" => Outcome'
      BY <2>1, <2>2, <3>1, <3>2, <1>3, AppendFacts DEF Outcome, NoOutcome
    <3>4. QED
      BY <3>1, <3>2, <3>3 DEF Undisturbed, Ending
  <2>3. CASE recording["run"] \notin Outcomes
    <3>1. pc \in {"acquire", "image", "pin"} /\ pc' = pc /\ exc' = exc
      BY <2>1, <2>3, Zenon DEF Recording, AppendEvent, own_vars
    <3>2. NoOutcome'
      BY <2>1, <2>3, <3>1, AppendFacts DEF Undisturbed, Ending, NoOutcome, LastEvent
    <3>3. QED
      BY <3>1, <3>2 DEF Undisturbed, Ending
  <2>4. QED
    BY <2>2, <2>3
<1>7. QED
  BY <1>1, <1>4, <1>5, <1>6

\* The timeline as it is, seen from the next state.
LEMMA SameEvents ==
  ASSUME events' = events
  PROVE  /\ NoOutcome' <=> NoOutcome
         /\ LastEvent' = LastEvent
         /\ \A e : Recorded(e)' <=> Recorded(e)
BY DEF NoOutcome, LastEvent, Recorded

\* The step of run() from one place to the next.
LEMMA RunTypes ==
  ASSUME RunTypeOK, RunSilent
  PROVE  /\ RunTypeOK'
         /\ events' = events /\ tpc' = tpc /\ terminated' = terminated
         /\ recording'["term"] = recording["term"]
PROOF
<1> USE DEF RunTypeOK, RunAt, input, testVars, Threads, Events, Nothing, NoResult, Exceptions, RunPc
<1>1. CASE ReadCache
  BY <1>1, RetriesAssumption DEF ReadCache, Fails, Raise
<1>2. CASE Branch
  BY <1>2, RetriesAssumption DEF Branch, Creatable, RecordThen, AssertNew, Fails, Raise
<1>3. CASE AcquireMachine
  <2>1. UNCHANGED <<input, cache, recording, retval, testVars, finally_raised>>
    BY <1>3 DEF AcquireMachine
  <2>2. machine' \in BOOLEAN
    BY <1>3, Zenon DEF AcquireMachine
  <2>3. pc' \in RunPc /\ exc' \in Exceptions
    BY <1>3 DEF AcquireMachine, Fails, Raise
  <2>4. QED
    BY <2>1, <2>2, <2>3, RetriesAssumption
<1>4. CASE RecordImaging
  BY <1>4, RetriesAssumption DEF RecordImaging, RecordThen, AssertNew, Fails, Raise
<1>5. CASE ImageMachine
  BY <1>5, RetriesAssumption DEF ImageMachine, Fails, Raise
<1>6. CASE RecordRunning
  BY <1>6, RetriesAssumption DEF RecordRunning, RecordThen, AssertNew, Fails, Raise
<1>7. CASE PrepareDut
  BY <1>7, RetriesAssumption DEF PrepareDut, Fails, Raise
<1>8. CASE StartTest
  <2>1. UNCHANGED <<input, cache, recording, machine, exc, finally_raised>>
    BY <1>8 DEF StartTest
  <2>2. output' \in BOOLEAN
    BY <1>8, Zenon DEF StartTest
  <2>3. late' \in Nat
    BY <1>8 DEF StartTest
  <2>4. attempt' \in 0..Retries /\ retval' \in {0, 1, NoResult} /\ pc' \in RunPc
    BY <1>8, RetriesAssumption DEF StartTest, TestFailed
  <2>5. QED
    BY <2>1, <2>2, <2>3, <2>4
<1>9. CASE EndTest
  BY <1>9, RetriesAssumption DEF EndTest, TestFailed, Fails, Raise
<1>10. CASE StoreResult
  BY <1>10, RetriesAssumption DEF StoreResult, Fails, Raise
<1>11. CASE CheckTerminated
  BY <1>11, RetriesAssumption DEF CheckTerminated
<1>12. CASE RecordOutcome
  BY <1>12, RetriesAssumption DEF RecordOutcome, RecordThen, AssertNew, Fails, Raise
<1>13. CASE RecordFailed
  BY <1>13, RetriesAssumption DEF RecordFailed, RecordThen, AssertNew, Fails, Raise
<1>14. CASE Except
  BY <1>14, RetriesAssumption DEF Except, AssertNew
<1>15. CASE Finally
  <2>1. UNCHANGED <<input, cache, recording, retval, testVars, exc>> /\ pc' = "ended"
    BY <1>15 DEF Finally
  <2>2. machine' \in BOOLEAN /\ finally_raised' \in BOOLEAN
    BY <1>15, Zenon DEF Finally
  <2>3. QED
    BY <2>1, <2>2
<1>16. CASE ClearActive
  BY <1>16, RetriesAssumption DEF ClearActive
<1>17. CASE CollectResult
  BY <1>17, RetriesAssumption DEF CollectResult, Raise
<1>18. QED
  BY <1>1, <1>2, <1>3, <1>4, <1>5, <1>6, <1>7, <1>8, <1>9, <1>10, <1>11, <1>12, <1>13, <1>14, <1>15, <1>16, <1>17 DEF RunSilent

LEMMA RunRecording ==
  ASSUME RunInv, RunSilent
  PROVE  Recording' /\ MachineReleased'
PROOF
<1> USE DEF RunInv, RunTypeOK, Recording, MachineReleased, Outcomes, RunAt, input, testVars, Threads, Nothing
<1>1. CASE ReadCache
  BY <1>1 DEF ReadCache, Fails, Raise
<1>2. CASE Branch
  BY <1>2 DEF Branch, Creatable, RecordThen, AssertNew, Fails, Raise
<1>3. CASE AcquireMachine
  BY <1>3 DEF AcquireMachine, Fails, Raise
<1>4. CASE RecordImaging
  BY <1>4 DEF RecordImaging, RecordThen, AssertNew, Fails, Raise
<1>5. CASE ImageMachine
  BY <1>5 DEF ImageMachine, Fails, Raise
<1>6. CASE RecordRunning
  BY <1>6 DEF RecordRunning, RecordThen, AssertNew, Fails, Raise
<1>7. CASE PrepareDut
  BY <1>7 DEF PrepareDut, Fails, Raise
<1>8. CASE StartTest
  BY <1>8 DEF StartTest, Stopped, TestFailed
<1>9. CASE EndTest
  BY <1>9 DEF EndTest, TestFailed, Fails, Raise
<1>10. CASE StoreResult
  BY <1>10 DEF StoreResult, Fails, Raise
<1>11. CASE CheckTerminated
  BY <1>11 DEF CheckTerminated
<1>12. CASE RecordOutcome
  BY <1>12 DEF RecordOutcome, RecordThen, AssertNew, Fails, Raise
<1>13. CASE RecordFailed
  BY <1>13 DEF RecordFailed, RecordThen, AssertNew, Fails, Raise
<1>14. CASE Except
  BY <1>14 DEF Except, AssertNew
<1>15. CASE Finally
  BY <1>15 DEF Finally
<1>16. CASE ClearActive
  BY <1>16 DEF ClearActive
<1>17. CASE CollectResult
  BY <1>17 DEF CollectResult, Raise
<1>18. QED
  BY <1>1, <1>2, <1>3, <1>4, <1>5, <1>6, <1>7, <1>8, <1>9, <1>10, <1>11, <1>12, <1>13, <1>14, <1>15, <1>16, <1>17 DEF RunSilent

LEMMA RunLate ==
  ASSUME RunInv, RunSilent
  PROVE  LateTests'
PROOF
<1> USE RetriesAssumption DEF RunInv, RunTypeOK, LateTests, BeforeTest, RunAt, input, testVars
<1>1. CASE ReadCache
  BY <1>1 DEF ReadCache, Raise, Fails
<1>2. CASE Branch
  BY <1>2 DEF Branch, RecordThen, AssertNew, Raise
<1>3. CASE AcquireMachine
  BY <1>3 DEF AcquireMachine, Raise, Fails
<1>4. CASE RecordImaging
  BY <1>4 DEF RecordImaging, RecordThen, AssertNew, Raise
<1>5. CASE ImageMachine
  BY <1>5 DEF ImageMachine, Raise, Fails
<1>6. CASE RecordRunning
  BY <1>6 DEF RecordRunning, RecordThen, AssertNew, Raise
<1>7. CASE PrepareDut
  BY <1>7 DEF PrepareDut, Raise, Fails
<1>8. CASE StartTest
  BY <1>8 DEF StartTest, TestFailed, Stopped
<1>9. CASE EndTest
  BY <1>9 DEF EndTest, TestFailed, Raise
<1>10. CASE CollectResult
  BY <1>10 DEF CollectResult, Raise
<1>11. CASE StoreResult
  BY <1>11 DEF StoreResult, Raise, Fails
<1>12. CASE CheckTerminated
  BY <1>12 DEF CheckTerminated
<1>13. CASE RecordOutcome
  BY <1>13 DEF RecordOutcome, RecordThen, AssertNew, Raise
<1>14. CASE RecordFailed
  BY <1>14 DEF RecordFailed, RecordThen, AssertNew, Raise
<1>15. CASE Except
  BY <1>15 DEF Except
<1>16. CASE Finally
  BY <1>16 DEF Finally
<1>17. CASE ClearActive
  BY <1>17 DEF ClearActive
<1>18. QED
  BY <1>1, <1>2, <1>3, <1>4, <1>5, <1>6, <1>7, <1>8, <1>9, <1>10, <1>11, <1>12, <1>13, <1>14, <1>15, <1>16, <1>17 DEF RunSilent

LEMMA RunMarked ==
  ASSUME RunInv, RunSilent
  PROVE  TermMarked'
BY RunTypes, SameEvents DEF RunInv, TermMarked

\* Without an outcome on record the last event is none.
LEMMA LastNoOutcome ==
  ASSUME RunTypeOK, NoOutcome
  PROVE  /\ LastEvent \notin Outcomes
         /\ ~Recorded("FAILED") /\ ~Recorded("SUCCEEDED")
PROOF
<1>1. Len(events) \in Nat \ {0}
  BY DEF RunTypeOK
<1>2. QED
  BY <1>1 DEF NoOutcome, LastEvent, Recorded, Outcomes

LEMMA RunUndisturbed ==
  ASSUME RunInv, RunSilent
  PROVE  Undisturbed'
PROOF
<1> SUFFICES ASSUME tpc = "idle" PROVE Undisturbed'
  BY RunTypes DEF Undisturbed, RunInv
<1>1. ~terminated
  BY DEF RunInv, TermMarked
<1>2. /\ NoOutcome' <=> NoOutcome
      /\ LastEvent' = LastEvent
      /\ events' = events
  BY RunTypes, SameEvents DEF RunInv
<1>3. pc \notin Ending =>
        NoOutcome /\ LastEvent \notin Outcomes /\ ~Recorded("FAILED") /\ ~Recorded("SUCCEEDED")
  BY LastNoOutcome DEF RunInv, Undisturbed
<1> USE <1>1, <1>2, <1>3 DEF RunInv, RunTypeOK, Undisturbed, Ending, Outcome, Outcomes, RunAt, input, testVars, Threads, Nothing
<1>4. CASE ReadCache
  BY <1>4 DEF ReadCache, Fails, Raise
<1>5. CASE Branch
  BY <1>5 DEF Branch, Creatable, RecordThen, AssertNew, Fails, Raise
<1>6. CASE AcquireMachine
  BY <1>6 DEF AcquireMachine, Fails, Raise
<1>7. CASE RecordImaging
  BY <1>7 DEF RecordImaging, RecordThen, AssertNew, Fails, Raise
<1>8. CASE ImageMachine
  BY <1>8 DEF ImageMachine, Fails, Raise
<1>9. CASE RecordRunning
  BY <1>9 DEF RecordRunning, RecordThen, AssertNew, Fails, Raise
<1>10. CASE PrepareDut
  BY <1>10 DEF PrepareDut, Fails, Raise
<1>11. CASE StartTest
  BY <1>11 DEF StartTest, Stopped, TestFailed
<1>12. CASE EndTest
  BY <1>12 DEF EndTest, TestFailed, Fails, Raise
<1>13. CASE StoreResult
  BY <1>13 DEF StoreResult, Fails, Raise
<1>14. CASE CheckTerminated
  BY <1>14 DEF CheckTerminated
<1>15. CASE RecordOutcome
  BY <1>15 DEF RecordOutcome, RecordThen, AssertNew, Fails, Raise
<1>16. CASE RecordFailed
  BY <1>16 DEF RecordFailed, RecordThen, AssertNew, Fails, Raise
<1>17. CASE Except
  BY <1>17 DEF Except, AssertNew
<1>18. CASE Finally
  BY <1>18 DEF Finally
<1>19. CASE ClearActive
  BY <1>19 DEF ClearActive
<1>20. CASE CollectResult
  BY <1>20 DEF CollectResult, Raise
<1>21. QED
  BY <1>4, <1>5, <1>6, <1>7, <1>8, <1>9, <1>10, <1>11, <1>12, <1>13, <1>14, <1>15, <1>16, <1>17, <1>18, <1>19, <1>20 DEF RunSilent

LEMMA TermInv ==
  ASSUME RunInv, TermSilent
  PROVE  RunInv'
PROOF
<1>1. events' = events /\ UNCHANGED <<telemetry, own_vars>> /\ tpc' # "idle"
      /\ recording'["run"] = recording["run"]
  BY DEF TermSilent, CallTerminate, SetTerminated, TerminateCommand, CheckLastEvent, RecordTerminated,
         AssertNew, runVars, RunInv, RunTypeOK, Threads
<1>2. Recorded("FAILED")' <=> Recorded("FAILED")
  BY <1>1, SameEvents
<1>3. LastEvent = "FAILED" => Recorded("FAILED")
  <2>1. Len(events) \in Nat \ {0}
    BY DEF RunInv, RunTypeOK
  <2>2. QED
    BY <2>1 DEF LastEvent, Recorded
<1>4. Recording' /\ MachineReleased' /\ Undisturbed' /\ LateTests'
  BY <1>1 DEF RunInv, Recording, MachineReleased, Undisturbed, LateTests, own_vars
<1>5. RunTypeOK' /\ TermMarked'
  <2> USE <1>2, <1>3 DEF RunInv, RunTypeOK, TermMarked, runVars, own_vars, Threads, Events, Nothing, TermPc
  <2>1. CASE CallTerminate
    BY <2>1 DEF CallTerminate
  <2>2. CASE SetTerminated
    BY <2>2 DEF SetTerminated
  <2>3. CASE TerminateCommand
    BY <2>3 DEF TerminateCommand
  <2>4. CASE CheckLastEvent
    BY <2>4 DEF CheckLastEvent
  <2>5. CASE RecordTerminated
    BY <2>5 DEF RecordTerminated, AssertNew
  <2>6. QED
    BY <2>1, <2>2, <2>3, <2>4, <2>5 DEF TermSilent
<1>6. QED
  BY <1>4, <1>5 DEF RunInv

LEMMA NextRun == RunInv /\ [RunNext]_br_vars => RunInv'
PROOF
<1> SUFFICES ASSUME RunInv, [RunNext]_br_vars PROVE RunInv'
  OBVIOUS
<1>1. CASE RunSilent
  BY <1>1, RunTypes, RunRecording, RunMarked, RunUndisturbed, RunLate DEF RunInv
<1>2. CASE TermSilent
  BY <1>2, TermInv
<1>3. CASE AppendEvent("run") \/ AppendEvent("term")
  BY <1>3, AppendInv DEF Threads
<1>4. CASE UNCHANGED br_vars
  BY <1>4 DEF br_vars, own_vars, LateTests, RunInv, RunTypeOK, Recording, TermMarked, Undisturbed, MachineReleased, Recorded, NoOutcome,
              Outcome, LastEvent
<1>5. QED
  BY <1>1, <1>2, <1>3, <1>4, NextCases

-----------------------------------------------------------------------------

LEMMA RunInvImplies == RunInv => EndsProperly
PROOF
<1> SUFFICES ASSUME RunInv PROVE EndsProperly
  OBVIOUS
<1>1. Len(events) \in Nat \ {0}
  BY DEF RunInv, RunTypeOK
<1>2. pc \in {"ended", "cleared"} => recording["run"] = Nothing
  BY DEF RunInv, Recording
<1>3. OneOutcome
  BY <1>2 DEF RunInv, Undisturbed, Ending, Outcome, OneOutcome, Outcomes, Nothing
<1>4. OutcomeRecorded
  <2> SUFFICES ASSUME Over, exc # "SystemExit" \/ terminated
               PROVE  Recorded("FAILED") \/ Recorded("SUCCEEDED")
    BY DEF OutcomeRecorded
  <2>1. CASE terminated
    BY <2>1 DEF Over, InTerminate, RunInv, RunTypeOK, TermPc, TermMarked, Nothing
  <2>2. CASE ~terminated
    <3>1. tpc = "idle"
      BY <2>2 DEF Over, InTerminate, RunInv, TermMarked
    <3>2. LastEvent \in {"SUCCEEDED", "FAILED"}
      BY <2>2, <3>1, <1>3 DEF OneOutcome, Over
    <3>3. QED
      BY <1>1, <3>2 DEF LastEvent, Recorded
  <2>3. QED
    BY <2>1, <2>2
<1>5. NoTestAfterTerminate
  BY RetriesAssumption DEF RunInv, RunTypeOK, LateTests, NoTestAfterTerminate
<1>6. QED
  BY <1>3, <1>4, <1>5 DEF EndsProperly, RunInv

\* A br that is over has its outcome on record and has given its machine back,
\* however run(), its retries and its exceptions interleave with Terminate().
THEOREM BrEndsProperly == RunSpec => []EndsProperly
PROOF
<1>1. RunSpec => []RunInv
  BY InitRun, NextRun, PTL DEF RunSpec
<1>2. QED
  BY <1>1, RunInvImplies, PTL

=============================================================================
