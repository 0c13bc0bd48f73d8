--------------------------- MODULE ResultsCache ---------------------------
(***************************************************************************)
(* The cache of results (crosperf/results_cache.py) below the reader       *)
(* threads of BrCacheReader: directories named by a key, read and replaced *)
(* by the brs of this experiment and of others without any lock.           *)
(*                                                                         *)
(* Of the files of a directory, two decide what a reader gets: results.txt *)
(* ("results") and autotest.tbz2 ("tarball").  `mv' goes from /tmp to the  *)
(* cache, which is a copy, file by file, if these are two file systems; a  *)
(* rename is the special case of no step in between.                       *)
(***************************************************************************)
EXTENDS BrCacheReader

CONSTANTS
  Others,        \* the stores of other experiments: negative numbers
  OtherRuns,     \* what these can be about: records like Mine(b)
  Settings       \* what the experiment can be like: records as in `setting'

ASSUME OthersAssumption == \A w \in Others : w \in Int /\ w < 0

Files == {"results", "tarball"}
NoFile == 0
NoDir == [case |-> 0]
Any == "*"

ImageTypes == {"local", "trybot", "official"}

\* Every experiment asks for CHECKSUMS_MATCH (experiment_factory.py:145).  What
\* is hashed is never a wildcard, and no image has the hash of the path "p1".
ASSUME SettingsAssumption ==
  \A s \in Settings : /\ s.type \in ImageTypes /\ "checksums" \in s.conds
                      /\ s.telemetry \in BOOLEAN
ASSUME RunsAssumption ==
  \A r \in OtherRuns : /\ r.type \in ImageTypes
                       /\ r.sum \notin {Any, "p1"} /\ r.path \notin {Any, "s1"}

VARIABLES
  setting,       \* [conds, type, shared, missing, telemetry]: cache_conditions,
                 \* image_type, the shared caches, whether one that is named
                 \* does not exist, and whether the suite is 'telemetry'
  dirs,          \* the directories that exist: key -> file -> whose it is
  step,          \* per reader: where it is in ReadResult
  found,         \* per reader: the directory it has chosen
  parts,         \* per br: whose files make up its result
  run,           \* per store: what was run, where, and its retval
  spc,           \* per store: where it is in StoreToCacheDir
  todo,          \* per store: the files that its rm, or mv, has yet to handle
  \* History variables.
  overlapped,    \* stores that were under way while another one was
  superseded,    \* stores whose directory somebody began to remove later
  unremoved,     \* stores whose rm gave up on their old directory
  disturbed      \* readers whose directory was changed after they chose it

read_vars == <<step, found, parts>>                     \* of the readers
store_vars == <<run, spc, todo, overlapped, superseded, unremoved>> \* of the stores
dir_vars == <<dirs, disturbed>>                         \* of the file system
cache_vars == <<setting, read_vars, store_vars, dir_vars>>
all_vars == <<vars, cache_vars>>

Writers == Brs \cup Others

\* What a br of this experiment runs, on one of the machines of its label.
Mine(b) == [case |-> b, path |-> "p1", type |-> setting.type, sum |-> "s1",
            specs |-> "x1", id |-> "m1", home |-> "h1", retval |-> 0]

\* The checksum of the image in a key: none for an official image.
Checksum(r) == [local |-> r.sum, trybot |-> r.path, official |-> Any][r.type]

\* GetCacheKeyList(False) and the first of FormCacheDir.
WriteKey(r) ==
  [case |-> r.case, path |-> r.path, sum |-> Checksum(r),
   specs |-> r.specs, id |-> r.id, home |-> r.home]

\* Mutant: the test for MACHINES_MATCH is dropped.
MutReadPattern(r, conds, home) ==
  [case |-> r.case, path |-> IF "image_path" \in conds THEN r.path ELSE Any,
   sum |-> IF "checksums" \in conds THEN Checksum(r) ELSE Any,
   specs |-> Any,
   id |-> IF "same_machine" \in conds THEN r.id ELSE Any, home |-> home]

\* GetCacheKeyList(True): what no condition asks for is a wildcard.  Before
\* a br has a machine, its id is the one of the first remote.
ReadPattern(r, conds, home) ==
  [case |-> r.case, path |-> IF "image_path" \in conds THEN r.path ELSE Any,
   sum |-> IF "checksums" \in conds THEN Checksum(r) ELSE Any,
   specs |-> IF "machines" \in conds THEN r.specs ELSE Any,
   id |-> IF "same_machine" \in conds THEN r.id ELSE Any, home |-> home]

Glob(pattern) ==
  {k \in DOMAIN dirs : /\ k.case = pattern.case /\ k.home = pattern.home
                       /\ \A f \in {"path", "sum", "specs", "id"} : pattern[f] \in {Any, k[f]}}

\* GetCacheDirForRead: the first match, in no particular order within a home,
\* and the own home before the shared ones.
CandidateDirs(b) ==
  LET In(home) == Glob(ReadPattern(Mine(b), setting.conds, home))
  IN  IF In("h1") # {} THEN In("h1")
      ELSE UNION {In(home) : home \in setting.shared}
NoParts == [results |-> NoFile, tarball |-> NoFile, calm |-> TRUE]

CacheInit ==
  /\ Init
  /\ setting \in Settings
  /\ dirs = <<>>
  /\ step = [r \in Readers |-> "glob"] /\ found = [r \in Readers |-> NoDir]
  /\ parts = [b \in Brs |-> NoParts]
  /\ \E other \in [Others -> OtherRuns] :
       run = [w \in Writers |-> IF w \in Others THEN other[w] ELSE Mine(w)]
  /\ spc = [w \in Writers |-> "idle"] /\ todo = [w \in Writers |-> {}]
  /\ overlapped = {} /\ superseded = {} /\ unremoved = {} /\ disturbed = {}

Key(w) == WriteKey(run[w])
Busy(k) == {w \in Writers : spc[w] \in {"rm", "removed", "copy"} /\ Key(w) = k}
Exists(k) == k \in DOMAIN dirs
Present(k) == {f \in Files : dirs[k][f] # NoFile}

\* Whoever is reading directory k has it changed under his hands.
Disturb(k) == disturbed' = disturbed \cup {r \in Readers : step[r] # "glob" /\ found[r] = k}

SetFile(k, f, w) == dirs' = [dirs EXCEPT ![k][f] = w]
Remove(k) == dirs' = [x \in DOMAIN dirs \ {k} |-> dirs[x]]
Create(k) == dirs' = [x \in DOMAIN dirs \cup {k} |->
                        IF x = k THEN [f \in Files |-> NoFile] ELSE dirs[x]]

----------------------------------------------------------------------------
\* rm -rf of w's directory: it lists the files, unlinks these, and removes the
\* directory if nothing was added meanwhile.  It may give up (RmFails) with
\* files left; its exit code is ignored.
BeginRemove(w) ==
  LET k == WriteKey(run'[w])
  IN  /\ spc' = [spc EXCEPT ![w] = IF Exists(k) THEN "rm" ELSE "removed"]
      /\ todo' = [todo EXCEPT ![w] = IF Exists(k) THEN Present(k) ELSE {}]
      /\ overlapped' = IF Busy(k) = {} THEN overlapped ELSE overlapped \cup Busy(k) \cup {w}
      /\ superseded' = superseded \cup {v \in Writers \ {w} : Key(v) = k /\ spc[v] # "idle"}
      /\ unremoved' = unremoved \ {w}

Unlink(w, f) ==
  /\ spc[w] = "rm" /\ f \in todo[w]
  /\ todo' = [todo EXCEPT ![w] = @ \ {f}]
  /\ IF Exists(Key(w)) THEN SetFile(Key(w), f, NoFile) ELSE UNCHANGED dirs
  /\ Disturb(Key(w))
  /\ UNCHANGED <<vars, setting, read_vars, run, spc, overlapped, superseded, unremoved>>

RmFails(w) ==
  /\ spc[w] = "rm"
  /\ spc' = [spc EXCEPT ![w] = "removed"]
  /\ todo' = [todo EXCEPT ![w] = {}]
  /\ unremoved' = unremoved \cup {w}
  /\ UNCHANGED <<vars, setting, read_vars, run, overlapped, superseded, dir_vars>>

RmDir(w) ==
  /\ spc[w] = "rm" /\ todo[w] = {}
  /\ spc' = [spc EXCEPT ![w] = "removed"]
  /\ IF Exists(Key(w)) /\ Present(Key(w)) = {}
     THEN Remove(Key(w)) /\ Disturb(Key(w))
     ELSE UNCHANGED dir_vars
  /\ UNCHANGED <<vars, setting, read_vars, run, todo, overlapped, superseded, unremoved>>

----------------------------------------------------------------------------
\* ReadResult by reader r for the br it has come to.

At(r, s) == Reading(r) /\ step[r] = s
to(r, s) == step' = [step EXCEPT ![r] = s]

\* FormCacheDir: LogFatal if a shared cache does not exist.
SharedMissing(r) ==
  /\ setting.missing /\ At(r, "glob") /\ ReadFatal(r)
  /\ UNCHANGED cache_vars

\* GetCacheKeyList raises RuntimeError: no checksum of a local image, if the
\* one that the Label computed is not remembered.
KeyFails(r) ==
  /\ At(r, "glob") /\ spc[next[r]] = "idle"
  /\ setting.type = "local" /\ ReadError(r)
  /\ UNCHANGED cache_vars

\* It dies of another exception: the checksum of the machines, or of the one
\* machine, is not there, which shows when the key's strings are joined; or
\* md5sum cannot be started.
KeyDies(r) ==
  /\ At(r, "glob") /\ spc[next[r]] = "idle"
  /\ setting.type = "local" \/ setting.conds \cap {"machines", "same_machine", "false"} # {}
  /\ ReadFatal(r)
  /\ UNCHANGED cache_vars

\* With FALSE (`rerun') the own directory is removed, and nothing read.
BeginClear(r) ==
  /\ Reading(r) /\ ~setting.missing /\ "false" \in setting.conds
  /\ spc[next[r]] = "idle"
  /\ UNCHANGED <<vars, setting, read_vars, run, dir_vars>>
  /\ BeginRemove(next[r])

EndClear(r) ==
  /\ Reading(r) /\ spc[next[r]] = "removed" /\ ReadMiss(r)
  /\ spc' = [spc EXCEPT ![next[r]] = "idle"]
  /\ UNCHANGED <<setting, read_vars, run, todo, overlapped, superseded, unremoved, dir_vars>>

Searching(r) ==
  /\ Reading(r) /\ ~setting.missing /\ "false" \notin setting.conds
  /\ step[r] = "glob"

FindNone(r) ==
  /\ Searching(r) /\ CandidateDirs(next[r]) = {} /\ ReadMiss(r)
  /\ UNCHANGED cache_vars

Find(r) ==
  /\ Searching(r)
  /\ \E k \in CandidateDirs(next[r]) : found' = [found EXCEPT ![r] = k]
  /\ to(r, "load") /\ disturbed' = disturbed \ {r}
  /\ UNCHANGED <<vars, setting, parts, store_vars, dirs>>

Readable(r, f) == Exists(found[r]) /\ dirs[found[r]][f] # NoFile

\* isdir is false.
Vanished(r) ==
  /\ At(r, "load") /\ ~Exists(found[r]) /\ ReadMiss(r) /\ to(r, "glob")
  /\ UNCHANGED <<setting, found, parts, store_vars, dir_vars>>

\* PopulateFromCacheDir dies of an exception that is not a RuntimeError, which
\* nobody catches in a reader: there is no results.txt to open, or only a part
\* of one to unpickle; no temporary directory can be made; the files in the
\* tarball are not what is expected.
LoadDies(r) ==
  /\ Reading(r) /\ step[r] \in {"load", "untar"} /\ ReadFatal(r) /\ to(r, "glob")
  /\ UNCHANGED <<setting, found, parts, store_vars, dir_vars>>

\* The result is there: a hit, unless it failed and the condition is RUN_SUCCEEDED.
Accept(r, w) == IF run[w].retval = 0 \/ "succeeded" \notin setting.conds THEN ReadHit(r) ELSE ReadMiss(r)

Take(r, f) ==
  parts' = [parts EXCEPT ![next[r]] = [@ EXCEPT ![f] = dirs[found[r]][f], !.calm = r \notin disturbed]]

\* results.txt; TelemetryResult needs no more.
Load(r) ==
  /\ At(r, "load") /\ Readable(r, "results") /\ Take(r, "results")
  /\ IF setting.telemetry
     THEN Accept(r, dirs[found[r]]["results"]) /\ to(r, "glob")
     ELSE UNCHANGED vars /\ to(r, "untar")
  /\ UNCHANGED <<setting, found, store_vars, dir_vars>>

Untar(r) ==
  /\ At(r, "untar") /\ Readable(r, "tarball") /\ Take(r, "tarball")
  /\ Accept(r, parts[next[r]]["results"]) /\ to(r, "glob")
  /\ UNCHANGED <<setting, found, store_vars, dir_vars>>

\* tar or find fails, be it that there is no tarball or no space: RuntimeError,
\* which CreateFromCacheHit turns into a miss.
UntarFails(r) ==
  /\ At(r, "untar") /\ ReadMiss(r) /\ to(r, "glob")
  /\ UNCHANGED <<setting, found, parts, store_vars, dir_vars>>

ReadResult(r) ==
  \/ SharedMissing(r) \/ KeyFails(r) \/ KeyDies(r) \/ BeginClear(r) \/ EndClear(r)
  \/ FindNone(r) \/ Find(r) \/ Vanished(r) \/ LoadDies(r)
  \/ Load(r) \/ Untar(r) \/ UntarFails(r)

----------------------------------------------------------------------------
\* StoreResult: of an own br that missed, once the readers are joined, or of
\* somebody else at any time.  The files are written to a temporary directory
\* first, which nobody else sees.

CONSTANT Ids           \* the machines of the label, "m1" the first

\* Mutant: the old directory is not removed.
MutBeginStore(w) ==
  /\ spc[w] = "idle"
  /\ \/ w \in Others /\ UNCHANGED run
     \/ /\ w \in pending /\ main = "joined" /\ ~setting.missing
        /\ \E id \in Ids, rv \in {0, 1} :
             run' = [run EXCEPT ![w] = [@ EXCEPT !.id = id, !.retval = rv]]
  /\ spc' = [spc EXCEPT ![w] = "removed"]
  /\ superseded' = superseded \cup {v \in Writers \ {w} : Key(v) = Key(w)' /\ spc[v] # "idle"}
  /\ UNCHANGED <<vars, setting, read_vars, dir_vars, todo, overlapped, unremoved>>

BeginStore(w) ==
  /\ spc[w] = "idle"
  /\ \/ w \in Others /\ UNCHANGED run
     \/ /\ w \in pending /\ main = "joined" /\ ~setting.missing
        /\ \E id \in Ids, rv \in {0, 1} :
             run' = [run EXCEPT ![w] = [@ EXCEPT !.id = id, !.retval = rv]]
  /\ BeginRemove(w)
  /\ UNCHANGED <<vars, setting, read_vars, dir_vars>>

\* mv begins: onto a directory that exists it moves into it, where nobody
\* looks for the result, and succeeds.
MoveOnto(w) ==
  /\ spc[w] = "removed" /\ (w \in Others \/ main = "joined")
  /\ IF Exists(Key(w))
     THEN spc' = [spc EXCEPT ![w] = "done"] /\ UNCHANGED <<todo, dirs, disturbed>>
     ELSE /\ spc' = [spc EXCEPT ![w] = "copy"]
          /\ todo' = [todo EXCEPT ![w] = IF setting.telemetry THEN {"results"} ELSE Files]
          /\ Create(Key(w)) /\ Disturb(Key(w))
  /\ UNCHANGED <<vars, setting, read_vars, run, overlapped, superseded, unremoved>>

\* If the directory is gone mv fails, and StoreToCacheDir with it.
Copy(w, f) ==
  /\ spc[w] = "copy" /\ f \in todo[w]
  /\ IF Exists(Key(w))
     THEN /\ SetFile(Key(w), f, w)
          /\ todo' = [todo EXCEPT ![w] = @ \ {f}]
          /\ spc' = IF todo'[w] = {} THEN [spc EXCEPT ![w] = "done"] ELSE spc
          /\ Disturb(Key(w))
     ELSE spc' = [spc EXCEPT ![w] = "failed"] /\ UNCHANGED <<todo, dirs, disturbed>>
  /\ UNCHANGED <<vars, setting, read_vars, run, overlapped, superseded, unremoved>>

\* A store is cut short: mv fails, or the process dies.
CutShort(w) ==
  /\ w \in Others \/ main = "joined"
  /\ spc[w] \in {"rm", "removed", "copy"}
  /\ spc' = [spc EXCEPT ![w] = "failed"]
  /\ UNCHANGED <<vars, setting, read_vars, run, todo, overlapped, superseded, unremoved, dir_vars>>

StoreStep(w) ==
  \/ BeginStore(w) \/ RmDir(w) \/ RmFails(w) \/ MoveOnto(w) \/ CutShort(w)
  \/ \E f \in Files : Unlink(w, f) \/ Copy(w, f)

JoinReaders == Join /\ UNCHANGED cache_vars

CacheNext ==
  \/ \E r \in Readers : ReadResult(r)
  \/ JoinReaders
  \/ \E w \in Writers : StoreStep(w)

\* Nobody waits for anybody: whoever has a step to do gets to do it.
CacheFairness ==
  WF_all_vars((\E r \in Readers : ReadResult(r)) \/ JoinReaders \/ \E w \in Writers : StoreStep(w))

CacheSpec == CacheInit /\ [][CacheNext]_all_vars /\ CacheFairness

-----------------------------------------------------------------------------
\* Whose files br b's result was made of.
Sources(b) == {parts[b][f] : f \in Files} \ {NoFile}

\* What was cached was a run of the same test, of the same image (unless the
\* image is official), on the kind of machine and the machine that the
\* conditions ask for, and successful if they ask for that.
HitMatches ==
  \A b \in hit : \A w \in Sources(b) :
    LET r == run[w] mine == Mine(b) IN
    /\ r.case = b
    /\ setting.type = "local" => r.type = "local" /\ r.sum = mine.sum
    /\ setting.type = "trybot" => r.type = "trybot" /\ r.path = mine.path
    /\ "machines" \in setting.conds => r.specs = mine.specs
    /\ "same_machine" \in setting.conds => r.id = mine.id
    /\ "succeeded" \in setting.conds /\ w = parts[b].results => r.retval = 0
    /\ "false" \notin setting.conds

\* A result is complete, and made of two runs only if a store was at work in
\* the directory during the read, or two stores were at a time.  Deaths do not
\* mix results.
HitWhole ==
  \A b \in hit :
    /\ parts[b].results # NoFile
    /\ parts[b].tarball # NoFile \/ setting.telemetry
    /\ Cardinality(Sources(b)) > 1 /\ parts[b].calm => Sources(b) \cap overlapped # {}

\* What a cache hit is made of, however stores, deaths and reads interleave.
HitsRight == HitMatches /\ HitWhole

\* A store that succeeded, without another one under way in its directory
\* or after it, is complete in the cache: `rm -rf' and `mv' replace what was
\* there, also what a dead process left, and it stays until it is replaced.
\* If its rm gave up, the store succeeds too, but nothing of it is where a
\* reader looks: it is there as a whole or not at all.
StoredKept ==
  \A w \in Writers :
    spc[w] = "done" /\ w \notin overlapped \cup superseded =>
      /\ Exists(Key(w))
      /\ IF w \in unremoved
         THEN \A f \in Files : dirs[Key(w)][f] # w
         ELSE /\ dirs[Key(w)]["results"] = w
              /\ dirs[Key(w)]["tarball"] = IF setting.telemetry THEN NoFile ELSE w
=============================================================================
