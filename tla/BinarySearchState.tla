------------------------- MODULE BinarySearchState -------------------------
(***************************************************************************)
(* The bisection tool (binary_search_tool/binary_search_state.py): it      *)
(* switches items of a build between their good and their bad version,     *)
(* tests the mixture and bisects for the bad items, one search after the   *)
(* other with --prune.  Its state is saved before each iteration; it can   *)
(* die anywhere and be started again with --resume.                        *)
(*                                                                         *)
(* Memory, the environment the scripts work on (env) and the disk          *)
(* (state_file, temp_link) are kept apart: dying loses memory, and while   *)
(* the tool is down the environment can change in any way.                 *)
(*                                                                         *)
(* A test is bad exactly if a bad item is switched to its bad version, or  *)
(* it says that it could not be done (125).  Any other status fails an     *)
(* assertion of SetStatus, which is one way to die.                        *)
(***************************************************************************)
EXTENDS BinarySearcher, Sequences, FiniteSets

CONSTANTS
  Sizes,             \* the numbers of items considered
  Iterations,        \* the values of --iterations considered
  PruneIterations,   \* the value of --prune_iterations
  MaxSkips,          \* bound on the tests that cannot be done
  MaxCrashes,        \* bound on how often the tool dies
  MaxQueue           \* bound on the queue of GetNextFlakyBinary

ASSUME SizesAssumption == Sizes \subseteq Nat \ {0} /\ Iterations \subseteq Nat
ASSUME BoundsAssumption ==
  {PruneIterations, MaxSkips, MaxCrashes, MaxQueue} \subseteq Nat

VARIABLES
  \* given: the number of items, the bad ones, the options
  n, bad, incremental, prune, verify, iterations,
  \* memory
  all_items, binary_search, found_items, known_good, currently_good_items,
  currently_bad_items, search_cycles, prune_cycles, resumed,
  queue,             \* q of GetNextFlakyBinary
  pc,
  \* outside: the version of each item that is in place; the state file;
  \* the temporary link of SaveState
  env, state_file, temp_link,
  \* history
  reported,          \* the last "Bad items are:"
  gave_up,           \* a search ended because all was skipped
  skips, crashes,
  save_failed        \* os.symlink raised in SaveState

options  == <<n, bad, incremental, prune, verify, iterations>>
saved    == <<all_items, binary_search, found_items, known_good, search_cycles,
              prune_cycles>>
switched == <<currently_good_items, currently_bad_items, env>>
disk     == <<state_file, temp_link>>
history  == <<reported, gave_up, skips, crashes, save_failed>>
vars == <<options, saved, switched, resumed, queue, pc, disk, history>>

Items == 1..n
NoState == <<>>

\* What pickle.dump writes and is used after loading.
State == [all_items : Seq(Items), binary_search : Searcher(n),
          found_items : SUBSET Items, known_good : SUBSET Items,
          search_cycles : 0..iterations, prune_cycles : 0..PruneIterations]

Pc == {"verifygood", "verifybad", "dosearch", "cycle", "link", "rename", "getnext",
       "flaky", "switchgood", "switchbad", "test", "found", "remove", "done", "dead"}

TypeOK ==
  /\ n \in Sizes /\ bad \subseteq Items /\ iterations \in Iterations
  /\ {incremental, prune, verify, resumed, temp_link, gave_up, save_failed} \subseteq BOOLEAN
  /\ all_items \in Seq(Items)
  /\ binary_search \in Searcher(n)
  /\ found_items \subseteq Items /\ known_good \subseteq Items
  /\ currently_good_items \subseteq Items /\ currently_bad_items \subseteq Items
  /\ search_cycles \in 0..iterations /\ prune_cycles \in 0..PruneIterations
  /\ queue \in Seq((0..n) \X (0..n) \X (0..n))
  /\ pc \in Pc
  /\ env \in [Items -> {GOOD, BAD}]
  /\ state_file = NoState \/ state_file \in State
  /\ reported \subseteq Items
  /\ skips \in 0..MaxSkips /\ crashes \in 0..MaxCrashes

\* __init__: the items of get_initial_items, in its order, nothing switched.
Init ==
  /\ n \in Sizes
  /\ bad \in (SUBSET Items) \ {{}}
  /\ incremental \in BOOLEAN /\ prune \in BOOLEAN /\ verify \in BOOLEAN
  /\ iterations \in Iterations
  /\ all_items = [i \in Items |-> i]
  /\ binary_search = NewSearcher(n)
  /\ found_items = {} /\ known_good = {}
  /\ currently_good_items = {} /\ currently_bad_items = {}
  /\ search_cycles = 0 /\ prune_cycles = 0
  /\ resumed = FALSE
  /\ queue = <<>>
  /\ pc = IF verify THEN "verifygood" ELSE "dosearch"
  /\ env \in [Items -> {GOOD, BAD}]
  /\ state_file = NoState /\ temp_link = FALSE
  /\ reported = {} /\ gave_up = FALSE
  /\ skips = 0 /\ crashes = 0
  /\ save_failed = FALSE

Goto(from, to) == pc = from /\ pc' = to

-----------------------------------------------------------------------------
(* Switching and testing                                                   *)

\* SwitchToGood: with --incremental only items not known to be good already
\* are passed to the script.
SwitchToGood(S) ==
  LET T == IF incremental THEN S \ currently_good_items ELSE S
  IN  /\ env' = [i \in Items |-> IF i \in T THEN GOOD ELSE env[i]]
      /\ currently_good_items' = currently_good_items \cup T
      /\ currently_bad_items' = currently_bad_items \ T

SwitchToBad(S) ==
  LET T == IF incremental THEN S \ currently_bad_items ELSE S
  IN  /\ env' = [i \in Items |-> IF i \in T THEN BAD ELSE env[i]]
      /\ currently_bad_items' = currently_bad_items \cup T
      /\ currently_good_items' = currently_good_items \ T

\* TestSetupScript and TestScript on an environment.
TestResult(e) == IF \E i \in bad : e[i] = BAD THEN BAD ELSE GOOD

\* DoVerify: all good must test good, then all bad must test bad.
VerifyGood ==
  /\ Goto("verifygood", "verifybad")
  /\ SwitchToGood(Items)
  /\ TestResult(env') = GOOD
  /\ UNCHANGED <<options, saved, resumed, queue, disk, history>>

VerifyBad ==
  /\ Goto("verifybad", "dosearch")
  /\ SwitchToBad(Items)
  /\ TestResult(env') = BAD
  /\ UNCHANGED <<options, saved, resumed, queue, disk, history>>

-----------------------------------------------------------------------------
(* DoSearch and DoBinarySearch                                             *)

\* The head of DoSearch's loop and the entry of DoBinarySearch.
BeginSearch ==
  /\ IF Len(all_items) > 1 /\ prune_cycles < PruneIterations
     THEN /\ Goto("dosearch", "cycle")
          /\ search_cycles' = IF resumed THEN search_cycles ELSE 0
          /\ resumed' = FALSE
     ELSE /\ Goto("dosearch", "remove")
          /\ UNCHANGED <<search_cycles, resumed>>
  /\ UNCHANGED <<options, all_items, binary_search, found_items, known_good,
                 prune_cycles, switched, queue, disk, history>>

\* The head of DoBinarySearch's loop: SaveState, or out of iterations.
Cycle ==
  /\ IF search_cycles < iterations
     THEN Goto("cycle", "link") /\ UNCHANGED prune_cycles
     ELSE Goto("cycle", "remove") /\ prune_cycles' = prune_cycles + 1
  /\ UNCHANGED <<options, all_items, binary_search, found_items, known_good,
                 search_cycles, switched, resumed, queue, disk, history>>

\* SaveState has written a new hidden file and makes the temporary link, which
\* fails if one is there.
SaveLink ==
  /\ IF temp_link
     THEN Goto("link", "dead") /\ save_failed' = TRUE /\ UNCHANGED temp_link
     ELSE Goto("link", "rename") /\ temp_link' = TRUE /\ UNCHANGED save_failed
  /\ UNCHANGED <<options, saved, switched, resumed, queue, state_file, reported,
                 gave_up, skips, crashes>>

\* Mutant: the new link is copied instead of renamed.
MutSaveRename ==
  /\ Goto("rename", "getnext")
  /\ state_file' = [all_items |-> all_items, binary_search |-> binary_search,
                    found_items |-> found_items, known_good |-> known_good,
                    search_cycles |-> search_cycles, prune_cycles |-> prune_cycles]
  /\ UNCHANGED <<options, saved, switched, resumed, queue, temp_link, history>>

\* os.rename(temp_link, STATE_FILE)
SaveRename ==
  /\ Goto("rename", "getnext")
  /\ state_file' = [all_items |-> all_items, binary_search |-> binary_search,
                    found_items |-> found_items, known_good |-> known_good,
                    search_cycles |-> search_cycles, prune_cycles |-> prune_cycles]
  /\ temp_link' = FALSE
  /\ UNCHANGED <<options, saved, switched, resumed, queue, history>>

\* GetNext: the middle; if that was skipped, look for another index.
GetNext ==
  LET m == Middle(binary_search.lo, binary_search.hi)
  IN  /\ search_cycles' = search_cycles + 1
      /\ binary_search' = [binary_search EXCEPT !.current = m]
      /\ IF m \in binary_search.skipped
         THEN /\ Goto("getnext", "flaky")
              /\ queue' = << <<binary_search.lo, m, binary_search.hi>> >>
         ELSE Goto("getnext", "switchgood") /\ UNCHANGED queue
      /\ UNCHANGED <<options, all_items, found_items, known_good, prune_cycles,
                     switched, resumed, disk, history>>

\* GetNextFlakyBinary: one iteration of its while loop.
FlakyPop ==
  LET t == Head(queue)
  IN  /\ pc = "flaky" /\ Len(queue) < MaxQueue
      /\ IF t[2] \in binary_search.skipped
         THEN /\ Goto("flaky", "flaky")
              /\ queue' = Tail(queue) \o <<GoTop(t), GoBottom(t)>>
              /\ UNCHANGED binary_search
         ELSE /\ Goto("flaky", "switchgood")
              /\ queue' = <<>>
              /\ binary_search' = [binary_search EXCEPT !.current = t[2]]
      /\ UNCHANGED <<options, all_items, found_items, known_good, search_cycles,
                     prune_cycles, switched, resumed, disk, history>>

\* GetNextItems: the items up to current are to be bad, the others good.
next_bad_items == {all_items[i] : i \in 1..(binary_search.current + 1)}
next_good_items ==
  {all_items[i] : i \in (binary_search.current + 2)..Len(all_items)} \cup known_good

SwitchGood ==
  /\ Goto("switchgood", "switchbad")
  /\ SwitchToGood(next_good_items)
  /\ UNCHANGED <<options, saved, resumed, queue, disk, history>>

SwitchBad ==
  /\ Goto("switchbad", "test")
  /\ SwitchToBad(next_bad_items)
  /\ UNCHANGED <<options, saved, resumed, queue, disk, history>>

\* The test and SetStatus; on to the next iteration, or back to DoSearch.
Test ==
  \E status \in {TestResult(env), SKIP} :
    LET s == SetStatus(binary_search, status)
    IN  /\ status = SKIP => skips < MaxSkips
        /\ Goto("test", IF Terminated(s) THEN "found" ELSE "cycle")
        /\ binary_search' = s
        /\ skips' = IF status = SKIP THEN skips + 1 ELSE skips
        /\ gave_up' = (gave_up \/ (Terminated(s) /\ s.lo # s.hi))
        /\ UNCHANGED <<options, all_items, found_items, known_good, search_cycles,
                       prune_cycles, switched, resumed, queue, disk, reported,
                       crashes, save_failed>>

prune_index == binary_search.current

\* Mutant: the found item stays at the front of the list.
MutPruned == [i \in 1..(Len(all_items) - prune_index) |-> all_items[prune_index + i]]

\* The list without the items below the found one, which itself moves to the end.
Pruned ==
  SubSeq(all_items, prune_index + 2, Len(all_items)) \o <<all_items[prune_index + 1]>>

\* The rest of DoSearch's loop: report, or take the item and go on.
Found ==
  LET item == all_items[prune_index + 1]
  IN  /\ pc = "found"
      /\ prune_cycles' = prune_cycles + 1
      /\ \/ /\ prune_index = Len(all_items) - 1
            /\ Goto("found", "remove")
            /\ reported' = {item}
            /\ UNCHANGED <<all_items, binary_search, found_items, known_good>>
         \/ /\ prune_index # Len(all_items) - 1 /\ item \in found_items
            /\ Goto("found", "remove")
            /\ reported' = found_items
            /\ UNCHANGED <<all_items, binary_search, found_items, known_good>>
         \/ /\ prune_index # Len(all_items) - 1 /\ item \notin found_items
            /\ found_items' = found_items \cup {item}
            /\ known_good' = known_good \cup {all_items[i] : i \in 1..prune_index}
            /\ IF prune
               THEN /\ Goto("found", "dosearch")
                    /\ all_items' = Pruned
                    /\ binary_search' = NewSearcher(Len(Pruned))
               ELSE Goto("found", "remove") /\ UNCHANGED <<all_items, binary_search>>
            /\ UNCHANGED reported
      /\ UNCHANGED <<options, search_cycles, switched, resumed, queue, disk, gave_up,
                     skips, crashes, save_failed>>

\* RemoveState.  A link left behind without its file counts as no state file.
RemoveState ==
  /\ Goto("remove", "done")
  /\ state_file' = NoState
  /\ UNCHANGED <<options, saved, switched, resumed, queue, temp_link, history>>

-----------------------------------------------------------------------------
\* The tool is killed, or an assertion or another exception ends it.
Crash ==
  /\ crashes < MaxCrashes
  /\ pc \notin {"done", "dead"} /\ pc' = "dead"
  /\ crashes' = crashes + 1
  /\ UNCHANGED <<options, saved, switched, resumed, queue, disk, reported, gave_up,
                 skips, save_failed>>

\* Mutant: what was switched before is believed.
MutLoadState ==
  /\ pc = "dead" /\ state_file # NoState /\ pc' = "dosearch"
  /\ all_items' = state_file.all_items
  /\ binary_search' = state_file.binary_search
  /\ found_items' = state_file.found_items
  /\ known_good' = state_file.known_good
  /\ search_cycles' = state_file.search_cycles
  /\ prune_cycles' = state_file.prune_cycles
  /\ resumed' = TRUE
  /\ env' \in [Items -> {GOOD, BAD}]
  /\ queue' = <<>>
  /\ UNCHANGED <<options, currently_good_items, currently_bad_items, disk, history>>

\* --resume: LoadState, with an environment that may have changed.
LoadState ==
  /\ pc = "dead" /\ state_file # NoState /\ pc' = "dosearch"
  /\ all_items' = state_file.all_items
  /\ binary_search' = state_file.binary_search
  /\ found_items' = state_file.found_items
  /\ known_good' = state_file.known_good
  /\ search_cycles' = state_file.search_cycles
  /\ prune_cycles' = state_file.prune_cycles
  /\ resumed' = TRUE
  /\ currently_good_items' = {} /\ currently_bad_items' = {}
  /\ env' \in [Items -> {GOOD, BAD}]
  /\ queue' = <<>>
  /\ UNCHANGED <<options, disk, history>>

Tool ==
  \/ VerifyGood \/ VerifyBad \/ BeginSearch \/ Cycle \/ SaveLink \/ SaveRename
  \/ GetNext \/ FlakyPop \/ SwitchGood \/ SwitchBad \/ Test \/ Found \/ RemoveState

Next == Tool \/ Crash \/ LoadState

\* The tool runs as long as it is alive; the scripts it runs are assumed to
\* end.  Nobody has to resume it.
Spec == Init /\ [][Next]_vars /\ WF_vars(Tool)

-----------------------------------------------------------------------------
(* Properties                                                              *)

\* The mixture that is tested is the one the bisection asks for, for every
\* item: --incremental leaves out only items that are in place, across
\* searches, pruning, and a resume after the environment changed.
TestsWhatIsAsked ==
  pc = "test" => \A i \in Items : env[i] = BAD <=> i \in next_bad_items

Searching == pc \in {"cycle", "link", "rename", "getnext", "flaky", "switchgood",
                     "switchbad", "test", "found"}

\* The first bad item of the list stays between lo and hi, and after a search
\* that did not give up it is the one that is found.
FirstBadInRange ==
  Searching /\ ~gave_up =>
    \E k \in binary_search.lo..binary_search.hi :
      /\ all_items[k + 1] \in bad
      /\ \A i \in 1..k : all_items[i] \notin bad
      /\ pc = "found" => k = prune_index

\* Until a search gives up no good item is found and no bad one is set aside
\* as known to be good, whatever is skipped or resumed.
FoundAreBad == ~gave_up => found_items \subseteq bad /\ known_good \cap bad = {}

\* With --prune a tool that finishes reports all bad items and only those, or
\* nothing, and nothing only if it came to one of its two limits on the
\* iterations (a single item is never searched).
AllBadReported ==
  pc = "done" /\ prune /\ n > 1 /\ ~gave_up =>
    \/ reported = bad
    \/ reported = {} /\ (search_cycles = iterations \/ prune_cycles = PruneIterations)

\* 2^k < m: k doublings of 1 stay below m.
PowerBelow(k, m) ==
  \E p \in [0..k -> 1..(m - 1)] : p[0] = 1 /\ \A i \in 1..k : p[i] = 2 * p[i - 1]

\* A search takes no more tests than the estimate that is shown, the logarithm
\* of the number of items rounded up; a resume repeats the test that was
\* interrupted without counting it twice.
TestsAsEstimated ==
  pc = "test" /\ binary_search.skipped = {} => PowerBelow(search_cycles - 1, Len(all_items))

\* The bisection is right from its bounds to what it reports, whatever is
\* skipped, interrupted and resumed, as long as no search gave up.
SearchCorrect ==
  TypeOK /\ FirstBadInRange /\ FoundAreBad /\ AllBadReported /\ TestsAsEstimated

\* A tool that can be resumed (README.bisect:190) can also save its state again,
\* unless one died between os.symlink and os.rename: only then is there a link
\* while no tool is between the two.
SavesUnlessLinkLeft ==
  /\ save_failed => temp_link
  /\ temp_link /\ pc # "rename" => crashes > 0

\* A search ends: the search for an index that was not skipped always finds
\* one, and the bounds meet.
SearchEnds == pc = "dosearch" ~> pc \in {"done", "dead"}
=============================================================================
