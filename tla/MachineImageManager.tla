------------------------ MODULE MachineImageManager ------------------------
(***************************************************************************)
(* crosperf's MachineImageManager (crosperf/machine_image_manager.py).     *)
(*                                                                         *)
(* compute_initial_allocation() is a depth-first search with backtracking; *)
(* its recursion is the variable level and one column counter per level.   *)
(* After it, dut workers call allocate() concurrently and without a lock:  *)
(* each scans its own column row by row, while the label lists of Schedv2  *)
(* (here only their lengths, pending) shrink under it.                     *)
(***************************************************************************)
EXTENDS ImageMatrix

CONSTANTS Shapes,      \* the <<n_labels, n_duts>> pairs considered
          MaxPending   \* bound on the brs a label starts with

ASSUME ShapesAssumption == Shapes \subseteq (Nat \ {0}) \X (Nat \ {0})
ASSUME MaxPendingAssumption == MaxPending \in Nat

VARIABLES
  n_labels, n_duts,    \* n_labels_, n_duts_
  remote,              \* label.remote for each label
  matrix,              \* matrix_
  label_duts,          \* label_duts_: for each label how many duts took it
  phase,               \* "search", then "ready"
  N, level, col,       \* the search: N, the recursion level, column per level
  pending,             \* environment: len(schedv2.get_label_map()[label])
  scan,                \* per dut: row and candidate of a running allocate()
  given                \* per dut: what the last allocate() returned

searchVars == <<phase, N, level, col>>
vars == <<n_labels, n_duts, remote, matrix, label_duts, searchVars, pending,
          scan, given>>

Labels == 1..n_labels
Duts   == 1..n_duts

\* given[d] before the first call, and while a call is running.
NotReturned == -1

NotScanning == [row |-> 0, can |-> NoCandidate]

TypeOK ==
  /\ <<n_labels, n_duts>> \in Shapes
  /\ remote \in [Labels -> SUBSET Duts]
  /\ matrix \in [Labels \X Duts -> Cell]
  /\ label_duts \in [Labels -> Nat]
  /\ phase \in {"search", "ready"}
  /\ N \in 1..(n_labels + 1)
  /\ level \in 1..(n_labels + 1)
  /\ col \in [Labels -> 1..(n_duts + 1)]
  /\ pending \in [Labels -> 0..MaxPending]
  /\ scan \in [Duts -> [row : 0..(n_labels + 1), can : Candidate]]
  /\ given \in [Duts -> {NotReturned, NoLabel} \cup Labels]

\* __init__ and the choice of the first N.
Init ==
  \E s \in Shapes :
    /\ n_labels = s[1]
    /\ n_duts = s[2]
    /\ remote \in [1..s[1] -> SUBSET (1..s[2])]
    /\ matrix = InitialMatrix(s[1], s[2], remote)
    /\ label_duts = [l \in 1..s[1] |-> 0]
    /\ phase = "search"
    /\ N = InitialN(s[1], s[2])
    /\ level = 1
    /\ col = [l \in 1..s[1] |-> 1]
    /\ pending \in [1..s[1] -> 0..MaxPending]
    /\ scan = [d \in 1..s[2] |-> NotScanning]
    /\ given = [d \in 1..s[2] |-> NotReturned]

-----------------------------------------------------------------------------
(* compute_initial_allocation                                              *)

unchangedBySearch == <<n_labels, n_duts, remote, label_duts, pending, scan, given>>

SpecialCase == n_duts = 1 \/ n_labels = 1

\* One dut, or one label: every compatible cell becomes 'Y'.
FillSpecialCase ==
  /\ phase = "search" /\ SpecialCase
  /\ matrix' = [c \in DOMAIN matrix |-> IF matrix[c] = "X" THEN "X" ELSE "Y"]
  /\ phase' = "ready"
  /\ UNCHANGED <<N, level, col, unchangedBySearch>>

\* The cell the recursion at this level is looking at can take a 'Y'.
CanPlace ==
  /\ matrix[<<level, col[level]>>] = "free"
  /\ ColumnYs(matrix, n_labels, col[level]) < N

Searching == phase = "search" /\ ~SpecialCase

\* Put a 'Y' and recurse into the next level.
Place ==
  /\ Searching /\ level <= n_labels /\ col[level] <= n_duts
  /\ CanPlace
  /\ matrix' = [matrix EXCEPT ![<<level, col[level]>>] = "Y"]
  /\ level' = level + 1
  /\ col' = IF level < n_labels THEN [col EXCEPT ![level + 1] = 1] ELSE col
  /\ UNCHANGED <<phase, N, unchangedBySearch>>

\* This column does not take a 'Y': the for loop goes on.
NextColumn ==
  /\ Searching /\ level <= n_labels /\ col[level] <= n_duts
  /\ ~CanPlace
  /\ col' = [col EXCEPT ![level] = @ + 1]
  /\ UNCHANGED <<phase, N, level, matrix, unchangedBySearch>>

\* Mutant: the 'Y' of the failed branch is not cleared.
MutBacktrack ==
  /\ Searching /\ level \in 2..n_labels /\ col[level] > n_duts
  /\ level' = level - 1
  /\ col' = [col EXCEPT ![level - 1] = @ + 1]
  /\ UNCHANGED <<phase, N, matrix, unchangedBySearch>>

\* The loop is exhausted: return False to the caller, which clears its 'Y'.
Backtrack ==
  /\ Searching /\ level \in 2..n_labels /\ col[level] > n_duts
  /\ level' = level - 1
  /\ matrix' = [matrix EXCEPT ![<<level - 1, col[level - 1]>>] = "free"]
  /\ col' = [col EXCEPT ![level - 1] = @ + 1]
  /\ UNCHANGED <<phase, N, unchangedBySearch>>

\* Mutant: N is not increased.
MutNextNSame ==
  /\ Searching /\ level = 1 /\ col[1] > n_duts
  /\ col' = [col EXCEPT ![1] = 1]
  /\ UNCHANGED <<N, phase, level, matrix, unchangedBySearch>>

\* Level 0 returned False: try the next N, up to n_labels.
NextN ==
  /\ Searching /\ level = 1 /\ col[1] > n_duts
  /\ N' = N + 1
  /\ phase' = IF N + 1 <= n_labels THEN "search" ELSE "ready"
  /\ col' = [col EXCEPT ![1] = 1]
  /\ UNCHANGED <<level, matrix, unchangedBySearch>>

\* level == n_labels_: the recursion returns True all the way up.
Found ==
  /\ Searching /\ level = n_labels + 1
  /\ phase' = "ready"
  /\ UNCHANGED <<N, level, col, matrix, unchangedBySearch>>

-----------------------------------------------------------------------------
(* allocate(dut, schedv2), called by the worker thread of dut d.           *)

unchangedByScan == <<n_labels, n_duts, remote, searchVars, pending>>

BeginAllocate(d) ==
  /\ phase = "ready" /\ scan[d].row = 0 /\ given[d] # NoLabel
  /\ scan' = [scan EXCEPT ![d] = [row |-> 1, can |-> NoCandidate]]
  /\ given' = [given EXCEPT ![d] = NotReturned]
  /\ UNCHANGED <<matrix, label_duts, unchangedByScan>>

\* matrix_[l][d] = '_', _record_allocate_log, return the label.
Give(d, l) ==
  /\ matrix' = [matrix EXCEPT ![<<l, d>>] = "given"]
  /\ label_duts' = [label_duts EXCEPT ![l] = @ + 1]
  /\ given' = [given EXCEPT ![d] = l]
  /\ scan' = [scan EXCEPT ![d] = NotScanning]

\* One iteration of the for loop.
ScanRow(d) ==
  LET l == scan[d].row
      v == matrix[<<l, d>>]
  IN  /\ l \in Labels
      /\ IF Planned(v, pending[l])
         THEN Give(d, l)
         ELSE /\ scan' = [scan EXCEPT ![d] =
                    [row |-> l + 1,
                     can |-> Consider(@.can, l, v, label_duts[l], pending[l])]]
              /\ UNCHANGED <<matrix, label_duts, given>>
      /\ UNCHANGED unchangedByScan

\* After the loop: the candidate, or None.
EndAllocate(d) ==
  /\ scan[d].row = n_labels + 1
  /\ IF scan[d].can.label = NoLabel
     THEN /\ given' = [given EXCEPT ![d] = NoLabel]
          /\ scan' = [scan EXCEPT ![d] = NotScanning]
          /\ UNCHANGED <<matrix, label_duts>>
     ELSE Give(d, scan[d].can.label)
  /\ UNCHANGED unchangedByScan

\* Environment: Schedv2.get_benchmark_run hands out a br of label l.
Drain(l) ==
  /\ phase = "ready" /\ pending[l] > 0
  /\ pending' = [pending EXCEPT ![l] = @ - 1]
  /\ UNCHANGED <<n_labels, n_duts, remote, matrix, label_duts, searchVars, scan, given>>

Search == FillSpecialCase \/ Place \/ NextColumn \/ Backtrack \/ NextN \/ Found
Allocate(d) == BeginAllocate(d) \/ ScanRow(d) \/ EndAllocate(d)

Next == Search \/ (\E d \in Duts : Allocate(d)) \/ (\E l \in Labels : Drain(l))

\* The search runs in one thread to its end.
Spec == Init /\ [][Next]_vars /\ WF_vars(Search)

-----------------------------------------------------------------------------
(* Properties                                                              *)

\* No allocate() has written to the matrix yet.
Untouched == \A l \in Labels : label_duts[l] = 0

\* compute_initial_allocation's backtracking search finds exactly the
\* allocation the reference defines: the lexicographically least plan for the
\* least feasible N, and it leaves no stray 'Y' behind when there is none.
SearchMatchesReference ==
  phase = "ready" /\ Untouched =>
    matrix = InitialAllocation(n_labels, n_duts, remote)

\* The search as it runs: rows above the current level hold exactly one 'Y',
\* in the column their recursion level is at; the other rows hold none; no
\* column holds more than N.
SearchInv ==
  Searching =>
    /\ \A c \in DOMAIN matrix :
         matrix[c] = "Y" <=> c[1] < level /\ c[2] = col[c[1]]
    /\ \A d \in Duts : ColumnYs(matrix, n_labels, d) <= N

\* 'X' marks exactly the incompatible cells, through search and allocation, so
\* a dut is never given a label whose remote list excludes it.
NeverIncompatible ==
  /\ \A c \in DOMAIN matrix : matrix[c] = "X" <=> ~Compatible(remote, c[1], c[2])
  /\ \A d \in Duts : given[d] \in Labels => Compatible(remote, given[d], d)

\* The matrix is what it should be while it is searched for, when the search
\* is over, and through all of allocate().
MatrixCorrect == TypeOK /\ SearchInv /\ SearchMatchesReference /\ NeverIncompatible

\* None from allocate() tells the worker to quit for good: then every label
\* compatible with the dut has no br left or was given to this dut before,
\* although other workers changed the lists while the column was scanned.
NoneOnlyWhenExhausted ==
  \A d \in Duts : given[d] = NoLabel =>
    \A l \in Labels :
      Compatible(remote, l, d) => pending[l] = 0 \/ matrix[<<l, d>>] = "given"

\* A label given to a dut is not taken back, so a dut is reimaged to a label at
\* most once; once the search is over no free cell is marked as planned.
CellsAdvance ==
  \A c \in DOMAIN matrix :
    /\ matrix[c] = "given" => matrix'[c] = "given"
    /\ phase = "ready" /\ matrix[c] = "free" => matrix'[c] \in {"free", "given"}

\* The plan comes first: allocate() gives a label outside the plan only when
\* no planned label of the dut still has a br.
PlanFirst ==
  \A l \in Labels, d \in Duts :
    phase = "ready" /\ matrix[<<l, d>>] = "free" /\ matrix'[<<l, d>>] = "given" =>
      \A k \in Labels : matrix[<<k, d>>] = "Y" => pending[k] = 0

\* What no step of the concurrent allocate() may do.
AllocateSteps == [][CellsAdvance /\ PlanFirst]_vars

\* The search ends: backtracking and the growing N explore each N once.
SearchEnds == <>(phase = "ready")
=============================================================================
