--------------------- MODULE MachineImageManagerProofs ---------------------
(***************************************************************************)
(* The search of compute_initial_allocation() finds the least plan, and    *)
(* the workers' allocate() keeps to it, for matrices of any shape.         *)
(*                                                                         *)
(* Explored: no plan for the current N lies behind the search, none exists *)
(* for an earlier N; so the first it comes to is the least.  ScanInv: what *)
(* a scan has passed is given or used up, unless it has a candidate.       *)
(***************************************************************************)
EXTENDS MachineImageManager, FiniteSetTheorems, TLAPS

-----------------------------------------------------------------------------
(* The inductive invariant                                                 *)

\* SearchInv and the first part of NeverIncompatible, cell by cell.
PlacedCells ==
  Searching =>
    /\ \A l \in Labels, d \in Duts :
         matrix[<<l, d>>] = "Y" <=> l < level /\ d = col[l]
    /\ \A d \in Duts : ColumnYs(matrix, n_labels, d) <= N

IncompatibleCells ==
  /\ \A l \in Labels, d \in Duts :
       matrix[<<l, d>>] = "X" <=> ~Compatible(remote, l, d)
  /\ \A d \in Duts : given[d] \in Labels => Compatible(remote, given[d], d)

\* allocate() is not called before the search is over.
SearchAlone ==
  phase = "search" =>
    /\ Untouched
    /\ \A d \in Duts : scan[d] = NotScanning /\ given[d] = NotReturned
    /\ \A l \in Labels, d \in Duts : matrix[<<l, d>>] # "given"

PlansFor(K) == Plans(n_labels, n_duts, remote, K)

\* The search has not come to plan g: g parts from the columns of the levels
\* above by a greater one, or it goes on where the search is.
Ahead(g) ==
  \/ \E k \in Labels : /\ k < level /\ g[k] > col[k]
                       /\ \A i \in 1..(k - 1) : g[i] = col[i]
  \/ /\ \A i \in 1..(level - 1) : g[i] = col[i]
     /\ level <= n_labels => g[level] >= col[level]

Explored ==
  Searching =>
    /\ N \in InitialN(n_labels, n_duts)..n_labels
    /\ \A l \in Labels : l < level => col[l] <= n_duts
    /\ \A K \in InitialN(n_labels, n_duts)..(N - 1) : PlansFor(K) = {}
    /\ \A g \in PlansFor(N) : Ahead(g)

\* What the running allocate() of a dut has passed.
ScanInv ==
  \A d \in Duts :
    /\ scan[d].can.label # NoLabel =>
         scan[d].can.label \in Labels /\ matrix[<<scan[d].can.label, d>>] = "free"
    /\ \A l \in Labels : l < scan[d].row =>
         /\ matrix[<<l, d>>] = "Y" => pending[l] = 0
         /\ scan[d].can.label = NoLabel /\ Compatible(remote, l, d) =>
              pending[l] = 0 \/ matrix[<<l, d>>] = "given"

MatrixInv ==
  /\ TypeOK /\ PlacedCells /\ IncompatibleCells /\ SearchAlone /\ Explored
  /\ SearchMatchesReference /\ ScanInv /\ NoneOnlyWhenExhausted

-----------------------------------------------------------------------------
(* Matrices and columns                                                    *)

LEMMA ShapeFacts ==
  ASSUME TypeOK
  PROVE  /\ n_labels \in Nat \ {0} /\ n_duts \in Nat \ {0}
         /\ matrix \in [(1..n_labels) \X (1..n_duts) -> Cell]
BY ShapesAssumption DEF TypeOK, Labels, Duts

\* Writing one cell leaves the others as they are.
LEMMA WriteCell ==
  ASSUME NEW nl \in Nat, NEW nd \in Nat,
         NEW m \in [(1..nl) \X (1..nd) -> Cell],
         NEW a \in 1..nl, NEW b \in 1..nd, NEW v \in Cell
  PROVE  /\ [m EXCEPT ![<<a, b>>] = v] \in [(1..nl) \X (1..nd) -> Cell]
         /\ \A l \in 1..nl, d \in 1..nd :
              [m EXCEPT ![<<a, b>>] = v][<<l, d>>] =
                IF l = a /\ d = b THEN v ELSE m[<<l, d>>]
OBVIOUS

\* Matrices with the same cells are the same.
LEMMA SameCells ==
  ASSUME NEW nl \in Nat, NEW nd \in Nat,
         NEW m \in [(1..nl) \X (1..nd) -> Cell],
         NEW w \in [(1..nl) \X (1..nd) -> Cell],
         \A l \in 1..nl, d \in 1..nd : m[<<l, d>>] = w[<<l, d>>]
  PROVE  m = w
<1>1. ASSUME NEW c \in (1..nl) \X (1..nd) PROVE m[c] = w[c]
  <2>1. PICK l \in 1..nl, d \in 1..nd : c = <<l, d>>
    OBVIOUS
  <2> QED BY <2>1
<1> QED BY <1>1

LEMMA SubsetOfLabels ==
  ASSUME NEW nl \in Nat, NEW S \in SUBSET (1..nl)
  PROVE  IsFiniteSet(S) /\ Cardinality(S) \in Nat
<1>1. IsFiniteSet(1..nl)
  BY FS_Interval
<1> QED BY <1>1, FS_Subset, FS_CardinalityType

LEMMA CardMono ==
  ASSUME NEW nl \in Nat, NEW S \in SUBSET (1..nl), NEW T \in SUBSET S
  PROVE  Cardinality(T) <= Cardinality(S)
<1>1. IsFiniteSet(S)
  BY SubsetOfLabels
<1> QED BY <1>1, FS_Subset

LEMMA CardAdd ==
  ASSUME NEW nl \in Nat, NEW S \in SUBSET (1..nl), NEW x \in 1..nl, x \notin S
  PROVE  Cardinality(S \cup {x}) = Cardinality(S) + 1
<1>1. IsFiniteSet(S)
  BY SubsetOfLabels
<1> QED BY <1>1, FS_AddElement

LEMMA CardNone ==
  Cardinality({}) = 0
BY FS_EmptySet

LEMMA InitialNBounds ==
  ASSUME NEW nl \in Nat \ {0}, NEW nd \in Nat \ {0}
  PROVE  InitialN(nl, nd) \in 1..nl
BY DEF InitialN

\* w is the initial matrix; w is that with every free cell planned, or with a
\* 'Y' where the plan f has one.
InitialCells(w, nl, nd, r) ==
  /\ w \in [(1..nl) \X (1..nd) -> Cell]
  /\ \A l \in 1..nl, d \in 1..nd :
       w[<<l, d>>] = IF Compatible(r, l, d) THEN "free" ELSE "X"

FullCells(w, nl, nd, r) ==
  /\ w \in [(1..nl) \X (1..nd) -> Cell]
  /\ \A l \in 1..nl, d \in 1..nd :
       w[<<l, d>>] = IF Compatible(r, l, d) THEN "Y" ELSE "X"

PlanCells(w, nl, nd, r, f) ==
  /\ w \in [(1..nl) \X (1..nd) -> Cell]
  /\ \A l \in 1..nl, d \in 1..nd :
       w[<<l, d>>] = IF Compatible(r, l, d)
                     THEN IF f[l] = d THEN "Y" ELSE "free" ELSE "X"

LEMMA InitialMatrixCells ==
  ASSUME NEW nl \in Nat, NEW nd \in Nat, NEW r
  PROVE  InitialCells(InitialMatrix(nl, nd, r), nl, nd, r)
<1>1. ASSUME NEW l \in 1..nl, NEW d \in 1..nd
      PROVE  InitialMatrix(nl, nd, r)[<<l, d>>] =
               IF Compatible(r, l, d) THEN "free" ELSE "X"
  <2>1. <<l, d>> \in (1..nl) \X (1..nd)
    OBVIOUS
  <2>2. PICK c : c = <<l, d>>
    OBVIOUS
  <2>3. InitialMatrix(nl, nd, r)[c] = IF Compatible(r, c[1], c[2]) THEN "free" ELSE "X"
    BY <2>1, <2>2 DEF InitialMatrix
  <2>4. c[1] = l /\ c[2] = d
    BY <2>2
  <2> QED BY <2>2, <2>3, <2>4
<1>2. InitialMatrix(nl, nd, r) \in [(1..nl) \X (1..nd) -> Cell]
  BY DEF InitialMatrix, Cell
<1> QED BY <1>1, <1>2 DEF InitialCells

LEMMA ColumnYsNat ==
  ASSUME NEW nl \in Nat, NEW m, NEW d
  PROVE  ColumnYs(m, nl, d) \in Nat
BY SubsetOfLabels DEF ColumnYs

LEMMA ColumnYsNone ==
  ASSUME NEW nl \in Nat, NEW m, NEW d, \A l \in 1..nl : m[<<l, d>>] # "Y"
  PROVE  ColumnYs(m, nl, d) = 0
<1>1. {l \in 1..nl : m[<<l, d>>] = "Y"} = {}
  OBVIOUS
<1> QED BY <1>1, CardNone DEF ColumnYs

-----------------------------------------------------------------------------
(* The search                                                              *)

LEMMA InitMatrixInv ==
  Init => MatrixInv
<1> SUFFICES ASSUME Init PROVE MatrixInv
  OBVIOUS
<1>1. PICK s \in Shapes :
         /\ n_labels = s[1]
         /\ n_duts = s[2]
         /\ remote \in [1..s[1] -> SUBSET (1..s[2])]
         /\ matrix = InitialMatrix(s[1], s[2], remote)
         /\ label_duts = [l \in 1..s[1] |-> 0]
         /\ phase = "search"
         /\ N = InitialN(s[1], s[2])
         /\ level = 1
         /\ col = [l \in 1..s[1] |-> 1]
         /\ pending \in [1..s[1] -> 0..MaxPending]
         /\ scan = [d \in 1..s[2] |-> NotScanning]
         /\ given = [d \in 1..s[2] |-> NotReturned]
  BY DEF Init
<1>2. /\ s = <<n_labels, n_duts>> /\ n_labels \in Nat \ {0} /\ n_duts \in Nat \ {0}
  BY <1>1, ShapesAssumption
<1>3. N \in 1..n_labels
  BY <1>1, <1>2, InitialNBounds
<1>4. /\ matrix \in [Labels \X Duts -> Cell]
      /\ \A l \in Labels, d \in Duts :
           matrix[<<l, d>>] = IF Compatible(remote, l, d) THEN "free" ELSE "X"
  <2>1. matrix = InitialMatrix(n_labels, n_duts, remote)
    BY <1>1, <1>2
  <2>2. PICK nl, nd, r : nl = n_labels /\ nd = n_duts /\ r = remote
    OBVIOUS
  <2>3. nl \in Nat /\ nd \in Nat
    BY <1>2, <2>2
  <2>4. InitialCells(InitialMatrix(nl, nd, r), nl, nd, r)
    BY <2>3, InitialMatrixCells
  <2> QED BY <2>1, <2>2, <2>4 DEF InitialCells, Labels, Duts
<1>5. \A d \in Duts : scan[d] = NotScanning /\ given[d] = NotReturned
  BY <1>1, <1>2 DEF Duts
<1>6. NotScanning \in [row : 0..(n_labels + 1), can : Candidate]
  BY <1>2 DEF NotScanning, NoCandidate, NoLabel, Candidate
<1>7. TypeOK
  <2>1. <<n_labels, n_duts>> \in Shapes
    BY <1>1, <1>2
  <2>2. remote \in [Labels -> SUBSET Duts] /\ pending \in [Labels -> 0..MaxPending]
    BY <1>1, <1>2 DEF Labels, Duts
  <2>3. label_duts \in [Labels -> Nat] /\ col \in [Labels -> 1..(n_duts + 1)]
    BY <1>1, <1>2 DEF Labels
  <2>4. /\ scan \in [Duts -> [row : 0..(n_labels + 1), can : Candidate]]
        /\ given \in [Duts -> {NotReturned, NoLabel} \cup Labels]
    BY <1>1, <1>2, <1>6 DEF Duts
  <2>5. /\ phase \in {"search", "ready"}
        /\ N \in 1..(n_labels + 1) /\ level \in 1..(n_labels + 1)
    BY <1>1, <1>2, <1>3
  <2> QED BY <1>4, <2>1, <2>2, <2>3, <2>4, <2>5 DEF TypeOK
<1>8. PlacedCells
  <2>1. ASSUME NEW d \in Duts PROVE ColumnYs(matrix, n_labels, d) <= N
    BY <1>2, <1>3, <1>4, ColumnYsNone DEF Labels
  <2> QED BY <1>1, <1>4, <2>1 DEF PlacedCells, Labels
<1>9. IncompatibleCells /\ SearchAlone
  <2>1. Untouched
    BY <1>1, <1>2 DEF Untouched, Labels
  <2> QED BY <1>2, <1>4, <1>5, <2>1 DEF IncompatibleCells, SearchAlone, NotReturned, Labels
<1>10. Explored
  <2>1. ASSUME NEW g \in PlansFor(N) PROVE Ahead(g)
    <3>1. g \in [1..n_labels -> 1..n_duts]
      BY DEF PlansFor, Plans
    <3>2. g[1] \in 1..n_duts /\ col[1] = 1
      BY <1>1, <1>2, <3>1
    <3> QED BY <1>1, <3>2 DEF Ahead
  <2>2. InitialN(n_labels, n_duts)..(N - 1) = {}
    BY <1>1, <1>2, <1>3
  <2> QED BY <1>1, <1>2, <1>3, <2>1, <2>2 DEF Explored, Labels
<1>11. SearchMatchesReference /\ NoneOnlyWhenExhausted
  <2>1. SearchMatchesReference
    BY <1>1 DEF SearchMatchesReference
  <2>2. NoneOnlyWhenExhausted
    BY <1>5 DEF NoneOnlyWhenExhausted, NotReturned, NoLabel
  <2> QED BY <2>1, <2>2
<1>12. ScanInv
  BY <1>5 DEF ScanInv, NotScanning, NoCandidate, Labels
<1> QED BY <1>7, <1>8, <1>9, <1>10, <1>11, <1>12 DEF MatrixInv

\* A step of the search that marks no cell incompatible and frees none that is
\* leaves what concerns allocate() alone.
LEMMA SearchStepQuiet ==
  ASSUME MatrixInv, phase = "search", UNCHANGED unchangedBySearch,
         \A l \in Labels, d \in Duts :
           matrix'[<<l, d>>] # "given" /\ (matrix'[<<l, d>>] = "X" <=> matrix[<<l, d>>] = "X")
  PROVE  /\ IncompatibleCells' /\ SearchAlone' /\ ScanInv' /\ NoneOnlyWhenExhausted'
         /\ Labels' = Labels /\ Duts' = Duts
<1>1. Labels' = Labels /\ Duts' = Duts
  BY DEF unchangedBySearch, Labels, Duts
<1>2. \A d \in Duts : scan[d] = NotScanning /\ given[d] = NotReturned
  BY DEF MatrixInv, SearchAlone
<1>3. IncompatibleCells'
  BY <1>1 DEF MatrixInv, IncompatibleCells, unchangedBySearch
<1>4. SearchAlone'
  BY <1>1 DEF MatrixInv, SearchAlone, Untouched, unchangedBySearch
<1>5. ScanInv'
  BY <1>1, <1>2 DEF ScanInv, unchangedBySearch, NotScanning, NoCandidate, Labels
<1>6. NoneOnlyWhenExhausted'
  BY <1>1, <1>2 DEF NoneOnlyWhenExhausted, unchangedBySearch, NotReturned, NoLabel
<1> QED BY <1>1, <1>3, <1>4, <1>5, <1>6

\* The columns of the search, and of a plan, at each label.
LEMMA PlanColumns ==
  ASSUME TypeOK, NEW K, NEW g \in PlansFor(K)
  PROVE  \A i \in Labels :
           /\ col[i] \in 1..(n_duts + 1) /\ col[i] \in Nat
           /\ g[i] \in 1..n_duts /\ g[i] \in Nat
           /\ Compatible(remote, i, g[i])
<1>1. PICK nl, nd : nl = n_labels /\ nd = n_duts
  OBVIOUS
<1>2. nd \in Nat /\ nl \in Nat
  BY <1>1, ShapeFacts
<1>3. g \in [1..nl -> 1..nd] /\ \A l \in 1..nl : Compatible(remote, l, g[l])
  BY <1>1 DEF PlansFor, Plans
<1>4. col \in [1..nl -> 1..(nd + 1)]
  BY <1>1 DEF TypeOK, Labels
<1> QED BY <1>1, <1>2, <1>3, <1>4 DEF Labels

\* Put a 'Y' and recurse.
LEMMA PlaceKeeps ==
  ASSUME MatrixInv, Place
  PROVE  MatrixInv'
<1> USE DEF Searching
<1>1. /\ Searching /\ level \in 1..n_labels /\ col[level] \in 1..n_duts /\ CanPlace
      /\ matrix' = [matrix EXCEPT ![<<level, col[level]>>] = "Y"]
      /\ level' = level + 1
      /\ col' = IF level < n_labels THEN [col EXCEPT ![level + 1] = 1] ELSE col
      /\ phase' = phase /\ N' = N /\ UNCHANGED unchangedBySearch
  BY ShapeFacts DEF Place, MatrixInv, TypeOK, Labels
<1>2. PICK a, b, nl, nd : a = level /\ b = col[level] /\ nl = n_labels /\ nd = n_duts
  OBVIOUS
<1>3. /\ nl \in Nat \ {0} /\ nd \in Nat \ {0} /\ a \in 1..nl /\ b \in 1..nd
      /\ matrix \in [(1..nl) \X (1..nd) -> Cell]
      /\ matrix' = [matrix EXCEPT ![<<a, b>>] = "Y"]
  BY <1>1, <1>2, ShapeFacts DEF MatrixInv
<1>4. PICK m : m = matrix
  OBVIOUS
<1>5. /\ matrix' \in [Labels \X Duts -> Cell]
      /\ \A l \in Labels, d \in Duts :
           matrix'[<<l, d>>] = IF l = a /\ d = b THEN "Y" ELSE matrix[<<l, d>>]
  <2>1. "Y" \in Cell
    BY DEF Cell
  <2>2. /\ [m EXCEPT ![<<a, b>>] = "Y"] \in [(1..nl) \X (1..nd) -> Cell]
        /\ \A l \in 1..nl, d \in 1..nd :
             [m EXCEPT ![<<a, b>>] = "Y"][<<l, d>>] =
               IF l = a /\ d = b THEN "Y" ELSE m[<<l, d>>]
    BY <1>3, <1>4, <2>1, WriteCell
  <2> QED BY <1>2, <1>3, <1>4, <2>2 DEF Labels, Duts
<1>6. /\ Labels' = Labels /\ Duts' = Duts /\ n_labels' = n_labels /\ n_duts' = n_duts
      /\ remote' = remote /\ InitialN(n_labels, n_duts)' = InitialN(n_labels, n_duts)
  BY <1>1 DEF unchangedBySearch, Labels, Duts
<1>7. \A l \in Labels : l <= level => col'[l] = col[l]
  BY <1>1, <1>3 DEF MatrixInv, TypeOK, Labels
<1>8. TypeOK'
  <2>1. col' \in [Labels -> 1..(n_duts + 1)]
    <3>1. col \in [1..nl -> 1..(nd + 1)]
      BY <1>2 DEF MatrixInv, TypeOK, Labels
    <3>2. CASE level < n_labels
      <4>1. col' = [col EXCEPT ![a + 1] = 1] /\ a + 1 \in 1..nl /\ 1 \in 1..(nd + 1)
        BY <1>1, <1>2, <1>3, <3>2
      <4> QED BY <1>2, <3>1, <4>1 DEF Labels
    <3>3. CASE ~(level < n_labels)
      BY <1>1, <1>2, <3>1, <3>3 DEF Labels
    <3> QED BY <3>2, <3>3
  <2>2. level' \in 1..(n_labels + 1)
    BY <1>1, <1>2, <1>3
  <2> QED BY <1>1, <1>5, <1>6, <2>1, <2>2 DEF MatrixInv, TypeOK, unchangedBySearch
<1>9. \A l \in Labels, d \in Duts :
        matrix[<<l, d>>] = "Y" <=> l < level /\ d = col[l]
  BY <1>1 DEF MatrixInv, PlacedCells
<1>10. matrix[<<a, b>>] = "free" /\ ColumnYs(matrix, n_labels, b) < N
  BY <1>1, <1>2 DEF CanPlace
<1>11. /\ IncompatibleCells' /\ SearchAlone' /\ ScanInv' /\ NoneOnlyWhenExhausted'
  <2>1. \A l \in Labels, d \in Duts : matrix[<<l, d>>] # "given"
    BY <1>1 DEF MatrixInv, SearchAlone
  <2>2. \A l \in Labels, d \in Duts :
          matrix'[<<l, d>>] # "given"
            /\ (matrix'[<<l, d>>] = "X" <=> matrix[<<l, d>>] = "X")
    BY <1>5, <1>10, <2>1
  <2> QED BY <1>1, <2>2, SearchStepQuiet
<1>12. PlacedCells'
  <2>1. \A l \in Labels, d \in Duts :
          matrix'[<<l, d>>] = "Y" <=> l < level' /\ d = col'[l]
    <3> SUFFICES ASSUME NEW l \in Labels, NEW d \in Duts
                 PROVE  matrix'[<<l, d>>] = "Y" <=> l < level + 1 /\ d = col'[l]
      BY <1>1
    <3>1. CASE l = a
      BY <1>1, <1>2, <1>3, <1>5, <1>7, <1>9, <3>1
    <3>2. CASE l # a
      BY <1>1, <1>2, <1>3, <1>5, <1>7, <1>9, <3>2 DEF Labels
    <3> QED BY <3>1, <3>2
  <2>2. ASSUME NEW d \in Duts PROVE ColumnYs(matrix', n_labels, d) <= N
    <3>1. ColumnYs(matrix, n_labels, d) <= N
      BY <1>1 DEF MatrixInv, PlacedCells
    <3>2. CASE d # b
      <4>1. {l \in 1..n_labels : matrix'[<<l, d>>] = "Y"} =
              {l \in 1..n_labels : matrix[<<l, d>>] = "Y"}
        BY <1>5, <3>2 DEF Labels
      <4> QED BY <3>1, <4>1 DEF ColumnYs
    <3>3. CASE d = b
      <4>1. PICK S : S = {l \in 1..n_labels : matrix[<<l, d>>] = "Y"}
        OBVIOUS
      <4>2. {l \in 1..n_labels : matrix'[<<l, d>>] = "Y"} = S \cup {a}
        BY <1>2, <1>3, <1>5, <3>3, <4>1 DEF Labels
      <4>3. a \notin S /\ S \in SUBSET (1..nl)
        BY <1>2, <1>10, <3>3, <4>1
      <4>4. Cardinality(S \cup {a}) = Cardinality(S) + 1 /\ Cardinality(S) \in Nat
        BY <1>3, <4>3, CardAdd, SubsetOfLabels
      <4>5. Cardinality(S) < N
        BY <1>10, <3>3, <4>1 DEF ColumnYs
      <4>6. N \in Nat
        BY DEF MatrixInv, TypeOK
      <4>7. ColumnYs(matrix', n_labels, d) = Cardinality(S \cup {a})
        BY <4>2 DEF ColumnYs
      <4> QED BY <4>4, <4>5, <4>6, <4>7
    <3> QED BY <3>2, <3>3
  <2> QED BY <1>1, <1>6, <2>1, <2>2 DEF PlacedCells
<1>13. Explored'
  <2>1. /\ N \in InitialN(n_labels, n_duts)..n_labels
        /\ \A l \in Labels : l < level => col[l] <= n_duts
        /\ \A K \in InitialN(n_labels, n_duts)..(N - 1) : PlansFor(K) = {}
        /\ \A g \in PlansFor(N) : Ahead(g)
    BY <1>1 DEF MatrixInv, Explored
  <2>2. \A l \in Labels : l < level' => col'[l] <= n_duts
    BY <1>1, <1>2, <1>3, <1>7, <2>1 DEF Labels
  <2>3. \A K : PlansFor(K)' = PlansFor(K)
    BY <1>6 DEF PlansFor
  <2>4. ASSUME NEW g \in PlansFor(N) PROVE Ahead(g)'
    <3>1. g \in [1..nl -> 1..nd]
      BY <1>2 DEF PlansFor, Plans
    <3>2. Ahead(g)
      BY <2>1
    <3>3. \A i \in Labels : i <= a => col'[i] = col[i] /\ col[i] \in Nat /\ g[i] \in Nat
      BY <1>2, <1>3, <1>7, PlanColumns DEF MatrixInv
    <3>4. CASE \E k \in Labels : /\ k < a /\ g[k] > col[k]
                                 /\ \A i \in 1..(k - 1) : g[i] = col[i]
      <4>1. PICK k \in Labels : /\ k < a /\ g[k] > col[k]
                                /\ \A i \in 1..(k - 1) : g[i] = col[i]
        BY <3>4
      <4>2. g[k] > col'[k] /\ \A i \in 1..(k - 1) : g[i] = col'[i]
        BY <1>2, <1>3, <3>3, <4>1 DEF Labels
      <4>3. k < level'
        BY <1>1, <1>2, <1>3, <4>1 DEF Labels
      <4> QED BY <1>6, <4>1, <4>2, <4>3 DEF Ahead
    <3>5. CASE (\A i \in 1..(a - 1) : g[i] = col[i]) /\ g[a] >= col[a]
      <4>1. CASE g[a] > col[a]
        <5>1. g[a] > col'[a] /\ \A i \in 1..(a - 1) : g[i] = col'[i]
          BY <1>2, <1>3, <3>3, <3>5, <4>1 DEF Labels
        <5>2. a < level' /\ a \in Labels
          BY <1>1, <1>2, <1>3 DEF Labels
        <5> QED BY <1>6, <5>1, <5>2 DEF Ahead
      <4>2. CASE g[a] = col[a]
        <5>1. \A i \in 1..(level' - 1) : g[i] = col'[i]
          <6> SUFFICES ASSUME NEW i \in 1..a PROVE g[i] = col'[i]
            BY <1>1, <1>2, <1>3
          <6>1. i \in Labels /\ i <= a /\ (i # a => i \in 1..(a - 1))
            BY <1>2, <1>3 DEF Labels
          <6> QED BY <3>3, <3>5, <4>2, <6>1
        <5>2. level' <= n_labels => g[level'] >= col'[level']
          <6> SUFFICES ASSUME level + 1 <= n_labels PROVE g[a + 1] >= col'[a + 1]
            BY <1>1, <1>2
          <6>1. col'[a + 1] = 1 /\ g[a + 1] \in 1..nd
            BY <1>1, <1>2, <1>3, <3>1 DEF MatrixInv, TypeOK, Labels
          <6> QED BY <1>3, <6>1
        <5> QED BY <1>6, <5>1, <5>2 DEF Ahead
      <4>3. g[a] \in Nat /\ col[a] \in Nat
        BY <1>2, <1>3, <3>3 DEF Labels
      <4> QED BY <3>5, <4>1, <4>2, <4>3
    <3> QED BY <1>2, <1>3, <3>2, <3>4, <3>5 DEF Ahead
  <2> QED BY <1>1, <1>6, <2>1, <2>2, <2>3, <2>4 DEF Explored
<1>14. SearchMatchesReference'
  BY <1>1 DEF SearchMatchesReference
<1> QED BY <1>8, <1>11, <1>12, <1>13, <1>14 DEF MatrixInv

\* This column does not take a 'Y': no plan ahead of the search has it here.
LEMMA NextColumnKeeps ==
  ASSUME MatrixInv, NextColumn
  PROVE  MatrixInv'
<1> USE DEF Searching
<1>1. /\ Searching /\ level \in 1..n_labels /\ col[level] \in 1..n_duts /\ ~CanPlace
      /\ col' = [col EXCEPT ![level] = @ + 1]
      /\ phase' = phase /\ N' = N /\ level' = level /\ matrix' = matrix
      /\ UNCHANGED unchangedBySearch
  BY ShapeFacts DEF NextColumn, MatrixInv, TypeOK, Labels
<1>2. PICK a, b, nl, nd : a = level /\ b = col[level] /\ nl = n_labels /\ nd = n_duts
  OBVIOUS
<1>3. nl \in Nat \ {0} /\ nd \in Nat \ {0} /\ a \in 1..nl /\ b \in 1..nd
  BY <1>1, <1>2, ShapeFacts DEF MatrixInv
<1>4. /\ Labels' = Labels /\ Duts' = Duts /\ n_labels' = n_labels /\ n_duts' = n_duts
      /\ remote' = remote /\ InitialN(n_labels, n_duts)' = InitialN(n_labels, n_duts)
  BY <1>1 DEF unchangedBySearch, Labels, Duts
<1>5. /\ col' \in [Labels -> 1..(n_duts + 1)] /\ col'[a] = b + 1
      /\ \A l \in Labels : l # a => col'[l] = col[l]
  <2>1. col \in [1..nl -> 1..(nd + 1)]
    BY <1>2 DEF MatrixInv, TypeOK, Labels
  <2>2. b + 1 \in 1..(nd + 1) /\ col' = [col EXCEPT ![a] = b + 1]
    BY <1>1, <1>2, <1>3
  <2> QED BY <1>2, <1>3, <2>1, <2>2 DEF Labels
<1>6. TypeOK'
  BY <1>1, <1>4, <1>5 DEF MatrixInv, TypeOK, unchangedBySearch
<1>7. \A l \in Labels, d \in Duts :
        matrix[<<l, d>>] = "Y" <=> l < level /\ d = col[l]
  BY <1>1 DEF MatrixInv, PlacedCells
<1>8. \A l \in Labels, d \in Duts : matrix[<<l, d>>] # "given"
  BY <1>1 DEF MatrixInv, SearchAlone
<1>9. /\ IncompatibleCells' /\ SearchAlone' /\ ScanInv' /\ NoneOnlyWhenExhausted'
  BY <1>1, <1>8, SearchStepQuiet
<1>10. PlacedCells'
  BY <1>1, <1>2, <1>4, <1>5 DEF MatrixInv, PlacedCells
\* A plan that has a 'Y' here would have to be compatible and below N.
<1>11. ASSUME NEW g \in PlansFor(N), \A i \in 1..(a - 1) : g[i] = col[i]
       PROVE  g[a] # b
  <2> SUFFICES ASSUME g[a] = b PROVE FALSE
    OBVIOUS
  <2>1. Compatible(remote, a, b)
    BY <1>2, <1>3, PlanColumns DEF MatrixInv, Labels
  <2>2. matrix[<<a, b>>] = "free"
    <3>1. matrix[<<a, b>>] \in Cell
      BY <1>2, <1>3, ShapeFacts DEF MatrixInv
    <3>2. matrix[<<a, b>>] # "X"
      BY <1>2, <1>3, <2>1 DEF MatrixInv, IncompatibleCells, Labels, Duts
    <3>3. matrix[<<a, b>>] # "Y" /\ matrix[<<a, b>>] # "given"
      BY <1>2, <1>3, <1>7, <1>8 DEF Labels, Duts
    <3> QED BY <3>1, <3>2, <3>3 DEF Cell
  <2>3. ~(ColumnYs(matrix, n_labels, b) < N)
    BY <1>1, <1>2, <2>2 DEF CanPlace
  <2>4. PICK S, T : /\ S = {l \in 1..nl : matrix[<<l, b>>] = "Y"}
                    /\ T = {l \in 1..nl : g[l] = b}
    OBVIOUS
  <2>5. S \cup {a} \in SUBSET T
    <3>1. \A l \in S : l \in Labels /\ l < a /\ b = col[l]
      BY <1>2, <1>3, <1>7, <2>4 DEF Labels, Duts
    <3>2. \A l \in S : l \in 1..nl /\ l \in 1..(a - 1)
      BY <1>2, <1>3, <3>1 DEF Labels
    <3>3. \A l \in S : g[l] = b
      BY <1>11, <3>1, <3>2
    <3> QED BY <1>3, <2>4, <3>2, <3>3
  <2>6. a \notin S
    BY <1>2, <1>3, <1>7, <2>4 DEF Labels, Duts
  <2>7. Cardinality(T) <= N
    BY <1>2, <1>3, <2>4 DEF PlansFor, Plans
  <2>8. Cardinality(S) + 1 <= Cardinality(T) /\ Cardinality(S) \in Nat /\ Cardinality(T) \in Nat
    <3>1. S \in SUBSET (1..nl) /\ T \in SUBSET (1..nl)
      BY <2>4
    <3>2. Cardinality(S \cup {a}) = Cardinality(S) + 1
      BY <1>3, <2>6, <3>1, CardAdd
    <3>3. Cardinality(S \cup {a}) <= Cardinality(T)
      BY <1>3, <2>5, <3>1, CardMono
    <3> QED BY <1>3, <3>1, <3>2, <3>3, SubsetOfLabels
  <2>9. ColumnYs(matrix, n_labels, b) = Cardinality(S) /\ N \in Nat
    BY <1>2, <2>4 DEF ColumnYs, MatrixInv, TypeOK
  <2> QED BY <2>3, <2>7, <2>8, <2>9
<1>12. Explored'
  <2>1. /\ N \in InitialN(n_labels, n_duts)..n_labels
        /\ \A l \in Labels : l < level => col[l] <= n_duts
        /\ \A K \in InitialN(n_labels, n_duts)..(N - 1) : PlansFor(K) = {}
        /\ \A g \in PlansFor(N) : Ahead(g)
    BY <1>1 DEF MatrixInv, Explored
  <2>2. \A l \in Labels : l < level' => col'[l] <= n_duts
    BY <1>1, <1>2, <1>5, <2>1
  <2>3. \A K : PlansFor(K)' = PlansFor(K)
    BY <1>4 DEF PlansFor
  <2>4. ASSUME NEW g \in PlansFor(N) PROVE Ahead(g)'
    <3>1. \A i \in Labels : col[i] \in Nat /\ g[i] \in Nat
      BY PlanColumns DEF MatrixInv
    <3>2. Ahead(g)
      BY <2>1
    <3>3. CASE \E k \in Labels : /\ k < a /\ g[k] > col[k]
                                 /\ \A i \in 1..(k - 1) : g[i] = col[i]
      <4>1. PICK k \in Labels : /\ k < a /\ g[k] > col[k]
                                /\ \A i \in 1..(k - 1) : g[i] = col[i]
        BY <3>3
      <4>2. g[k] > col'[k] /\ \A i \in 1..(k - 1) : g[i] = col'[i]
        BY <1>2, <1>3, <1>5, <4>1 DEF Labels
      <4> QED BY <1>1, <1>2, <1>4, <4>1, <4>2 DEF Ahead
    <3>4. CASE (\A i \in 1..(a - 1) : g[i] = col[i]) /\ g[a] >= col[a]
      <4>1. g[a] # b
        BY <1>11, <3>4
      <4>2. g[a] >= col'[a]
        BY <1>2, <1>3, <1>5, <3>1, <3>4, <4>1 DEF Labels
      <4>3. \A i \in 1..(a - 1) : g[i] = col'[i]
        BY <1>2, <1>3, <1>5, <3>4 DEF Labels
      <4> QED BY <1>1, <1>2, <1>4, <4>2, <4>3 DEF Ahead
    <3> QED BY <1>2, <1>3, <3>2, <3>3, <3>4 DEF Ahead
  <2> QED BY <1>1, <1>4, <2>1, <2>2, <2>3, <2>4 DEF Explored
<1>13. SearchMatchesReference'
  BY <1>1 DEF SearchMatchesReference
<1> QED BY <1>6, <1>9, <1>10, <1>12, <1>13 DEF MatrixInv

\* The loop at this level is exhausted: no plan goes on here.
LEMMA BacktrackKeeps ==
  ASSUME MatrixInv, Backtrack
  PROVE  MatrixInv'
<1> USE DEF Searching
<1>1. PICK a, b, nl, nd : a = level - 1 /\ b = col[a] /\ nl = n_labels /\ nd = n_duts
  OBVIOUS
<1>2. /\ Searching /\ level \in 2..nl /\ level = a + 1 /\ col[level] > nd
      /\ level' = a
      /\ matrix' = [matrix EXCEPT ![<<a, b>>] = "free"]
      /\ col' = [col EXCEPT ![a] = @ + 1]
      /\ phase' = phase /\ N' = N /\ UNCHANGED unchangedBySearch
  BY <1>1 DEF Backtrack
<1>3. /\ nl \in Nat \ {0} /\ nd \in Nat \ {0} /\ a \in 1..nl
      /\ matrix \in [(1..nl) \X (1..nd) -> Cell]
      /\ col \in [1..nl -> 1..(nd + 1)]
  BY <1>1, <1>2, ShapeFacts DEF MatrixInv, TypeOK, Labels
<1>4. /\ N \in InitialN(n_labels, n_duts)..n_labels
      /\ \A l \in Labels : l < level => col[l] <= n_duts
      /\ \A K \in InitialN(n_labels, n_duts)..(N - 1) : PlansFor(K) = {}
      /\ \A g \in PlansFor(N) : Ahead(g)
  BY <1>2 DEF MatrixInv, Explored
<1>5. b \in 1..nd
  <2>1. a \in Labels /\ a < level
    BY <1>1, <1>2, <1>3 DEF Labels
  <2>2. col[a] <= nd
    BY <1>1, <1>4, <2>1
  <2> QED BY <1>1, <1>3, <2>2
<1>6. /\ Labels' = Labels /\ Duts' = Duts /\ n_labels' = n_labels /\ n_duts' = n_duts
      /\ remote' = remote /\ InitialN(n_labels, n_duts)' = InitialN(n_labels, n_duts)
  BY <1>2 DEF unchangedBySearch, Labels, Duts
<1>7. /\ matrix' \in [Labels \X Duts -> Cell]
      /\ \A l \in Labels, d \in Duts :
           matrix'[<<l, d>>] = IF l = a /\ d = b THEN "free" ELSE matrix[<<l, d>>]
  <2>1. PICK m : m = matrix
    OBVIOUS
  <2>2. "free" \in Cell
    BY DEF Cell
  <2>3. /\ [m EXCEPT ![<<a, b>>] = "free"] \in [(1..nl) \X (1..nd) -> Cell]
        /\ \A l \in 1..nl, d \in 1..nd :
             [m EXCEPT ![<<a, b>>] = "free"][<<l, d>>] =
               IF l = a /\ d = b THEN "free" ELSE m[<<l, d>>]
    BY <1>3, <1>5, <2>1, <2>2, WriteCell
  <2> QED BY <1>1, <1>2, <2>1, <2>3 DEF Labels, Duts
<1>8. /\ col' \in [Labels -> 1..(n_duts + 1)] /\ col'[a] = b + 1
      /\ \A l \in Labels : l # a => col'[l] = col[l]
  <2>1. b + 1 \in 1..(nd + 1) /\ col' = [col EXCEPT ![a] = b + 1]
    BY <1>1, <1>2, <1>3, <1>5
  <2> QED BY <1>1, <1>3, <2>1 DEF Labels
<1>9. TypeOK'
  <2>1. level' \in 1..(n_labels + 1)
    BY <1>1, <1>2, <1>3
  <2> QED BY <1>2, <1>6, <1>7, <1>8, <2>1 DEF MatrixInv, TypeOK, unchangedBySearch
<1>10. \A l \in Labels, d \in Duts :
         matrix[<<l, d>>] = "Y" <=> l < level /\ d = col[l]
  BY <1>2 DEF MatrixInv, PlacedCells
<1>11. \A l \in Labels, d \in Duts : matrix[<<l, d>>] # "given"
  BY <1>2 DEF MatrixInv, SearchAlone
<1>12. matrix[<<a, b>>] = "Y"
  BY <1>1, <1>2, <1>3, <1>5, <1>10 DEF Labels, Duts
<1>13. /\ IncompatibleCells' /\ SearchAlone' /\ ScanInv' /\ NoneOnlyWhenExhausted'
  <2>1. \A l \in Labels, d \in Duts :
          matrix'[<<l, d>>] # "given"
            /\ (matrix'[<<l, d>>] = "X" <=> matrix[<<l, d>>] = "X")
    BY <1>7, <1>11, <1>12
  <2> QED BY <1>2, <2>1, SearchStepQuiet
<1>14. PlacedCells'
  <2>1. \A l \in Labels, d \in Duts :
          matrix'[<<l, d>>] = "Y" <=> l < level' /\ d = col'[l]
    <3> SUFFICES ASSUME NEW l \in Labels, NEW d \in Duts
                 PROVE  matrix'[<<l, d>>] = "Y" <=> l < a /\ d = col'[l]
      BY <1>2
    <3>1. CASE l = a
      BY <1>1, <1>2, <1>3, <1>7, <1>10, <3>1
    <3>2. CASE l # a
      BY <1>1, <1>2, <1>3, <1>7, <1>8, <1>10, <3>2 DEF Labels
    <3> QED BY <3>1, <3>2
  <2>2. ASSUME NEW d \in Duts PROVE ColumnYs(matrix', n_labels, d) <= N
    <3>1. PICK S, T : /\ S = {l \in 1..nl : matrix[<<l, d>>] = "Y"}
                      /\ T = {l \in 1..nl : matrix'[<<l, d>>] = "Y"}
      OBVIOUS
    <3>2. T \in SUBSET S /\ S \in SUBSET (1..nl)
      BY <1>1, <1>7, <3>1 DEF Labels
    <3>3. Cardinality(T) <= Cardinality(S) /\ Cardinality(S) \in Nat /\ Cardinality(T) \in Nat
      <4>1. T \in SUBSET (1..nl)
        BY <3>1
      <4> QED BY <1>3, <3>2, <4>1, CardMono, SubsetOfLabels
    <3>4. /\ ColumnYs(matrix', n_labels, d) = Cardinality(T)
          /\ ColumnYs(matrix, n_labels, d) = Cardinality(S)
      BY <1>1, <3>1 DEF ColumnYs
    <3>5. ColumnYs(matrix, n_labels, d) <= N /\ N \in Nat
      BY <1>2 DEF MatrixInv, PlacedCells, TypeOK
    <3> QED BY <3>3, <3>4, <3>5
  <2> QED BY <1>2, <1>6, <2>1, <2>2 DEF PlacedCells
<1>15. Explored'
  <2>1. \A l \in Labels : l < level' => col'[l] <= n_duts
    BY <1>1, <1>2, <1>3, <1>4, <1>8 DEF Labels
  <2>2. \A K : PlansFor(K)' = PlansFor(K)
    BY <1>6 DEF PlansFor
  <2>3. ASSUME NEW g \in PlansFor(N) PROVE Ahead(g)'
    <3>1. \A i \in Labels : col[i] \in Nat /\ g[i] \in Nat /\ g[i] \in 1..n_duts
      BY PlanColumns DEF MatrixInv
    <3>2. ~(g[level] >= col[level])
      BY <1>1, <1>2, <1>3, <3>1 DEF Labels
    <3>3. PICK k \in Labels : /\ k < level /\ g[k] > col[k]
                              /\ \A i \in 1..(k - 1) : g[i] = col[i]
      BY <1>1, <1>2, <1>4, <3>2 DEF Ahead
    <3>4. \A i \in 1..(k - 1) : g[i] = col'[i]
      BY <1>1, <1>2, <1>3, <1>8, <3>3 DEF Labels
    <3>5. CASE k < a
      <4>1. g[k] > col'[k]
        BY <1>3, <1>8, <3>3, <3>5 DEF Labels
      <4> QED BY <1>2, <1>6, <3>3, <3>4, <3>5, <4>1 DEF Ahead
    <3>6. CASE k = a
      <4>1. g[a] >= col'[a]
        BY <1>1, <1>8, <3>1, <3>3, <3>6
      <4> QED BY <1>2, <1>6, <3>4, <3>6, <4>1 DEF Ahead
    <3> QED BY <1>1, <1>2, <1>3, <3>3, <3>5, <3>6 DEF Labels
  <2> QED BY <1>2, <1>4, <1>6, <2>1, <2>2, <2>3 DEF Explored
<1>16. SearchMatchesReference'
  BY <1>2 DEF SearchMatchesReference
<1> QED BY <1>9, <1>13, <1>14, <1>15, <1>16 DEF MatrixInv

-----------------------------------------------------------------------------
(* The end of the search                                                   *)

LEMMA AllocationSpecial ==
  ASSUME NEW nl \in Nat \ {0}, NEW nd \in Nat \ {0}, NEW r, nd = 1 \/ nl = 1,
         NEW w, FullCells(w, nl, nd, r)
  PROVE  w = InitialAllocation(nl, nd, r)
<1>1. PICK m : m = InitialMatrix(nl, nd, r)
  OBVIOUS
<1>2. /\ m \in [(1..nl) \X (1..nd) -> Cell]
      /\ \A l \in 1..nl, d \in 1..nd :
           m[<<l, d>>] = IF Compatible(r, l, d) THEN "free" ELSE "X"
  <2>1. nl \in Nat /\ nd \in Nat
    OBVIOUS
  <2>2. InitialCells(InitialMatrix(nl, nd, r), nl, nd, r)
    BY <2>1, InitialMatrixCells
  <2> QED BY <1>1, <2>2 DEF InitialCells
<1>3. PICK v : v = [c \in DOMAIN m |-> IF m[c] = "free" THEN "Y" ELSE m[c]]
  OBVIOUS
<1>4. InitialAllocation(nl, nd, r) = v
  BY <1>1, <1>3 DEF InitialAllocation
<1>5. v \in [(1..nl) \X (1..nd) -> Cell]
  BY <1>2, <1>3 DEF Cell
<1>6. \A l \in 1..nl, d \in 1..nd : w[<<l, d>>] = v[<<l, d>>]
  BY <1>2, <1>3 DEF FullCells
<1>7. w = v
  BY <1>5, <1>6, SameCells DEF FullCells
<1> QED BY <1>4, <1>7

LEMMA AllocationNone ==
  ASSUME NEW nl \in Nat \ {0, 1}, NEW nd \in Nat \ {0, 1}, NEW r,
         FeasibleNs(nl, nd, r) = {}, NEW w, InitialCells(w, nl, nd, r)
  PROVE  w = InitialAllocation(nl, nd, r)
<1>1. PICK m : m = InitialMatrix(nl, nd, r)
  OBVIOUS
<1>2. /\ m \in [(1..nl) \X (1..nd) -> Cell]
      /\ \A l \in 1..nl, d \in 1..nd :
           m[<<l, d>>] = IF Compatible(r, l, d) THEN "free" ELSE "X"
  <2>1. nl \in Nat /\ nd \in Nat
    OBVIOUS
  <2>2. InitialCells(InitialMatrix(nl, nd, r), nl, nd, r)
    BY <2>1, InitialMatrixCells
  <2> QED BY <1>1, <2>2 DEF InitialCells
<1>3. InitialAllocation(nl, nd, r) = m
  BY <1>1 DEF InitialAllocation
<1>4. w = m
  BY <1>2, SameCells DEF InitialCells
<1> QED BY <1>3, <1>4

\* Of two plans at most one is less than the other.
LEMMA LexLessOneWay ==
  ASSUME NEW nl \in Nat, NEW f, NEW g,
         \A l \in 1..nl : f[l] \in Nat /\ g[l] \in Nat,
         LexLess(nl, f, g), LexLess(nl, g, f)
  PROVE  FALSE
<1>1. PICK i \in 1..nl : f[i] < g[i] /\ \A k \in 1..(i - 1) : f[k] = g[k]
  BY DEF LexLess
<1>2. PICK j \in 1..nl : g[j] < f[j] /\ \A k \in 1..(j - 1) : g[k] = f[k]
  BY DEF LexLess
<1>3. CASE i < j
  <2>1. i \in 1..(j - 1)
    BY <1>3
  <2> QED BY <1>1, <1>2, <2>1
<1>4. CASE j < i
  <2>1. j \in 1..(i - 1)
    BY <1>4
  <2> QED BY <1>1, <1>2, <2>1
<1>5. CASE i = j
  BY <1>1, <1>2, <1>5
<1> QED BY <1>3, <1>4, <1>5

LEMMA SamePlan ==
  ASSUME NEW nl \in Nat, NEW nd \in Nat,
         NEW f \in [1..nl -> 1..nd], NEW g \in [1..nl -> 1..nd],
         \A i \in 1..nl : g[i] = f[i]
  PROVE  f = g
OBVIOUS

\* The CHOOSE of LeastPlan has one candidate at most.
LEMMA LeastPlanIs ==
  ASSUME NEW nl \in Nat, NEW nd \in Nat, NEW P \in SUBSET [1..nl -> 1..nd],
         NEW f \in P, \A g \in P \ {f} : LexLess(nl, f, g)
  PROVE  LeastPlan(nl, P) = f
<1>1. PICK h : h = LeastPlan(nl, P)
  OBVIOUS
<1>2. h \in P /\ \A g \in P \ {h} : LexLess(nl, h, g)
  BY <1>1 DEF LeastPlan
<1>3. ASSUME h # f PROVE FALSE
  <2>1. LexLess(nl, f, h) /\ LexLess(nl, h, f)
    BY <1>2, <1>3
  <2>2. \A l \in 1..nl : f[l] \in Nat /\ h[l] \in Nat
    BY <1>2
  <2> QED BY <2>1, <2>2, LexLessOneWay
<1> QED BY <1>1, <1>3

LEMMA AllocationLeast ==
  ASSUME NEW nl \in Nat \ {0, 1}, NEW nd \in Nat \ {0, 1}, NEW r,
         NEW K \in FeasibleNs(nl, nd, r), \A k \in FeasibleNs(nl, nd, r) : K <= k,
         NEW f \in Plans(nl, nd, r, K),
         \A g \in Plans(nl, nd, r, K) \ {f} : LexLess(nl, f, g),
         NEW w, PlanCells(w, nl, nd, r, f)
  PROVE  w = InitialAllocation(nl, nd, r)
<1>1. PICK m : m = InitialMatrix(nl, nd, r)
  OBVIOUS
<1>2. /\ m \in [(1..nl) \X (1..nd) -> Cell]
      /\ \A l \in 1..nl, d \in 1..nd :
           m[<<l, d>>] = IF Compatible(r, l, d) THEN "free" ELSE "X"
  <2>1. nl \in Nat /\ nd \in Nat
    OBVIOUS
  <2>2. InitialCells(InitialMatrix(nl, nd, r), nl, nd, r)
    BY <2>1, InitialMatrixCells
  <2> QED BY <1>1, <2>2 DEF InitialCells
<1>3. PICK Ns : Ns = FeasibleNs(nl, nd, r)
  OBVIOUS
<1>4. (CHOOSE k \in Ns : \A j \in Ns : k <= j) = K
  <2>1. PICK k : k = CHOOSE i \in Ns : \A j \in Ns : i <= j
    OBVIOUS
  <2>2. k \in Ns /\ \A j \in Ns : k <= j
    BY <1>3, <2>1
  <2>3. k <= K /\ K <= k
    BY <1>3, <2>2
  <2>4. k \in Int /\ K \in Int
    BY <1>3, <2>2 DEF FeasibleNs
  <2> QED BY <2>1, <2>3, <2>4
<1>5. LeastPlan(nl, Plans(nl, nd, r, K)) = f
  <2>1. Plans(nl, nd, r, K) \in SUBSET [1..nl -> 1..nd]
    BY DEF Plans
  <2> QED BY <2>1, LeastPlanIs
<1>6. PICK v : v = [c \in DOMAIN m |-> IF m[c] = "free" /\ f[c[1]] = c[2] THEN "Y" ELSE m[c]]
  OBVIOUS
<1>7. InitialAllocation(nl, nd, r) = v
  <2>1. ~(nd = 1 \/ nl = 1) /\ nd > 1 /\ nl > 1 /\ Ns # {}
    BY <1>3
  <2>2. LeastPlan(nl, Plans(nl, nd, r, CHOOSE k \in Ns : \A j \in Ns : k <= j)) = f
    BY <1>4, <1>5
  <2> QED BY <1>1, <1>3, <1>6, <2>1, <2>2 DEF InitialAllocation
<1>8. v \in [(1..nl) \X (1..nd) -> Cell]
  BY <1>2, <1>6 DEF Cell
<1>9. ASSUME NEW l \in 1..nl, NEW d \in 1..nd PROVE w[<<l, d>>] = v[<<l, d>>]
  <2>1. PICK c : c = <<l, d>>
    OBVIOUS
  <2>2. c \in DOMAIN m /\ c[1] = l /\ c[2] = d
    BY <1>2, <2>1
  <2>3. v[c] = IF m[c] = "free" /\ f[l] = d THEN "Y" ELSE m[c]
    BY <1>6, <2>2
  <2>4. m[c] = IF Compatible(r, l, d) THEN "free" ELSE "X"
    BY <1>2, <2>1
  <2>5. w[c] = IF Compatible(r, l, d)
               THEN IF f[l] = d THEN "Y" ELSE "free" ELSE "X"
    BY <2>1 DEF PlanCells
  <2> QED BY <2>1, <2>3, <2>4, <2>5
<1>10. w = v
  BY <1>8, <1>9, SameCells DEF PlanCells
<1> QED BY <1>7, <1>10

\* Level 0 returned False: there is no plan for this N.
LEMMA NextNKeeps ==
  ASSUME MatrixInv, NextN
  PROVE  MatrixInv'
<1> USE DEF Searching
<1>1. /\ Searching /\ level = 1 /\ col[1] > n_duts
      /\ N' = N + 1
      /\ phase' = IF N + 1 <= n_labels THEN "search" ELSE "ready"
      /\ col' = [col EXCEPT ![1] = 1]
      /\ level' = level /\ matrix' = matrix /\ UNCHANGED unchangedBySearch
  BY DEF NextN
<1>2. PICK nl, nd, r : nl = n_labels /\ nd = n_duts /\ r = remote
  OBVIOUS
<1>3. /\ nl \in Nat \ {0, 1} /\ nd \in Nat \ {0, 1}
      /\ matrix \in [(1..nl) \X (1..nd) -> Cell]
      /\ col \in [1..nl -> 1..(nd + 1)]
  BY <1>1, <1>2, ShapeFacts DEF MatrixInv, TypeOK, Labels, SpecialCase
<1>4. /\ N \in InitialN(n_labels, n_duts)..n_labels
      /\ \A K \in InitialN(n_labels, n_duts)..(N - 1) : PlansFor(K) = {}
      /\ \A g \in PlansFor(N) : Ahead(g)
  BY <1>1 DEF MatrixInv, Explored
<1>5. /\ Labels' = Labels /\ Duts' = Duts /\ n_labels' = n_labels /\ n_duts' = n_duts
      /\ remote' = remote /\ InitialN(n_labels, n_duts)' = InitialN(n_labels, n_duts)
  BY <1>1 DEF unchangedBySearch, Labels, Duts
<1>6. /\ N \in 1..nl /\ InitialN(nl, nd) \in 1..nl
  BY <1>2, <1>3, <1>4, InitialNBounds
<1>7. TypeOK'
  <2>1. col' \in [1..nl -> 1..(nd + 1)]
    BY <1>1, <1>3
  <2>2. N' \in 1..(n_labels + 1) /\ phase' \in {"search", "ready"}
    BY <1>1, <1>2, <1>3, <1>6
  <2> QED BY <1>1, <1>2, <1>5, <2>1, <2>2 DEF MatrixInv, TypeOK, unchangedBySearch, Labels
<1>8. \A l \in Labels, d \in Duts : matrix[<<l, d>>] # "Y" /\ matrix[<<l, d>>] # "given"
  <2>1. \A l \in Labels : ~(l < level)
    BY <1>1 DEF Labels
  <2> QED BY <1>1, <2>1 DEF MatrixInv, PlacedCells, SearchAlone
<1>9. PlansFor(N) = {}
  <2> SUFFICES ASSUME NEW g \in PlansFor(N) PROVE FALSE
    OBVIOUS
  <2>1. 1 \in Labels
    BY <1>2, <1>3 DEF Labels
  <2>2. g[1] \in 1..n_duts
    BY <2>1, PlanColumns DEF MatrixInv
  <2>3. ~(g[1] >= col[1])
    BY <1>1, <1>2, <1>3, <2>2
  <2>4. PICK k \in Labels : k < level
    BY <1>1, <1>2, <1>3, <1>4, <2>3 DEF Ahead
  <2> QED BY <1>1, <2>4 DEF Labels
<1>10. \A K \in InitialN(n_labels, n_duts)..N : PlansFor(K) = {}
  <2> SUFFICES ASSUME NEW K \in InitialN(nl, nd)..N PROVE PlansFor(K) = {}
    BY <1>2
  <2>1. K = N \/ K \in InitialN(nl, nd)..(N - 1)
    BY <1>6
  <2> QED BY <1>2, <1>4, <1>9, <2>1
<1>11. IncompatibleCells' /\ SearchAlone' /\ ScanInv' /\ NoneOnlyWhenExhausted'
  BY <1>1, <1>8, SearchStepQuiet
<1>12. PlacedCells'
  <2>1. \A d \in Duts : ColumnYs(matrix, n_labels, d) <= N'
    <3> SUFFICES ASSUME NEW d \in Duts PROVE ColumnYs(matrix, n_labels, d) <= N'
      OBVIOUS
    <3>1. ColumnYs(matrix, n_labels, d) = 0
      BY <1>2, <1>3, <1>8, ColumnYsNone DEF Labels
    <3> QED BY <1>1, <1>6, <3>1
  <2>2. \A l \in Labels : ~(l < level')
    BY <1>1 DEF Labels
  <2> QED BY <1>1, <1>5, <1>8, <2>1, <2>2 DEF PlacedCells
<1>13. Explored'
  <2> SUFFICES ASSUME Searching' PROVE Explored'
    BY DEF Explored
  <2>1. N + 1 <= n_labels
    BY <1>1, <1>2, <1>3, <1>6
  <2>2. N' \in InitialN(n_labels, n_duts)'..n_labels'
    BY <1>1, <1>2, <1>3, <1>4, <1>5, <1>6, <2>1
  <2>3. \A K : PlansFor(K)' = PlansFor(K)
    BY <1>5 DEF PlansFor
  <2>4. N' - 1 = N
    BY <1>1, <1>6
  <2>5. \A K \in InitialN(n_labels, n_duts)'..(N' - 1) : PlansFor(K)' = {}
    BY <1>5, <1>10, <2>3, <2>4
  <2>6. \A l \in Labels' : ~(l < level')
    BY <1>1, <1>5 DEF Labels
  <2>7. ASSUME NEW g \in PlansFor(N') PROVE Ahead(g)'
    <3>1. g[1] \in 1..n_duts
      BY <1>2, <1>3, PlanColumns DEF MatrixInv, Labels
    <3>2. col'[1] = 1
      BY <1>1, <1>3
    <3>3. \A i \in 1..(level' - 1) : g[i] = col'[i]
      BY <1>1
    <3>4. g[level'] >= col'[level']
      BY <1>1, <1>2, <1>3, <3>1, <3>2
    <3> QED BY <3>3, <3>4 DEF Ahead
  <2> QED BY <2>2, <2>3, <2>5, <2>6, <2>7 DEF Explored
<1>14. SearchMatchesReference'
  <2> SUFFICES ASSUME phase' = "ready"
               PROVE  matrix = InitialAllocation(nl, nd, r)
    BY <1>1, <1>2, <1>5 DEF SearchMatchesReference
  <2>1. N = nl
    BY <1>1, <1>2, <1>3, <1>6
  <2>2. FeasibleNs(nl, nd, r) = {}
    BY <1>2, <1>10, <2>1 DEF FeasibleNs, PlansFor
  <2>3. \A l \in 1..nl, d \in 1..nd :
          matrix[<<l, d>>] = IF Compatible(r, l, d) THEN "free" ELSE "X"
    <3> SUFFICES ASSUME NEW l \in 1..nl, NEW d \in 1..nd
                 PROVE  matrix[<<l, d>>] = IF Compatible(r, l, d) THEN "free" ELSE "X"
      OBVIOUS
    <3>1. matrix[<<l, d>>] \in Cell
      BY <1>3
    <3>2. matrix[<<l, d>>] # "Y" /\ matrix[<<l, d>>] # "given"
      BY <1>2, <1>8 DEF Labels, Duts
    <3>3. matrix[<<l, d>>] = "X" <=> ~Compatible(r, l, d)
      BY <1>2 DEF MatrixInv, IncompatibleCells, Labels, Duts
    <3> QED BY <3>1, <3>2, <3>3 DEF Cell
  <2>4. PICK m : m = matrix
    OBVIOUS
  <2>5. InitialCells(m, nl, nd, r)
    BY <1>3, <2>3, <2>4 DEF InitialCells
  <2>6. m = InitialAllocation(nl, nd, r)
    BY <1>3, <2>2, <2>5, AllocationNone
  <2> QED BY <2>4, <2>6
<1> QED BY <1>7, <1>11, <1>12, <1>13, <1>14 DEF MatrixInv

\* The columns of the search are the least plan for the least feasible N.
LEMMA FoundKeeps ==
  ASSUME MatrixInv, Found
  PROVE  MatrixInv'
<1> USE DEF Searching
<1>1. /\ Searching /\ level = n_labels + 1 /\ phase' = "ready"
      /\ N' = N /\ level' = level /\ col' = col /\ matrix' = matrix
      /\ UNCHANGED unchangedBySearch
  BY DEF Found
<1>2. PICK nl, nd, r, f : nl = n_labels /\ nd = n_duts /\ r = remote /\ f = col
  OBVIOUS
<1>3. /\ nl \in Nat \ {0, 1} /\ nd \in Nat \ {0, 1}
      /\ matrix \in [(1..nl) \X (1..nd) -> Cell]
      /\ f \in [1..nl -> 1..(nd + 1)]
  BY <1>1, <1>2, ShapeFacts DEF MatrixInv, TypeOK, Labels, SpecialCase
<1>4. /\ N \in InitialN(n_labels, n_duts)..n_labels
      /\ \A l \in Labels : l < level => col[l] <= n_duts
      /\ \A K \in InitialN(n_labels, n_duts)..(N - 1) : PlansFor(K) = {}
      /\ \A g \in PlansFor(N) : Ahead(g)
  BY <1>1 DEF MatrixInv, Explored
<1>5. /\ Labels' = Labels /\ Duts' = Duts
  BY <1>1 DEF unchangedBySearch, Labels, Duts
<1>6. TypeOK'
  BY <1>1, <1>5 DEF MatrixInv, TypeOK, unchangedBySearch
<1>7. \A l \in Labels, d \in Duts : matrix[<<l, d>>] # "given"
  BY <1>1 DEF MatrixInv, SearchAlone
<1>8. IncompatibleCells' /\ SearchAlone' /\ ScanInv' /\ NoneOnlyWhenExhausted'
  BY <1>1, <1>7, SearchStepQuiet
<1>9. PlacedCells' /\ Explored'
  BY <1>1 DEF PlacedCells, Explored
<1>10. f \in [1..nl -> 1..nd]
  <2>1. \A l \in 1..nl : f[l] <= nd
    BY <1>1, <1>2, <1>3, <1>4 DEF Labels
  <2> QED BY <1>3, <2>1
<1>11. \A l \in 1..nl, d \in 1..nd : matrix[<<l, d>>] = "Y" <=> d = f[l]
  <2>1. \A l \in 1..nl : l < level
    BY <1>1, <1>2, <1>3
  <2>2. \A l \in Labels, d \in Duts :
          matrix[<<l, d>>] = "Y" <=> l < level /\ d = col[l]
    BY <1>1 DEF MatrixInv, PlacedCells
  <2> QED BY <1>2, <2>1, <2>2 DEF Labels, Duts
<1>12. \A l \in 1..nl, d \in 1..nd : matrix[<<l, d>>] = "X" <=> ~Compatible(r, l, d)
  BY <1>2 DEF MatrixInv, IncompatibleCells, Labels, Duts
<1>13. f \in Plans(nl, nd, r, N)
  <2>1. \A l \in 1..nl : Compatible(r, l, f[l])
    BY <1>10, <1>11, <1>12
  <2>2. ASSUME NEW d \in 1..nd PROVE Cardinality({l \in 1..nl : f[l] = d}) <= N
    <3>1. {l \in 1..nl : matrix[<<l, d>>] = "Y"} = {l \in 1..nl : f[l] = d}
      BY <1>11
    <3>2. ColumnYs(matrix, nl, d) <= N
      BY <1>1, <1>2 DEF MatrixInv, PlacedCells, Duts
    <3> QED BY <3>1, <3>2 DEF ColumnYs
  <2> QED BY <1>10, <2>1, <2>2 DEF Plans
<1>14. ASSUME NEW g \in Plans(nl, nd, r, N) \ {f} PROVE LexLess(nl, f, g)
  <2>1. g \in [1..nl -> 1..nd] /\ g # f
    BY DEF Plans
  <2>2. Ahead(g)
    BY <1>2, <1>4 DEF PlansFor
  <2>3. CASE \E k \in Labels : /\ k < level /\ g[k] > col[k]
                               /\ \A i \in 1..(k - 1) : g[i] = col[i]
    <3>1. PICK k \in 1..nl : g[k] > f[k] /\ \A i \in 1..(k - 1) : g[i] = f[i]
      BY <1>2, <2>3 DEF Labels
    <3>2. f[k] < g[k]
      BY <1>10, <2>1, <3>1
    <3> QED BY <3>1, <3>2 DEF LexLess
  <2>4. CASE \A i \in 1..(level - 1) : g[i] = col[i]
    <3>1. \A i \in 1..nl : g[i] = f[i]
      BY <1>1, <1>2, <1>3, <2>4
    <3>2. f = g
      BY <1>3, <1>10, <2>1, <3>1, SamePlan
    <3> QED BY <2>1, <3>2
  <2> QED BY <2>2, <2>3, <2>4 DEF Ahead
<1>15. N \in FeasibleNs(nl, nd, r) /\ \A k \in FeasibleNs(nl, nd, r) : N <= k
  <2>1. N \in FeasibleNs(nl, nd, r)
    BY <1>2, <1>4, <1>13 DEF FeasibleNs
  <2>2. ASSUME NEW k \in FeasibleNs(nl, nd, r) PROVE N <= k
    <3>1. k \in InitialN(nl, nd)..nl /\ PlansFor(k) # {}
      BY <1>2 DEF FeasibleNs, PlansFor
    <3>2. k \notin InitialN(nl, nd)..(N - 1)
      BY <1>2, <1>4, <3>1
    <3>3. InitialN(nl, nd) \in 1..nl /\ N \in Nat
      BY <1>3, InitialNBounds DEF MatrixInv, TypeOK
    <3> QED BY <1>3, <3>1, <3>2, <3>3
  <2> QED BY <2>1, <2>2
<1>16. matrix = InitialAllocation(nl, nd, r)
  <2>1. PICK m, K : m = matrix /\ K = N
    OBVIOUS
  <2>2. \A l \in 1..nl, d \in 1..nd :
          m[<<l, d>>] = IF Compatible(r, l, d)
                        THEN IF f[l] = d THEN "Y" ELSE "free" ELSE "X"
    <3> SUFFICES ASSUME NEW l \in 1..nl, NEW d \in 1..nd
                 PROVE  m[<<l, d>>] = IF Compatible(r, l, d)
                          THEN IF f[l] = d THEN "Y" ELSE "free" ELSE "X"
      OBVIOUS
    <3>1. m[<<l, d>>] \in Cell /\ m[<<l, d>>] # "given"
      BY <1>2, <1>3, <1>7, <2>1 DEF Labels, Duts
    <3>2. /\ m[<<l, d>>] = "Y" <=> d = f[l]
          /\ m[<<l, d>>] = "X" <=> ~Compatible(r, l, d)
      BY <1>11, <1>12, <2>1
    <3> QED BY <3>1, <3>2 DEF Cell
  <2>3. /\ K \in FeasibleNs(nl, nd, r) /\ \A k \in FeasibleNs(nl, nd, r) : K <= k
        /\ f \in Plans(nl, nd, r, K)
        /\ \A g \in Plans(nl, nd, r, K) \ {f} : LexLess(nl, f, g)
    BY <1>3, <1>13, <1>14, <1>15, <2>1
  <2>4. PlanCells(m, nl, nd, r, f)
    BY <1>3, <2>1, <2>2 DEF PlanCells
  <2>5. m = InitialAllocation(nl, nd, r)
    BY <1>3, <2>3, <2>4, AllocationLeast
  <2> QED BY <2>1, <2>5
<1>17. SearchMatchesReference'
  BY <1>1, <1>2, <1>16 DEF SearchMatchesReference, unchangedBySearch
<1> QED BY <1>6, <1>8, <1>9, <1>17 DEF MatrixInv

\* One dut, or one label: every compatible cell is planned.
LEMMA FillSpecialCaseKeeps ==
  ASSUME MatrixInv, FillSpecialCase
  PROVE  MatrixInv'
<1>1. /\ phase = "search" /\ SpecialCase /\ phase' = "ready"
      /\ matrix' = [c \in DOMAIN matrix |-> IF matrix[c] = "X" THEN "X" ELSE "Y"]
      /\ N' = N /\ level' = level /\ col' = col /\ UNCHANGED unchangedBySearch
  BY DEF FillSpecialCase
<1>2. PICK nl, nd, r : nl = n_labels /\ nd = n_duts /\ r = remote
  OBVIOUS
<1>3. /\ nl \in Nat \ {0} /\ nd \in Nat \ {0} /\ (nd = 1 \/ nl = 1)
      /\ matrix \in [(1..nl) \X (1..nd) -> Cell]
  BY <1>1, <1>2, ShapeFacts DEF MatrixInv, SpecialCase
<1>4. Labels' = Labels /\ Duts' = Duts
  BY <1>1 DEF unchangedBySearch, Labels, Duts
<1>5. /\ matrix' \in [(1..nl) \X (1..nd) -> Cell]
      /\ \A l \in 1..nl, d \in 1..nd :
           matrix'[<<l, d>>] = IF matrix[<<l, d>>] = "X" THEN "X" ELSE "Y"
  BY <1>1, <1>3 DEF Cell
<1>6. TypeOK'
  BY <1>1, <1>2, <1>4, <1>5 DEF MatrixInv, TypeOK, unchangedBySearch, Labels, Duts
<1>7. IncompatibleCells' /\ SearchAlone' /\ ScanInv' /\ NoneOnlyWhenExhausted'
  <2>1. \A l \in Labels, d \in Duts :
          matrix'[<<l, d>>] # "given"
            /\ (matrix'[<<l, d>>] = "X" <=> matrix[<<l, d>>] = "X")
    BY <1>2, <1>5 DEF Labels, Duts
  <2> QED BY <1>1, <2>1, SearchStepQuiet
<1>8. PlacedCells' /\ Explored'
  BY <1>1 DEF PlacedCells, Explored, Searching
<1>9. SearchMatchesReference'
  <2>1. PICK m : m = matrix'
    OBVIOUS
  <2>2. FullCells(m, nl, nd, r)
    <3>1. \A l \in 1..nl, d \in 1..nd :
            matrix[<<l, d>>] = "X" <=> ~Compatible(r, l, d)
      BY <1>2 DEF MatrixInv, IncompatibleCells, Labels, Duts
    <3> QED BY <1>5, <2>1, <3>1 DEF FullCells
  <2>3. m = InitialAllocation(nl, nd, r)
    BY <1>3, <2>2, AllocationSpecial
  <2> QED BY <1>1, <1>2, <2>1, <2>3 DEF SearchMatchesReference, unchangedBySearch
<1> QED BY <1>6, <1>7, <1>8, <1>9 DEF MatrixInv

-----------------------------------------------------------------------------
(* allocate()                                                              *)

\* A running scan means that the search is over.
LEMMA ScanIsReady ==
  ASSUME MatrixInv, NEW d \in Duts, scan[d].row # 0
  PROVE  phase = "ready"
BY DEF MatrixInv, TypeOK, SearchAlone, NotScanning

\* Once the search is over only the cells, the scans and what was given matter.
LEMMA ReadyInv ==
  ASSUME MatrixInv, phase = "ready", UNCHANGED unchangedByScan,
         TypeOK', IncompatibleCells', SearchMatchesReference', ScanInv',
         NoneOnlyWhenExhausted'
  PROVE  MatrixInv'
<1>1. phase' = "ready"
  BY DEF unchangedByScan, searchVars
<1>2. PlacedCells' /\ Explored' /\ SearchAlone'
  BY <1>1 DEF PlacedCells, Explored, SearchAlone, Searching
<1> QED BY <1>2 DEF MatrixInv

LEMMA ScanFrame ==
  ASSUME UNCHANGED unchangedByScan
  PROVE  /\ Labels' = Labels /\ Duts' = Duts /\ n_labels' = n_labels
         /\ n_duts' = n_duts /\ remote' = remote /\ pending' = pending
         /\ phase' = phase /\ N' = N /\ level' = level /\ col' = col
BY DEF unchangedByScan, searchVars, Labels, Duts

LEMMA NotScanningType ==
  ASSUME TypeOK
  PROVE  NotScanning \in [row : 0..(n_labels + 1), can : Candidate]
BY ShapeFacts DEF NotScanning, NoCandidate, NoLabel, Candidate

\* The label is compatible with the dut: its cell was free or planned.
LEMMA GiveKeeps ==
  ASSUME MatrixInv, phase = "ready", UNCHANGED unchangedByScan,
         NEW d \in Duts, NEW l \in Labels, matrix[<<l, d>>] \in {"free", "Y"},
         Give(d, l)
  PROVE  MatrixInv'
<1>1. /\ matrix' = [matrix EXCEPT ![<<l, d>>] = "given"]
      /\ label_duts' = [label_duts EXCEPT ![l] = @ + 1]
      /\ given' = [given EXCEPT ![d] = l]
      /\ scan' = [scan EXCEPT ![d] = NotScanning]
  BY DEF Give
<1>2. PICK nl, nd, m : nl = n_labels /\ nd = n_duts /\ m = matrix
  OBVIOUS
<1>3. /\ nl \in Nat \ {0} /\ nd \in Nat \ {0} /\ l \in 1..nl /\ d \in 1..nd
      /\ m \in [(1..nl) \X (1..nd) -> Cell]
  BY <1>2, ShapeFacts DEF MatrixInv, Labels, Duts
<1>4. /\ matrix' \in [Labels \X Duts -> Cell]
      /\ \A k \in Labels, e \in Duts :
           matrix'[<<k, e>>] = IF k = l /\ e = d THEN "given" ELSE matrix[<<k, e>>]
  <2>1. "given" \in Cell
    BY DEF Cell
  <2>2. /\ [m EXCEPT ![<<l, d>>] = "given"] \in [(1..nl) \X (1..nd) -> Cell]
        /\ \A k \in 1..nl, e \in 1..nd :
             [m EXCEPT ![<<l, d>>] = "given"][<<k, e>>] =
               IF k = l /\ e = d THEN "given" ELSE m[<<k, e>>]
    BY <1>3, <2>1, WriteCell
  <2> QED BY <1>1, <1>2, <2>2 DEF Labels, Duts
<1>5. /\ label_duts' \in [Labels -> Nat] /\ label_duts'[l] > 0
      /\ given' \in [Duts -> {NotReturned, NoLabel} \cup Labels]
      /\ \A e \in Duts : given'[e] = IF e = d THEN l ELSE given[e]
      /\ scan' \in [Duts -> [row : 0..(n_labels + 1), can : Candidate]]
      /\ \A e \in Duts : scan'[e] = IF e = d THEN NotScanning ELSE scan[e]
  <2>1. label_duts \in [Labels -> Nat]
    BY DEF MatrixInv, TypeOK
  <2>2. /\ given \in [Duts -> {NotReturned, NoLabel} \cup Labels]
        /\ scan \in [Duts -> [row : 0..(n_labels + 1), can : Candidate]]
        /\ NotScanning \in [row : 0..(n_labels + 1), can : Candidate]
    BY NotScanningType DEF MatrixInv, TypeOK
  <2>3. label_duts' \in [Labels -> Nat] /\ label_duts'[l] > 0
    BY <1>1, <2>1
  <2>4. /\ given' \in [Duts -> {NotReturned, NoLabel} \cup Labels]
        /\ \A e \in Duts : given'[e] = IF e = d THEN l ELSE given[e]
    BY <1>1, <2>2
  <2>5. /\ scan' \in [Duts -> [row : 0..(n_labels + 1), can : Candidate]]
        /\ \A e \in Duts : scan'[e] = IF e = d THEN NotScanning ELSE scan[e]
    BY <1>1, <2>2
  <2> QED BY <2>3, <2>4, <2>5
<1>6. TypeOK'
  BY <1>4, <1>5, ScanFrame DEF MatrixInv, TypeOK
<1>7. IncompatibleCells'
  <2>1. \A k \in Labels, e \in Duts : matrix'[<<k, e>>] = "X" <=> matrix[<<k, e>>] = "X"
    BY <1>4
  <2>2. Compatible(remote, l, d)
    BY DEF MatrixInv, IncompatibleCells
  <2>3. \A e \in Duts : given'[e] \in Labels => Compatible(remote, given'[e], e)
    BY <1>5, <2>2 DEF MatrixInv, IncompatibleCells
  <2> QED BY <2>1, <2>3, ScanFrame DEF MatrixInv, IncompatibleCells
<1>8. SearchMatchesReference'
  <2>1. ~Untouched'
    BY <1>5, ScanFrame DEF Untouched
  <2> QED BY <2>1 DEF SearchMatchesReference
<1>9. ScanInv'
  <2> SUFFICES ASSUME NEW e \in Duts
               PROVE /\ scan'[e].can.label # NoLabel =>
                          scan'[e].can.label \in Labels
                            /\ matrix'[<<scan'[e].can.label, e>>] = "free"
                     /\ \A k \in Labels : k < scan'[e].row =>
                          /\ matrix'[<<k, e>>] = "Y" => pending[k] = 0
                          /\ scan'[e].can.label = NoLabel /\ Compatible(remote, k, e) =>
                               pending[k] = 0 \/ matrix'[<<k, e>>] = "given"
    BY ScanFrame DEF ScanInv
  <2>1. CASE e = d
    <3>1. scan'[e].row = 0 /\ scan'[e].can.label = NoLabel
      BY <1>5, <2>1 DEF NotScanning, NoCandidate
    <3> QED BY <3>1 DEF Labels
  <2>2. CASE e # d
    <3>1. scan'[e] = scan[e]
      BY <1>5, <2>2
    <3>2. \A k \in Labels : matrix'[<<k, e>>] = matrix[<<k, e>>]
      BY <1>4, <2>2
    <3>3. PICK s : s = scan[e]
      OBVIOUS
    <3>4. /\ s.can.label # NoLabel =>
               s.can.label \in Labels /\ matrix[<<s.can.label, e>>] = "free"
          /\ \A k \in Labels : k < s.row =>
               /\ matrix[<<k, e>>] = "Y" => pending[k] = 0
               /\ s.can.label = NoLabel /\ Compatible(remote, k, e) =>
                    pending[k] = 0 \/ matrix[<<k, e>>] = "given"
      BY <3>3 DEF MatrixInv, ScanInv
    <3> QED BY <3>1, <3>2, <3>3, <3>4
  <2> QED BY <2>1, <2>2
<1>10. NoneOnlyWhenExhausted'
  <2> SUFFICES ASSUME NEW e \in Duts, given'[e] = NoLabel,
                      NEW k \in Labels, Compatible(remote, k, e)
               PROVE  pending[k] = 0 \/ matrix'[<<k, e>>] = "given"
    BY ScanFrame DEF NoneOnlyWhenExhausted
  <2>1. l # NoLabel
    BY DEF NoLabel, Labels
  <2>2. e # d
    <3>1. given'[e] = IF e = d THEN l ELSE given[e]
      BY <1>5
    <3> QED BY <2>1, <3>1
  <2> QED BY <1>4, <1>5, <2>2 DEF MatrixInv, NoneOnlyWhenExhausted
<1> QED BY <1>6, <1>7, <1>8, <1>9, <1>10, ReadyInv

LEMMA BeginAllocateKeeps ==
  ASSUME MatrixInv, NEW d \in Duts, BeginAllocate(d)
  PROVE  MatrixInv'
<1>1. /\ phase = "ready" /\ given[d] # NoLabel
      /\ scan' = [scan EXCEPT ![d] = [row |-> 1, can |-> NoCandidate]]
      /\ given' = [given EXCEPT ![d] = NotReturned]
      /\ matrix' = matrix /\ label_duts' = label_duts /\ UNCHANGED unchangedByScan
  BY DEF BeginAllocate
<1>2. /\ given \in [Duts -> {NotReturned, NoLabel} \cup Labels]
      /\ scan \in [Duts -> [row : 0..(n_labels + 1), can : Candidate]]
      /\ [row |-> 1, can |-> NoCandidate] \in [row : 0..(n_labels + 1), can : Candidate]
  BY ShapeFacts DEF MatrixInv, TypeOK, NoCandidate, NoLabel, Candidate
<1>3. /\ given' \in [Duts -> {NotReturned, NoLabel} \cup Labels]
      /\ \A e \in Duts : given'[e] = IF e = d THEN NotReturned ELSE given[e]
  BY <1>1, <1>2
<1>4. /\ scan' \in [Duts -> [row : 0..(n_labels + 1), can : Candidate]]
      /\ \A e \in Duts :
           scan'[e] = IF e = d THEN [row |-> 1, can |-> NoCandidate] ELSE scan[e]
  BY <1>1, <1>2
<1>5. TypeOK'
  BY <1>1, <1>3, <1>4, ScanFrame DEF MatrixInv, TypeOK
<1>6. IncompatibleCells' /\ NoneOnlyWhenExhausted'
  <2>1. NotReturned \notin Labels /\ NotReturned # NoLabel
    BY DEF NotReturned, NoLabel, Labels
  <2> QED BY <1>1, <1>3, <2>1, ScanFrame DEF MatrixInv, IncompatibleCells, NoneOnlyWhenExhausted
<1>7. SearchMatchesReference'
  BY <1>1, ScanFrame DEF MatrixInv, SearchMatchesReference, Untouched
<1>8. ScanInv'
  <2> SUFFICES ASSUME NEW e \in Duts
               PROVE /\ scan'[e].can.label # NoLabel =>
                          scan'[e].can.label \in Labels
                            /\ matrix[<<scan'[e].can.label, e>>] = "free"
                     /\ \A k \in Labels : k < scan'[e].row =>
                          /\ matrix[<<k, e>>] = "Y" => pending[k] = 0
                          /\ scan'[e].can.label = NoLabel /\ Compatible(remote, k, e) =>
                               pending[k] = 0 \/ matrix[<<k, e>>] = "given"
    BY <1>1, ScanFrame DEF ScanInv
  <2>1. CASE e = d
    <3>1. scan'[e].row = 1 /\ scan'[e].can.label = NoLabel
      BY <1>4, <2>1 DEF NoCandidate
    <3> QED BY <3>1 DEF Labels
  <2>2. CASE e # d
    BY <1>4, <2>2 DEF MatrixInv, ScanInv
  <2> QED BY <2>1, <2>2
<1> QED BY <1>1, <1>5, <1>6, <1>7, <1>8, ReadyInv

LEMMA ConsiderFacts ==
  ASSUME NEW can \in Candidate, NEW l \in Nat \ {0}, NEW v \in Cell,
         NEW reimages \in Nat, NEW p \in Nat, NEW w,
         w = Consider(can, l, v, reimages, p)
  PROVE  /\ w \in Candidate
         /\ w = can \/ (w.label = l /\ v = "free")
         /\ w.label = NoLabel => can.label = NoLabel /\ (p = 0 \/ v # "free")
<1>1. PICK c : c = [label |-> l, reimages |-> reimages, pending |-> p]
  OBVIOUS
<1>2. c \in Candidate /\ c.label = l /\ l # NoLabel
  BY <1>1 DEF Candidate, NoLabel
<1>3. CASE p # 0 /\ v = "free" /\ BetterCandidate(can, reimages, p)
  <2>1. w = c
    BY <1>1, <1>3 DEF Consider
  <2> QED BY <1>2, <1>3, <2>1
<1>4. CASE ~(p # 0 /\ v = "free" /\ BetterCandidate(can, reimages, p))
  <2>1. w = can
    BY <1>4 DEF Consider
  <2>2. can.label = NoLabel => BetterCandidate(can, reimages, p)
    BY DEF BetterCandidate
  <2> QED BY <1>4, <2>1, <2>2
<1> QED BY <1>3, <1>4

LEMMA ScanRowKeeps ==
  ASSUME MatrixInv, NEW d \in Duts, ScanRow(d)
  PROVE  MatrixInv'
<1>1. PICK l, v, s : l = scan[d].row /\ v = matrix[<<l, d>>] /\ s = scan[d]
  OBVIOUS
<1>2. /\ l \in Labels /\ UNCHANGED unchangedByScan
      /\ IF Planned(v, pending[l])
         THEN Give(d, l)
         ELSE /\ scan' = [scan EXCEPT ![d] =
                    [row |-> l + 1,
                     can |-> Consider(@.can, l, v, label_duts[l], pending[l])]]
              /\ UNCHANGED <<matrix, label_duts, given>>
  BY <1>1 DEF ScanRow
<1>3. l \in Nat \ {0} /\ l \in 1..n_labels
  BY <1>2 DEF Labels
<1>4. phase = "ready"
  BY <1>1, <1>3, ScanIsReady
<1>5. CASE Planned(v, pending[l])
  <2>1. matrix[<<l, d>>] \in {"free", "Y"}
    BY <1>1, <1>5 DEF Planned
  <2> QED BY <1>2, <1>4, <1>5, <2>1, GiveKeeps
<1>6. CASE ~Planned(v, pending[l])
  <2>1. PICK c, p, q : c = Consider(s.can, l, v, label_duts[l], pending[l])
                         /\ p = pending[l] /\ q = label_duts[l]
    OBVIOUS
  <2>2. /\ scan' = [scan EXCEPT ![d] = [row |-> l + 1, can |-> c]]
        /\ matrix' = matrix /\ label_duts' = label_duts /\ given' = given
    BY <1>1, <1>2, <1>6, <2>1
  <2>3. /\ scan \in [Duts -> [row : 0..(n_labels + 1), can : Candidate]]
        /\ s \in [row : 0..(n_labels + 1), can : Candidate]
    BY <1>1 DEF MatrixInv, TypeOK
  <2>4. v \in Cell
    BY <1>1, <1>2 DEF MatrixInv, TypeOK
  <2>5. p \in Nat /\ q \in Nat
    BY <1>2, <2>1, MaxPendingAssumption DEF MatrixInv, TypeOK
  <2>6. /\ c \in Candidate
        /\ c = s.can \/ (c.label = l /\ v = "free")
        /\ c.label = NoLabel => s.can.label = NoLabel /\ (p = 0 \/ v # "free")
    <3>1. s.can \in Candidate /\ c = Consider(s.can, l, v, q, p)
      BY <2>1, <2>3
    <3> QED BY <1>3, <2>4, <2>5, <3>1, ConsiderFacts
  <2>7. /\ scan' \in [Duts -> [row : 0..(n_labels + 1), can : Candidate]]
        /\ \A e \in Duts :
             scan'[e] = IF e = d THEN [row |-> l + 1, can |-> c] ELSE scan[e]
    <3>1. [row |-> l + 1, can |-> c] \in [row : 0..(n_labels + 1), can : Candidate]
      BY <1>3, <2>6, ShapeFacts DEF MatrixInv
    <3> QED BY <2>2, <2>3, <3>1
  <2>8. TypeOK'
    BY <1>2, <2>2, <2>7, ScanFrame DEF MatrixInv, TypeOK
  <2>9. IncompatibleCells' /\ NoneOnlyWhenExhausted' /\ SearchMatchesReference'
    BY <1>2, <2>2, ScanFrame
       DEF MatrixInv, IncompatibleCells, NoneOnlyWhenExhausted, SearchMatchesReference, Untouched
  <2>10. ScanInv'
    <3> SUFFICES ASSUME NEW e \in Duts
                 PROVE /\ scan'[e].can.label # NoLabel =>
                            scan'[e].can.label \in Labels
                              /\ matrix[<<scan'[e].can.label, e>>] = "free"
                       /\ \A k \in Labels : k < scan'[e].row =>
                            /\ matrix[<<k, e>>] = "Y" => pending[k] = 0
                            /\ scan'[e].can.label = NoLabel /\ Compatible(remote, k, e) =>
                                 pending[k] = 0 \/ matrix[<<k, e>>] = "given"
      BY <1>2, <2>2, ScanFrame DEF ScanInv
    <3>1. CASE e # d
      BY <2>7, <3>1 DEF MatrixInv, ScanInv
    <3>2. CASE e = d
      <4>1. scan'[e].row = l + 1 /\ scan'[e].can = c
        BY <2>7, <3>2
      <4>2. /\ s.can.label # NoLabel =>
                 s.can.label \in Labels /\ matrix[<<s.can.label, d>>] = "free"
            /\ \A k \in Labels : k < l =>
                 /\ matrix[<<k, d>>] = "Y" => pending[k] = 0
                 /\ s.can.label = NoLabel /\ Compatible(remote, k, d) =>
                      pending[k] = 0 \/ matrix[<<k, d>>] = "given"
        BY <1>1 DEF MatrixInv, ScanInv
      <4>3. c.label # NoLabel => c.label \in Labels /\ matrix[<<c.label, d>>] = "free"
        BY <1>1, <1>2, <2>6, <4>2
      <4>4. ASSUME NEW k \in Labels, k < l + 1
            PROVE  /\ matrix[<<k, d>>] = "Y" => pending[k] = 0
                   /\ c.label = NoLabel /\ Compatible(remote, k, d) =>
                        pending[k] = 0 \/ matrix[<<k, d>>] = "given"
        <5>1. CASE k < l
          BY <2>6, <4>2, <5>1
        <5>2. CASE k = l
          <6>1. v = "Y" => p = 0
            BY <1>6, <2>1 DEF Planned
          <6>2. Compatible(remote, l, d) => v # "X"
            BY <1>1, <1>2 DEF MatrixInv, IncompatibleCells
          <6>3. c.label = NoLabel /\ Compatible(remote, l, d) => p = 0 \/ v = "given"
            BY <2>4, <2>6, <6>1, <6>2 DEF Cell
          <6> QED BY <1>1, <2>1, <5>2, <6>1, <6>3
        <5>3. k < l \/ k = l
          BY <1>3, <4>4 DEF Labels
        <5> QED BY <5>1, <5>2, <5>3
      <4> QED BY <3>2, <4>1, <4>3, <4>4
    <3> QED BY <3>1, <3>2
  <2> QED BY <1>2, <1>4, <2>8, <2>9, <2>10, ReadyInv
<1> QED BY <1>5, <1>6

LEMMA EndAllocateKeeps ==
  ASSUME MatrixInv, NEW d \in Duts, EndAllocate(d)
  PROVE  MatrixInv'
<1>1. PICK s : s = scan[d]
  OBVIOUS
<1>2. /\ s.row = n_labels + 1 /\ UNCHANGED unchangedByScan
      /\ IF s.can.label = NoLabel
         THEN /\ given' = [given EXCEPT ![d] = NoLabel]
              /\ scan' = [scan EXCEPT ![d] = NotScanning]
              /\ UNCHANGED <<matrix, label_duts>>
         ELSE Give(d, s.can.label)
  BY <1>1 DEF EndAllocate
<1>3. phase = "ready"
  BY <1>1, <1>2, ShapeFacts, ScanIsReady DEF MatrixInv
<1>4. /\ s.can.label # NoLabel =>
           s.can.label \in Labels /\ matrix[<<s.can.label, d>>] = "free"
      /\ \A k \in Labels : k < s.row =>
           (s.can.label = NoLabel /\ Compatible(remote, k, d) =>
              pending[k] = 0 \/ matrix[<<k, d>>] = "given")
  BY <1>1 DEF MatrixInv, ScanInv
<1>5. CASE s.can.label # NoLabel
  <2>1. PICK l : l = s.can.label
    OBVIOUS
  <2>2. l \in Labels /\ matrix[<<l, d>>] \in {"free", "Y"} /\ Give(d, l)
    BY <1>2, <1>4, <1>5, <2>1
  <2> QED BY <1>2, <1>3, <2>2, GiveKeeps
<1>6. CASE s.can.label = NoLabel
  <2>1. /\ given' = [given EXCEPT ![d] = NoLabel]
        /\ scan' = [scan EXCEPT ![d] = NotScanning]
        /\ matrix' = matrix /\ label_duts' = label_duts
    BY <1>2, <1>6
  <2>2. /\ given' \in [Duts -> {NotReturned, NoLabel} \cup Labels]
        /\ \A e \in Duts : given'[e] = IF e = d THEN NoLabel ELSE given[e]
    BY <2>1 DEF MatrixInv, TypeOK
  <2>3. /\ scan' \in [Duts -> [row : 0..(n_labels + 1), can : Candidate]]
        /\ \A e \in Duts : scan'[e] = IF e = d THEN NotScanning ELSE scan[e]
    BY <2>1, NotScanningType DEF MatrixInv, TypeOK
  <2>4. TypeOK'
    BY <1>2, <2>1, <2>2, <2>3, ScanFrame DEF MatrixInv, TypeOK
  <2>5. IncompatibleCells'
    <3>1. NoLabel \notin Labels
      BY DEF NoLabel, Labels
    <3> QED BY <1>2, <2>1, <2>2, <3>1, ScanFrame DEF MatrixInv, IncompatibleCells
  <2>6. SearchMatchesReference'
    BY <1>2, <2>1, ScanFrame DEF MatrixInv, SearchMatchesReference, Untouched
  <2>7. NoneOnlyWhenExhausted'
    <3> SUFFICES ASSUME NEW e \in Duts, given'[e] = NoLabel,
                        NEW k \in Labels, Compatible(remote, k, e)
                 PROVE  pending[k] = 0 \/ matrix[<<k, e>>] = "given"
      BY <1>2, <2>1, ScanFrame DEF NoneOnlyWhenExhausted
    <3>1. CASE e = d
      <4>1. k < s.row
        BY <1>2, ShapeFacts DEF MatrixInv, Labels
      <4> QED BY <1>4, <1>6, <3>1, <4>1
    <3>2. CASE e # d
      BY <2>2, <3>2 DEF MatrixInv, NoneOnlyWhenExhausted
    <3> QED BY <3>1, <3>2
  <2>8. ScanInv'
    <3> SUFFICES ASSUME NEW e \in Duts
                 PROVE /\ scan'[e].can.label # NoLabel =>
                            scan'[e].can.label \in Labels
                              /\ matrix[<<scan'[e].can.label, e>>] = "free"
                       /\ \A k \in Labels : k < scan'[e].row =>
                            /\ matrix[<<k, e>>] = "Y" => pending[k] = 0
                            /\ scan'[e].can.label = NoLabel /\ Compatible(remote, k, e) =>
                                 pending[k] = 0 \/ matrix[<<k, e>>] = "given"
      BY <1>2, <2>1, ScanFrame DEF ScanInv
    <3>1. CASE e = d
      <4>1. scan'[e].row = 0 /\ scan'[e].can.label = NoLabel
        BY <2>3, <3>1 DEF NotScanning, NoCandidate
      <4> QED BY <4>1 DEF Labels
    <3>2. CASE e # d
      BY <2>3, <3>2 DEF MatrixInv, ScanInv
    <3> QED BY <3>1, <3>2
  <2> QED BY <1>2, <1>3, <2>4, <2>5, <2>6, <2>7, <2>8, ReadyInv
<1> QED BY <1>5, <1>6

\* A br leaves a label: what was used up stays so.
LEMMA DrainKeeps ==
  ASSUME MatrixInv, NEW l \in Labels, Drain(l)
  PROVE  MatrixInv'
<1>1. /\ phase = "ready" /\ phase' = phase /\ pending[l] > 0
      /\ pending' = [pending EXCEPT ![l] = @ - 1]
      /\ n_labels' = n_labels /\ n_duts' = n_duts /\ remote' = remote
      /\ matrix' = matrix /\ label_duts' = label_duts
      /\ N' = N /\ level' = level /\ col' = col
      /\ scan' = scan /\ given' = given
      /\ Labels' = Labels /\ Duts' = Duts
  BY DEF Drain, searchVars, Labels, Duts
<1>2. /\ pending' \in [Labels -> 0..MaxPending]
      /\ \A k \in Labels : pending[k] = 0 => pending'[k] = 0
  <2>1. pending \in [Labels -> 0..MaxPending]
    BY DEF MatrixInv, TypeOK
  <2>2. pending[l] - 1 \in 0..MaxPending
    BY <1>1, <2>1, MaxPendingAssumption
  <2>3. \A k \in Labels : pending'[k] = IF k = l THEN pending[l] - 1 ELSE pending[k]
    BY <1>1, <2>1
  <2> QED BY <1>1, <2>1, <2>2, <2>3
<1>3. TypeOK'
  BY <1>1, <1>2 DEF MatrixInv, TypeOK
<1>4. IncompatibleCells' /\ SearchMatchesReference'
  BY <1>1 DEF MatrixInv, IncompatibleCells, SearchMatchesReference, Untouched
<1>5. PlacedCells' /\ Explored' /\ SearchAlone'
  BY <1>1 DEF PlacedCells, Explored, SearchAlone, Searching
<1>6. ScanInv' /\ NoneOnlyWhenExhausted'
  <2>1. ScanInv'
    BY <1>1, <1>2 DEF MatrixInv, ScanInv
  <2>2. NoneOnlyWhenExhausted'
    BY <1>1, <1>2 DEF MatrixInv, NoneOnlyWhenExhausted
  <2> QED BY <2>1, <2>2
<1> QED BY <1>3, <1>4, <1>5, <1>6 DEF MatrixInv

LEMMA StutterKeepsMatrix ==
  ASSUME MatrixInv, UNCHANGED vars
  PROVE  MatrixInv'
<1>1. /\ n_labels' = n_labels /\ n_duts' = n_duts /\ remote' = remote
      /\ matrix' = matrix /\ label_duts' = label_duts /\ phase' = phase
      /\ N' = N /\ level' = level /\ col' = col /\ pending' = pending
      /\ scan' = scan /\ given' = given
  BY DEF vars, searchVars
<1>2. Labels' = Labels /\ Duts' = Duts
  BY <1>1 DEF Labels, Duts
<1>3. TypeOK' /\ IncompatibleCells'
  BY <1>1, <1>2 DEF MatrixInv, TypeOK, IncompatibleCells
<1>4. PlacedCells' /\ SearchAlone'
  BY <1>1, <1>2
     DEF MatrixInv, PlacedCells, SearchAlone, Searching, SpecialCase, Untouched
<1>5. Explored'
  <2>1. \A K : PlansFor(K)' = PlansFor(K)
    BY <1>1 DEF PlansFor
  <2>2. ASSUME NEW g, Ahead(g) PROVE Ahead(g)'
    BY <1>1, <1>2, <2>2 DEF Ahead
  <2> QED BY <1>1, <1>2, <2>1, <2>2 DEF MatrixInv, Explored, Searching, SpecialCase
<1>6. SearchMatchesReference'
  BY <1>1, <1>2 DEF MatrixInv, SearchMatchesReference, Untouched
<1>7. ScanInv' /\ NoneOnlyWhenExhausted'
  BY <1>1, <1>2 DEF MatrixInv, ScanInv, NoneOnlyWhenExhausted
<1> QED BY <1>3, <1>4, <1>5, <1>6, <1>7 DEF MatrixInv

LEMMA NextKeepsMatrix ==
  ASSUME MatrixInv, [Next]_vars
  PROVE  MatrixInv'
<1>1. CASE Search
  BY <1>1, FillSpecialCaseKeeps, PlaceKeeps, NextColumnKeeps, BacktrackKeeps,
     NextNKeeps, FoundKeeps DEF Search
<1>2. CASE \E d \in Duts : Allocate(d)
  BY <1>2, BeginAllocateKeeps, ScanRowKeeps, EndAllocateKeeps DEF Allocate
<1>3. CASE \E l \in Labels : Drain(l)
  BY <1>3, DrainKeeps
<1>4. CASE UNCHANGED vars
  BY <1>4, StutterKeepsMatrix
<1> QED BY <1>1, <1>2, <1>3, <1>4 DEF Next

-----------------------------------------------------------------------------
(* The theorems                                                            *)

\* MatrixCorrect speaks of the matrix as a function on pairs.
LEMMA MatrixInvImplies ==
  MatrixInv => MatrixCorrect
<1> SUFFICES ASSUME MatrixInv PROVE MatrixCorrect
  OBVIOUS
<1>1. DOMAIN matrix = Labels \X Duts
  BY DEF MatrixInv, TypeOK
<1>2. ASSUME NEW c \in DOMAIN matrix
      PROVE  \E l \in Labels, d \in Duts : c = <<l, d>> /\ c[1] = l /\ c[2] = d
  <2>1. PICK l \in Labels, d \in Duts : c = <<l, d>>
    BY <1>1
  <2>2. c[1] = l /\ c[2] = d
    BY <2>1
  <2> QED BY <2>1, <2>2
<1>3. SearchInv
  <2> SUFFICES ASSUME Searching PROVE SearchInv
    BY DEF SearchInv
  <2>1. /\ \A l \in Labels, d \in Duts :
             matrix[<<l, d>>] = "Y" <=> l < level /\ d = col[l]
        /\ \A d \in Duts : ColumnYs(matrix, n_labels, d) <= N
    BY DEF MatrixInv, PlacedCells
  <2>2. ASSUME NEW c \in DOMAIN matrix
        PROVE  matrix[c] = "Y" <=> c[1] < level /\ c[2] = col[c[1]]
    <3>1. PICK l \in Labels, d \in Duts : c = <<l, d>> /\ c[1] = l /\ c[2] = d
      BY <1>2
    <3> QED BY <2>1, <3>1
  <2> QED BY <2>1, <2>2 DEF SearchInv
<1>4. NeverIncompatible
  <2>1. ASSUME NEW c \in DOMAIN matrix
        PROVE  matrix[c] = "X" <=> ~Compatible(remote, c[1], c[2])
    <3>1. PICK l \in Labels, d \in Duts : c = <<l, d>> /\ c[1] = l /\ c[2] = d
      BY <1>2
    <3>2. matrix[<<l, d>>] = "X" <=> ~Compatible(remote, l, d)
      BY DEF MatrixInv, IncompatibleCells
    <3> QED BY <3>1, <3>2
  <2> QED BY <2>1 DEF MatrixInv, IncompatibleCells, NeverIncompatible
<1> QED BY <1>3, <1>4 DEF MatrixInv, MatrixCorrect

LEMMA MatrixInvHolds ==
  Spec => []MatrixInv
<1>1. Init => MatrixInv
  BY InitMatrixInv
<1>2. MatrixInv /\ [Next]_vars => MatrixInv'
  BY NextKeepsMatrix
<1> QED BY <1>1, <1>2, PTL DEF Spec

\* For matrices of any shape and any remote lists: the backtracking search of
\* compute_initial_allocation() leaves the lexicographically least plan for
\* the least N that has one, or no 'Y' at all when there is none, and neither
\* it nor allocate() ever gives a dut a label that excludes it.
THEOREM MatrixAlwaysCorrect ==
  Spec => []MatrixCorrect
BY MatrixInvHolds, MatrixInvImplies, PTL

\* For any number of labels and of dut workers that call allocate() without a
\* lock while the label lists shrink: a worker that gets None has no compatible
\* label left with a br that it was not given before.
THEOREM NoneMeansExhausted ==
  Spec => []NoneOnlyWhenExhausted
<1>1. MatrixInv => NoneOnlyWhenExhausted
  BY DEF MatrixInv
<1> QED BY <1>1, MatrixInvHolds, PTL

\* The steps that write no '_'.
LEMMA QuietCells ==
  ASSUME MatrixInv, \A c \in DOMAIN matrix : matrix'[c] # "given",
         phase = "search"
  PROVE  CellsAdvance /\ PlanFirst
<1>1. ASSUME NEW c \in DOMAIN matrix PROVE matrix[c] # "given"
  <2>1. PICK l \in Labels, d \in Duts : c = <<l, d>>
    BY DEF MatrixInv, TypeOK
  <2> QED BY <2>1 DEF MatrixInv, SearchAlone
<1>2. CellsAdvance
  BY <1>1 DEF CellsAdvance
<1> QED BY <1>2 DEF PlanFirst

LEMMA SameMatrix ==
  ASSUME MatrixInv, matrix' = matrix
  PROVE  CellsAdvance /\ PlanFirst
BY DEF CellsAdvance, PlanFirst

\* A free cell is given only when its column has no planned cell with a br.
LEMMA GiveCells ==
  ASSUME MatrixInv, NEW d \in Duts, NEW l \in Labels, Give(d, l),
         matrix[<<l, d>>] = "free" =>
           \A k \in Labels : matrix[<<k, d>>] = "Y" => pending[k] = 0
  PROVE  CellsAdvance /\ PlanFirst
<1>1. matrix' = [matrix EXCEPT ![<<l, d>>] = "given"]
  BY DEF Give
<1>2. matrix \in [Labels \X Duts -> Cell]
  BY DEF MatrixInv, TypeOK
<1>3. \A c \in DOMAIN matrix : matrix'[c] = IF c = <<l, d>> THEN "given" ELSE matrix[c]
  BY <1>1, <1>2
<1>4. CellsAdvance
  BY <1>3 DEF CellsAdvance
<1>5. PlanFirst
  <2> SUFFICES ASSUME NEW i \in Labels, NEW e \in Duts,
                      matrix[<<i, e>>] = "free", matrix'[<<i, e>>] = "given"
               PROVE  \A k \in Labels : matrix[<<k, e>>] = "Y" => pending[k] = 0
    BY DEF PlanFirst
  <2>1. <<i, e>> \in DOMAIN matrix
    BY <1>2
  <2>2. <<i, e>> = <<l, d>>
    BY <1>3, <2>1
  <2>3. i = l /\ e = d
    BY <2>2
  <2> QED BY <2>3
<1> QED BY <1>4, <1>5

\* A search step clears or places a 'Y', it never writes a '_'.
LEMMA SearchCells ==
  ASSUME MatrixInv, Search
  PROVE  CellsAdvance /\ PlanFirst
<1>1. CASE FillSpecialCase \/ Place \/ Backtrack
  <2>1. phase = "search"
    BY <1>1 DEF FillSpecialCase, Place, Backtrack, Searching
  <2>2. \A c \in DOMAIN matrix : matrix[c] # "given"
    <3> SUFFICES ASSUME NEW c \in DOMAIN matrix PROVE matrix[c] # "given"
      OBVIOUS
    <3>1. PICK l \in Labels, d \in Duts : c = <<l, d>>
      BY DEF MatrixInv, TypeOK
    <3> QED BY <2>1, <3>1 DEF MatrixInv, SearchAlone
  <2>3. matrix = [c \in Labels \X Duts |-> matrix[c]]
    BY DEF MatrixInv, TypeOK
  <2>4. \A c \in DOMAIN matrix : matrix'[c] # "given"
    <3>1. CASE FillSpecialCase
      BY <3>1 DEF FillSpecialCase
    <3>2. CASE Place
      <4>1. PICK x : matrix' = [matrix EXCEPT ![x] = "Y"]
        BY <3>2 DEF Place
      <4> QED BY <2>2, <2>3, <4>1
    <3>3. CASE Backtrack
      <4>1. PICK x : matrix' = [matrix EXCEPT ![x] = "free"]
        BY <3>3 DEF Backtrack
      <4> QED BY <2>2, <2>3, <4>1
    <3> QED BY <1>1, <3>1, <3>2, <3>3
  <2> QED BY <2>1, <2>4, QuietCells
<1>2. CASE NextColumn \/ NextN \/ Found
  BY <1>2, SameMatrix DEF NextColumn, NextN, Found
<1> QED BY <1>1, <1>2 DEF Search

LEMMA AllocateCells ==
  ASSUME MatrixInv, NEW d \in Duts, Allocate(d)
  PROVE  CellsAdvance /\ PlanFirst
<1>1. CASE BeginAllocate(d)
  BY <1>1, SameMatrix DEF BeginAllocate
<1>2. CASE ScanRow(d)
  <2>1. PICK l, v : /\ l = scan[d].row /\ v = matrix[<<l, d>>] /\ l \in Labels
                    /\ IF Planned(v, pending[l]) THEN Give(d, l) ELSE matrix' = matrix
    BY <1>2 DEF ScanRow
  <2>2. CASE Planned(v, pending[l])
    <3>1. matrix[<<l, d>>] # "free" /\ Give(d, l)
      BY <2>1, <2>2 DEF Planned
    <3> QED BY <2>1, <3>1, GiveCells
  <2>3. CASE ~Planned(v, pending[l])
    BY <2>1, <2>3, SameMatrix
  <2> QED BY <2>2, <2>3
<1>3. CASE EndAllocate(d)
  <2>1. PICK s : s = scan[d]
    OBVIOUS
  <2>2. CASE s.can.label = NoLabel
    BY <1>3, <2>1, <2>2, SameMatrix DEF EndAllocate
  <2>3. CASE s.can.label # NoLabel
    <3>1. PICK l : l = s.can.label
      OBVIOUS
    <3>2. l \in Labels /\ Give(d, l) /\ s.row = n_labels + 1
      BY <1>3, <2>1, <2>3, <3>1 DEF EndAllocate, MatrixInv, ScanInv
    <3>3. ASSUME NEW k \in Labels, matrix[<<k, d>>] = "Y" PROVE pending[k] = 0
      <4>1. k < s.row
        BY <3>2, ShapeFacts DEF MatrixInv, Labels
      <4> QED BY <2>1, <3>3, <4>1 DEF MatrixInv, ScanInv
    <3> QED BY <3>2, <3>3, GiveCells
  <2> QED BY <2>2, <2>3
<1> QED BY <1>1, <1>2, <1>3 DEF Allocate

\* For any number of labels and duts: a label given to a dut is never taken
\* back, no cell is planned once the search is over, and allocate() leaves the
\* plan only when no planned label of the dut has a br.
THEOREM AllocateKeepsThePlan ==
  Spec => AllocateSteps
<1>1. MatrixInv /\ [Next]_vars => [CellsAdvance /\ PlanFirst]_vars
  <2> SUFFICES ASSUME MatrixInv, Next PROVE CellsAdvance /\ PlanFirst
    OBVIOUS
  <2>1. CASE Search
    BY <2>1, SearchCells
  <2>2. CASE \E d \in Duts : Allocate(d)
    BY <2>2, AllocateCells
  <2>3. CASE \E l \in Labels : Drain(l)
    BY <2>3, SameMatrix DEF Drain
  <2> QED BY <2>1, <2>2, <2>3 DEF Next
<1> QED BY <1>1, MatrixInvHolds, PTL DEF Spec, AllocateSteps

=============================================================================
