---------------------------- MODULE ImageMatrix ----------------------------
(***************************************************************************)
(* The label x dut matrix of crosperf's MachineImageManager                *)
(* (crosperf/machine_image_manager.py) as constant-level operators: the    *)
(* cells, compatibility, what compute_initial_allocation() must produce,   *)
(* and one row of the scan that allocate() makes.  MachineImageManager     *)
(* steps through the search and the scan; Schedv2 starts from the          *)
(* allocation this module defines and scans with the same operators.       *)
(*                                                                         *)
(* Labels are 1..nl and duts 1..nd, their ordinals in the code plus one.   *)
(* remote[l] is label.remote as a set of duts; {} stands for None or [],   *)
(* "universal compatible".                                                 *)
(***************************************************************************)
EXTENDS Integers, FiniteSets

\* The code's ' ', 'X' (incompatible), 'Y' (planned) and '_' (given to the dut).
Cell == {"free", "X", "Y", "given"}

NoLabel == 0

Compatible(remote, l, d) == remote[l] = {} \/ d \in remote[l]

\* __init__: 'X' where the label names its duts and this dut is not one.
InitialMatrix(nl, nd, remote) ==
  [c \in (1..nl) \X (1..nd) |->
     IF Compatible(remote, c[1], c[2]) THEN "free" ELSE "X"]

\* The number of Ys in column d: the reduce() over matrix_vertical_generator.
ColumnYs(m, nl, d) == Cardinality({l \in 1..nl : m[<<l, d>>] = "Y"})

\* The N from which compute_initial_allocation starts.
InitialN(nl, nd) == IF nd >= nl THEN 1 ELSE nl - nd + 1

-----------------------------------------------------------------------------
(* The reference for compute_initial_allocation: what it must find.        *)

\* Plans: one compatible dut per label, at most N labels per dut.
Plans(nl, nd, remote, N) ==
  {f \in [1..nl -> 1..nd] :
     /\ \A l \in 1..nl : Compatible(remote, l, f[l])
     /\ \A d \in 1..nd : Cardinality({l \in 1..nl : f[l] = d}) <= N}

LexLess(nl, f, g) ==
  \E l \in 1..nl : f[l] < g[l] /\ \A k \in 1..(l - 1) : f[k] = g[k]

LeastPlan(nl, P) == CHOOSE f \in P : \A g \in P \ {f} : LexLess(nl, f, g)

\* The Ns the search tries and that have a plan.
FeasibleNs(nl, nd, remote) ==
  {N \in InitialN(nl, nd)..nl : Plans(nl, nd, remote, N) # {}}

\* The matrix compute_initial_allocation leaves behind: every compatible cell
\* planned when there is one dut or one label, otherwise the lexicographically
\* least plan for the least feasible N, otherwise the initial matrix.
InitialAllocation(nl, nd, remote) ==
  LET m  == InitialMatrix(nl, nd, remote)
      Ns == FeasibleNs(nl, nd, remote)
      f  == LeastPlan(nl, Plans(nl, nd, remote,
                                CHOOSE N \in Ns : \A k \in Ns : N <= k))
  IN  CASE nd = 1 \/ nl = 1 -> [c \in DOMAIN m |-> IF m[c] = "free" THEN "Y" ELSE m[c]]
        [] nd > 1 /\ nl > 1 /\ Ns # {} ->
             [c \in DOMAIN m |-> IF m[c] = "free" /\ f[c[1]] = c[2] THEN "Y" ELSE m[c]]
        [] OTHER -> m

-----------------------------------------------------------------------------
(* allocate(): the candidate kept while column j is scanned.               *)

Candidate == [label : Nat, reimages : Nat, pending : Nat]

\* can_label = None, can_reimage_number = 999, can_pending_br_num = 0.
NoCandidate == [label |-> NoLabel, reimages |-> 999, pending |-> 0]

\* A free cell replaces the candidate when its label has been imaged onto
\* fewer duts, or onto as many and has at least as many pending brs.
BetterCandidate(can, reimages, pending) ==
  \/ can.label = NoLabel
  \/ reimages < can.reimages
  \/ reimages = can.reimages /\ pending >= can.pending

\* Mutant: heuristic (B) of the code's comment, with 1 for 5.
MutConsider(can, l, v, reimages, pending) ==
  IF /\ pending > (IF reimages >= 1 THEN 1 ELSE 0)
     /\ v = "free" /\ BetterCandidate(can, reimages, pending)
  THEN [label |-> l, reimages |-> reimages, pending |-> pending]
  ELSE can

\* The candidate after row l with cell v; a label with no pending br is passed.
Consider(can, l, v, reimages, pending) ==
  IF pending # 0 /\ v = "free" /\ BetterCandidate(can, reimages, pending)
  THEN [label |-> l, reimages |-> reimages, pending |-> pending]
  ELSE can

\* Mutant: a plan is followed only for more than one pending br.
MutPlanned(v, pending) == pending > 1 /\ v = "Y"

\* A 'Y' row with pending brs ends the scan at once.
Planned(v, pending) == pending # 0 /\ v = "Y"
=============================================================================
