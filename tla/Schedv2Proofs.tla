--------------------------- MODULE Schedv2Proofs ----------------------------
(***************************************************************************)
(* Schedv2's safety properties hold for any number of duts, labels and     *)
(* benchmark_runs: IndInv (Schedv2Inv) is established by __init__ and kept *)
(* by every step of every thread, and implies them.  Types, control points *)
(* and _active_workers come first, then where the brs are.  What an action *)
(* does to the one worker that takes it is a lemma before its step.        *)
(***************************************************************************)
EXTENDS Schedv2Inv, SequenceTheorems, FiniteSetTheorems, TLAPS

-----------------------------------------------------------------------------
(* list.remove                                                             *)

\* Removing an element closes the gap: what was behind it moves up by one.
LEMMA ListRemoveProperties ==
  ASSUME NEW S, NEW s \in Seq(S), NEW x, NEW i \in 1..Len(s), s[i] = x,
         \A j, k \in 1..Len(s) : s[j] = s[k] => j = k
  PROVE  /\ ListRemove(s, x) \in Seq(S)
         /\ Len(ListRemove(s, x)) = Len(s) - 1
         /\ \A k \in 1..(Len(s) - 1) :
              ListRemove(s, x)[k] = IF k < i THEN s[k] ELSE s[k + 1]
PROOF
<1> DEFINE P(k) == s[k] = x /\ \A j \in 1..(k - 1) : s[j] # x
           c == CHOOSE k \in 1..Len(s) : P(k)
           u == SubSeq(s, 1, i - 1)
           v == SubSeq(s, i + 1, Len(s))
<1>1. Len(s) \in Nat
  BY LenProperties
<1>2. P(i)
  BY <1>1
<1>3. c \in 1..Len(s) /\ P(c)
  BY <1>2
<1>4. c = i
  BY <1>3
<1>5. ListRemove(s, x) = u \o v
  BY <1>4 DEF ListRemove
<1>6. u \in Seq(S) /\ Len(u) = i - 1 /\ \A k \in 1..(i - 1) : u[k] = s[k]
  BY <1>1, SubSeqProperties
<1>7. v \in Seq(S) /\ Len(v) = Len(s) - i /\ \A k \in 1..(Len(s) - i) : v[k] = s[i + k]
  BY <1>1, SubSeqProperties
<1> HIDE DEF u, v
<1>8. /\ u \o v \in Seq(S)
      /\ Len(u \o v) = Len(u) + Len(v)
      /\ \A k \in 1..(Len(u) + Len(v)) :
           (u \o v)[k] = IF k <= Len(u) THEN u[k] ELSE v[k - Len(u)]
  <2>1. u \in Seq(S) /\ v \in Seq(S)
    BY <1>6, <1>7
  <2>2. QED
    BY <2>1, ConcatProperties
<1>9. Len(u \o v) = Len(s) - 1
  BY <1>1, <1>6, <1>7, <1>8
<1>10. ASSUME NEW k \in 1..(Len(s) - 1)
       PROVE  (u \o v)[k] = IF k < i THEN s[k] ELSE s[k + 1]
  <2>1. CASE k < i
    BY <2>1, <1>1, <1>6, <1>7, <1>8
  <2>2. CASE k >= i
    <3>1. k - Len(u) \in 1..(Len(s) - i) /\ i + (k - Len(u)) = k + 1
      BY <2>2, <1>1, <1>6
    <3>2. (u \o v)[k] = v[k - Len(u)]
      BY <2>2, <1>1, <1>6, <1>7, <1>8
    <3>3. QED
      BY <3>1, <3>2, <2>2, <1>7
  <2>3. i \in Int /\ k \in Int
    BY <1>1
  <2>4. k < i \/ k >= i
    BY <2>3
  <2>5. QED
    BY <2>1, <2>2, <2>4
<1>11. QED
  BY <1>5, <1>8, <1>9, <1>10

-----------------------------------------------------------------------------
(* Types.                                                                  *)

\* A jump goes to a control point.
LEMMA GotoType ==
  ASSUME TypeOK, NEW d \in Duts, NEW from, NEW to \in WorkerPc, Goto(d, from, to)
  PROVE  pc' \in [Duts -> WorkerPc]
BY DEF TypeOK, Goto

\* So does leaving the loop, which also notes a reason.
LEMMA LeaveType ==
  ASSUME TypeOK, NEW d \in Duts, NEW from, NEW why \in EndReason, Leave(d, from, why)
  PROVE  /\ pc' \in [Duts -> WorkerPc]
         /\ ended' \in [Duts -> EndReason]
BY DEF TypeOK, Leave, Goto, WorkerPc

ScanType == [row : 0..(NLabels + 1), can : Candidate]

\* The locals of allocate() outside a scan have their type.
LEMMA NotScanningType ==
  NotScanning \in ScanType
BY SizeAssumption DEF NotScanning, NoCandidate, Candidate, NoLabel, ScanType

\* allocate() returning a label keeps the types of what it writes.
LEMMA GiveType ==
  ASSUME TypeOK, NEW d \in Duts, NEW l \in Labels, Give(d, l)
  PROVE  /\ pc' \in [Duts -> WorkerPc]
         /\ matrix' \in [Labels \X Duts -> Cell]
         /\ label_duts' \in [Labels -> Nat]
         /\ goal' \in [Duts -> Labels \cup {NoLabel}]
         /\ scan' \in [Duts -> ScanType]
         /\ ended' \in [Duts -> EndReason]
PROOF
<1>1. pc' \in [Duts -> WorkerPc]
  BY GotoType DEF Give, WorkerPc
<1>2. matrix' \in [Labels \X Duts -> Cell]
  BY DEF TypeOK, Give, Cell
<1>3. label_duts' \in [Labels -> Nat]
  <2>1. label_duts \in [Labels -> Nat] /\ label_duts' = [label_duts EXCEPT ![l] = @ + 1]
    BY DEF TypeOK, Give
  <2>2. QED
    BY <2>1
<1>4. /\ goal' \in [Duts -> Labels \cup {NoLabel}]
      /\ ended' \in [Duts -> EndReason]
  BY DEF TypeOK, Give
<1>5. scan' \in [Duts -> ScanType]
  BY NotScanningType DEF TypeOK, Give, ScanType
<1>6. QED
  BY <1>1, <1>2, <1>3, <1>4, <1>5

\* Releasing the lock of the "with" does too.
LEMMA ReleaseType ==
  ASSUME TypeOK, NEW d \in Duts, LockId(d) \in Labels \X Duts, ReleaseLock(d)
  PROVE  /\ lock_holder' \in [Labels \X Duts -> Duts \cup {NoDut}]
         /\ lock' \in [Duts -> Duts \cup {NoDut}]
BY DEF TypeOK, ReleaseLock

\* What a worker begins is added to its list after terminate().
LEMMA CountLateType ==
  ASSUME TypeOK, NEW d \in Duts, NEW work \in Begun, CountLate(d, work)
  PROVE  /\ late' \in [Duts -> Seq(Begun)]
         /\ late'[d] = IF sched_terminated THEN Append(late[d], work) ELSE late[d]
         /\ \A e \in Duts \ {d} : late'[e] = late[e]
PROOF
<1>1. late \in [Duts -> Seq(Begun)]
  BY DEF TypeOK
<1>2. Append(late[d], work) \in Seq(Begun)
  BY <1>1
<1>3. QED
  BY <1>1, <1>2 DEF CountLate

LEMMA BegunWork == "cached" \in Begun /\ "br" \in Begun /\ "reimage" \in Begun
BY DEF Begun

\* A br that is run is counted.
LEMMA CountRunType ==
  ASSUME TypeOK, NEW b \in Brs, runs' = [runs EXCEPT ![b] = @ + 1]
  PROVE  runs' \in [Brs -> Nat]
PROOF
<1>1. runs \in [Brs -> Nat]
  BY DEF TypeOK
<1>2. QED
  BY <1>1

\* The row after a label's is a row or the end of the scan.
LEMMA NextRow ==
  ASSUME NEW l \in Labels
  PROVE  l \in Nat /\ l + 1 \in 1..(NLabels + 1)
BY SizeAssumption DEF Labels

\* Every step of a worker keeps the types.
LEMMA WorkerType ==
  ASSUME TypeOK, Control, WorkerList, NEW d \in Duts, Worker(d)
  PROVE  TypeOK'
PROOF
<1> USE DEF TypeOK, schedVars, mimVars, dutVars, brVars, mainVars, localVars
<1>1. CASE GetCachedBenchmarkRun(d)
  <2>1. pc' \in [Duts -> WorkerPc]
    BY <1>1, GotoType DEF GetCachedBenchmarkRun, WorkerPc
  <2>2. CASE \E b \in cached_br_list :
               /\ cached_br_list' = cached_br_list \ {b}
               /\ br' = [br EXCEPT ![d] = b]
    <3>1. cached_br_list' \subseteq Brs /\ br' \in [Duts -> Brs \cup {NoBr}]
      BY <2>2
    <3>2. QED
      BY <1>1, <2>1, <3>1 DEF GetCachedBenchmarkRun
  <2>3. CASE UNCHANGED <<cached_br_list, br>>
    BY <1>1, <2>1, <2>3 DEF GetCachedBenchmarkRun
  <2>4. QED
    BY <1>1, <2>2, <2>3 DEF GetCachedBenchmarkRun
<1>2. CASE RunCached(d)
  <2>1. br[d] \in Brs
    BY <1>2 DEF RunCached, Goto, Control, Known, BrKnown
  <2>2. pc' \in [Duts -> WorkerPc]
    BY <1>2, GotoType DEF RunCached, WorkerPc
  <2>3. runs' \in [Brs -> Nat] /\ br' \in [Duts -> Brs \cup {NoBr}]
    BY <1>2, <2>1, CountRunType DEF RunCached
  <2>4. late' \in [Duts -> Seq(Begun)]
    BY <1>2, CountLateType, BegunWork DEF RunCached
  <2>5. QED
    BY <1>2, <2>2, <2>3, <2>4 DEF RunCached
<1>3. CASE SetupDutLabel(d)
  <2>1. pc' \in [Duts -> WorkerPc]
    BY <1>3, GotoType DEF SetupDutLabel, WorkerPc
  <2>2. CASE UNCHANGED dut_label
    BY <1>3, <2>1, <2>2 DEF SetupDutLabel
  <2>3. CASE \E l \in Labels : dut_label' = [dut_label EXCEPT ![d] = l]
    <3>1. dut_label' \in [Duts -> Labels \cup {NoLabel}]
      BY <2>3
    <3>2. QED
      BY <1>3, <2>1, <3>1 DEF SetupDutLabel
  <2>4. QED
    BY <1>3, <2>2, <2>3, ChecksummedAssumption DEF SetupDutLabel, Preinstalled
<1>4. CASE LoopTest(d)
  <2>1. pc' \in [Duts -> WorkerPc] /\ ended' \in [Duts -> EndReason]
    BY <1>4, GotoType, LeaveType DEF LoopTest, WorkerPc, EndReason
  <2>2. QED
    BY <1>4, <2>1 DEF LoopTest, unchangedByGet
<1>5. CASE GetBenchmarkRun(d)
  <2>1. pc' \in [Duts -> WorkerPc]
    BY <1>5, GotoType DEF GetBenchmarkRun, WorkerPc
  <2>2. QED
    BY <1>5, <2>1 DEF GetBenchmarkRun, unchangedByGet
<1>6. CASE LockLookup(d)
  <2>1. pc' \in [Duts -> WorkerPc]
    BY <1>6, GotoType DEF LockLookup, WorkerPc
  <2>2. dut_label[d] \in Labels
    BY <1>6 DEF LockLookup, Control, Known, LabelKnown
  <2>3. lock' \in [Duts -> Duts \cup {NoDut}]
    BY <1>6, <2>2 DEF LockLookup
  <2>4. QED
    BY <1>6, <2>1, <2>3 DEF LockLookup, unchangedByGet
<1>7. CASE MakeLock(d)
  <2>1. pc' \in [Duts -> WorkerPc]
    BY <1>7, GotoType DEF MakeLock, WorkerPc
  <2>2. lock' \in [Duts -> Duts \cup {NoDut}]
    BY <1>7 DEF MakeLock
  <2>3. lock_map' \in [Labels -> Duts \cup {NoDut}]
    BY <1>7 DEF MakeLock
  <2>4. QED
    BY <1>7, <2>1, <2>2, <2>3 DEF MakeLock, unchangedByGet
<1>8. CASE AcquireLock(d)
  <2>1. pc' \in [Duts -> WorkerPc]
    BY <1>8, GotoType DEF AcquireLock, WorkerPc
  <2>2. lock_holder' \in [Labels \X Duts -> Duts \cup {NoDut}]
    BY <1>8 DEF AcquireLock
  <2>3. QED
    BY <1>8, <2>1, <2>2 DEF AcquireLock, unchangedByGet
<1>9. CASE CheckList(d)
  <2>1. pc' \in [Duts -> WorkerPc]
    BY <1>9, GotoType DEF CheckList, WorkerPc
  <2>2. LockId(d) \in Labels \X Duts
    BY <1>9 DEF CheckList, Control, Known, LabelKnown, LockKnown, LockId
  <2>3. CASE ReleaseLock(d)
    BY <1>9, <2>1, <2>2, <2>3, ReleaseType DEF CheckList, ReleaseLock, unchangedByGet
  <2>4. CASE UNCHANGED <<schedVars, lock>>
    BY <1>9, <2>1, <2>4 DEF CheckList, unchangedByGet
  <2>5. QED
    BY <1>9, <2>3, <2>4 DEF CheckList
<1>10. CASE PopBenchmarkRun(d)
  <2> DEFINE l   == dut_label[d]
             brl == label_brl_map[l]
  <2>1. l \in Labels /\ lock[d] \in Duts /\ brl \in Seq(Brs)
    BY <1>10 DEF PopBenchmarkRun, Control, Known, LabelKnown, LockKnown
  <2>2. pc' \in [Duts -> WorkerPc] /\ ended' \in [Duts -> EndReason]
    BY <1>10, GotoType, LeaveType DEF PopBenchmarkRun, WorkerPc, EndReason
  <2>3. /\ lock_holder' \in [Labels \X Duts -> Duts \cup {NoDut}]
        /\ lock' \in [Duts -> Duts \cup {NoDut}]
    BY <1>10, <2>1, ReleaseType DEF PopBenchmarkRun, LockId
  <2>4. brl # <<>> => Head(brl) \in Brs /\ Tail(brl) \in Seq(Brs)
    BY <2>1, HeadTailProperties
  <2>5. /\ label_brl_map' \in [Labels -> Seq(Brs)]
        /\ br' \in [Duts -> Brs \cup {NoBr}]
    BY <1>10, <2>1, <2>4 DEF PopBenchmarkRun
  <2>6. QED
    BY <1>10, <2>2, <2>3, <2>5 DEF PopBenchmarkRun, ReleaseLock, unchangedByGet
<1>11. CASE ExecCheck(d)
  <2>1. pc' \in [Duts -> WorkerPc]
    BY <1>11, GotoType DEF ExecCheck, WorkerPc
  <2>2. br' \in [Duts -> Brs \cup {NoBr}]
    BY <1>11 DEF ExecCheck
  <2>3. owner' \in [Brs -> Duts \cup {NoDut}]
    BY <1>11 DEF ExecCheck
  <2>4. QED
    BY <1>11, <2>1, <2>2, <2>3 DEF ExecCheck, unchangedByExec
<1>12. CASE Activate(d)
  <2>1. pc' \in [Duts -> WorkerPc]
    BY <1>12, GotoType DEF Activate, WorkerPc
  <2>2. active_br' \in [Duts -> Brs \cup {NoBr}]
    BY <1>12 DEF Activate
  <2>3. QED
    BY <1>12, <2>1, <2>2 DEF Activate, unchangedByExec
<1>13. CASE StartRun(d)
  <2>1. pc' \in [Duts -> WorkerPc]
    BY <1>13, GotoType DEF StartRun, WorkerPc
  <2>2. runs' \in [Brs -> Nat]
    BY <1>13, CountRunType DEF StartRun, Goto, Control, Known, BrKnown, Holding
  <2>3. late' \in [Duts -> Seq(Begun)]
    BY <1>13, CountLateType, BegunWork DEF StartRun
  <2>4. QED
    BY <1>13, <2>1, <2>2, <2>3 DEF StartRun, unchangedByExec
<1>14. CASE FinishRun(d)
  <2>1. PICK raised \in BOOLEAN, hit \in BOOLEAN :
          /\ Goto(d, "running", IF raised THEN "clearraise" ELSE "clear")
          /\ num_complete' = num_complete + 1
          /\ num_run_complete' = IF hit THEN num_run_complete ELSE num_run_complete + 1
    BY <1>14 DEF FinishRun
  <2>2. pc' \in [Duts -> WorkerPc]
    BY <2>1, GotoType DEF WorkerPc
  <2>3. num_complete' \in Nat /\ num_run_complete' \in Nat
    BY <2>1
  <2>4. QED
    BY <1>14, <2>2, <2>3 DEF FinishRun, unchangedByExec
<1>15. CASE ClearActive(d)
  <2>1. pc' \in [Duts -> WorkerPc] /\ ended' \in [Duts -> EndReason]
    BY <1>15, GotoType, LeaveType DEF ClearActive, WorkerPc, EndReason
  <2>2. /\ active_br' \in [Duts -> Brs \cup {NoBr}]
        /\ br' \in [Duts -> Brs \cup {NoBr}]
    BY <1>15 DEF ClearActive
  <2>3. QED
    BY <1>15, <2>1, <2>2 DEF ClearActive, unchangedByExec
<1>16. CASE AllocateLabel(d)
  <2>1. pc' \in [Duts -> WorkerPc] /\ ended' \in [Duts -> EndReason]
    BY <1>16, GotoType, LeaveType DEF AllocateLabel, WorkerPc, EndReason
  <2>2. [row |-> 1, can |-> NoCandidate] \in ScanType
    BY SizeAssumption DEF NoCandidate, Candidate, NoLabel, ScanType
  <2>3. scan' \in [Duts -> ScanType]
    BY <1>16, <2>2 DEF AllocateLabel, ScanType
  <2>4. QED
    BY <1>16, <2>1, <2>3 DEF AllocateLabel, unchangedByAlloc, ScanType
<1>17. CASE ScanRow(d)
  <2> DEFINE l == scan[d].row
             v == matrix[<<l, d>>]
             c == Consider(scan[d].can, l, v, label_duts[l], Len(label_brl_map[l]))
  <2>1. l \in Labels
    BY <1>17 DEF ScanRow
  <2>2. CASE Give(d, l)
    BY <1>17, <2>1, <2>2, GiveType DEF ScanRow, Give, unchangedByAlloc, ScanType
  <2>3. CASE /\ scan' = [scan EXCEPT ![d] = [row |-> l + 1, can |-> c]]
             /\ UNCHANGED <<pc, mimVars, goal, ended>>
    <3>1. Len(label_brl_map[l]) \in Nat /\ label_duts[l] \in Nat
      BY <2>1, LenProperties
    <3>2. l \in Nat /\ l + 1 \in 0..(NLabels + 1)
      BY <2>1, NextRow
    <3>3. c \in Candidate
      BY <3>1, <3>2 DEF Consider, Candidate
    <3>4. scan' \in [Duts -> ScanType]
      BY <2>3, <3>2, <3>3 DEF ScanType
    <3>5. QED
      BY <1>17, <2>3, <3>4 DEF ScanRow, unchangedByAlloc, ScanType
  <2>4. QED
    BY <1>17, <2>2, <2>3 DEF ScanRow
<1>18. CASE EndScan(d)
  <2>1. CASE scan[d].can.label # NoLabel /\ Give(d, scan[d].can.label)
    <3>1. scan[d].can.label \in Labels
      BY <2>1 DEF Control, Known, ScanKnown
    <3>2. QED
      BY <1>18, <2>1, <3>1, GiveType DEF EndScan, unchangedByAlloc, ScanType
  <2>2. CASE /\ Leave(d, "scan", "exhausted")
             /\ scan' = [scan EXCEPT ![d] = NotScanning]
             /\ UNCHANGED <<mimVars, goal>>
    <3>1. pc' \in [Duts -> WorkerPc] /\ ended' \in [Duts -> EndReason]
      BY <2>2, LeaveType DEF EndReason
    <3>2. scan' \in [Duts -> ScanType]
      BY <2>2, NotScanningType DEF ScanType
    <3>3. QED
      BY <1>18, <2>2, <3>1, <3>2 DEF EndScan, unchangedByAlloc, ScanType
  <2>3. QED
    BY <1>18, <2>1, <2>2 DEF EndScan
<1>19. CASE ReimageCheck(d)
  <2>1. pc' \in [Duts -> WorkerPc] /\ ended' \in [Duts -> EndReason]
    BY <1>19, GotoType, LeaveType DEF ReimageCheck, WorkerPc, EndReason
  <2>2. late' \in [Duts -> Seq(Begun)]
    BY <1>19, CountLateType, BegunWork DEF ReimageCheck
  <2>3. goal' \in [Duts -> Labels \cup {NoLabel}]
    BY <1>19 DEF ReimageCheck
  <2>4. dut_label' \in [Duts -> Labels \cup {NoLabel}]
    BY <1>19 DEF ReimageCheck
  <2>5. QED
    BY <1>19, <2>1, <2>2, <2>3, <2>4 DEF ReimageCheck, unchangedByReimage
<1>20. CASE BeginImage(d)
  <2>1. pc' \in [Duts -> WorkerPc]
    BY <1>20, GotoType DEF BeginImage, WorkerPc
  <2>2. image_lock' \in Duts
    BY <1>20 DEF BeginImage
  <2>3. QED
    BY <1>20, <2>1, <2>2 DEF BeginImage, unchangedByReimage
<1>21. CASE EndImage(d)
  <2>1. pc' \in [Duts -> WorkerPc] /\ ended' \in [Duts -> EndReason]
    BY <1>21, GotoType, LeaveType DEF EndImage, WorkerPc, EndReason
  <2>2. goal[d] \in Labels /\ Image[goal[d]] \in Nat
    BY <1>21, ImageAssumption DEF EndImage, Control, Known, GoalKnown
  <2>3. goal' \in [Duts -> Labels \cup {NoLabel}]
    BY <1>21 DEF EndImage
  <2>4. CASE HalfImaged(d)
    <3>1. installed' \in [Duts -> Nat] /\ file' \in [Duts -> Nat]
      BY <2>2, <2>4 DEF HalfImaged, NoImage
    <3>2. QED
      BY <1>21, <2>1, <2>3, <2>4, <3>1 DEF EndImage, HalfImaged, unchangedByReimage
  <2>5. CASE /\ Skipped(d) \/ Flashed(d)
             /\ dut_label' = [dut_label EXCEPT ![d] = goal[d]]
             /\ dut_checksum' = [dut_checksum EXCEPT ![d] =
                  IF goal[d] \in Checksummed THEN Image[goal[d]] ELSE NoImage]
    <3>1. installed' \in [Duts -> Nat] /\ file' \in [Duts -> Nat] /\ stale' \subseteq Duts
      <4>1. CASE Skipped(d)
        BY <4>1 DEF Skipped
      <4>2. CASE Flashed(d)
        BY <2>2, <4>2 DEF Flashed, NoImage
      <4>3. QED
        BY <2>5, <4>1, <4>2
    <3>2. dut_label' \in [Duts -> Labels \cup {NoLabel}] /\ dut_checksum' \in [Duts -> Nat]
      BY <2>2, <2>5 DEF NoImage
    <3>3. QED
      BY <1>21, <2>1, <2>3, <3>1, <3>2 DEF EndImage, unchangedByReimage
  <2>6. QED
    BY <1>21, <2>4, <2>5 DEF EndImage
<1>22. CASE DutWorkerFinished(d)
  <2>1. pc' \in [Duts -> WorkerPc]
    BY <1>22, GotoType DEF DutWorkerFinished, WorkerPc
  <2>2. active_workers' \in Seq(Duts)
    <3>1. PICK i \in 1..Len(active_workers) : active_workers[i] = d
      BY <1>22 DEF DutWorkerFinished, Goto, WorkerList
    <3>2. QED
      BY <1>22, <3>1, ListRemoveProperties DEF DutWorkerFinished, WorkerList
  <2>3. QED
    BY <1>22, <2>1, <2>2 DEF DutWorkerFinished
<1>23. QED
  BY <1>1, <1>2, <1>3, <1>4, <1>5, <1>6, <1>7, <1>8, <1>9, <1>10, <1>11, <1>12,
     <1>13, <1>14, <1>15, <1>16, <1>17, <1>18, <1>19, <1>20, <1>21, <1>22 DEF Worker

-----------------------------------------------------------------------------
(* Control points.                                                         *)

\* A worker's step leaves the locals of the other workers and what belongs to
\* their duts alone.
Frame(d) ==
  /\ sched_terminated' = sched_terminated
  /\ terminated' = terminated
  /\ \A e \in Duts \ {d} :
       /\ pc'[e] = pc[e] /\ br'[e] = br[e] /\ lock'[e] = lock[e]
       /\ scan'[e] = scan[e] /\ goal'[e] = goal[e] /\ active_br'[e] = active_br[e]
       /\ dut_label'[e] = dut_label[e] /\ dut_checksum'[e] = dut_checksum[e]
       /\ installed'[e] = installed[e] /\ file'[e] = file[e]
       /\ e \in stale' <=> e \in stale
       /\ ended'[e] = ended[e] /\ late'[e] = late[e]

\* Every step of a worker stays within Frame.
LEMMA WorkerFrame ==
  ASSUME TypeOK, NEW d \in Duts, Worker(d)
  PROVE  Frame(d)
PROOF
<1> USE DEF TypeOK, schedVars, mimVars, dutVars, brVars, mainVars, localVars, Frame
<1>1. CASE GetCachedBenchmarkRun(d)
  BY <1>1 DEF GetCachedBenchmarkRun, Goto, CountLate
<1>2. CASE RunCached(d)
  BY <1>2 DEF RunCached, Goto, CountLate
<1>3. CASE SetupDutLabel(d)
  BY <1>3 DEF SetupDutLabel, Goto, Preinstalled, CountLate
<1>4. CASE LoopTest(d)
  BY <1>4 DEF LoopTest, Goto, Leave, unchangedByGet, CountLate
<1>5. CASE GetBenchmarkRun(d)
  BY <1>5 DEF GetBenchmarkRun, Goto, unchangedByGet, CountLate
<1>6. CASE LockLookup(d)
  BY <1>6 DEF LockLookup, Goto, unchangedByGet, CountLate
<1>7. CASE MakeLock(d)
  BY <1>7 DEF MakeLock, Goto, unchangedByGet, CountLate
<1>8. CASE AcquireLock(d)
  BY <1>8 DEF AcquireLock, Goto, unchangedByGet, CountLate
<1>9. CASE CheckList(d)
  BY <1>9 DEF CheckList, Goto, ReleaseLock, unchangedByGet, CountLate
<1>10. CASE PopBenchmarkRun(d)
  BY <1>10 DEF PopBenchmarkRun, Goto, Leave, ReleaseLock, unchangedByGet, CountLate
<1>11. CASE ExecCheck(d)
  BY <1>11 DEF ExecCheck, Goto, unchangedByExec, CountLate
<1>12. CASE Activate(d)
  BY <1>12 DEF Activate, Goto, unchangedByExec, CountLate
<1>13. CASE StartRun(d)
  BY <1>13 DEF StartRun, Goto, unchangedByExec, CountLate
<1>14. CASE FinishRun(d)
  BY <1>14 DEF FinishRun, Goto, unchangedByExec, CountLate
<1>15. CASE ClearActive(d)
  BY <1>15 DEF ClearActive, Goto, Leave, unchangedByExec, CountLate
<1>16. CASE AllocateLabel(d)
  BY <1>16 DEF AllocateLabel, Goto, Leave, unchangedByAlloc, CountLate
<1>17. CASE ScanRow(d)
  <2>1. CASE Give(d, scan[d].row)
    BY <1>17, <2>1 DEF ScanRow, Goto, Give, unchangedByAlloc
  <2>2. CASE ~Give(d, scan[d].row)
    BY <1>17, <2>2 DEF ScanRow, unchangedByAlloc
  <2>3. QED
    BY <2>1, <2>2
<1>18. CASE EndScan(d)
  BY <1>18 DEF EndScan, Goto, Leave, Give, unchangedByAlloc, CountLate
<1>19. CASE ReimageCheck(d)
  BY <1>19 DEF ReimageCheck, Goto, Leave, unchangedByReimage, CountLate
<1>20. CASE BeginImage(d)
  BY <1>20 DEF BeginImage, Goto, unchangedByReimage, CountLate
<1>21. CASE EndImage(d)
  BY <1>21 DEF EndImage, Skipped, Flashed, HalfImaged, Goto, Leave, unchangedByReimage, CountLate
<1>22. CASE DutWorkerFinished(d)
  BY <1>22 DEF DutWorkerFinished, Goto, CountLate
<1>23. QED
  BY <1>1, <1>2, <1>3, <1>4, <1>5, <1>6, <1>7, <1>8, <1>9, <1>10, <1>11, <1>12, <1>13, <1>14, <1>15, <1>16, <1>17, <1>18, <1>19, <1>20, <1>21, <1>22 DEF Worker

\* None is not a br.
LEMMA NoBrIsNoBr ==
  NoBr \notin Brs
BY SizeAssumption DEF NoBr, Brs

\* There is no candidate outside a scan.
LEMMA NoScan ==
  NotScanning.can.label = NoLabel
BY DEF NotScanning, NoCandidate

\* Every step of a worker keeps what is known of its own locals ...
LEMMA WorkerKnown ==
  ASSUME TypeOK, Control, NEW d \in Duts, Worker(d)
  PROVE  Known(d)'
PROOF
<1> DEFINE Same == br'[d] = br[d] /\ scan'[d] = scan[d]
<1>a. Known(d)
  BY DEF Control
<1>b. /\ pc \in [Duts -> WorkerPc] /\ br \in [Duts -> Brs \cup {NoBr}]
      /\ lock \in [Duts -> Duts \cup {NoDut}] /\ scan \in [Duts -> ScanType]
      /\ goal \in [Duts -> Labels \cup {NoLabel}]
      /\ dut_label \in [Duts -> Labels \cup {NoLabel}]
  BY DEF TypeOK, ScanType
<1> USE <1>a, <1>b DEF Known, LabelKnown, LockKnown, BrKnown, GoalKnown, ScanKnown,
        Holding, Goto, Leave, schedVars, mimVars, dutVars, brVars, mainVars, localVars
<1>1. CASE GetCachedBenchmarkRun(d)
  <2>1. CASE \E b \in cached_br_list : Goto(d, "cached", "runcached") /\ br' = [br EXCEPT ![d] = b]
    <3>1. pc'[d] = "runcached" /\ scan'[d] = scan[d]
      BY <1>1, <2>1 DEF GetCachedBenchmarkRun
    <3>2. cached_br_list \subseteq Brs
      BY DEF TypeOK
    <3>3. br'[d] \in Brs
      BY <2>1, <3>2
    <3>4. QED
      BY <3>1, <3>3
  <2>2. CASE Goto(d, "cached", "setup")
    <3>1. pc[d] = "cached" /\ pc'[d] = "setup" /\ Same
      BY <1>1, <2>2 DEF GetCachedBenchmarkRun
    <3>2. QED
      BY <3>1
  <2>3. QED
    BY <1>1, <2>1, <2>2 DEF GetCachedBenchmarkRun
<1>2. CASE RunCached(d)
  <2>1. pc'[d] = "cached" /\ br'[d] = NoBr /\ scan'[d] = scan[d]
    BY <1>2 DEF RunCached
  <2>2. QED
    BY <2>1, NoBrIsNoBr
<1>3. CASE SetupDutLabel(d)
  <2>1. pc[d] = "setup" /\ pc'[d] = "loop" /\ Same
    BY <1>3 DEF SetupDutLabel
  <2>2. QED
    BY <2>1
<1>4. CASE LoopTest(d)
  <2>1. pc[d] = "loop" /\ pc'[d] \in {"finish", "get"} /\ Same
    BY <1>4 DEF LoopTest, unchangedByGet
  <2>2. QED
    BY <2>1
<1>5. CASE GetBenchmarkRun(d)
  <2>1. pc[d] = "get" /\ pc'[d] \in {"alloc", "lookup"} /\ Same /\ dut_label'[d] = dut_label[d]
    BY <1>5 DEF GetBenchmarkRun, unchangedByGet
  <2>2. pc'[d] = "lookup" => dut_label[d] # NoLabel
    BY <1>5 DEF GetBenchmarkRun
  <2>3. QED
    BY <2>1, <2>2
<1>6. CASE LockLookup(d)
  <2>1. pc[d] = "lookup" /\ pc'[d] \in {"acquire", "mklock"} /\ Same /\ dut_label'[d] = dut_label[d]
    BY <1>6 DEF LockLookup, unchangedByGet
  <2>2. pc'[d] = "acquire" => lock'[d] \in Duts
    BY <1>6, <2>1 DEF LockLookup, TypeOK
  <2>3. QED
    BY <2>1, <2>2
<1>7. CASE MakeLock(d)
  <2>1. /\ pc[d] = "mklock" /\ pc'[d] = "acquire" /\ Same
        /\ dut_label'[d] = dut_label[d] /\ lock'[d] = d
    BY <1>7 DEF MakeLock, unchangedByGet
  <2>2. QED
    BY <2>1
<1>8. CASE AcquireLock(d)
  <2>1. /\ pc[d] = "acquire" /\ pc'[d] = "check" /\ Same
        /\ dut_label'[d] = dut_label[d] /\ lock'[d] = lock[d]
    BY <1>8 DEF AcquireLock, unchangedByGet
  <2>2. QED
    BY <2>1
<1>9. CASE CheckList(d)
  <2>1. pc[d] = "check" /\ pc'[d] \in {"alloc", "pop"} /\ Same /\ dut_label'[d] = dut_label[d]
    BY <1>9 DEF CheckList, unchangedByGet
  <2>2. pc'[d] = "pop" => lock'[d] = lock[d]
    BY <1>9 DEF CheckList
  <2>3. QED
    BY <2>1, <2>2
<1>10. CASE PopBenchmarkRun(d)
  <2> DEFINE brl == label_brl_map[dut_label[d]]
  <2>1. pc[d] = "pop" /\ scan'[d] = scan[d] /\ dut_label'[d] = dut_label[d]
    BY <1>10 DEF PopBenchmarkRun, unchangedByGet
  <2>2. CASE brl = <<>>
    <3>1. pc'[d] = "finish" /\ br'[d] = br[d]
      BY <1>10, <2>2 DEF PopBenchmarkRun
    <3>2. QED
      BY <2>1, <3>1
  <2>3. CASE brl # <<>>
    <3>1. brl \in Seq(Brs)
      BY <2>1 DEF TypeOK
    <3>2. pc'[d] = "exec" /\ br'[d] = Head(brl)
      BY <1>10, <2>3 DEF PopBenchmarkRun
    <3>3. Head(brl) \in Brs
      BY <2>3, <3>1, HeadTailProperties
    <3>4. QED
      BY <2>1, <3>2, <3>3
  <2>4. QED
    BY <2>2, <2>3
<1>11. CASE ExecCheck(d)
  <2>1. pc[d] = "exec" /\ scan'[d] = scan[d] /\ dut_label'[d] = dut_label[d]
    BY <1>11 DEF ExecCheck, unchangedByExec
  <2>2. \/ pc'[d] = "loop" /\ br'[d] = NoBr
        \/ pc'[d] = "activate" /\ br'[d] = br[d]
    BY <1>11 DEF ExecCheck
  <2>3. QED
    BY <2>1, <2>2, NoBrIsNoBr
<1>12. CASE Activate(d)
  <2>1. pc[d] = "activate" /\ pc'[d] = "start" /\ Same /\ dut_label'[d] = dut_label[d]
    BY <1>12 DEF Activate, unchangedByExec
  <2>2. QED
    BY <2>1
<1>13. CASE StartRun(d)
  <2>1. pc[d] = "start" /\ pc'[d] = "running" /\ Same /\ dut_label'[d] = dut_label[d]
    BY <1>13 DEF StartRun, unchangedByExec
  <2>2. QED
    BY <2>1
<1>14. CASE FinishRun(d)
  <2>1. /\ pc[d] = "running" /\ pc'[d] \in {"clear", "clearraise"} /\ Same
        /\ dut_label'[d] = dut_label[d]
    BY <1>14 DEF FinishRun, unchangedByExec
  <2>2. QED
    BY <2>1
<1>15. CASE ClearActive(d)
  <2>1. pc'[d] \in {"loop", "finish"} /\ br'[d] = NoBr /\ scan'[d] = scan[d]
    BY <1>15 DEF ClearActive, unchangedByExec
  <2>2. QED
    BY <2>1, NoBrIsNoBr
<1>16. CASE AllocateLabel(d)
  <2>1. /\ pc[d] = "alloc" /\ br'[d] = br[d]
        /\ \/ pc'[d] = "finish" /\ scan'[d] = scan[d]
           \/ pc'[d] = "scan" /\ scan'[d] = [row |-> 1, can |-> NoCandidate]
    BY <1>16 DEF AllocateLabel, unchangedByAlloc
  <2>2. QED
    BY <2>1, SizeAssumption DEF NoCandidate
<1>17. CASE ScanRow(d)
  <2> DEFINE l == scan[d].row
             c == Consider(scan[d].can, l, matrix[<<l, d>>], label_duts[l], Len(label_brl_map[l]))
  <2>1. pc[d] = "scan" /\ br'[d] = br[d] /\ l \in Labels
    BY <1>17 DEF ScanRow, unchangedByAlloc
  <2>2. CASE Give(d, l)
    <3>1. pc'[d] = "reimage" /\ goal'[d] = l /\ scan'[d] = NotScanning
      BY <2>2 DEF Give
    <3>2. QED
      BY <2>1, <3>1, NoScan
  <2>3. CASE scan' = [scan EXCEPT ![d] = [row |-> l + 1, can |-> c]] /\ UNCHANGED pc
    <3>1. pc'[d] = "scan" /\ scan'[d] = [row |-> l + 1, can |-> c]
      BY <2>1, <2>3
    <3>2. l + 1 \in 1..(NLabels + 1)
      BY <2>1, NextRow
    <3>3. c.label \in Labels \cup {NoLabel}
      BY <2>1 DEF Consider
    <3>4. QED
      BY <2>1, <3>1, <3>2, <3>3
  <2>4. QED
    BY <1>17, <2>2, <2>3 DEF ScanRow
<1>18. CASE EndScan(d)
  <2>1. pc[d] = "scan" /\ br'[d] = br[d] /\ scan'[d] = NotScanning
    BY <1>18 DEF EndScan, Give, unchangedByAlloc
  <2>2. \/ pc'[d] = "finish"
        \/ pc'[d] = "reimage" /\ goal'[d] = scan[d].can.label /\ scan[d].can.label # NoLabel
    BY <1>18 DEF EndScan, Give
  <2>3. QED
    BY <2>1, <2>2, NoScan
<1>19. CASE ReimageCheck(d)
  <2>1. pc[d] = "reimage" /\ Same
    BY <1>19 DEF ReimageCheck, unchangedByReimage
  <2>2. \/ pc'[d] \in {"finish", "loop"}
        \/ pc'[d] = "wantimage" /\ goal'[d] = goal[d]
    BY <1>19 DEF ReimageCheck
  <2>3. QED
    BY <2>1, <2>2
<1>20. CASE BeginImage(d)
  <2>1. pc[d] = "wantimage" /\ pc'[d] = "imaging" /\ Same /\ goal'[d] = goal[d]
    BY <1>20 DEF BeginImage, unchangedByReimage
  <2>2. QED
    BY <2>1
<1>21. CASE EndImage(d)
  <2>1. pc[d] = "imaging" /\ pc'[d] \in {"loop", "finish"} /\ Same
    BY <1>21 DEF EndImage, unchangedByReimage
  <2>2. QED
    BY <2>1
<1>22. CASE DutWorkerFinished(d)
  <2>1. pc[d] = "finish" /\ pc'[d] = "ended" /\ Same
    BY <1>22 DEF DutWorkerFinished
  <2>2. QED
    BY <2>1
<1>23. QED
  BY <1>1, <1>2, <1>3, <1>4, <1>5, <1>6, <1>7, <1>8, <1>9, <1>10, <1>11, <1>12,
     <1>13, <1>14, <1>15, <1>16, <1>17, <1>18, <1>19, <1>20, <1>21, <1>22 DEF Worker

\* ... and so of everybody's.
LEMMA WorkerControl ==
  ASSUME TypeOK, Control, NEW d \in Duts, Worker(d)
  PROVE  Control'
PROOF
<1>1. Known(d)'
  BY WorkerKnown
<1>2. ASSUME NEW e \in Duts, e # d
      PROVE  Known(e)'
  <2>1. Frame(d)
    BY WorkerFrame
  <2>2. Known(e)
    BY DEF Control
  <2>3. QED
    BY <1>2, <2>1, <2>2 DEF Frame, Known, LabelKnown, LockKnown, BrKnown, GoalKnown, ScanKnown
<1>3. QED
  BY <1>1, <1>2 DEF Control

-----------------------------------------------------------------------------
(* _active_workers                                                         *)

\* The main thread's locals are its own.
LEMMA WorkerMainKnown ==
  ASSUME MainKnown, NEW d \in Duts, Worker(d)
  PROVE  MainKnown' /\ UNCHANGED mainVars
PROOF
<1>1. UNCHANGED mainVars
  BY DEF Worker, GetCachedBenchmarkRun, RunCached, SetupDutLabel, LoopTest,
         GetBenchmarkRun, LockLookup, MakeLock, AcquireLock, CheckList,
         PopBenchmarkRun, unchangedByGet, ExecCheck, Activate, StartRun, FinishRun,
         ClearActive, unchangedByExec, AllocateLabel, ScanRow, EndScan,
         unchangedByAlloc, ReimageCheck, BeginImage, EndImage, unchangedByReimage,
         DutWorkerFinished, mainVars
<1>2. QED
  BY <1>1 DEF MainKnown, mainVars

\* A worker that has not been started or has ended takes no step, and only
\* dut_worker_finished ends it and touches the list.
LEMMA WorkerListFrame ==
  ASSUME TypeOK, NEW d \in Duts, Worker(d), ~DutWorkerFinished(d)
  PROVE  /\ UNCHANGED active_workers
         /\ pc[d] \notin {"new", "ended"}
         /\ pc'[d] \notin {"new", "ended"}
PROOF
<1>1. pc \in [Duts -> WorkerPc]
  BY DEF TypeOK
<1>2. UNCHANGED active_workers
  BY DEF Worker, GetCachedBenchmarkRun, RunCached, SetupDutLabel, LoopTest,
         GetBenchmarkRun, LockLookup, MakeLock, AcquireLock, CheckList,
         PopBenchmarkRun, unchangedByGet, ExecCheck, Activate, StartRun, FinishRun,
         ClearActive, unchangedByExec, AllocateLabel, ScanRow, EndScan,
         unchangedByAlloc, ReimageCheck, BeginImage, EndImage, unchangedByReimage
<1>3. /\ pc[d] \notin {"new", "ended"}
      /\ pc'[d] \notin {"new", "ended"}
  BY <1>1 DEF Worker, GetCachedBenchmarkRun, RunCached, SetupDutLabel, LoopTest,
         GetBenchmarkRun, LockLookup, MakeLock, AcquireLock, CheckList,
         PopBenchmarkRun, unchangedByGet, ExecCheck, Activate, StartRun, FinishRun,
         ClearActive, unchangedByExec, AllocateLabel, ScanRow, EndScan, Give,
         unchangedByAlloc, ReimageCheck, BeginImage, EndImage, unchangedByReimage,
         Goto, Leave
<1>4. QED
  BY <1>2, <1>3

\* _active_workers while a worker steps, dut_worker_finished included.
LEMMA WorkerWorkerList ==
  ASSUME TypeOK, MainKnown, WorkerList, NEW d \in Duts, Worker(d)
  PROVE  WorkerList'
PROOF
<1> DEFINE A == active_workers
<1>1. Frame(d) /\ UNCHANGED mainVars
  BY WorkerFrame, WorkerMainKnown
<1>2. A \in Seq(Duts) /\ Len(A) \in Nat /\ \A i \in 1..Len(A) : A[i] \in Duts
  BY LenProperties, ElementOfSeq DEF TypeOK
<1>3. CASE ~DutWorkerFinished(d)
  <2>1. /\ A' = A
        /\ pc[d] \notin {"new", "ended"}
        /\ pc'[d] \notin {"new", "ended"}
    BY <1>3, WorkerListFrame
  <2>2. \A e \in Duts : pc'[e] = pc[e] \/ e = d
    BY <1>1 DEF Frame
  <2>3. QED
    BY <1>1, <1>2, <2>1, <2>2 DEF WorkerList, mainVars
<1>4. CASE DutWorkerFinished(d)
  <2>1. PICK k \in 1..Len(A) : A[k] = d
    BY <1>4 DEF DutWorkerFinished, Goto, WorkerList
  <2>2. /\ A' = ListRemove(A, d)
        /\ pc[d] = "finish" /\ pc'[d] = "ended"
    BY <1>4 DEF DutWorkerFinished, Goto, TypeOK
  <2>3. \A i, j \in 1..Len(A) : A[i] = A[j] => i = j
    BY DEF WorkerList
  <2>4. /\ Len(A') = Len(A) - 1
        /\ \A i \in 1..(Len(A) - 1) : A'[i] = IF i < k THEN A[i] ELSE A[i + 1]
    <3>1. /\ Len(ListRemove(A, d)) = Len(A) - 1
          /\ \A i \in 1..(Len(A) - 1) :
               ListRemove(A, d)[i] = IF i < k THEN A[i] ELSE A[i + 1]
      <4> HIDE DEF A
      <4>1. A \in Seq(Duts)
        BY <1>2
      <4>2. QED
        BY <4>1, <2>1, <2>3, ListRemoveProperties
    <3>2. QED
      BY <2>2, <3>1
  <2> HIDE DEF A
  <2>5. \A i \in 1..Len(A') : \E m \in 1..Len(A) : m # k /\ m >= i /\ A'[i] = A[m]
    <3> TAKE i \in 1..Len(A')
    <3>1. CASE i < k
      <4>1. i \in 1..Len(A) /\ A'[i] = A[i]
        BY <1>2, <2>4, <3>1
      <4>2. QED
        BY <3>1, <4>1
    <3>2. CASE ~(i < k)
      <4>1. i + 1 \in 1..Len(A) /\ i + 1 # k /\ A'[i] = A[i + 1]
        BY <1>2, <2>4, <3>2
      <4>2. QED
        BY <4>1
    <3>3. QED
      BY <3>1, <3>2
  <2>6. \A i \in 1..Len(A') : A'[i] \in Duts /\ A'[i] # d /\ pc'[A'[i]] # "ended"
    <3> TAKE i \in 1..Len(A')
    <3>1. PICK m \in 1..Len(A) : m # k /\ A'[i] = A[m]
      BY <2>5
    <3>2. A[m] # d /\ A[m] \in Duts /\ pc[A[m]] # "ended"
      BY <1>2, <2>1, <2>3, <3>1 DEF WorkerList, A
    <3>3. QED
      BY <1>1, <3>1, <3>2 DEF Frame
  <2>7. \A i, j \in 1..Len(A') : A'[i] = A'[j] => i = j
    <3> DEFINE up(n) == IF n < k THEN n ELSE n + 1
    <3> SUFFICES ASSUME NEW i \in 1..Len(A'), NEW j \in 1..Len(A'), A'[i] = A'[j]
                 PROVE  i = j
      OBVIOUS
    <3>1. \A n \in 1..Len(A') : up(n) \in 1..Len(A) /\ A'[n] = A[up(n)]
      BY <1>2, <2>4
    <3>2. up(i) = up(j)
      <4> HIDE DEF up
      <4>1. QED
        BY <2>3, <3>1
    <3>3. QED
      BY <1>2, <2>4, <3>2
  <2>8. \A e \in Duts : pc'[e] # "ended" => \E i \in 1..Len(A') : A'[i] = e
    <3> SUFFICES ASSUME NEW e \in Duts, pc'[e] # "ended"
                 PROVE  \E i \in 1..Len(A') : A'[i] = e
      OBVIOUS
    <3>1. e # d /\ pc[e] # "ended"
      BY <1>1, <2>2 DEF Frame
    <3>2. PICK m \in 1..Len(A) : A[m] = e
      BY <3>1 DEF WorkerList, A
    <3>3. m # k
      BY <2>1, <3>1, <3>2
    <3>4. CASE m < k
      <4>1. m \in 1..Len(A') /\ A'[m] = A[m]
        BY <1>2, <2>4, <3>4
      <4>2. QED
        BY <3>2, <4>1
    <3>5. CASE m > k
      <4>1. m - 1 \in 1..Len(A') /\ A'[m - 1] = A[m]
        BY <1>2, <2>4, <3>5
      <4>2. QED
        BY <3>2, <4>1
    <3>6. QED
      BY <1>2, <3>3, <3>4, <3>5
  <2>9. main' = "starting" => \A i \in 1..Len(A') : i >= main_i' => pc'[A'[i]] = "new"
    <3> SUFFICES ASSUME main' = "starting", NEW i \in 1..Len(A'), i >= main_i'
                 PROVE  pc'[A'[i]] = "new"
      OBVIOUS
    <3>1. main = "starting" /\ main_i' = main_i /\ main_i \in Nat
      BY <1>1 DEF mainVars, TypeOK
    <3>2. PICK m \in 1..Len(A) : m # k /\ m >= i /\ A'[i] = A[m]
      BY <2>5
    <3>3. m >= main_i
      BY <1>2, <2>4, <3>1, <3>2
    <3>4. pc[A[m]] = "new"
      BY <3>1, <3>3 DEF WorkerList, A
    <3>5. A[m] \in Duts \ {d}
      BY <1>2, <2>6, <3>2
    <3>6. QED
      BY <1>1, <3>2, <3>4, <3>5 DEF Frame
  <2>10. QED
    BY <2>6, <2>7, <2>8, <2>9 DEF WorkerList, A
<1>5. QED
  BY <1>3, <1>4

-----------------------------------------------------------------------------
(* Where the brs are.                                                      *)

\* The steps that move a br or run it.
Moves(d) ==
  \/ GetCachedBenchmarkRun(d) \/ RunCached(d) \/ PopBenchmarkRun(d)
  \/ ExecCheck(d) \/ StartRun(d) \/ ClearActive(d)

\* The other steps leave the brs where they are.
LEMMA PlacementFrame ==
  ASSUME TypeOK, NEW d \in Duts, Worker(d), ~Moves(d)
  PROVE  /\ UNCHANGED <<cached_br_list, label_brl_map, br, runs>>
         /\ pc'[d] \notin {"runcached", "exec", "activate"}
         /\ pc'[d] = "start" => pc[d] = "activate"
PROOF
<1>1. pc \in [Duts -> WorkerPc]
  BY DEF TypeOK
<1>2. UNCHANGED <<cached_br_list, label_brl_map, br, runs>>
  BY DEF Worker, Moves, SetupDutLabel, LoopTest,
         GetBenchmarkRun, LockLookup, MakeLock, AcquireLock, CheckList,
         unchangedByGet, Activate, FinishRun, unchangedByExec, AllocateLabel,
         ScanRow, EndScan, unchangedByAlloc, ReimageCheck, BeginImage, EndImage,
         unchangedByReimage, DutWorkerFinished, brVars, localVars
<1>3. /\ pc'[d] \notin {"runcached", "exec", "activate"}
      /\ pc'[d] = "start" => pc[d] = "activate"
  BY <1>1 DEF Worker, Moves, SetupDutLabel, LoopTest,
         GetBenchmarkRun, LockLookup, MakeLock, AcquireLock, CheckList,
         unchangedByGet, Activate, FinishRun, unchangedByExec, AllocateLabel,
         ScanRow, EndScan, Give, unchangedByAlloc, ReimageCheck, BeginImage, EndImage,
         unchangedByReimage, DutWorkerFinished, Goto, Leave
<1>4. QED
  BY <1>2, <1>3

\* InOnePlace is the conjunction of the named parts.
LEMMA InOnePlaceParts ==
  InOnePlace <=> HeldByOne /\ HeldNotCached /\ ListsApart
BY DEF InOnePlace, HeldByOne, HeldNotCached, ListsApart, Listed

\* run() of the br in hand: it counts once, and the other brs are as they were.
LEMMA RunMarks ==
  ASSUME TypeOK, Control, HeldByOne, HeldNotCached, RunsKnown, NEW d \in Duts,
         br[d] \in Brs, UNCHANGED cached_br_list,
         runs'[br[d]] = 1, \A b \in Brs \ {br[d]} : runs'[b] = runs[b],
         \A e \in Duts \ {d} : pc'[e] = pc[e] /\ br'[e] = br[e],
         pc'[d] \notin {"runcached", "exec", "activate", "start"}
  PROVE  RunsKnown'
PROOF
<1>1. cached_br_list \subseteq Brs /\ br[d] # NoBr
  BY NoBrIsNoBr DEF TypeOK
<1>2. \A b \in cached_br_list' : runs'[b] = 0
  BY <1>1 DEF HeldNotCached, RunsKnown
<1>3. ASSUME NEW e \in Duts, pc'[e] \in {"runcached", "exec", "activate", "start"}
      PROVE  runs'[br'[e]] = 0
  <2>1. e # d /\ pc[e] = pc'[e] /\ br'[e] = br[e]
    BY <1>3
  <2>2. br[e] \in Brs /\ runs[br[e]] = 0
    BY <1>3, <2>1 DEF Control, Known, BrKnown, Holding, RunsKnown
  <2>3. br[e] # br[d]
    BY <1>1, <2>1 DEF HeldByOne
  <2>4. QED
    BY <2>1, <2>2, <2>3
<1>4. RunAtMostOnce'
  BY DEF RunsKnown, RunAtMostOnce
<1>5. QED
  BY <1>2, <1>3, <1>4 DEF RunsKnown

\* Every step of a worker keeps every br in one place.
LEMMA WorkerPlacement ==
  ASSUME TypeOK, Control, Placement, NEW d \in Duts, Worker(d)
  PROVE  Placement'
PROOF
<1>a. /\ br \in [Duts -> Brs \cup {NoBr}] /\ cached_br_list \subseteq Brs
      /\ label_brl_map \in [Labels -> Seq(Brs)] /\ runs \in [Brs -> Nat]
      /\ pc \in [Duts -> WorkerPc]
  BY DEF TypeOK
<1>b. Frame(d) /\ Known(d) /\ Known(d)'
  BY WorkerFrame, WorkerKnown DEF Control
<1>c. \A l \in Labels : \A i \in 1..Len(label_brl_map[l]) : Listed(l, i) \in Brs
  BY <1>a, ElementOfSeq DEF Listed
<1>d. \A e \in Duts \ {d} : pc'[e] = pc[e] /\ br'[e] = br[e]
  BY <1>b DEF Frame
<1>e. HeldByOne /\ HeldNotCached /\ ListsApart /\ RunsKnown
  BY DEF Placement
<1>0. CASE ~Moves(d)
  <2>1. /\ UNCHANGED <<cached_br_list, label_brl_map, br, runs>>
        /\ pc'[d] \notin {"runcached", "exec", "activate"}
        /\ pc'[d] = "start" => pc[d] = "activate"
    BY <1>0, PlacementFrame
  <2>2. HeldByOne' /\ HeldNotCached' /\ ListsApart'
    BY <1>e, <2>1 DEF HeldByOne, HeldNotCached, ListsApart, Listed
  <2>3. RunsKnown'
    BY <1>d, <1>e, <2>1 DEF RunsKnown, RunAtMostOnce
  <2>4. QED
    BY <2>2, <2>3 DEF Placement
<1>1. CASE GetCachedBenchmarkRun(d)
  <2>1. UNCHANGED <<label_brl_map, runs>>
    BY <1>1 DEF GetCachedBenchmarkRun, brVars
  <2>2. CASE Goto(d, "cached", "setup") /\ UNCHANGED <<cached_br_list, localVars>>
    <3>1. pc'[d] = "setup" /\ UNCHANGED <<cached_br_list, br>>
      BY <1>a, <2>2 DEF Goto, localVars
    <3>2. HeldByOne' /\ HeldNotCached' /\ ListsApart'
      BY <1>e, <2>1, <3>1 DEF HeldByOne, HeldNotCached, ListsApart, Listed
    <3>3. RunsKnown'
      BY <1>d, <1>e, <2>1, <3>1 DEF RunsKnown, RunAtMostOnce
    <3>4. QED
      BY <3>2, <3>3 DEF Placement
  <2>3. ASSUME NEW b \in cached_br_list, Goto(d, "cached", "runcached"),
               cached_br_list' = cached_br_list \ {b}, br' = [br EXCEPT ![d] = b]
        PROVE  Placement'
    <3>1. b \in Brs /\ b # NoBr /\ br'[d] = b /\ runs[b] = 0
      BY <1>a, <1>e, <2>3, NoBrIsNoBr DEF RunsKnown
    <3>2. HeldByOne' /\ HeldNotCached'
      BY <1>d, <1>e, <2>3, <3>1 DEF HeldByOne, HeldNotCached
    <3>3. ListsApart'
      BY <1>d, <1>e, <2>1, <2>3, <3>1 DEF ListsApart, Listed
    <3>4. RunsKnown'
      BY <1>d, <1>e, <2>1, <2>3, <3>1 DEF RunsKnown, RunAtMostOnce
    <3>5. QED
      BY <3>2, <3>3, <3>4 DEF Placement
  <2>4. QED
    BY <1>1, <2>2, <2>3 DEF GetCachedBenchmarkRun
<1>2. CASE RunCached(d)
  <2>1. /\ UNCHANGED <<cached_br_list, label_brl_map>>
        /\ pc[d] = "runcached" /\ pc'[d] = "cached"
        /\ br'[d] = NoBr
        /\ runs' = [runs EXCEPT ![br[d]] = @ + 1]
    BY <1>2, <1>a DEF RunCached, Goto
  <2>2. br[d] \in Brs /\ br[d] # NoBr /\ runs[br[d]] = 0
    BY <1>b, <1>e, <2>1, NoBrIsNoBr DEF Known, BrKnown, RunsKnown
  <2>3. runs'[br[d]] = 1 /\ \A b \in Brs \ {br[d]} : runs'[b] = runs[b]
    BY <1>a, <2>1, <2>2
  <2>4. HeldByOne' /\ HeldNotCached'
    BY <1>d, <1>e, <2>1 DEF HeldByOne, HeldNotCached
  <2>5. ListsApart'
    BY <1>c, <1>d, <1>e, <2>1, <2>2, <2>3, NoBrIsNoBr DEF ListsApart, Listed
  <2>6. RunsKnown'
    BY <1>a, <1>d, <1>e, <2>1, <2>2, <2>3, RunMarks DEF HeldNotCached
  <2>7. QED
    BY <2>4, <2>5, <2>6 DEF Placement
<1>3. CASE PopBenchmarkRun(d)
  <2> DEFINE l   == dut_label[d]
             brl == label_brl_map[l]
  <2>1. pc[d] = "pop" /\ UNCHANGED <<cached_br_list, runs>>
    BY <1>3 DEF PopBenchmarkRun, unchangedByGet, brVars
  <2>2. l \in Labels /\ brl \in Seq(Brs)
    BY <1>a, <1>b, <2>1 DEF Known, LabelKnown
  <2>3. CASE brl = <<>>
    <3>1. pc'[d] = "finish" /\ UNCHANGED <<label_brl_map, br>>
      BY <1>3, <1>a, <2>3 DEF PopBenchmarkRun, Leave, Goto
    <3>2. HeldByOne' /\ HeldNotCached' /\ ListsApart'
      BY <1>e, <2>1, <3>1 DEF HeldByOne, HeldNotCached, ListsApart, Listed
    <3>3. RunsKnown'
      BY <1>d, <1>e, <2>1, <3>1 DEF RunsKnown, RunAtMostOnce
    <3>4. QED
      BY <3>2, <3>3 DEF Placement
  <2>4. CASE brl # <<>>
    <3>1. /\ br'[d] = Head(brl)
          /\ label_brl_map' = [label_brl_map EXCEPT ![l] = Tail(brl)]
      BY <1>3, <1>a, <2>4 DEF PopBenchmarkRun
    <3>2. /\ Len(brl) \in Nat /\ Len(brl) >= 1
          /\ Head(brl) = Listed(l, 1)
          /\ Len(Tail(brl)) = Len(brl) - 1
          /\ \A i \in 1..Len(Tail(brl)) : Tail(brl)[i] = brl[i + 1]
      BY <2>2, <2>4, HeadTailProperties, EmptySeq, LenProperties DEF Listed
    <3>3. \A k \in Labels : \A i \in 1..Len(label_brl_map'[k]) :
            \E j \in 1..Len(label_brl_map[k]) :
              /\ Listed(k, i)' = Listed(k, j)
              /\ j = IF k = l THEN i + 1 ELSE i
      BY <1>a, <2>2, <3>1, <3>2 DEF Listed
    <3>4. /\ Listed(l, 1) \in Brs /\ Listed(l, 1) # NoBr
          /\ LabelOf[Listed(l, 1)] = l /\ runs[Listed(l, 1)] = 0
          /\ Listed(l, 1) \notin cached_br_list
          /\ \A e \in Duts : br[e] # Listed(l, 1)
      BY <1>c, <1>e, <2>2, <3>2, NoBrIsNoBr DEF ListsApart
    <3>5. HeldByOne' /\ HeldNotCached'
      BY <1>d, <1>e, <2>1, <3>1, <3>2, <3>4 DEF HeldByOne, HeldNotCached
    <3>6. ListsApart'
      <4> SUFFICES ASSUME NEW k \in Labels, NEW i \in 1..Len(label_brl_map'[k])
                   PROVE  /\ LabelOf[Listed(k, i)'] = k
                          /\ Listed(k, i)' \notin cached_br_list'
                          /\ runs'[Listed(k, i)'] = 0
                          /\ \A e \in Duts : br'[e] # Listed(k, i)'
                          /\ \A j \in 1..Len(label_brl_map'[k]) :
                               Listed(k, j)' = Listed(k, i)' => i = j
        BY DEF ListsApart
      <4>1. PICK m \in 1..Len(label_brl_map[k]) :
              /\ Listed(k, i)' = Listed(k, m)
              /\ m = IF k = l THEN i + 1 ELSE i
        BY <3>3
      <4>2. Listed(k, m) # Listed(l, 1)
        BY <1>e, <3>2, <3>4, <4>1 DEF ListsApart
      <4>3. \A e \in Duts : br'[e] # Listed(k, m)
        BY <1>d, <1>e, <3>1, <3>2, <4>2 DEF ListsApart
      <4>4. \A j \in 1..Len(label_brl_map'[k]) : Listed(k, j)' = Listed(k, i)' => i = j
        BY <1>e, <3>3, <4>1 DEF ListsApart
      <4>5. QED
        BY <1>e, <2>1, <4>1, <4>3, <4>4 DEF ListsApart
    <3>7. RunsKnown'
      BY <1>d, <1>e, <2>1, <3>1, <3>2, <3>4 DEF RunsKnown, RunAtMostOnce
    <3>8. QED
      BY <3>5, <3>6, <3>7 DEF Placement
  <2>5. QED
    BY <2>3, <2>4
<1>4. CASE ExecCheck(d)
  <2>1. /\ UNCHANGED <<cached_br_list, label_brl_map, runs>>
        /\ pc[d] = "exec"
        /\ \/ pc'[d] = "loop" /\ br'[d] = NoBr
           \/ pc'[d] = "activate" /\ br'[d] = br[d]
    BY <1>4, <1>a DEF ExecCheck, unchangedByExec, Goto
  <2>2. HeldByOne' /\ HeldNotCached'
    BY <1>d, <1>e, <2>1 DEF HeldByOne, HeldNotCached
  <2>3. ListsApart'
    BY <1>c, <1>d, <1>e, <2>1, NoBrIsNoBr DEF ListsApart, Listed
  <2>4. RunsKnown'
    BY <1>d, <1>e, <2>1 DEF RunsKnown, RunAtMostOnce
  <2>5. QED
    BY <2>2, <2>3, <2>4 DEF Placement
<1>5. CASE StartRun(d)
  <2>1. /\ UNCHANGED <<cached_br_list, label_brl_map, br>>
        /\ pc[d] = "start" /\ pc'[d] = "running"
        /\ runs' = [runs EXCEPT ![br[d]] = @ + 1]
    BY <1>5, <1>a DEF StartRun, unchangedByExec, Goto
  <2>2. br[d] \in Brs /\ br[d] # NoBr /\ runs[br[d]] = 0
    BY <1>b, <1>e, <2>1, NoBrIsNoBr DEF Known, BrKnown, RunsKnown, Holding
  <2>3. runs'[br[d]] = 1 /\ \A b \in Brs \ {br[d]} : runs'[b] = runs[b]
    BY <1>a, <2>1, <2>2
  <2>4. HeldByOne' /\ HeldNotCached'
    BY <1>e, <2>1 DEF HeldByOne, HeldNotCached
  <2>5. ListsApart'
    BY <1>c, <1>e, <2>1, <2>2, <2>3 DEF ListsApart, Listed
  <2>6. RunsKnown'
    BY <1>a, <1>d, <1>e, <2>1, <2>2, <2>3, RunMarks DEF HeldNotCached
  <2>7. QED
    BY <2>4, <2>5, <2>6 DEF Placement
<1>6. CASE ClearActive(d)
  <2>1. /\ UNCHANGED <<cached_br_list, label_brl_map, runs>>
        /\ pc'[d] \in {"loop", "finish"} /\ br'[d] = NoBr
    BY <1>6, <1>a DEF ClearActive, unchangedByExec, Goto, Leave
  <2>2. HeldByOne' /\ HeldNotCached'
    BY <1>d, <1>e, <2>1 DEF HeldByOne, HeldNotCached
  <2>3. ListsApart'
    BY <1>c, <1>d, <1>e, <2>1, NoBrIsNoBr DEF ListsApart, Listed
  <2>4. RunsKnown'
    BY <1>d, <1>e, <2>1 DEF RunsKnown, RunAtMostOnce
  <2>5. QED
    BY <2>2, <2>3, <2>4 DEF Placement
<1>7. QED
  BY <1>0, <1>1, <1>2, <1>3, <1>4, <1>5, <1>6 DEF Moves

-----------------------------------------------------------------------------
(* The images on the duts.                                                 *)

\* Beginning something after terminate().
LEMMA LateStep ==
  ASSUME TypeOK, NEW d \in Duts, NEW work \in Begun, LateKnown(d), CountLate(d, work),
         sched_terminated' = sched_terminated,
         pc[d] \in {"runcached", "start", "reimage"},
         work = "cached" \/ pc'[d] \in {"running", "wantimage", "loop"}
  PROVE  LateKnown(d)'
PROOF
<1>1. late[d] \in Seq(Begun)
  BY DEF TypeOK
<1>2. \A i \in 1..Len(late[d]) : late[d][i] = "cached"
  BY DEF LateKnown
<1>3. late'[d] = IF sched_terminated THEN Append(late[d], work) ELSE late[d]
  BY CountLateType
<1>4. CASE ~sched_terminated
  BY <1>2, <1>3, <1>4 DEF LateKnown
<1>5. CASE sched_terminated
  <2>1. /\ Len(late'[d]) = Len(late[d]) + 1
        /\ \A i \in 1..Len(late[d]) : late'[d][i] = late[d][i]
        /\ late'[d][Len(late[d]) + 1] = work
        /\ Len(late[d]) \in Nat
    BY <1>1, <1>3, <1>5, AppendProperties, LenProperties
  <2>2. QED
    BY <1>2, <1>5, <2>1 DEF LateKnown
<1>6. QED
  BY <1>4, <1>5

\* Every step of a worker keeps what is known of its dut and its late starts.
LEMMA WorkerImageLate ==
  ASSUME TypeOK, Control, Placement, NEW d \in Duts, Worker(d), ImageKnown(d), LateKnown(d)
  PROVE  ImageKnown(d)' /\ LateKnown(d)'
PROOF
<1> DEFINE SameFile == installed'[d] = installed[d] /\ file'[d] = file[d] /\ stale' = stale
           SameDut == dut_label'[d] = dut_label[d] /\ dut_checksum'[d] = dut_checksum[d] /\ SameFile
           SameLate == late'[d] = late[d] /\ sched_terminated' = sched_terminated
<1>a. Known(d)
  BY DEF Control
<1>b. /\ pc \in [Duts -> WorkerPc] /\ br \in [Duts -> Brs \cup {NoBr}]
      /\ dut_label \in [Duts -> Labels \cup {NoLabel}]
      /\ dut_checksum \in [Duts -> Nat] /\ installed \in [Duts -> Nat] /\ file \in [Duts -> Nat]
      /\ goal \in [Duts -> Labels \cup {NoLabel}]
  BY DEF TypeOK
<1> USE <1>b DEF ImageKnown, Told, LateKnown, Holding, Goto, Leave, schedVars, mimVars, dutVars,
        brVars, mainVars, localVars
<1>1. CASE GetCachedBenchmarkRun(d)
  <2>1. pc[d] = "cached" /\ pc'[d] \in {"runcached", "setup"} /\ SameDut /\ SameLate
    BY <1>1 DEF GetCachedBenchmarkRun
  <2>2. QED
    BY <2>1
<1>2. CASE RunCached(d)
  <2>1. pc[d] = "runcached" /\ pc'[d] = "cached" /\ SameDut /\ sched_terminated' = sched_terminated
    BY <1>2 DEF RunCached
  <2>2. LateKnown(d)'
    BY <1>2, <2>1, LateStep, BegunWork DEF RunCached
  <2>3. QED
    BY <2>1, <2>2
<1>3. CASE SetupDutLabel(d)
  <2>1. /\ pc[d] = "setup" /\ pc'[d] = "loop" /\ SameLate
        /\ dut_checksum'[d] = dut_checksum[d] /\ SameFile
    BY <1>3 DEF SetupDutLabel
  <2>2. dut_label'[d] = NoLabel \/ (dut_label'[d] \in Labels /\ Image[dut_label'[d]] = file[d])
    BY <1>3, <2>1, ChecksummedAssumption DEF SetupDutLabel, Preinstalled
  <2>3. file[d] # NoImage => Told(d) = file[d]
    BY <2>1
  <2>4. dut_label'[d] # NoLabel => Told(d) = Image[dut_label'[d]]
    BY <2>2, <2>3, ImageAssumption
  <2>5. QED
    BY <2>1, <2>2, <2>4
<1>4. CASE LoopTest(d)
  <2>1. pc[d] = "loop" /\ pc'[d] \in {"finish", "get"} /\ SameDut /\ SameLate
    BY <1>4 DEF LoopTest, unchangedByGet
  <2>2. QED
    BY <2>1
<1>5. CASE GetBenchmarkRun(d)
  <2>1. /\ pc[d] = "get" /\ SameDut /\ SameLate
        /\ pc'[d] = "alloc" \/ (pc'[d] = "lookup" /\ ~sched_terminated)
    BY <1>5 DEF GetBenchmarkRun, unchangedByGet
  <2>2. QED
    BY <2>1
<1>6. CASE LockLookup(d)
  <2>1. pc[d] = "lookup" /\ pc'[d] \in {"acquire", "mklock"} /\ SameDut /\ SameLate
    BY <1>6 DEF LockLookup, unchangedByGet
  <2>2. QED
    BY <2>1
<1>7. CASE MakeLock(d)
  <2>1. pc[d] = "mklock" /\ pc'[d] = "acquire" /\ SameDut /\ SameLate
    BY <1>7 DEF MakeLock, unchangedByGet
  <2>2. QED
    BY <2>1
<1>8. CASE AcquireLock(d)
  <2>1. pc[d] = "acquire" /\ pc'[d] = "check" /\ SameDut /\ SameLate
    BY <1>8 DEF AcquireLock, unchangedByGet
  <2>2. QED
    BY <2>1
<1>9. CASE CheckList(d)
  <2>1. pc[d] = "check" /\ pc'[d] \in {"alloc", "pop"} /\ SameDut /\ SameLate
    BY <1>9 DEF CheckList, ReleaseLock, unchangedByGet
  <2>2. QED
    BY <2>1
<1>10. CASE PopBenchmarkRun(d)
  <2> DEFINE brl == label_brl_map[dut_label[d]]
  <2>1. pc[d] = "pop" /\ pc'[d] \in {"finish", "exec"} /\ SameDut /\ SameLate
    BY <1>10 DEF PopBenchmarkRun, ReleaseLock, unchangedByGet
  <2>2. pc'[d] = "exec" => brl # <<>> /\ br'[d] = Head(brl)
    BY <1>10 DEF PopBenchmarkRun
  <2>3. dut_label[d] \in Labels /\ brl \in Seq(Brs)
    BY <1>a, <2>1 DEF Known, LabelKnown, TypeOK
  <2>4. brl # <<>> => LabelOf[Head(brl)] = dut_label[d]
    <3> SUFFICES ASSUME brl # <<>> PROVE LabelOf[Head(brl)] = dut_label[d]
      OBVIOUS
    <3>1. Len(brl) \in Nat /\ Len(brl) >= 1 /\ Head(brl) = brl[1]
      BY <2>3, HeadTailProperties, EmptySeq, LenProperties
    <3>2. 1 \in 1..Len(brl)
      BY <3>1
    <3>3. LabelOf[Listed(dut_label[d], 1)] = dut_label[d]
      BY <2>3, <3>2 DEF Placement, ListsApart
    <3>4. QED
      BY <3>1, <3>3 DEF Listed
  <2>5. QED
    BY <2>1, <2>2, <2>4
<1>11. CASE ExecCheck(d)
  <2>1. pc[d] = "exec" /\ SameDut /\ SameLate
    BY <1>11 DEF ExecCheck, unchangedByExec
  <2>2. pc'[d] = "loop" \/ (pc'[d] = "activate" /\ br'[d] = br[d])
    BY <1>11 DEF ExecCheck
  <2>3. QED
    BY <2>1, <2>2
<1>12. CASE Activate(d)
  <2>1. pc[d] = "activate" /\ pc'[d] = "start" /\ br'[d] = br[d] /\ SameDut /\ SameLate
    BY <1>12 DEF Activate, unchangedByExec
  <2>2. QED
    BY <2>1
<1>13. CASE StartRun(d)
  <2>1. /\ pc[d] = "start" /\ pc'[d] = "running" /\ br'[d] = br[d] /\ SameDut
        /\ sched_terminated' = sched_terminated
    BY <1>13 DEF StartRun, unchangedByExec
  <2>2. LateKnown(d)'
    BY <1>13, <2>1, LateStep, BegunWork DEF StartRun
  <2>3. QED
    BY <2>1, <2>2
<1>14. CASE FinishRun(d)
  <2>1. /\ pc[d] = "running" /\ pc'[d] \in {"clear", "clearraise"} /\ br'[d] = br[d]
        /\ SameDut /\ SameLate
    BY <1>14 DEF FinishRun, unchangedByExec
  <2>2. QED
    BY <2>1
<1>15. CASE ClearActive(d)
  <2>1. /\ pc[d] \in {"clear", "clearraise"} /\ pc'[d] \in {"loop", "finish"}
        /\ SameDut /\ SameLate
    BY <1>15 DEF ClearActive, unchangedByExec
  <2>2. QED
    BY <2>1
<1>16. CASE AllocateLabel(d)
  <2>1. /\ pc[d] = "alloc" /\ SameDut /\ SameLate
        /\ pc'[d] = "finish" \/ (pc'[d] = "scan" /\ ~sched_terminated)
    BY <1>16 DEF AllocateLabel, unchangedByAlloc
  <2>2. QED
    BY <2>1
<1>17. CASE ScanRow(d)
  <2>1. pc[d] = "scan" /\ pc'[d] \in {"scan", "reimage"} /\ SameDut /\ SameLate
    BY <1>17 DEF ScanRow, Give, unchangedByAlloc
  <2>2. QED
    BY <2>1
<1>18. CASE EndScan(d)
  <2>1. pc[d] = "scan" /\ pc'[d] \in {"finish", "reimage"} /\ SameDut /\ SameLate
    BY <1>18 DEF EndScan, Give, unchangedByAlloc
  <2>2. QED
    BY <2>1
<1>19. CASE ReimageCheck(d)
  <2>1. /\ pc[d] = "reimage" /\ sched_terminated' = sched_terminated
        /\ dut_checksum'[d] = dut_checksum[d] /\ SameFile
    BY <1>19 DEF ReimageCheck, unchangedByReimage
  <2>2. \/ pc'[d] = "finish" /\ late'[d] = late[d]
        \/ pc'[d] \in {"wantimage", "loop"} /\ CountLate(d, "reimage")
    BY <1>19 DEF ReimageCheck
  <2>3. \/ dut_label'[d] = dut_label[d]
        \/ /\ dut_label'[d] = goal[d]
           /\ dut_checksum[d] = Image[goal[d]]
    BY <1>19 DEF ReimageCheck, AlreadyImaged
  <2>4. goal[d] \in Labels /\ Image[goal[d]] # NoImage
    BY <1>a, <2>1, ImageAssumption DEF Known, GoalKnown
  <2>5. ImageKnown(d)'
    BY <2>1, <2>2, <2>3, <2>4
  <2>6. CASE pc'[d] = "finish" /\ late'[d] = late[d]
    BY <2>1, <2>5, <2>6
  <2>7. CASE pc'[d] \in {"wantimage", "loop"} /\ CountLate(d, "reimage")
    BY <2>1, <2>5, <2>7, LateStep, BegunWork
  <2>8. QED
    BY <2>2, <2>6, <2>7
<1>20. CASE BeginImage(d)
  <2>1. pc[d] = "wantimage" /\ pc'[d] = "imaging" /\ SameLate /\ SameDut
    BY <1>20 DEF BeginImage, unchangedByReimage
  <2>2. QED
    BY <2>1
<1>21. CASE EndImage(d)
  <2>1. pc[d] = "imaging" /\ pc'[d] \in {"loop", "finish"} /\ SameLate
    BY <1>21 DEF EndImage, unchangedByReimage
  <2>2. LateKnown(d)'
    BY <2>1
  <2>3. CASE pc'[d] = "finish"
    BY <2>1, <2>2, <2>3
  <2>4. CASE pc'[d] = "loop"
    <3>1. /\ dut_label'[d] = goal[d]
          /\ dut_checksum'[d] \in {Image[goal[d]], NoImage}
          /\ Skipped(d) \/ Flashed(d)
      BY <1>21, <2>4 DEF EndImage
    <3>2. goal[d] \in Labels /\ Image[goal[d]] # NoImage
      BY <1>a, <2>1, ImageAssumption DEF Known, GoalKnown
    <3>3. CASE Skipped(d)
      <4>1. file[d] = Image[goal[d]] /\ SameFile
        BY <3>3 DEF Skipped
      <4>2. QED
        BY <2>1, <2>2, <2>4, <3>1, <3>2, <4>1
    <3>4. CASE Flashed(d)
      <4>1. installed'[d] = Image[goal[d]] /\ file'[d] \in {Image[goal[d]], NoImage} /\ d \notin stale'
        BY <3>4 DEF Flashed
      <4>2. QED
        BY <2>1, <2>2, <2>4, <3>1, <4>1
    <3>5. QED
      BY <3>1, <3>3, <3>4
  <2>5. QED
    BY <2>1, <2>3, <2>4
<1>22. CASE DutWorkerFinished(d)
  <2>1. pc[d] = "finish" /\ pc'[d] = "ended" /\ SameLate
    BY <1>22 DEF DutWorkerFinished
  <2>2. QED
    BY <2>1
<1>23. QED
  BY <1>1, <1>2, <1>3, <1>4, <1>5, <1>6, <1>7, <1>8, <1>9, <1>10, <1>11, <1>12,
     <1>13, <1>14, <1>15, <1>16, <1>17, <1>18, <1>19, <1>20, <1>21, <1>22 DEF Worker

\* And the images of all duts stay known.
LEMMA WorkerImages ==
  ASSUME TypeOK, Control, Placement, ImageLate, NEW d \in Duts, Worker(d)
  PROVE  ImageLate'
PROOF
<1>1. ImageKnown(d)' /\ LateKnown(d)'
  BY WorkerImageLate DEF ImageLate
<1>2. ASSUME NEW e \in Duts \ {d}
      PROVE  ImageKnown(e)' /\ LateKnown(e)'
  <2>1. ImageKnown(e) /\ LateKnown(e) /\ Frame(d)
    BY WorkerFrame DEF ImageLate
  <2>2. QED
    BY <2>1 DEF Frame, ImageKnown, Told, LateKnown
<1>3. QED
  BY <1>1, <1>2 DEF ImageLate

-----------------------------------------------------------------------------
(* No br is lost.                                                          *)

\* Lists only shrink, and a worker writes only to its own column.
LEMMA ShrinkFrame ==
  ASSUME TypeOK, Control, NEW d \in Duts, Worker(d)
  PROVE  /\ \A l \in Labels : Empty(l) => Empty(l)'
         /\ cached_br_list = {} => cached_br_list' = {}
         /\ \A l \in Labels, e \in Duts \ {d} : matrix'[<<l, e>>] = matrix[<<l, e>>]
PROOF
<1>a. label_brl_map \in [Labels -> Seq(Brs)] /\ matrix \in [Labels \X Duts -> Cell]
  BY DEF TypeOK
<1>b. Known(d)
  BY DEF Control
<1>1. cached_br_list = {} => cached_br_list' = {}
  BY DEF Worker, GetCachedBenchmarkRun, RunCached, SetupDutLabel, LoopTest,
         GetBenchmarkRun, LockLookup, MakeLock, AcquireLock, CheckList,
         PopBenchmarkRun, unchangedByGet, ExecCheck, Activate, StartRun, FinishRun,
         ClearActive, unchangedByExec, AllocateLabel, ScanRow, EndScan,
         unchangedByAlloc, ReimageCheck, BeginImage, EndImage, unchangedByReimage,
         DutWorkerFinished
<1>2. \A l \in Labels : Empty(l) => Empty(l)'
  <2>1. CASE PopBenchmarkRun(d)
    <3>1. pc[d] = "pop" /\ dut_label[d] \in Labels
      BY <1>b, <2>1 DEF PopBenchmarkRun, Known, LabelKnown
    <3>2. CASE Empty(dut_label[d])
      BY <2>1, <3>2 DEF PopBenchmarkRun, Empty
    <3>3. CASE ~Empty(dut_label[d])
      <4>1. label_brl_map' = [label_brl_map EXCEPT ![dut_label[d]] = Tail(label_brl_map[dut_label[d]])]
        BY <2>1, <3>3 DEF PopBenchmarkRun, Empty
      <4>2. QED
        BY <1>a, <3>3, <4>1 DEF Empty
    <3>4. QED
      BY <3>2, <3>3
  <2>2. CASE ~PopBenchmarkRun(d)
    <3>1. UNCHANGED label_brl_map
      BY <2>2 DEF Worker, GetCachedBenchmarkRun, RunCached, SetupDutLabel, LoopTest,
         GetBenchmarkRun, LockLookup, MakeLock, AcquireLock, CheckList,
         unchangedByGet, ExecCheck, Activate, StartRun, FinishRun,
         ClearActive, unchangedByExec, AllocateLabel, ScanRow, EndScan,
         unchangedByAlloc, ReimageCheck, BeginImage, EndImage, unchangedByReimage,
         DutWorkerFinished
    <3>2. QED
      BY <3>1 DEF Empty
  <2>3. QED
    BY <2>1, <2>2
<1>3. \A l \in Labels, e \in Duts \ {d} : matrix'[<<l, e>>] = matrix[<<l, e>>]
  <2>1. CASE \E k \in Labels : Give(d, k)
    <3>1. PICK k \in Labels : matrix' = [matrix EXCEPT ![<<k, d>>] = "given"]
      BY <2>1 DEF Give
    <3>2. QED
      BY <1>a, <3>1
  <2>2. CASE UNCHANGED matrix
    BY <2>2
  <2>3. CASE ScanRow(d) \/ EndScan(d)
    BY <1>b, <2>1, <2>2, <2>3 DEF ScanRow, EndScan, Known, ScanKnown, mimVars
  <2>4. CASE ~(ScanRow(d) \/ EndScan(d))
    <3>1. UNCHANGED matrix
      BY <2>4 DEF Worker, GetCachedBenchmarkRun, RunCached, SetupDutLabel, LoopTest,
         GetBenchmarkRun, LockLookup, MakeLock, AcquireLock, CheckList,
         PopBenchmarkRun, unchangedByGet, ExecCheck, Activate, StartRun, FinishRun,
         ClearActive, unchangedByExec, AllocateLabel,
         unchangedByAlloc, ReimageCheck, BeginImage, EndImage, unchangedByReimage,
         DutWorkerFinished, mimVars
    <3>2. QED
      BY <3>1
  <2>5. QED
    BY <2>3, <2>4
<1>4. QED
  BY <1>1, <1>2, <1>3

\* None is not a label.
LEMMA LabelIsLabel ==
  NoLabel \notin Labels
BY SizeAssumption DEF NoLabel, Labels

\* Labels are the numbers from 1 to NLabels.
LEMMA LabelBounds ==
  \A l \in Labels : l \in Int /\ ~(l < 1) /\ l < NLabels + 1
BY SizeAssumption DEF Labels

\* A row before the next one is this one or an earlier one.
LEMMA PassedOrThis ==
  ASSUME NEW k \in Labels, NEW l \in Labels, k < l + 1
  PROVE  k = l \/ k < l
BY LabelBounds

\* What the steps of allocate() do to its locals.
LEMMA ScanBegins ==
  ASSUME TypeOK, NEW d \in Duts, AllocateLabel(d), ~sched_terminated
  PROVE  scan'[d].row = 1
BY DEF AllocateLabel, TypeOK

LEMMA ScanAdvances ==
  ASSUME TypeOK, NEW d \in Duts, NEW r, NEW c,
         scan' = [scan EXCEPT ![d] = [row |-> r, can |-> c]]
  PROVE  scan'[d].row = r /\ scan'[d].can = c
PROOF
<1>1. DOMAIN scan = Duts
  BY DEF TypeOK
<1>2. scan'[d] = [row |-> r, can |-> c]
  BY <1>1
<1>3. QED
  BY <1>2

\* Give(): the one cell that changes is the one the worker is about to serve.
LEMMA GiveWork ==
  ASSUME TypeOK, NEW d \in Duts, NEW l \in Labels, pc[d] = "scan", Give(d, l), WorkKnown(d),
         UNCHANGED <<label_brl_map, cached_br_list, terminated>>
  PROVE  WorkKnown(d)'
PROOF
<1>1. /\ pc'[d] = "reimage" /\ goal'[d] = l /\ ended' = ended
      /\ matrix'[<<l, d>>] = "given"
      /\ \A k \in Labels : k # l => matrix'[<<k, d>>] = matrix[<<k, d>>]
  BY DEF Give, Goto, TypeOK
<1>2. ForbiddenKnown(d)'
  BY <1>1 DEF WorkKnown, ForbiddenKnown
<1>3. GivenKnown(d)'
  BY <1>1 DEF WorkKnown, GivenKnown, Empty, AtLabel, Holding
<1>4. ScanEmpty(d)' /\ ExhaustedEmpty(d)' /\ EndKnown(d)' /\ CachedDone(d)'
  BY <1>1 DEF WorkKnown, ScanEmpty, ExhaustedEmpty, EndKnown, CachedDone, Empty
<1>5. QED
  BY <1>2, <1>3, <1>4 DEF WorkKnown

\* Every step of a worker keeps what is known of its own work.
LEMMA WorkerWork ==
  ASSUME TypeOK, Control, NEW d \in Duts, Worker(d), ~sched_terminated, WorkKnown(d)
  PROVE  WorkKnown(d)'
PROOF
<1> DEFINE Lists == /\ label_brl_map' = label_brl_map /\ cached_br_list' = cached_br_list
                    /\ matrix' = matrix /\ terminated' = terminated
           SameLabel == dut_label'[d] = dut_label[d]
           SameGoal == goal'[d] = goal[d]
           SameEnd == ended'[d] = ended[d]
<1>a. Known(d)
  BY DEF Control
<1>b. /\ pc \in [Duts -> WorkerPc] /\ ended \in [Duts -> EndReason]
      /\ dut_label \in [Duts -> Labels \cup {NoLabel}]
      /\ goal \in [Duts -> Labels \cup {NoLabel}]
      /\ scan \in [Duts -> ScanType]
  BY DEF TypeOK, ScanType
<1>c. /\ ForbiddenKnown(d) /\ GivenKnown(d) /\ ScanEmpty(d)
      /\ ExhaustedEmpty(d) /\ EndKnown(d) /\ CachedDone(d)
  BY DEF WorkKnown
<1> USE <1>b, <1>c DEF WorkKnown, ForbiddenKnown, GivenKnown, ScanEmpty, ExhaustedEmpty,
        EndKnown, CachedDone, Empty, AtLabel, Holding, Goto, Leave, schedVars, mimVars,
        dutVars, brVars, mainVars, localVars
<1>1. CASE GetCachedBenchmarkRun(d)
  <2>1. /\ pc[d] = "cached" /\ SameEnd
        /\ label_brl_map' = label_brl_map /\ matrix' = matrix /\ terminated' = terminated
        /\ pc'[d] = "runcached" \/ (pc'[d] = "setup" /\ cached_br_list' = {})
    BY <1>1 DEF GetCachedBenchmarkRun
  <2>2. QED
    BY <2>1
<1>2. CASE RunCached(d)
  <2>1. pc[d] = "runcached" /\ pc'[d] = "cached" /\ Lists /\ SameEnd
    BY <1>2 DEF RunCached
  <2>2. QED
    BY <2>1
<1>3. CASE SetupDutLabel(d)
  <2>1. pc[d] = "setup" /\ pc'[d] = "loop" /\ Lists /\ SameEnd
    BY <1>3 DEF SetupDutLabel
  <2>2. QED
    BY <2>1
<1>4. CASE LoopTest(d)
  <2>1. pc[d] = "loop" /\ pc'[d] = "get" /\ Lists /\ SameEnd /\ SameLabel
    BY <1>4 DEF LoopTest, unchangedByGet
  <2>2. QED
    BY <2>1
<1>5. CASE GetBenchmarkRun(d)
  <2>1. /\ pc[d] = "get" /\ Lists /\ SameEnd /\ SameLabel
        /\ pc'[d] = "lookup" \/ (pc'[d] = "alloc" /\ dut_label[d] = NoLabel)
    BY <1>5 DEF GetBenchmarkRun, unchangedByGet
  <2>2. QED
    BY <2>1, LabelIsLabel
<1>6. CASE LockLookup(d)
  <2>1. pc[d] = "lookup" /\ pc'[d] \in {"acquire", "mklock"} /\ Lists /\ SameEnd /\ SameLabel
    BY <1>6 DEF LockLookup, unchangedByGet
  <2>2. QED
    BY <2>1
<1>7. CASE MakeLock(d)
  <2>1. pc[d] = "mklock" /\ pc'[d] = "acquire" /\ Lists /\ SameEnd /\ SameLabel
    BY <1>7 DEF MakeLock, unchangedByGet
  <2>2. QED
    BY <2>1
<1>8. CASE AcquireLock(d)
  <2>1. pc[d] = "acquire" /\ pc'[d] = "check" /\ Lists /\ SameEnd /\ SameLabel
    BY <1>8 DEF AcquireLock, unchangedByGet
  <2>2. QED
    BY <2>1
<1>9. CASE CheckList(d)
  <2>1. /\ pc[d] = "check" /\ Lists /\ SameEnd /\ SameLabel
        /\ pc'[d] = "pop" \/ (pc'[d] = "alloc" /\ label_brl_map[dut_label[d]] = <<>>)
    BY <1>9 DEF CheckList, unchangedByGet
  <2>2. QED
    BY <2>1
<1>10. CASE PopBenchmarkRun(d)
  <2>1. /\ pc[d] = "pop" /\ SameLabel
        /\ cached_br_list' = cached_br_list /\ matrix' = matrix /\ terminated' = terminated
        /\ \/ pc'[d] = "exec" /\ SameEnd
           \/ pc'[d] = "finish" /\ ended'[d] = "crashed"
    BY <1>10 DEF PopBenchmarkRun, unchangedByGet
  <2>2. \A l \in Labels : label_brl_map[l] = <<>> => label_brl_map'[l] = <<>>
    BY ShrinkFrame
  <2>3. QED
    BY <2>1, <2>2
<1>11. CASE ExecCheck(d)
  <2>1. pc[d] = "exec" /\ pc'[d] = "activate" /\ Lists /\ SameEnd /\ SameLabel
    BY <1>11 DEF ExecCheck, unchangedByExec
  <2>2. QED
    BY <2>1
<1>12. CASE Activate(d)
  <2>1. pc[d] = "activate" /\ pc'[d] = "start" /\ Lists /\ SameEnd /\ SameLabel
    BY <1>12 DEF Activate, unchangedByExec
  <2>2. QED
    BY <2>1
<1>13. CASE StartRun(d)
  <2>1. pc[d] = "start" /\ pc'[d] = "running" /\ Lists /\ SameEnd /\ SameLabel
    BY <1>13 DEF StartRun, unchangedByExec
  <2>2. QED
    BY <2>1
<1>14. CASE FinishRun(d)
  <2>1. /\ pc[d] = "running" /\ pc'[d] \in {"clear", "clearraise"}
        /\ Lists /\ SameEnd /\ SameLabel
    BY <1>14 DEF FinishRun, unchangedByExec
  <2>2. QED
    BY <2>1
<1>15. CASE ClearActive(d)
  <2>1. /\ pc[d] \in {"clear", "clearraise"} /\ Lists /\ SameLabel
        /\ \/ pc'[d] = "loop" /\ SameEnd
           \/ pc'[d] = "finish" /\ ended'[d] = "crashed"
    BY <1>15 DEF ClearActive, unchangedByExec
  <2>2. QED
    BY <2>1
<1>16. CASE AllocateLabel(d)
  <2>1. /\ pc[d] = "alloc" /\ pc'[d] = "scan" /\ Lists /\ SameEnd
    BY <1>16 DEF AllocateLabel, unchangedByAlloc
  <2>2. ScanEmpty(d)'
    <3>1. scan'[d].row = 1
      BY <1>16, ScanBegins
    <3>2. QED
      BY <3>1, LabelBounds
  <2>3. ForbiddenKnown(d)' /\ GivenKnown(d)' /\ ExhaustedEmpty(d)' /\ EndKnown(d)' /\ CachedDone(d)'
    BY <2>1
  <2>4. QED
    BY <2>2, <2>3
<1>17. CASE ScanRow(d)
  <2> DEFINE l == scan[d].row
             v == matrix[<<l, d>>]
             pending == Len(label_brl_map[l])
             c == Consider(scan[d].can, l, v, label_duts[l], pending)
  <2>1. /\ pc[d] = "scan" /\ l \in Labels
        /\ UNCHANGED <<label_brl_map, cached_br_list, terminated>>
    BY <1>17 DEF ScanRow, unchangedByAlloc
  <2>2. CASE Planned(v, pending)
    <3>1. Give(d, l)
      BY <1>17, <2>2 DEF ScanRow
    <3>2. QED
      BY <2>1, <3>1, GiveWork
  <2>3. CASE ~Planned(v, pending)
    <3>1. /\ scan' = [scan EXCEPT ![d] = [row |-> l + 1, can |-> c]]
          /\ pc'[d] = "scan" /\ Lists /\ SameEnd
      BY <1>17, <2>1, <2>3 DEF ScanRow
    <3>2. scan'[d].row = l + 1 /\ scan'[d].can = c
      BY <3>1, ScanAdvances
    <3>3. v \in Cell /\ label_brl_map[l] \in Seq(Brs)
      BY <2>1 DEF TypeOK
    <3>4. c.label = NoLabel => scan[d].can.label = NoLabel
      BY <2>1, LabelIsLabel DEF Consider
    <3>5. ASSUME c.label = NoLabel, Compatible(Remote, l, d)
          PROVE  label_brl_map[l] = <<>>
      <4>1. pending = 0 \/ v # "free"
        BY <2>1, <3>4, <3>5, LabelIsLabel DEF Consider, BetterCandidate
      <4>2. CASE pending = 0
        BY <3>3, <4>2, EmptySeq
      <4>3. CASE pending # 0
        <5>1. v # "free" /\ v # "Y" /\ v # "X"
          BY <2>1, <2>3, <3>5, <4>1, <4>3 DEF Planned
        <5>2. v = "given"
          BY <3>3, <5>1 DEF Cell
        <5>3. QED
          BY <2>1, <5>2
      <4>4. QED
        BY <4>2, <4>3
    <3>6. ScanEmpty(d)'
      <4> SUFFICES ASSUME c.label = NoLabel,
                          NEW k \in Labels, k < l + 1, Compatible(Remote, k, d)
                   PROVE  label_brl_map[k] = <<>>
        BY <2>1, <3>1, <3>2
      <4>1. CASE k = l
        BY <3>5, <4>1
      <4>2. CASE k < l
        BY <2>1, <3>4, <4>2
      <4>3. k = l \/ k < l
        BY <2>1, PassedOrThis
      <4>4. QED
        BY <4>1, <4>2, <4>3
    <3>7. ForbiddenKnown(d)' /\ GivenKnown(d)' /\ ExhaustedEmpty(d)' /\ EndKnown(d)' /\ CachedDone(d)'
      BY <2>1, <3>1
    <3>8. QED
      BY <3>6, <3>7
  <2>4. QED
    BY <2>2, <2>3
<1>18. CASE EndScan(d)
  <2>1. /\ pc[d] = "scan" /\ scan[d].row = NLabels + 1
        /\ UNCHANGED <<label_brl_map, cached_br_list, terminated>>
    BY <1>18 DEF EndScan, unchangedByAlloc
  <2>2. CASE scan[d].can.label # NoLabel
    <3>1. Give(d, scan[d].can.label) /\ scan[d].can.label \in Labels
      BY <1>18, <1>a, <2>2 DEF EndScan, Known, ScanKnown
    <3>2. QED
      BY <2>1, <3>1, GiveWork
  <2>3. CASE scan[d].can.label = NoLabel
    <3>1. pc'[d] = "finish" /\ ended'[d] = "exhausted" /\ Lists
      BY <1>18, <2>3 DEF EndScan, unchangedByAlloc
    <3>2. \A l \in Labels : Compatible(Remote, l, d) => label_brl_map[l] = <<>>
      BY <2>1, <2>3, LabelBounds
    <3>3. QED
      BY <2>1, <3>1, <3>2
  <2>4. QED
    BY <2>2, <2>3
<1>19. CASE ReimageCheck(d)
  <2>1. /\ pc[d] = "reimage" /\ Lists /\ SameEnd
        /\ \/ pc'[d] = "loop" /\ dut_label'[d] = goal[d]
           \/ pc'[d] = "wantimage" /\ SameGoal
    BY <1>19 DEF ReimageCheck, unchangedByReimage
  <2>2. QED
    BY <2>1
<1>20. CASE BeginImage(d)
  <2>1. pc[d] = "wantimage" /\ pc'[d] = "imaging" /\ Lists /\ SameEnd /\ SameGoal
    BY <1>20 DEF BeginImage, unchangedByReimage
  <2>2. QED
    BY <2>1
<1>21. CASE EndImage(d)
  <2>1. /\ pc[d] = "imaging" /\ Lists
        /\ \/ pc'[d] = "loop" /\ dut_label'[d] = goal[d] /\ SameEnd
           \/ pc'[d] = "finish" /\ ended'[d] = "doomed"
    BY <1>21 DEF EndImage, unchangedByReimage
  <2>2. QED
    BY <2>1
<1>22. CASE DutWorkerFinished(d)
  <2>1. pc[d] = "finish" /\ pc'[d] = "ended" /\ Lists /\ SameEnd
    BY <1>22 DEF DutWorkerFinished
  <2>2. QED
    BY <2>1
<1>23. QED
  BY <1>1, <1>2, <1>3, <1>4, <1>5, <1>6, <1>7, <1>8, <1>9, <1>10, <1>11, <1>12,
     <1>13, <1>14, <1>15, <1>16, <1>17, <1>18, <1>19, <1>20, <1>21, <1>22 DEF Worker

\* The other workers' parts: lists shrink, and everything else they speak of
\* is theirs.
LEMMA OthersWork ==
  ASSUME TypeOK, Control, NEW d \in Duts, Worker(d), NEW e \in Duts \ {d}, WorkKnown(e)
  PROVE  WorkKnown(e)'
PROOF
<1>1. /\ pc'[e] = pc[e] /\ scan'[e] = scan[e] /\ goal'[e] = goal[e]
      /\ dut_label'[e] = dut_label[e] /\ ended'[e] = ended[e] /\ terminated' = terminated
  BY WorkerFrame DEF Frame
<1>2. /\ \A l \in Labels : Empty(l) => Empty(l)'
      /\ cached_br_list = {} => cached_br_list' = {}
      /\ \A l \in Labels : matrix'[<<l, e>>] = matrix[<<l, e>>]
  BY ShrinkFrame
<1>3. ForbiddenKnown(e)' /\ GivenKnown(e)'
  BY <1>1, <1>2 DEF WorkKnown, ForbiddenKnown, GivenKnown
<1>4. ScanEmpty(e)' /\ ExhaustedEmpty(e)'
  BY <1>1, <1>2 DEF WorkKnown, ScanEmpty, ExhaustedEmpty
<1>5. EndKnown(e)' /\ CachedDone(e)'
  BY <1>1, <1>2 DEF WorkKnown, EndKnown, CachedDone
<1>6. QED
  BY <1>3, <1>4, <1>5 DEF WorkKnown

\* Taking the first br off a list leaves the others in it.
LEMMA PopKeepsOthers ==
  ASSUME NEW S, NEW s \in Seq(S), s # <<>>, NEW i \in 1..Len(s), s[i] # Head(s)
  PROVE  \E j \in 1..Len(Tail(s)) : Tail(s)[j] = s[i]
PROOF
<1>1. /\ Len(s) \in Nat /\ Head(s) = s[1] /\ Len(Tail(s)) = Len(s) - 1
      /\ \A j \in 1..Len(Tail(s)) : Tail(s)[j] = s[j + 1]
  BY HeadTailProperties, LenProperties, EmptySeq
<1>2. i # 1
  BY <1>1
<1>3. i - 1 \in 1..Len(Tail(s)) /\ (i - 1) + 1 = i
  BY <1>1, <1>2
<1>4. QED
  BY <1>1, <1>3

\* No step of a worker loses a br, unless the worker was told to stop.
LEMMA WorkerAccounted ==
  ASSUME TypeOK, Control, Placement, NEW d \in Duts, Worker(d), ~terminated[d], RanKnown,
         \A b \in Brs : Accounted(b)
  PROVE  (\A b \in Brs : Accounted(b)') /\ RanKnown'
PROOF
<1>a. /\ br \in [Duts -> Brs \cup {NoBr}] /\ cached_br_list \subseteq Brs
      /\ label_brl_map \in [Labels -> Seq(Brs)] /\ runs \in [Brs -> Nat]
      /\ pc \in [Duts -> WorkerPc]
  BY DEF TypeOK
<1>b. Known(d) /\ \A e \in Duts : Known(e)
  BY DEF Control
<1>d. \A e \in Duts \ {d} : pc'[e] = pc[e] /\ br'[e] = br[e]
  BY WorkerFrame DEF Frame
<1>e. HeldByOne /\ RunsKnown
  BY DEF Placement
<1>f. \A b \in Brs : LabelOf[b] \in Labels
  BY LabelOfAssumption
<1> USE DEF Accounted, Listed
<1>0. CASE ~Moves(d)
  <2>1. UNCHANGED <<cached_br_list, label_brl_map, br, runs>>
    BY <1>0, PlacementFrame
  <2>2. pc'[d] \in {"running", "clear", "clearraise"} => pc[d] = "running"
    BY <1>0, <1>a DEF Worker, Moves, SetupDutLabel, LoopTest,
         GetBenchmarkRun, LockLookup, MakeLock, AcquireLock, CheckList,
         unchangedByGet, Activate, FinishRun, unchangedByExec, AllocateLabel,
         ScanRow, EndScan, Give, unchangedByAlloc, ReimageCheck, BeginImage, EndImage,
         unchangedByReimage, DutWorkerFinished, Goto, Leave
  <2>3. RanKnown'
    BY <1>d, <2>1, <2>2 DEF RanKnown
  <2>4. \A b \in Brs : Accounted(b)'
    BY <2>1
  <2>5. QED
    BY <2>3, <2>4
<1>1. CASE GetCachedBenchmarkRun(d)
  <2>1. /\ UNCHANGED <<label_brl_map, runs>>
        /\ pc[d] = "cached" /\ pc'[d] \in {"setup", "runcached"}
    BY <1>1, <1>a DEF GetCachedBenchmarkRun, brVars, Goto
  <2>2. \/ UNCHANGED <<cached_br_list, br>>
        \/ \E c \in cached_br_list : cached_br_list' = cached_br_list \ {c} /\ br'[d] = c
    BY <1>1, <1>a DEF GetCachedBenchmarkRun, localVars
  <2>3. br[d] \notin Brs
    BY <1>b, <2>1 DEF Known, BrKnown, Holding
  <2>4. \A b \in Brs : Accounted(b)'
    BY <1>d, <2>1, <2>2, <2>3
  <2>5. RanKnown'
    BY <1>d, <2>1 DEF RanKnown
  <2>6. QED
    BY <2>4, <2>5
<1>2. CASE RunCached(d) \/ StartRun(d)
  <2>1. /\ UNCHANGED <<cached_br_list, label_brl_map>>
        /\ pc[d] \in {"runcached", "start"}
        /\ pc'[d] = "cached" \/ (pc'[d] = "running" /\ br'[d] = br[d])
        /\ runs' = [runs EXCEPT ![br[d]] = @ + 1]
    BY <1>2, <1>a DEF RunCached, StartRun, unchangedByExec, Goto
  <2>2. br[d] \in Brs /\ br[d] # NoBr /\ runs[br[d]] = 0
    BY <1>b, <1>e, <2>1, NoBrIsNoBr DEF Known, BrKnown, RunsKnown, Holding
  <2>3. runs'[br[d]] = 1 /\ \A b \in Brs \ {br[d]} : runs'[b] = runs[b]
    BY <1>a, <2>1, <2>2
  <2>4. \A b \in Brs : Accounted(b)'
    BY <1>d, <2>1, <2>2, <2>3
  <2>5. RanKnown'
    <3> SUFFICES ASSUME NEW e \in Duts, pc'[e] \in {"running", "clear", "clearraise"}
                 PROVE  runs'[br'[e]] = 1
      BY DEF RanKnown
    <3>1. CASE e = d
      BY <2>1, <2>3, <3>1
    <3>2. CASE e # d
      <4>1. pc'[e] = pc[e] /\ br'[e] = br[e] /\ br[e] \in Brs
        BY <1>b, <1>d, <3>2 DEF Known, BrKnown, Holding
      <4>2. QED
        BY <2>3, <4>1 DEF RanKnown
    <3>3. QED
      BY <3>1, <3>2
  <2>6. QED
    BY <2>4, <2>5
<1>3. CASE PopBenchmarkRun(d)
  <2> DEFINE l   == dut_label[d]
             brl == label_brl_map[l]
  <2>1. pc[d] = "pop" /\ UNCHANGED <<cached_br_list, runs>> /\ pc'[d] \in {"exec", "finish"}
    BY <1>3, <1>a DEF PopBenchmarkRun, unchangedByGet, brVars, Goto, Leave
  <2>2. l \in Labels /\ brl \in Seq(Brs) /\ br[d] \notin Brs
    BY <1>a, <1>b, <2>1 DEF Known, LabelKnown, BrKnown, Holding
  <2>3. RanKnown'
    BY <1>d, <2>1 DEF RanKnown
  <2>4. CASE brl = <<>>
    <3>1. UNCHANGED <<label_brl_map, br>>
      BY <1>3, <2>4 DEF PopBenchmarkRun
    <3>2. \A b \in Brs : Accounted(b)'
      BY <2>1, <3>1
    <3>3. QED
      BY <2>3, <3>2
  <2>5. CASE brl # <<>>
    <3>1. /\ br'[d] = Head(brl)
          /\ label_brl_map' = [label_brl_map EXCEPT ![l] = Tail(brl)]
      BY <1>3, <1>a, <2>5 DEF PopBenchmarkRun
    <3>2. \A k \in Labels : label_brl_map'[k] = IF k = l THEN Tail(brl) ELSE label_brl_map[k]
      BY <1>a, <2>2, <3>1
    <3> HIDE DEF brl, l
    <3>3. ASSUME NEW b \in Brs, NEW i \in 1..Len(label_brl_map[LabelOf[b]]),
                 label_brl_map[LabelOf[b]][i] = b
          PROVE  Accounted(b)'
      <4>1. CASE LabelOf[b] # l
        <5>1. label_brl_map'[LabelOf[b]] = label_brl_map[LabelOf[b]]
          BY <1>f, <3>2, <4>1
        <5>2. QED
          BY <3>3, <5>1
      <4>2. CASE LabelOf[b] = l /\ b = Head(brl)
        BY <3>1, <4>2
      <4>3. CASE LabelOf[b] = l /\ b # Head(brl)
        <5>1. brl = label_brl_map[LabelOf[b]]
          BY <4>3 DEF brl
        <5>2. \E j \in 1..Len(Tail(brl)) : Tail(brl)[j] = b
          BY <2>2, <2>5, <3>3, <4>3, <5>1, PopKeepsOthers
        <5>3. label_brl_map'[LabelOf[b]] = Tail(brl)
          BY <1>f, <3>2, <4>3
        <5>4. QED
          BY <5>2, <5>3
      <4>4. QED
        BY <4>1, <4>2, <4>3
    <3>4. ASSUME NEW b \in Brs,
                 runs[b] = 1 \/ b \in cached_br_list \/ \E e \in Duts : br[e] = b
          PROVE  Accounted(b)'
      BY <1>d, <2>1, <2>2, <3>4
    <3>5. \A b \in Brs : Accounted(b)'
      BY <3>3, <3>4
    <3>6. QED
      BY <2>3, <3>5
  <2>6. QED
    BY <2>4, <2>5
<1>4. CASE ExecCheck(d)
  <2>1. /\ UNCHANGED <<cached_br_list, label_brl_map, runs>>
        /\ pc'[d] = "activate" /\ br'[d] = br[d]
    BY <1>4, <1>a DEF ExecCheck, unchangedByExec, Goto
  <2>2. \A b \in Brs : Accounted(b)'
    BY <1>d, <2>1
  <2>3. RanKnown'
    BY <1>d, <2>1 DEF RanKnown
  <2>4. QED
    BY <2>2, <2>3
<1>5. CASE ClearActive(d)
  <2>1. /\ UNCHANGED <<cached_br_list, label_brl_map, runs>>
        /\ pc[d] \in {"clear", "clearraise"} /\ pc'[d] \in {"loop", "finish"}
    BY <1>5, <1>a DEF ClearActive, unchangedByExec, Goto, Leave
  <2>2. runs[br[d]] = 1
    BY <2>1 DEF RanKnown
  <2>3. \A b \in Brs : Accounted(b)'
    BY <1>d, <2>1, <2>2
  <2>4. RanKnown'
    BY <1>d, <2>1 DEF RanKnown
  <2>5. QED
    BY <2>3, <2>4
<1>6. QED
  BY <1>0, <1>1, <1>2, <1>3, <1>4, <1>5 DEF Moves

\* A worker's step cannot follow the end of the experiment.
LEMMA WorkerMainEnd ==
  ASSUME TypeOK, WorkerList, MainKnown, MainEnd, NEW d \in Duts, Worker(d)
  PROVE  MainEnd'
PROOF
<1>1. UNCHANGED mainVars
  BY WorkerMainKnown
<1>2. CASE DutWorkerFinished(d)
  <2>1. \E i \in 1..Len(active_workers) : active_workers[i] = d
    BY <1>2 DEF DutWorkerFinished, Goto, WorkerList
  <2>2. active_workers # <<>>
    BY <2>1
  <2>3. QED
    BY <1>1, <2>2 DEF MainEnd, mainVars
<1>3. CASE ~DutWorkerFinished(d)
  <2>1. UNCHANGED active_workers
    BY <1>3, WorkerListFrame
  <2>2. QED
    BY <1>1, <2>1 DEF MainEnd, mainVars
<1>4. QED
  BY <1>2, <1>3

\* Together: a worker's step loses no work.
LEMMA WorkerPreservesWork ==
  ASSUME TypeOK, Control, MainKnown, WorkerList, Placement, Work, NEW d \in Duts, Worker(d)
  PROVE  Work'
PROOF
<1> SUFFICES ASSUME ~sched_terminated' PROVE Work'
  BY DEF Work
<1>1. ~sched_terminated
  BY WorkerFrame DEF Frame
<1>2. /\ \A e \in Duts : WorkKnown(e)
      /\ \A b \in Brs : Accounted(b)
      /\ RanKnown
      /\ MainEnd
  BY <1>1 DEF Work
<1>3. WorkKnown(d)'
  BY <1>1, <1>2, WorkerWork
<1>4. \A e \in Duts \ {d} : WorkKnown(e)'
  BY <1>2, OthersWork
<1>5. ~terminated[d]
  BY <1>2 DEF WorkKnown, EndKnown
<1>6. (\A b \in Brs : Accounted(b)') /\ RanKnown'
  BY <1>2, <1>5, WorkerAccounted
<1>7. MainEnd'
  BY <1>2, WorkerMainEnd
<1>8. QED
  BY <1>3, <1>4, <1>6, <1>7 DEF Work

-----------------------------------------------------------------------------
(* The main thread.                                                        *)

\* Every step of the main thread, and ctrl-c, keeps the invariant.
LEMMA MainPreserves ==
  ASSUME IndInv, MainStep \/ Interrupt
  PROVE  IndInv'
PROOF
<1> DEFINE A == active_workers
<1>a. TypeOK /\ Control /\ MainKnown /\ WorkerList /\ Placement /\ ImageLate /\ Work
  BY DEF IndInv
<1>b. A \in Seq(Duts) /\ Len(A) \in Nat /\ \A i \in 1..Len(A) : A[i] \in Duts
  BY <1>a, LenProperties, ElementOfSeq DEF TypeOK
<1>c. UNCHANGED unchangedByMain
  BY DEF MainStep, StartWorker, RunSchedReturn, MonitorComplete, TerminateFlag,
         TerminateActive, TerminateReturn, Unlock, Interrupt
<1> USE DEF unchangedByMain, mimVars, localVars, dutVars
<1>1. CASE StartWorker
  <2> DEFINE w == A[main_i]
  <2>1. /\ main = "starting" /\ main' = "starting"
        /\ main_i \in Nat /\ main_i >= 1 /\ main_i <= Len(A) /\ main_i' = main_i + 1
        /\ pc' = [pc EXCEPT ![w] = "cached"]
        /\ UNCHANGED <<main_w, sched_terminated, terminated, br_terminated>>
    BY <1>1, <1>a DEF StartWorker, MainGoto, InLoop, MainKnown, TypeOK
  <2>2. w \in Duts /\ pc[w] = "new"
    BY <1>a, <1>b, <2>1 DEF WorkerList
  <2> HIDE DEF w
  <2>3. pc' \in [Duts -> WorkerPc]
    BY <1>a, <2>1 DEF TypeOK, WorkerPc
  <2>4. main_i' \in Nat /\ main_i' >= 1
    BY <2>1
  <2>5. TypeOK'
    BY <1>a, <1>c, <2>1, <2>3, <2>4 DEF TypeOK
  <2>6. pc'[w] = "cached" /\ \A d \in Duts \ {w} : pc'[d] = pc[d]
    BY <1>a, <2>1, <2>2 DEF TypeOK
  <2>7. Control'
    <3> SUFFICES ASSUME NEW d \in Duts PROVE Known(d)'
      BY DEF Control
    <3>1. Known(d)
      BY <1>a DEF Control
    <3>2. QED
      BY <1>c, <2>2, <2>6, <3>1 DEF Known, LabelKnown, LockKnown, BrKnown, GoalKnown,
            ScanKnown, Holding
  <2>8. MainKnown'
    BY <2>1, <2>4 DEF MainKnown
  <2>9. \A i \in 1..Len(A) : i # main_i => A[i] # w
    BY <1>a, <2>1 DEF WorkerList, w
  <2>10. WorkerList'
    <3>1. \A i \in 1..Len(A) : pc'[A[i]] # "ended"
      BY <1>a, <1>b, <2>6 DEF WorkerList
    <3>2. \A d \in Duts : pc'[d] # "ended" => \E i \in 1..Len(A) : A[i] = d
      BY <1>a, <2>2, <2>6 DEF WorkerList
    <3>3. \A i \in 1..Len(A) : i >= main_i' => pc'[A[i]] = "new"
      BY <1>a, <1>b, <2>1, <2>6, <2>9 DEF WorkerList
    <3>4. QED
      BY <1>a, <1>c, <3>1, <3>2, <3>3 DEF WorkerList
  <2>11. HeldByOne' /\ HeldNotCached' /\ ListsApart'
    BY <1>a, <1>c DEF Placement, HeldByOne, HeldNotCached, ListsApart, Listed
  <2>12. RunsKnown'
    BY <1>a, <1>c, <2>6 DEF Placement, RunsKnown, RunAtMostOnce
  <2>13. ImageLate'
    <3> SUFFICES ASSUME NEW d \in Duts PROVE ImageKnown(d)' /\ LateKnown(d)'
      BY DEF ImageLate
    <3>1. ImageKnown(d) /\ LateKnown(d)
      BY <1>a DEF ImageLate
    <3>2. QED
      BY <1>c, <2>1, <2>2, <2>6, <3>1 DEF ImageKnown, Told, LateKnown, Holding
  <2>14. Work'
    <3> SUFFICES ASSUME ~sched_terminated PROVE Work'
      BY <2>1 DEF Work
    <3>1. (\A d \in Duts : WorkKnown(d)) /\ (\A b \in Brs : Accounted(b)) /\ RanKnown
      BY <1>a DEF Work
    <3>2. \A d \in Duts : WorkKnown(d)'
      <4> SUFFICES ASSUME NEW d \in Duts PROVE WorkKnown(d)'
        OBVIOUS
      <4>1. pc'[d] = pc[d] \/ (pc[d] = "new" /\ pc'[d] = "cached")
        BY <2>2, <2>6
      <4>2. WorkKnown(d)
        BY <3>1
      <4>3. ForbiddenKnown(d)' /\ GivenKnown(d)' /\ ScanEmpty(d)'
        BY <1>c, <4>1, <4>2 DEF WorkKnown, ForbiddenKnown, GivenKnown, ScanEmpty,
              Empty, AtLabel, Holding
      <4>4. ExhaustedEmpty(d)' /\ EndKnown(d)' /\ CachedDone(d)'
        BY <1>c, <2>1, <4>1, <4>2 DEF WorkKnown, ExhaustedEmpty, EndKnown, CachedDone, Empty
      <4>5. QED
        BY <4>3, <4>4 DEF WorkKnown
    <3>3. \A b \in Brs : Accounted(b)'
      BY <1>c, <3>1 DEF Accounted, Listed
    <3>4. RanKnown'
      BY <1>c, <2>6, <3>1 DEF RanKnown
    <3>5. MainEnd'
      BY <2>1 DEF MainEnd
    <3>6. QED
      BY <3>2, <3>3, <3>4, <3>5 DEF Work
  <2>15. QED
    BY <2>5, <2>7, <2>8, <2>10, <2>11, <2>12, <2>13, <2>14 DEF IndInv, Placement
<1>2. CASE ~StartWorker
  <2>1. UNCHANGED pc
    BY <1>2 DEF MainStep, RunSchedReturn, MonitorComplete, TerminateFlag,
           TerminateActive, TerminateReturn, Unlock, Interrupt
  <2>2. main' # "starting" /\ main' \in {"monitor", "terminating", "terminateactive", "unlock", "done"}
    BY <1>2 DEF MainStep, RunSchedReturn, MonitorComplete, TerminateFlag,
           TerminateActive, TerminateReturn, Unlock, Interrupt, MainGoto
  <2>3. TypeOK' /\ MainKnown'
    <3>1. CASE TerminateFlag
      <4>1. main_i \in Nat /\ main_i >= 1 /\ main_i <= Len(A)
        BY <1>a, <3>1 DEF TerminateFlag, InLoop, MainKnown, TypeOK
      <4>2. A[main_i] \in Duts
        BY <1>b, <4>1
      <4>3. /\ main_w' \in Duts /\ main_i' \in Nat /\ main_i' >= 1
            /\ UNCHANGED <<sched_terminated, br_terminated>>
        BY <3>1, <4>1, <4>2 DEF TerminateFlag
      <4>4. terminated' \in [Duts -> BOOLEAN]
        BY <1>a, <3>1 DEF TerminateFlag, TypeOK
      <4>5. TypeOK' /\ MainKnown'
        BY <1>a, <1>c, <2>1, <2>2, <4>3, <4>4 DEF TypeOK, MainKnown
      <4>6. QED
        BY <4>5
    <3>2. CASE TerminateActive
      <4>1. main_w \in Duts
        BY <1>a, <3>2 DEF TerminateActive, MainGoto, MainKnown
      <4>2. br_terminated' \subseteq Brs
        BY <1>a, <3>2, <4>1 DEF TerminateActive, TypeOK
      <4>3. TypeOK'
        BY <1>a, <1>c, <2>1, <2>2, <3>2, <4>2 DEF TerminateActive, TypeOK
      <4>4. MainKnown'
        BY <1>a, <3>2 DEF TerminateActive, MainKnown, MainGoto
      <4>5. QED
        BY <4>3, <4>4
    <3>3. CASE Interrupt
      <4>1. TypeOK'
        BY <1>a, <1>c, <2>1, <2>2, <3>3 DEF Interrupt, TypeOK
      <4>2. MainKnown'
        BY <1>a, <3>3 DEF Interrupt, MainKnown, MainGoto
      <4>3. QED
        BY <4>1, <4>2
    <3>4. CASE RunSchedReturn \/ MonitorComplete \/ TerminateReturn \/ Unlock
      <4>1. /\ UNCHANGED <<main_i, main_w, sched_terminated, terminated, br_terminated>>
            /\ main' # "terminateactive"
        BY <3>4 DEF RunSchedReturn, MonitorComplete, TerminateReturn, Unlock, MainGoto
      <4>2. TypeOK'
        BY <1>a, <1>c, <2>1, <2>2, <4>1 DEF TypeOK
      <4>3. MainKnown'
        BY <1>a, <4>1 DEF MainKnown
      <4>4. QED
        BY <4>2, <4>3
    <3>5. QED
      BY <1>2, <3>1, <3>2, <3>3, <3>4 DEF MainStep
  <2>4. Control'
    BY <1>a, <1>c, <2>1 DEF Control, Known, LabelKnown, LockKnown, BrKnown, GoalKnown,
          ScanKnown
  <2>5. WorkerList'
    BY <1>a, <1>c, <2>1, <2>2 DEF WorkerList
  <2>6. HeldByOne' /\ HeldNotCached' /\ ListsApart' /\ RunsKnown'
    BY <1>a, <1>c, <2>1 DEF Placement, HeldByOne, HeldNotCached, ListsApart, Listed,
          RunsKnown, RunAtMostOnce
  <2>7. sched_terminated => sched_terminated'
    BY <1>2 DEF MainStep, RunSchedReturn, MonitorComplete, TerminateFlag,
           TerminateActive, TerminateReturn, Unlock, Interrupt
  <2>8. ImageLate'
    BY <1>a, <1>c, <2>1, <2>7 DEF ImageLate, ImageKnown, Told, LateKnown
  <2>9. Work'
    <3> SUFFICES ASSUME ~sched_terminated' PROVE Work'
      BY DEF Work
    <3>1. /\ \A d \in Duts : WorkKnown(d)
          /\ \A b \in Brs : Accounted(b)
          /\ RanKnown
          /\ MainEnd
      BY <1>a, <2>7 DEF Work
    <3>2. ~TerminateFlag /\ ~TerminateActive /\ ~TerminateReturn /\ ~Interrupt
      BY <3>1 DEF MainEnd, TerminateFlag, TerminateActive, TerminateReturn, Interrupt,
            MainGoto
    <3>3. CASE RunSchedReturn \/ MonitorComplete \/ Unlock
      <4>1. UNCHANGED terminated
        BY <3>3 DEF RunSchedReturn, MonitorComplete, Unlock
      <4>2. MainEnd'
        BY <1>c, <3>1, <3>3 DEF RunSchedReturn, MonitorComplete, Unlock, MainGoto, MainEnd
      <4>3. \A d \in Duts : WorkKnown(d)'
        BY <1>c, <2>1, <3>1, <4>1 DEF WorkKnown, ForbiddenKnown, GivenKnown, ScanEmpty,
              ExhaustedEmpty, EndKnown, CachedDone, Empty
      <4>4. (\A b \in Brs : Accounted(b)') /\ RanKnown'
        BY <1>c, <2>1, <3>1 DEF Accounted, Listed, RanKnown
      <4>5. QED
        BY <4>2, <4>3, <4>4 DEF Work
    <3>4. QED
      BY <1>2, <3>2, <3>3 DEF MainStep
  <2>10. QED
    BY <2>3, <2>4, <2>5, <2>6, <2>8, <2>9 DEF IndInv, Placement
<1>3. QED
  BY <1>1, <1>2

-----------------------------------------------------------------------------
(* The initial state.                                                      *)

\* Whatever plan the search finds: the matrix has a cell for each label and
\* dut, 'X' stands only for what is not compatible, and nothing was given yet.
Prepared(m) ==
  /\ m \in [Labels \X Duts -> Cell]
  /\ \A l \in Labels, d \in Duts :
       /\ m[<<l, d>>] # "given"
       /\ m[<<l, d>>] = "X" => ~Compatible(Remote, l, d)

LEMMA InitialAllocationPrepared ==
  Prepared(InitialAllocation(NLabels, NDuts, Remote))
PROOF
<1> DEFINE m == InitialMatrix(NLabels, NDuts, Remote)
           Ns == FeasibleNs(NLabels, NDuts, Remote)
           f == LeastPlan(NLabels, Plans(NLabels, NDuts, Remote,
                                         CHOOSE N \in Ns : \A k \in Ns : N <= k))
           m1 == [c \in DOMAIN m |-> IF m[c] = "free" THEN "Y" ELSE m[c]]
           m2 == [c \in DOMAIN m |-> IF m[c] = "free" /\ f[c[1]] = c[2] THEN "Y" ELSE m[c]]
<1>1. Prepared(m)
  <2>1. m = [c \in Labels \X Duts |-> IF Compatible(Remote, c[1], c[2]) THEN "free" ELSE "X"]
    BY DEF InitialMatrix, Labels, Duts
  <2> HIDE DEF m
  <2>2. m \in [Labels \X Duts -> Cell]
    BY <2>1 DEF Cell
  <2>3. \A l \in Labels, d \in Duts :
          m[<<l, d>>] = IF Compatible(Remote, l, d) THEN "free" ELSE "X"
    BY <2>1
  <2>4. QED
    BY <2>2, <2>3 DEF Prepared
<1> HIDE DEF m, f, Ns
<1>2. Prepared(m1) /\ Prepared(m2)
  <2>1. m1 \in [Labels \X Duts -> Cell] /\ m2 \in [Labels \X Duts -> Cell]
    BY <1>1 DEF Prepared, Cell
  <2>2. \A l \in Labels, d \in Duts :
          m1[<<l, d>>] \in {"Y", m[<<l, d>>]} /\ m2[<<l, d>>] \in {"Y", m[<<l, d>>]}
    BY <1>1 DEF Prepared
  <2>3. QED
    BY <1>1, <2>1, <2>2 DEF Prepared
<1> HIDE DEF m1, m2
<1>3. InitialAllocation(NLabels, NDuts, Remote)
        = CASE NDuts = 1 \/ NLabels = 1 -> m1
            [] NDuts > 1 /\ NLabels > 1 /\ Ns # {} -> m2
            [] OTHER -> m
  BY DEF InitialAllocation, m, m1, m2, f, Ns
<1>4. QED
  BY <1>1, <1>2, <1>3

\* Schedv2.__init__ establishes the invariant.
LEMMA InitIndInv ==
  ASSUME Init
  PROVE  IndInv
PROOF
<1>1. active_workers \in Seq(Duts) /\ Len(active_workers) = NDuts
  BY SizeAssumption DEF Init, Duts
<1>2. label_brl_map \in [Labels -> Seq(Brs)]
  <2>1. \A k \in 0..NBrs : [1..k -> Brs] \subseteq Seq(Brs)
    BY SizeAssumption
  <2>2. label_brl_map \in [Labels -> UNION {[1..k -> Brs] : k \in 0..NBrs}]
    BY DEF Init
  <2>3. QED
    BY <2>1, <2>2
<1>3. installed \in [Duts -> Nat] /\ file \in [Duts -> Nat]
  <2>1. Images \subseteq Nat
    BY ImageAssumption DEF Images, NoImage
  <2>2. installed \in [Duts -> Images] /\ file \in [Duts -> Images]
    BY DEF Init
  <2>3. QED
    BY <2>1, <2>2
<1>4. scan \in [Duts -> ScanType]
  BY NotScanningType DEF Init
<1>5. Prepared(matrix)
  BY InitialAllocationPrepared DEF Init
<1>l. late \in [Duts -> Seq(Begun)] /\ stale \subseteq Duts
  BY DEF Init
<1>6. TypeOK
  BY <1>1, <1>2, <1>3, <1>4, <1>5, <1>l
  DEF Init, TypeOK, Prepared, ScanType, WorkerPc, EndReason, NoImage
<1>7. Control
  BY NoBrIsNoBr, NoScan DEF Init, Control, Known, LabelKnown, LockKnown, BrKnown,
     GoalKnown, ScanKnown, Holding
<1>8. MainKnown
  BY DEF Init, MainKnown
<1>9. WorkerList
  BY <1>1, SizeAssumption DEF Init, WorkerList, Duts
<1>10. HeldByOne /\ HeldNotCached
  BY DEF Init, HeldByOne, HeldNotCached
<1>11. ListsApart
  <2> SUFFICES ASSUME NEW l \in Labels, NEW i \in 1..Len(label_brl_map[l])
               PROVE  /\ LabelOf[Listed(l, i)] = l
                      /\ Listed(l, i) \notin cached_br_list
                      /\ runs[Listed(l, i)] = 0
                      /\ \A d \in Duts : br[d] # Listed(l, i)
                      /\ \A j \in 1..Len(label_brl_map[l]) :
                           Listed(l, j) = Listed(l, i) => i = j
    BY DEF ListsApart
  <2>1. ListOf(label_brl_map[l], PendingBrs(l, cached_br_list))
    BY DEF Init
  <2>2. Listed(l, i) \in Brs /\ LabelOf[Listed(l, i)] = l /\ Listed(l, i) \notin cached_br_list
    BY <2>1 DEF ListOf, PendingBrs, Listed
  <2>3. \A j \in 1..Len(label_brl_map[l]) : Listed(l, j) = Listed(l, i) => i = j
    <3> SUFFICES ASSUME NEW j \in 1..Len(label_brl_map[l]), Listed(l, j) = Listed(l, i)
                 PROVE  i = j
      OBVIOUS
    <3>1. Listed(l, i) \in Int
      BY <2>2, SizeAssumption DEF Brs
    <3>2. ~(i < j) /\ ~(j < i)
      BY <2>1, <3>1 DEF ListOf, Listed
    <3>3. Len(label_brl_map[l]) \in Nat
      BY <1>2, LenProperties
    <3>4. QED
      BY <3>2, <3>3
  <2>4. runs[Listed(l, i)] = 0 /\ \A d \in Duts : br[d] # Listed(l, i)
    BY <2>2, NoBrIsNoBr DEF Init
  <2>5. QED
    BY <2>2, <2>3, <2>4
<1>12. RunsKnown
  BY DEF Init, RunsKnown, RunAtMostOnce
<1>13. ImageLate
  BY <1>3 DEF Init, ImageLate, ImageKnown, Told, LateKnown, Holding
<1>14. Work
  <2>1. \A d \in Duts : WorkKnown(d)
    <3> SUFFICES ASSUME NEW d \in Duts PROVE WorkKnown(d)
      OBVIOUS
    <3>1. ForbiddenKnown(d) /\ GivenKnown(d)
      BY <1>5 DEF Prepared, ForbiddenKnown, GivenKnown
    <3>2. ScanEmpty(d) /\ ExhaustedEmpty(d) /\ EndKnown(d) /\ CachedDone(d)
      BY DEF Init, ScanEmpty, ExhaustedEmpty, EndKnown, CachedDone
    <3>3. QED
      BY <3>1, <3>2 DEF WorkKnown
  <2>2. \A b \in Brs : Accounted(b)
    <3> SUFFICES ASSUME NEW b \in Brs, b \notin cached_br_list
                 PROVE  \E i \in 1..Len(label_brl_map[LabelOf[b]]) : Listed(LabelOf[b], i) = b
      BY DEF Accounted
    <3>1. LabelOf[b] \in Labels /\ b \in PendingBrs(LabelOf[b], cached_br_list)
      BY LabelOfAssumption DEF PendingBrs
    <3>2. QED
      BY <3>1 DEF Init, ListOf, Listed
  <2>3. RanKnown /\ MainEnd
    BY DEF Init, RanKnown, MainEnd
  <2>4. QED
    BY <2>1, <2>2, <2>3 DEF Work
<1>15. QED
  BY <1>6, <1>7, <1>8, <1>9, <1>10, <1>11, <1>12, <1>13, <1>14 DEF IndInv, Placement

-----------------------------------------------------------------------------
(* The theorems.                                                           *)

\* Every step keeps it.
LEMMA NextIndInv ==
  ASSUME IndInv, [Next]_vars
  PROVE  IndInv'
PROOF
<1>1. CASE \E d \in Duts : Worker(d)
  <2>1. PICK d \in Duts : Worker(d)
    BY <1>1
  <2>2. TypeOK'
    BY <2>1, WorkerType DEF IndInv
  <2>3. Control'
    BY <2>1, WorkerControl DEF IndInv
  <2>4. MainKnown'
    BY <2>1, WorkerMainKnown DEF IndInv
  <2>5. WorkerList'
    BY <2>1, WorkerWorkerList DEF IndInv
  <2>6. Placement'
    BY <2>1, WorkerPlacement DEF IndInv
  <2>7. ImageLate'
    BY <2>1, WorkerImages DEF IndInv
  <2>8. Work'
    BY <2>1, WorkerPreservesWork DEF IndInv
  <2>9. QED
    BY <2>2, <2>3, <2>4, <2>5, <2>6, <2>7, <2>8 DEF IndInv
<1>2. CASE MainStep \/ Interrupt
  BY <1>2, MainPreserves
<1>3. CASE UNCHANGED vars
  <2> USE <1>3 DEF vars, schedVars, mimVars, dutVars, brVars, mainVars, localVars
  <2>1. TypeOK' /\ MainKnown' /\ WorkerList'
    BY DEF IndInv, TypeOK, MainKnown, WorkerList
  <2>2. Control' /\ ImageLate'
    BY DEF IndInv, Control, Known, LabelKnown, LockKnown, BrKnown, GoalKnown, ScanKnown,
           ImageLate, ImageKnown, Told, LateKnown
  <2>3. Placement'
    BY DEF IndInv, Placement, HeldByOne, HeldNotCached, ListsApart, Listed, RunsKnown,
           RunAtMostOnce
  <2>4. Work'
    BY DEF IndInv, Work, WorkKnown, ForbiddenKnown, GivenKnown, ScanEmpty, ExhaustedEmpty,
           EndKnown, CachedDone, Empty, Accounted, Listed, RanKnown, MainEnd
  <2>5. QED
    BY <2>1, <2>2, <2>3, <2>4 DEF IndInv
<1>4. QED
  BY <1>1, <1>2, <1>3 DEF Next

\* So it always holds.
LEMMA AlwaysIndInv ==
  Spec => []IndInv
PROOF
<1>1. Init => IndInv
  BY InitIndInv
<1>2. IndInv /\ [Next]_vars => IndInv'
  BY NextIndInv
<1>3. QED
  BY <1>1, <1>2, PTL DEF Spec

\* In every state of the scheduler's threads each variable has its type: the
\* indexing of _active_workers, _label_brl_map and the matrix never misses.
THEOREM TypeCorrect ==
  Spec => []TypeOK
PROOF
<1>1. IndInv => TypeOK
  BY DEF IndInv
<1>2. QED
  BY <1>1, AlwaysIndInv, PTL

\* A br is in one place, whatever the number of duts and labels and however
\* many Lock objects lock_on() made for a label.
THEOREM BrInOnePlace ==
  Spec => []InOnePlace
PROOF
<1>1. IndInv => InOnePlace
  BY InOnePlaceParts DEF IndInv, Placement
<1>2. QED
  BY <1>1, AlwaysIndInv, PTL

\* No br is run twice.
THEOREM BrRunAtMostOnce ==
  Spec => []RunAtMostOnce
PROOF
<1>1. IndInv => RunAtMostOnce
  BY DEF IndInv, Placement, RunsKnown
<1>2. QED
  BY <1>1, AlwaysIndInv, PTL

\* A br runs on a dut that carries the image of its label, whether the image was
\* found, written, or known from an earlier reimage; on a dut that came with a
\* checksum file of another image, only once it was flashed.
THEOREM BrRunsOnRightImage ==
  Spec => []RightImage
PROOF
<1>1. IndInv => RightImage
  <2> SUFFICES ASSUME IndInv, NEW d \in Duts, pc[d] \in Holding
               PROVE  /\ dut_label[d] = LabelOf[br[d]]
                      /\ \/ installed[d] = Image[LabelOf[br[d]]]
                         \/ d \in stale /\ file[d] = Image[LabelOf[br[d]]]
    BY DEF RightImage
  <2>1. Known(d) /\ ImageKnown(d)
    BY DEF IndInv, Control, ImageLate
  <2>2. dut_label[d] \in Labels
    BY <2>1 DEF Known, LabelKnown
  <2>3. QED
    BY <2>1, <2>2, LabelIsLabel DEF ImageKnown, Told, Holding
<1>2. QED
  BY <1>1, AlwaysIndInv, PTL

\* After terminate() a worker begins cached brs, then at most one br or reimage,
\* then nothing.
THEOREM LateIsBounded ==
  Spec => []LateBound
PROOF
<1>1. IndInv => LateBound
  BY DEF IndInv, ImageLate, LateKnown, LateBound
<1>2. QED
  BY <1>1, AlwaysIndInv, PTL

\* When the main thread sees the experiment complete without ctrl-c, every br
\* that could still have been run was run.
THEOREM NoBrLeftBehind ==
  Spec => []NothingLeftBehind
PROOF
<1>1. IndInv => NothingLeftBehind
  <2> SUFFICES ASSUME IndInv, main \in {"unlock", "done"}, ~sched_terminated,
                      NEW b \in Brs, runs[b] # 1,
                      NEW d \in Duts, Compatible(Remote, LabelOf[b], d)
               PROVE  ended[d] \in {"doomed", "crashed"}
    BY DEF NothingLeftBehind
  <2>1. active_workers = <<>> /\ WorkKnown(d) /\ Accounted(b)
    BY DEF IndInv, Work, MainEnd
  <2>2. \A e \in Duts : pc[e] = "ended"
    BY <2>1 DEF IndInv, WorkerList
  <2>3. cached_br_list = {}
    BY <2>1, <2>2 DEF WorkKnown, CachedDone
  <2>4. \A e \in Duts : br[e] \notin Brs
    BY <2>2 DEF IndInv, Control, Known, BrKnown, Holding
  <2>5. label_brl_map[LabelOf[b]] # <<>>
    BY <2>1, <2>3, <2>4 DEF Accounted
  <2>6. LabelOf[b] \in Labels
    BY LabelOfAssumption
  <2>7. ended[d] # "exhausted"
    BY <2>1, <2>5, <2>6 DEF WorkKnown, ExhaustedEmpty, Empty
  <2>8. ended[d] \in EndReason /\ ended[d] # "none" /\ ended[d] # "terminated"
    BY <2>1, <2>2 DEF IndInv, TypeOK, WorkKnown, EndKnown
  <2>9. QED
    BY <2>7, <2>8 DEF EndReason
<1>2. QED
  BY <1>1, AlwaysIndInv, PTL

-----------------------------------------------------------------------------
(* The workers that run_sched passes over.                                 *)

NewWorkers == {d \in Duts : pc[d] = "new"}
EndedWorkers == {d \in Duts : pc[d] = "ended"}

\* The list is in the order of the duts, and is short by the workers that ended.
ListOrdered ==
  /\ \A i, j \in 1..Len(active_workers) : i < j => active_workers[i] < active_workers[j]
  /\ Len(active_workers) + Cardinality(EndedWorkers) = NDuts

\* While run_sched is in its loop, main_i - 1 workers have been started, and one
\* that was not, but stands before main_i, has moved up when another one ended.
StartsCounted ==
  main = "starting" =>
    /\ Cardinality(NewWorkers) + main_i = NDuts + 1
    /\ \A i \in 1..Len(active_workers) : i < main_i /\ pc[active_workers[i]] = "new" =>
         \E e \in 1..(active_workers[i] - 1) : pc[e] = "ended"

SkipInv == ListOrdered /\ StartsCounted /\ SkippedBehindEnded

LEMMA DutsCount ==
  ASSUME NEW S \in SUBSET Duts
  PROVE  IsFiniteSet(S) /\ Cardinality(S) \in Nat
PROOF
<1>1. IsFiniteSet(1..NDuts)
  BY SizeAssumption, FS_Interval
<1>2. IsFiniteSet(S)
  BY <1>1, FS_Subset DEF Duts
<1>3. QED
  BY <1>2, FS_CardinalityType

LEMMA InitSkipInv == Init => SkipInv
PROOF
<1> SUFFICES ASSUME Init PROVE SkipInv
  OBVIOUS
<1>1. /\ Len(active_workers) = NDuts /\ \A i \in 1..NDuts : active_workers[i] = i
      /\ main = "starting" /\ main_i = 1 /\ NDuts \in Nat
  BY SizeAssumption DEF Init, Duts
<1>2. EndedWorkers = {} /\ NewWorkers = 1..NDuts
  BY DEF Init, EndedWorkers, NewWorkers, Duts
<1>3. Cardinality(EndedWorkers) = 0 /\ Cardinality(NewWorkers) = NDuts
  BY <1>1, <1>2, FS_Interval, FS_EmptySet
<1>4. ListOrdered
  BY <1>1, <1>3 DEF ListOrdered
<1>5. StartsCounted
  BY <1>1, <1>3 DEF StartsCounted
<1>6. QED
  BY <1>1, <1>4, <1>5 DEF SkipInv, SkippedBehindEnded

\* A step after which the same workers are new, and the same have ended.
LEMMA SameWorkers ==
  ASSUME SkipInv, UNCHANGED <<active_workers, main>>, main = "starting" => main_i' = main_i,
         \A d \in Duts : (pc'[d] = "new" <=> pc[d] = "new") /\ (pc'[d] = "ended" <=> pc[d] = "ended"),
         active_workers \in Seq(Duts), NDuts \in Nat
  PROVE  SkipInv'
PROOF
<1>1. NewWorkers' = NewWorkers /\ EndedWorkers' = EndedWorkers
  BY DEF NewWorkers, EndedWorkers
<1>2. \A i \in 1..Len(active_workers) : active_workers[i] \in Duts
  OBVIOUS
<1>3. \A d \in Duts : 1..(d - 1) \subseteq Duts
  BY DEF Duts
<1>4. ListOrdered'
  BY <1>1 DEF SkipInv, ListOrdered
<1>5. StartsCounted'
  BY <1>1, <1>2, <1>3 DEF SkipInv, StartsCounted
<1>6. SkippedBehindEnded'
  BY <1>1, <1>3 DEF SkipInv, SkippedBehindEnded, NewWorkers, EndedWorkers
<1>7. QED
  BY <1>4, <1>5, <1>6 DEF SkipInv

\* dut_worker_finished: what stood behind the worker in the list moves up.
LEMMA FinishedSkips ==
  ASSUME IndInv, SkipInv, NEW d \in Duts, DutWorkerFinished(d)
  PROVE  SkipInv'
PROOF
<1>a. PICK A : A = active_workers
  OBVIOUS
<1>b. PICK B : B = active_workers'
  OBVIOUS
<1>1. /\ A \in Seq(Duts) /\ Len(A) \in Nat /\ NDuts \in Nat /\ main_i \in Nat
      /\ \A i \in 1..Len(A) : A[i] \in Duts
      /\ \A i, j \in 1..Len(A) : A[i] = A[j] => i = j
  BY <1>a, SizeAssumption, LenProperties, ElementOfSeq DEF IndInv, TypeOK, WorkerList
<1>2. /\ pc[d] = "finish" /\ pc'[d] = "ended" /\ \A e \in Duts \ {d} : pc'[e] = pc[e]
      /\ main' = main /\ main_i' = main_i /\ B = ListRemove(A, d)
  BY <1>a, <1>b DEF DutWorkerFinished, Goto, mainVars, IndInv, TypeOK
<1>3. PICK k \in 1..Len(A) : A[k] = d
  BY <1>a, <1>2 DEF IndInv, WorkerList
<1>4. /\ Len(B) = Len(A) - 1
      /\ \A i \in 1..(Len(A) - 1) : B[i] = IF i < k THEN A[i] ELSE A[i + 1]
  <2>1. /\ Len(ListRemove(A, d)) = Len(A) - 1
        /\ \A i \in 1..(Len(A) - 1) : ListRemove(A, d)[i] = IF i < k THEN A[i] ELSE A[i + 1]
    BY <1>1, <1>3, ListRemoveProperties
  <2>2. QED
    BY <1>2, <2>1
<1>5. NewWorkers' = NewWorkers /\ EndedWorkers' = EndedWorkers \cup {d} /\ d \notin EndedWorkers
  BY <1>2 DEF NewWorkers, EndedWorkers
<1>6. IsFiniteSet(EndedWorkers) /\ Cardinality(EndedWorkers) \in Nat /\ Cardinality(NewWorkers) \in Nat
  BY DutsCount DEF EndedWorkers, NewWorkers
<1>7. Cardinality(EndedWorkers') = Cardinality(EndedWorkers) + 1
  BY <1>5, <1>6, FS_AddElement
<1>8. \A e \in Duts : 1..(e - 1) \subseteq Duts /\ e \in Int
  BY <1>1 DEF Duts
<1>9. \A e \in Duts : (\E f \in 1..(e - 1) : pc[f] = "ended") => \E f \in 1..(e - 1) : pc'[f] = "ended"
  BY <1>2, <1>8
<1>10. ListOrdered'
  <2>1. ASSUME NEW i \in 1..Len(B), NEW j \in 1..Len(B), i < j
        PROVE  B[i] < B[j]
    <3>1. PICK m \in 1..Len(A), n \in 1..Len(A) : B[i] = A[m] /\ B[j] = A[n] /\ m < n
      <4>1. CASE j < k
        BY <1>1, <1>4, <2>1, <4>1
      <4>2. CASE i < k /\ ~(j < k)
        <5>1. i \in 1..Len(A) /\ j + 1 \in 1..Len(A) /\ B[i] = A[i] /\ B[j] = A[j + 1] /\ i < j + 1
          BY <1>1, <1>4, <2>1, <4>2
        <5>2. QED
          BY <5>1
      <4>3. CASE ~(i < k) /\ ~(j < k)
        <5>1. i + 1 \in 1..Len(A) /\ j + 1 \in 1..Len(A) /\ B[i] = A[i + 1] /\ B[j] = A[j + 1] /\ i + 1 < j + 1
          BY <1>1, <1>4, <2>1, <4>3
        <5>2. QED
          BY <5>1
      <4>4. QED
        BY <1>1, <1>4, <2>1, <4>1, <4>2, <4>3
    <3>2. QED
      BY <1>a, <3>1 DEF SkipInv, ListOrdered
  <2>2. Len(B) + Cardinality(EndedWorkers') = NDuts
    BY <1>a, <1>1, <1>4, <1>6, <1>7 DEF SkipInv, ListOrdered
  <2>3. QED
    BY <1>a, <1>b, <2>1, <2>2 DEF ListOrdered
<1>11. StartsCounted'
  <2> SUFFICES ASSUME main = "starting"
               PROVE  /\ Cardinality(NewWorkers') + main_i = NDuts + 1
                      /\ \A i \in 1..Len(B) : i < main_i /\ pc'[B[i]] = "new" =>
                           \E e \in 1..(B[i] - 1) : pc'[e] = "ended"
    BY <1>a, <1>b, <1>2 DEF StartsCounted
  <2>1. Cardinality(NewWorkers') + main_i = NDuts + 1
    BY <1>a, <1>5 DEF SkipInv, StartsCounted
  <2>2. ASSUME NEW i \in 1..Len(B), i < main_i, pc'[B[i]] = "new"
        PROVE  \E e \in 1..(B[i] - 1) : pc'[e] = "ended"
    <3>1. CASE i < k
      <4>1. i \in 1..Len(A) /\ B[i] = A[i] /\ A[i] \in Duts
        BY <1>1, <1>4, <3>1
      <4>2. pc[A[i]] = "new"
        BY <1>2, <2>2, <4>1
      <4>3. QED
        BY <1>a, <1>9, <2>2, <4>1, <4>2 DEF SkipInv, StartsCounted
    <3>2. CASE ~(i < k)
      <4>1. i + 1 \in 1..Len(A) /\ B[i] = A[i + 1] /\ A[i + 1] \in Duts /\ k < i + 1
        BY <1>1, <1>4, <3>2
      <4>2. d < A[i + 1]
        BY <1>a, <1>3, <4>1 DEF SkipInv, ListOrdered
      <4>3. d \in 1..(B[i] - 1)
        BY <1>1, <4>1, <4>2 DEF Duts
      <4>4. QED
        BY <1>2, <4>3
    <3>3. QED
      BY <3>1, <3>2
  <2>3. QED
    BY <2>1, <2>2
<1>12. SkippedBehindEnded'
  <2> SUFFICES ASSUME main # "starting"
               PROVE  /\ Cardinality(NewWorkers') <= Cardinality(EndedWorkers')
                      /\ \A e \in Duts : pc'[e] = "new" => \E f \in 1..(e - 1) : pc'[f] = "ended"
    BY <1>2 DEF SkippedBehindEnded, NewWorkers, EndedWorkers
  <2>1. Cardinality(NewWorkers) <= Cardinality(EndedWorkers)
    BY DEF SkipInv, SkippedBehindEnded, NewWorkers, EndedWorkers
  <2>2. Cardinality(NewWorkers') <= Cardinality(EndedWorkers')
    BY <1>5, <1>6, <1>7, <2>1
  <2>3. ASSUME NEW e \in Duts, pc'[e] = "new"
        PROVE  \E f \in 1..(e - 1) : pc'[f] = "ended"
    <3>1. pc[e] = "new"
      BY <1>2, <2>3
    <3>2. QED
      BY <1>9, <3>1 DEF SkipInv, SkippedBehindEnded
  <2>4. QED
    BY <2>2, <2>3
<1>13. QED
  BY <1>10, <1>11, <1>12 DEF SkipInv

\* w.start() of the next worker.
LEMMA StartSkips ==
  ASSUME IndInv, SkipInv, StartWorker
  PROVE  SkipInv'
PROOF
<1> PICK A : A = active_workers
  OBVIOUS
<1> PICK w : w = A[main_i]
  OBVIOUS
<1>1. /\ A \in Seq(Duts) /\ Len(A) \in Nat /\ NDuts \in Nat
      /\ \A i \in 1..Len(A) : A[i] \in Duts
      /\ main_i \in 1..Len(A)
      /\ \A i, j \in 1..Len(A) : A[i] = A[j] => i = j
  <2>1. A \in Seq(Duts) /\ main_i \in Nat
    BY DEF IndInv, TypeOK
  <2>2. QED
    BY <2>1, SizeAssumption, LenProperties, ElementOfSeq DEF IndInv, MainKnown, WorkerList, StartWorker, InLoop
<1>2. /\ main = "starting" /\ main' = "starting" /\ main_i' = main_i + 1
      /\ active_workers' = A /\ pc' = [pc EXCEPT ![w] = "cached"]
  BY DEF StartWorker, MainGoto, unchangedByMain
<1>3. w \in Duts /\ pc[w] = "new" /\ pc'[w] = "cached" /\ \A e \in Duts \ {w} : pc'[e] = pc[e]
  <2>1. w \in Duts
    BY <1>1
  <2>2. pc[w] = "new"
    BY <1>1, <1>2 DEF IndInv, WorkerList
  <2>3. QED
    BY <1>2, <2>1, <2>2 DEF IndInv, TypeOK
<1>4. NewWorkers' = NewWorkers \ {w} /\ w \in NewWorkers /\ EndedWorkers' = EndedWorkers
  BY <1>3 DEF NewWorkers, EndedWorkers
<1>5. IsFiniteSet(NewWorkers) /\ Cardinality(NewWorkers) \in Nat
  BY DutsCount DEF NewWorkers
<1>6. Cardinality(NewWorkers') = Cardinality(NewWorkers) - 1
  BY <1>4, <1>5, FS_RemoveElement
<1>7. ListOrdered'
  BY <1>2, <1>4 DEF SkipInv, ListOrdered
<1>8. Cardinality(NewWorkers') + main_i' = NDuts + 1
  BY <1>1, <1>2, <1>5, <1>6 DEF SkipInv, StartsCounted
<1>9. ASSUME NEW i \in 1..Len(A), i < main_i', pc'[A[i]] = "new"
      PROVE  \E e \in 1..(A[i] - 1) : pc'[e] = "ended"
  <2>1. A[i] # w /\ A[i] \in Duts /\ pc[A[i]] = "new"
    BY <1>1, <1>3, <1>9
  <2>2. i < main_i
    BY <1>1, <1>2, <1>9, <2>1
  <2>3. PICK e \in 1..(A[i] - 1) : pc[e] = "ended"
    BY <1>2, <2>1, <2>2 DEF SkipInv, StartsCounted
  <2>4. e \in Duts /\ e # w
    BY <1>1, <1>3, <2>1, <2>3 DEF Duts
  <2>5. QED
    BY <1>3, <2>3, <2>4
<1>10. StartsCounted'
  BY <1>2, <1>8, <1>9 DEF StartsCounted
<1>11. SkippedBehindEnded'
  BY <1>2 DEF SkippedBehindEnded
<1>12. QED
  BY <1>7, <1>10, <1>11 DEF SkipInv

\* run_sched's loop ends: main_i is behind the list.
LEMMA ReturnSkips ==
  ASSUME IndInv, SkipInv, RunSchedReturn
  PROVE  SkipInv'
PROOF
<1> PICK A : A = active_workers
  OBVIOUS
<1>1. /\ A \in Seq(Duts) /\ Len(A) \in Nat /\ NDuts \in Nat
      /\ main_i \in Nat /\ main_i > Len(A) /\ main = "starting"
  BY SizeAssumption, LenProperties DEF IndInv, TypeOK, RunSchedReturn, InLoop, MainGoto
<1>2. active_workers' = A /\ pc' = pc /\ main' = "monitor"
  BY DEF RunSchedReturn, MainGoto, unchangedByMain
<1>3. NewWorkers' = NewWorkers /\ EndedWorkers' = EndedWorkers
  BY <1>2 DEF NewWorkers, EndedWorkers
<1>4. Cardinality(NewWorkers) \in Nat /\ Cardinality(EndedWorkers) \in Nat
  BY DutsCount DEF NewWorkers, EndedWorkers
<1>5. Cardinality(NewWorkers) <= Cardinality(EndedWorkers)
  BY <1>1, <1>4 DEF SkipInv, ListOrdered, StartsCounted
<1>6. ASSUME NEW d \in Duts, pc[d] = "new"
      PROVE  \E e \in 1..(d - 1) : pc[e] = "ended"
  <2>1. PICK i \in 1..Len(A) : A[i] = d
    BY <1>6 DEF IndInv, WorkerList
  <2>2. i < main_i
    BY <1>1
  <2>3. QED
    BY <1>1, <1>6, <2>1, <2>2 DEF SkipInv, StartsCounted
<1>7. SkippedBehindEnded'
  BY <1>2, <1>3, <1>5, <1>6 DEF SkippedBehindEnded, NewWorkers, EndedWorkers
<1>8. ListOrdered' /\ StartsCounted'
  BY <1>2, <1>3 DEF SkipInv, ListOrdered, StartsCounted
<1>9. QED
  BY <1>7, <1>8 DEF SkipInv

LEMMA NextSkipInv == IndInv /\ SkipInv /\ [Next]_vars => SkipInv'
PROOF
<1> SUFFICES ASSUME IndInv, SkipInv, [Next]_vars PROVE SkipInv'
  OBVIOUS
<1>1. active_workers \in Seq(Duts) /\ NDuts \in Nat
  BY SizeAssumption DEF IndInv, TypeOK
<1>2. ASSUME NEW d \in Duts, Worker(d)
      PROVE  SkipInv'
  <2>1. CASE DutWorkerFinished(d)
    BY <2>1, FinishedSkips
  <2>2. CASE ~DutWorkerFinished(d)
    <3>1. /\ UNCHANGED active_workers
          /\ pc[d] \notin {"new", "ended"} /\ pc'[d] \notin {"new", "ended"}
      BY <1>2, <2>2, WorkerListFrame DEF IndInv
    <3>2. \A e \in Duts \ {d} : pc'[e] = pc[e]
      BY <1>2, WorkerFrame DEF IndInv, Frame
    <3>3. UNCHANGED <<main, main_i>>
      BY <1>2, WorkerMainKnown DEF IndInv, mainVars
    <3>4. QED
      BY <1>1, <3>1, <3>2, <3>3, SameWorkers
  <2>3. QED
    BY <2>1, <2>2
<1>3. CASE StartWorker
  BY <1>3, StartSkips
<1>4. CASE RunSchedReturn
  BY <1>4, ReturnSkips
<1>5. CASE MonitorComplete \/ TerminateFlag \/ TerminateActive \/ TerminateReturn \/ Unlock \/ Interrupt
  <2>1. /\ main # "starting" /\ main' # "starting" /\ UNCHANGED <<pc, active_workers>>
    BY <1>5 DEF MonitorComplete, TerminateFlag, TerminateActive, TerminateReturn, Unlock, Interrupt,
                MainGoto, unchangedByMain
  <2>2. EndedWorkers' = EndedWorkers
    BY <2>1 DEF EndedWorkers
  <2>3. QED
    BY <2>1, <2>2 DEF SkipInv, ListOrdered, StartsCounted, SkippedBehindEnded
<1>6. CASE UNCHANGED vars
  <2>1. UNCHANGED <<pc, active_workers, main, main_i>>
    BY <1>6 DEF vars, mainVars
  <2>2. QED
    BY <1>1, <2>1, SameWorkers
<1>7. QED
  BY <1>2, <1>3, <1>4, <1>5, <1>6 DEF Next, MainStep

\* For any number of duts: the workers that run_sched does not start, because
\* the list it iterates shrinks under it, are no more than those that had
\* ended, and each is behind one of those.
THEOREM SkipsBehindEnded ==
  Spec => []SkippedBehindEnded
PROOF
<1>1. SkipInv => SkippedBehindEnded
  BY DEF SkipInv
<1>2. QED
  BY <1>1, AlwaysIndInv, InitSkipInv, NextSkipInv, PTL DEF Spec
=============================================================================
