----------------------------- MODULE Schedv2Inv -----------------------------
(***************************************************************************)
(* The inductive invariant of Schedv2 from which Schedv2Proofs derives its *)
(* safety properties: what the locals of each thread hold at each point,   *)
(* where each br is, what is really on each dut, and why no br is lost.    *)
(***************************************************************************)
EXTENDS Schedv2

-----------------------------------------------------------------------------
(* What a worker's locals hold at each point.                              *)

\* Between lock_on(dut.label) and the end of the br the dut has a label.
LabelKnown(d) ==
  pc[d] \in Holding \cup {"lookup", "mklock", "acquire", "check", "pop"}
    => dut_label[d] \in Labels

\* From lock_on() to the end of the "with" the worker has a lock.
LockKnown(d) == pc[d] \in {"acquire", "check", "pop"} => lock[d] \in Duts

\* A worker has a br in hand exactly between taking it and dropping it.
BrKnown(d) == br[d] \in Brs <=> pc[d] \in Holding \cup {"runcached"}

\* _reimage has a label.
GoalKnown(d) == pc[d] \in {"reimage", "wantimage", "imaging"} => goal[d] \in Labels

\* The locals of allocate(): a candidate that is a label, a row in range.
ScanKnown(d) ==
  /\ scan[d].can.label \in Labels \cup {NoLabel}
  /\ pc[d] = "scan" => scan[d].row \in 1..(NLabels + 1)

Known(d) ==
  LabelKnown(d) /\ LockKnown(d) /\ BrKnown(d) /\ GoalKnown(d) /\ ScanKnown(d)

Control == \A d \in Duts : Known(d)

\* The main thread's loops index from 1 and have a dut_worker.
MainKnown ==
  /\ main_i >= 1
  /\ main = "terminateactive" => main_w \in Duts

\* _active_workers: every worker once until it has finished; and the ones
\* run_sched has not come to yet are not running.
WorkerList ==
  /\ \A i, j \in 1..Len(active_workers) :
       active_workers[i] = active_workers[j] => i = j
  /\ \A d \in Duts :
       pc[d] # "ended" => \E i \in 1..Len(active_workers) : active_workers[i] = d
  /\ \A i \in 1..Len(active_workers) : pc[active_workers[i]] # "ended"
  /\ main = "starting" =>
       \A i \in 1..Len(active_workers) : i >= main_i => pc[active_workers[i]] = "new"

-----------------------------------------------------------------------------
(* Where the brs are.                                                      *)

\* A br that is still in a list or in hand before run() was not run, and none
\* was run twice.  (For the brs in the label lists InOnePlace says so.)
RunsKnown ==
  /\ \A b \in cached_br_list : runs[b] = 0
  /\ \A d \in Duts : pc[d] \in {"runcached", "exec", "activate", "start"} => runs[br[d]] = 0
  /\ RunAtMostOnce

\* The conjuncts of InOnePlace by name.
HeldByOne == \A d, e \in Duts : br[d] # NoBr /\ br[d] = br[e] => d = e

HeldNotCached == \A d \in Duts : br[d] # NoBr => br[d] \notin cached_br_list

Listed(l, i) == label_brl_map[l][i]

ListsApart ==
  \A l \in Labels : \A i \in 1..Len(label_brl_map[l]) :
    /\ LabelOf[Listed(l, i)] = l
    /\ Listed(l, i) \notin cached_br_list
    /\ runs[Listed(l, i)] = 0
    /\ \A d \in Duts : br[d] # Listed(l, i)
    /\ \A j \in 1..Len(label_brl_map[l]) : Listed(l, j) = Listed(l, i) => i = j

Placement == HeldByOne /\ HeldNotCached /\ ListsApart /\ RunsKnown

-----------------------------------------------------------------------------
(* The images on the duts, and what is begun after terminate().            *)

\* The image on the dut, or the one that the stale checksum file names.
Told(d) == IF d \in stale THEN file[d] ELSE installed[d]

\* Until the worker has left its loop, dut.label, dut.checksum and the checksum
\* file agree on the image of the dut.
ImageKnown(d) ==
  /\ pc[d] \notin {"finish", "ended"} =>
       /\ dut_label[d] # NoLabel => Told(d) = Image[dut_label[d]]
       /\ dut_checksum[d] # NoImage => Told(d) = dut_checksum[d]
       /\ file[d] # NoImage => Told(d) = file[d]
  /\ pc[d] \in {"new", "cached", "runcached", "setup"} => dut_label[d] = NoLabel
  /\ pc[d] \in Holding => LabelOf[br[d]] = dut_label[d]

\* Once terminate() has set the flag, a worker that has begun something since,
\* other than a cached br, is at a point from which it can only leave its loop.
LateKnown(d) ==
  /\ late[d] # <<>> => sched_terminated
  /\ \A i \in 1..Len(late[d]) : late[d][i] # "cached" =>
       /\ i = Len(late[d])
       /\ pc[d] \in {"running", "clear", "clearraise", "loop", "get", "alloc",
                     "wantimage", "imaging", "finish", "ended"}

ImageLate == \A d \in Duts : ImageKnown(d) /\ LateKnown(d)

-----------------------------------------------------------------------------
(* No br is lost.  All of this is about an experiment that was not         *)
(* interrupted.                                                            *)

\* The points at which a worker serves the label of its dut.
AtLabel ==
  Holding \cup {"loop", "get", "lookup", "mklock", "acquire", "check", "pop"}

Empty(l) == label_brl_map[l] = <<>>

\* 'X' stands only where the label does not go on the dut.
ForbiddenKnown(d) ==
  \A l \in Labels : matrix[<<l, d>>] = "X" => ~Compatible(Remote, l, d)

\* A label that was given to the dut has no br left, unless it is the one the
\* worker is about to serve or is serving, or the worker failed at it.
GivenKnown(d) ==
  \A l \in Labels : matrix[<<l, d>>] = "given" /\ ~Empty(l) =>
    \/ goal[d] = l /\ pc[d] \in {"reimage", "wantimage", "imaging"}
    \/ dut_label[d] = l /\ pc[d] \in AtLabel
    \/ pc[d] \in {"finish", "ended"}

\* A scan without a candidate has passed no label of use.
ScanEmpty(d) ==
  pc[d] = "scan" /\ scan[d].can.label = NoLabel =>
    \A l \in Labels : l < scan[d].row /\ Compatible(Remote, l, d) => Empty(l)

\* A worker gives up only when its dut has nothing left to do.
ExhaustedEmpty(d) ==
  ended[d] = "exhausted" => \A l \in Labels : Compatible(Remote, l, d) => Empty(l)

\* Nobody was told to stop, and a worker that left its loop had a reason.
EndKnown(d) ==
  /\ ~terminated[d]
  /\ ended[d] # "terminated"
  /\ pc[d] \in {"finish", "ended"} => ended[d] # "none"

\* Past its first loop a worker has seen the cached list empty.
CachedDone(d) ==
  pc[d] \notin {"new", "cached", "runcached"} => cached_br_list = {}

WorkKnown(d) ==
  /\ ForbiddenKnown(d) /\ GivenKnown(d) /\ ScanEmpty(d)
  /\ ExhaustedEmpty(d) /\ EndKnown(d) /\ CachedDone(d)

\* A br has run, or is still in a list or in hand.
Accounted(b) ==
  \/ runs[b] = 1
  \/ b \in cached_br_list
  \/ \E i \in 1..Len(label_brl_map[LabelOf[b]]) : Listed(LabelOf[b], i) = b
  \/ \E d \in Duts : br[d] = b

\* From br.run() on the br in hand counts as run.
RanKnown == \A d \in Duts : pc[d] \in {"running", "clear", "clearraise"} => runs[br[d]] = 1

\* Without ctrl-c the main thread leaves only when no worker is active.
MainEnd ==
  /\ main \notin {"terminating", "terminateactive"}
  /\ main \in {"unlock", "done"} => active_workers = <<>>

Work ==
  ~sched_terminated =>
    /\ \A d \in Duts : WorkKnown(d)
    /\ \A b \in Brs : Accounted(b)
    /\ RanKnown
    /\ MainEnd

-----------------------------------------------------------------------------
\* The inductive invariant.
IndInv ==
  /\ TypeOK
  /\ Control
  /\ MainKnown
  /\ WorkerList
  /\ Placement
  /\ ImageLate
  /\ Work
=============================================================================
