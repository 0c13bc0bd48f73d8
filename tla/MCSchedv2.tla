----------------------------- MODULE MCSchedv2 -----------------------------
(* Schedv2 on small instances: two duts, two labels.                       *)
EXTENDS Schedv2Inv

\* Label 1 goes on every dut, label 2 only on dut 1.
MCRemote == [l \in 1..NLabels |-> IF l = 1 THEN {} ELSE {1}]

\* Both labels go on every dut.
MCAnyRemote == [l \in 1..NLabels |-> {}]

\* Br 1 and 2 have label 1, the others label 2.
MCLabelOf == [b \in 1..NBrs |-> IF b <= 2 THEN 1 ELSE 2]

\* All brs have label 1.
MCOneLabel == [b \in 1..NBrs |-> 1]

\* Every label has its own image; or all have the same.
MCImage == [l \in 1..NLabels |-> l]
MCSameImage == [l \in 1..NLabels |-> 1]

MCChecksummed == 1..NLabels

\* Bounds on the start: at most br 1 hits the cache, at most br 2's cache was
\* unreadable, and only dut 1 may carry an image or a checksum file of the
\* experiment, or the file of label 1 without its image.
MCInit ==
  /\ Init
  /\ cached_br_list \subseteq {1}
  /\ unread = IF cached_br_list = {} THEN {2} \cap Brs ELSE {}
  /\ \A d \in Duts : d # 1 => installed[d] = NoImage /\ file[d] = NoImage
  /\ <<installed[1], file[1]>> \in
       {<<NoImage, NoImage>>, <<Image[1], Image[1]>>, <<Image[2], Image[2]>>, <<NoImage, Image[1]>>}

MCSpec == MCInit /\ [][Next]_vars

\* The liveness runs: no cache hit, no preinstalled image.
MCPlainInit ==
  /\ Init
  /\ cached_br_list = {} /\ unread = {}
  /\ \A d \in Duts : installed[d] = NoImage /\ file[d] = NoImage

MCFairSpec ==
  /\ MCPlainInit /\ [][Next]_vars
  /\ \A d \in Duts : WF_vars(Worker(d))
  /\ WF_vars(MainStep)
=============================================================================
