----------------------- MODULE MCMachineImageManager -----------------------
(* MachineImageManager on small matrices, for every choice of remote.      *)
EXTENDS MachineImageManager

\* Both special cases, more labels than duts, as many, and fewer.
MCShapes == {<<1, 2>>, <<3, 1>>, <<2, 2>>, <<3, 2>>, <<2, 3>>, <<3, 3>>, <<4, 2>>}

\* The shapes on which workers have brs to allocate labels for; the others are
\* there for the search.
MCAllocateShapes == {<<2, 2>>, <<3, 2>>}

MCInit ==
  /\ Init
  /\ <<n_labels, n_duts>> \notin MCAllocateShapes => \A l \in Labels : pending[l] = 0

MCSpec == MCInit /\ [][Next]_vars /\ WF_vars(Search)
=============================================================================
