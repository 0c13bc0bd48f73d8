------------------------ MODULE MCBinarySearchState ------------------------
EXTENDS BinarySearchState

\* One item, which is never searched, and four; pruning leaves shorter lists.
MCSizes == {1, 4}

MCFourItems == {4}

\* The smaller limit on the iterations only where it matters: with several
\* searches, and without the verification, which does not count as one.
MCInit == Init /\ (iterations = 2 => prune /\ ~verify)

MCSpec == MCInit /\ [][Next]_vars /\ WF_vars(Tool)
=============================================================================
