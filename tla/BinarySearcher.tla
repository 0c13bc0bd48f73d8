--------------------------- MODULE BinarySearcher ---------------------------
(***************************************************************************)
(* The bisection of binary_search_tool (class BinarySearcher of            *)
(* binary_search_tool/binary_search_perforce.py) as operators on its       *)
(* state: lo, hi, current and the skipped indices, 0-based like the code.  *)
(* The logs and points it keeps are output only.                           *)
(***************************************************************************)
EXTENDS Integers

\* What SetStatus accepts: good, bad, and "could not be tested".
GOOD == 0
BAD  == 1
SKIP == 125

Searcher(n) == [lo : 0..n, hi : 0..n, current : 0..n, skipped : SUBSET (0..n)]

\* __init__ and SetSortedList for a list of n > 0 items.
NewSearcher(n) == [lo |-> 0, hi |-> n - 1, current |-> 0, skipped |-> {}]

Middle(lo, hi) == (lo + hi) \div 2

\* SetStatus of the current index: skip it, or continue above it, or at and
\* below it.
SetStatus(s, status) ==
  CASE status = SKIP -> [s EXCEPT !.skipped = @ \cup {s.current}]
    [] status = GOOD -> [s EXCEPT !.lo = s.current + 1,
                                  !.current = Middle(s.current + 1, s.hi)]
    [] status = BAD  -> [s EXCEPT !.hi = s.current,
                                  !.current = Middle(s.lo, s.current)]

\* Mutant: the loop over the indices includes hi, which is never tested.
MutAllSkipped(s) == s.lo..s.hi \subseteq s.skipped

\* Every index that could still be tested was skipped.
AllSkipped(s) == s.lo..(s.hi - 1) \subseteq s.skipped

\* The value SetStatus returns.
Terminated(s) == s.lo = s.hi \/ AllSkipped(s)

\* The two intervals into which GetNextFlakyBinary splits a triple whose
\* middle was skipped.
GoTop(t)    == <<t[1], Middle(t[1], t[2]), t[2]>>
GoBottom(t) == <<t[2], Middle(t[2], t[3]), t[3]>>
=============================================================================
