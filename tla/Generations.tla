---------------------------- MODULE Generations ----------------------------
(***************************************************************************)
(* The search algorithms of bestflags (generation.py, genetic_algorithm.py,*)
(* hill_climb_best_neighbor.py, iterative_elimination.py).  A task is its  *)
(* flag set; cost is the test result of every task.  Iteration over a set  *)
(* and random choices are the choice of a member of the results.           *)
(***************************************************************************)
EXTENDS Flags, FiniteSets

CONSTANTS
  Algorithms,      \* a subset of {"GA", "HillClimb", "Elimination"}
  NumChromosomes,
  StopThreshold

Tasks == FlagSet

ASSUME GenerationsAssumption ==
  /\ Algorithms \subseteq {"GA", "HillClimb", "Elimination"}
  /\ NumChromosomes \in Nat \ {0}
  /\ StopThreshold \in Nat
  \* of finitely many specs with finitely many values each
  /\ IsFiniteSet(Tasks)

\* parents is the candidate pool, or the base line of the elimination.
Generation(pool, parents, stucks) ==
  [pool |-> pool, pending |-> Cardinality(pool), parents |-> parents, stucks |-> stucks]

\* The first generation (example_algorithms.py, testing_batch.py).
Initial(algorithm) ==
  CASE algorithm = "GA" ->
         {Generation(S, {}, 0) : S \in {S \in SUBSET Tasks : Cardinality(S) \in 1..NumChromosomes}}
    [] algorithm = "HillClimb" ->
         {Generation({f}, {}, 0) : f \in {f \in Tasks : \A s \in Numeric : f[s] < End[s]}}
    [] algorithm = "Elimination" ->
         {Generation({AllFlags} \cup {DecreaseFlag(AllFlags, s) : s \in Specs}, {AllFlags}, 0)}

Best(cost, S) == {t \in S : \A u \in S : cost[t] <= cost[u]}

\* Mutant: the comparison the other way round.
MutImproves(cost, S, P) == \E t \in S : \A p \in P : cost[t] > cost[p]

\* One of S is better than all of P.
Improves(cost, S, P) == \E t \in S : \A p \in P : cost[t] < cost[p]

\* IsImproved: the generation as it is afterwards, or none if it has no successor.
IsImproved(algorithm, cost, g) ==
  IF g.parents = {} \/ Improves(cost, g.pool, g.parents) THEN {[g EXCEPT !.stucks = 0]}
  ELSE IF algorithm = "GA" /\ g.stucks < StopThreshold THEN {[g EXCEPT !.stucks = @ + 1]}
  ELSE {}

\* The tasks that Next of each algorithm derives from one task.
Neighbours(algorithm, t) ==
  IF algorithm = "HillClimb" THEN UNION {ClimbNext(t, s) : s \in Specs}
  ELSE {DecreaseFlag(t, s) : s \in Enabled(t)}

\* The best NumChromosomes of pool and parents.
Retained(cost, g) ==
  LET all == g.pool \cup g.parents
  IN {R \in SUBSET all :
        /\ Cardinality(R) = (IF Cardinality(all) < NumChromosomes THEN Cardinality(all) ELSE NumChromosomes)
        /\ \A r \in R, x \in all \ R : cost[r] <= cost[x]}

Children(R) ==
  (UNION {ReproduceWith(f, m) : f, m \in R}) \cup (UNION {RandomMutate(r) : r \in R})

\* "if new_task not in cache"
NewTasks(T, cache) == T \ cache

\* The possible results of Next(cache): no generation, or one.
NextGenerations(algorithm, cost, g, cache) ==
  CASE algorithm = "GA" ->
         {<<>>} \cup
         UNION {{<<Generation(C, R, g.stucks)>> :
                   C \in {C \in SUBSET NewTasks(Children(R), cache) : Cardinality(C) = NumChromosomes}}
                : R \in Retained(cost, g)}
    [] algorithm = "HillClimb" ->
         {<<Generation(NewTasks(Neighbours(algorithm, b), cache), {b}, 0)>> : b \in Best(cost, g.pool)}
    [] algorithm = "Elimination" ->
         {IF Enabled(b) = {} THEN <<>>
          ELSE <<Generation(NewTasks(Neighbours(algorithm, b), cache), {b}, 0)>>
          : b \in Best(cost, g.pool \ g.parents)}
=============================================================================
