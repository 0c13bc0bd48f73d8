------------------------------- MODULE Flags -------------------------------
(***************************************************************************)
(* The flag sets that bestflags searches (flags.py, flags_util.py, and     *)
(* the moves of genetic_algorithm.py and iterative_elimination.py).        *)
(* A flag set gives every spec a value or Off.  A boolean spec has the     *)
(* value 0, a numeric one [start-end] a value up to end - 1, and end where *)
(* Flag(spec) chooses it at random.                                        *)
(***************************************************************************)
EXTENDS Integers

CONSTANTS Specs, Numeric, Start, End

ASSUME FlagsAssumption ==
  /\ Numeric \subseteq Specs
  /\ Start \in [Numeric -> Nat] /\ End \in [Numeric -> Nat]
  \* Flag asserts start < end; the first elimination uses end - 2
  /\ \A s \in Numeric : 0 < Start[s] /\ Start[s] + 2 <= End[s]

Off == -1

\* The values Flag(spec) can choose; those a move along a numeric spec keeps to.
FlagValues(s) == IF s \in Numeric THEN Start[s]..End[s] ELSE {0}

FlagSet ==
  {f \in [Specs -> (UNION {FlagValues(s) : s \in Specs}) \cup {Off}] :
     \A s \in Specs : f[s] \in FlagValues(s) \cup {Off}}

AllFlags == [s \in Specs |-> IF s \in Numeric THEN End[s] - 1 ELSE 0]

\* The neighbours of f along s.
ClimbNext(f, s) ==
  {[f EXCEPT ![s] = v] : v \in
     IF f[s] = Off THEN {IF s \in Numeric THEN Start[s] ELSE 0}
     ELSE IF s \notin Numeric THEN {Off}
     ELSE {v \in {f[s] + 1} : v < End[s]} \cup {IF f[s] > Start[s] THEN f[s] - 1 ELSE Off}}

\* f with the flag of s eliminated or one smaller.
DecreaseFlag(f, s) ==
  [f EXCEPT ![s] = IF s \in Numeric /\ f[s] # Start[s] THEN f[s] - 1 ELSE Off]

\* The flags that are on.
Enabled(f) == {s \in Specs : f[s] # Off}

\* What RandomMutate can make of f: only mutated flags are kept.
RandomMutate(f) ==
  {g \in FlagSet : \A s \in Enabled(g) :
     \/ f[s] = Off
     \/ /\ s \in Numeric
        /\ \/ g[s] \in {f[s], f[s] - 1}
           \/ g[s] = f[s] + 1 /\ g[s] < End[s]}

\* What ReproduceWith can make of two parents, the mutation included.
ReproduceWith(f, m) ==
  UNION {RandomMutate(o) : o \in
    {o \in FlagSet : \A s \in Specs :
       IF f[s] # Off /\ m[s] # Off THEN o[s] \in {f[s], m[s]} ELSE o[s] \in {f[s], m[s], Off}}}
=============================================================================
