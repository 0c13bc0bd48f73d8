---------------------------- MODULE MachinePool ----------------------------
(***************************************************************************)
(* The automation server's pool of machines (automation/server/            *)
(* machine_manager.py, automation/common/machine.py).  A pool gives every  *)
(* machine its uses and its locked flag; a specification is the set of     *)
(* machines it matches by name, label and os, and lock_required.           *)
(***************************************************************************)
EXTENDS Naturals, Sequences, FiniteSets

CONSTANTS NMachines

ASSUME NMachinesAssumption == NMachines \in Nat

Machines  == 1..NMachines
NoMachine == 0

Machine == [uses : Nat, locked : BOOLEAN]
Specification == [matches : SUBSET Machines, lock_required : BOOLEAN]

Count(ms, m) == Cardinality({i \in 1..Len(ms) : ms[i] = m})

IsMatch(pool, spec, m) == m \in spec.matches /\ ~pool[m].locked

\* m = min(S, key=uses): of the machines with the fewest uses the first in the pool.
IsMinUses(pool, S, m) ==
  /\ m \in S
  /\ \A n \in S : pool[m].uses < pool[n].uses \/ (pool[m].uses = pool[n].uses /\ m <= n)

\* _GetMachine returns m: the machine for a specification, or NoMachine.
GetMachine(pool, spec, preferred, m) ==
  LET available == {n \in Machines : IsMatch(pool, spec, n)}
  IN IF available = {} THEN m = NoMachine
     ELSE IsMinUses(pool, IF available \cap preferred # {} THEN available \cap preferred ELSE available, m)

\* Acquire of ms[1..n] for their specifications, one after the other.
Acquired(pool, specs, ms, n) ==
  [m \in Machines |->
     [uses   |-> pool[m].uses + Count(SubSeq(ms, 1, n), m),
      locked |-> pool[m].locked \/ \E i \in 1..n : ms[i] = m /\ specs[i].lock_required]]

\* Mutant: the last user leaves the machine locked.
MutReleased(pool, ms) ==
  [m \in Machines |->
     [uses   |-> pool[m].uses - Count(ms, m),
      locked |-> pool[m].locked]]

\* Release of all of ms: a machine without uses is not locked any more.
Released(pool, ms) ==
  [m \in Machines |->
     [uses   |-> pool[m].uses - Count(ms, m),
      locked |-> pool[m].locked /\ pool[m].uses > Count(ms, m)]]

\* No assertion fails when the first n of ms are released.
CanRelease(pool, ms, n) == \A m \in Machines : Count(SubSeq(ms, 1, n), m) <= pool[m].uses

\* GetMachines acquires ms for the specifications in turn; only the first
\* has preferences.
Acquisition(pool, specs, preferred, ms) ==
  \A i \in 1..Len(specs) :
    GetMachine(Acquired(pool, specs, ms, i - 1), specs[i], IF i = 1 THEN preferred ELSE {}, ms[i])

\* If a machine is missing, those acquired are released.
RolledBack(pool, specs, ms) == Released(Acquired(pool, specs, ms, Len(specs)), ms)
=============================================================================
