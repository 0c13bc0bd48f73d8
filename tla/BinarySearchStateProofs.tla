---------------------- MODULE BinarySearchStateProofs ----------------------
(***************************************************************************)
(* For any number of items, any bad ones and any limits: what is tested is *)
(* what the bisection asks for, the bounds keep the first bad item between *)
(* them and halve, what is reported is right, and the state can be saved.  *)
(*                                                                         *)
(* What holds of the search in memory also holds of the one in the state   *)
(* file: the predicates on a search have its parts as parameters.          *)
(***************************************************************************)
EXTENDS BinarySearchState, SequenceTheorems, WellFoundedInduction, TLAPS

-----------------------------------------------------------------------------
(* A search                                                                *)

\* The list has every item that is not known to be good, once, and those found
\* before at its end.
Listed(items, found, good) ==
  /\ Len(items) \in 1..n /\ (n > 1 => Len(items) > 1)
  /\ \A i, j \in 1..Len(items) : items[i] = items[j] => i = j
  /\ \A x \in Items : x \in good <=> \A i \in 1..Len(items) : items[i] # x
  /\ \A i, j \in 1..Len(items) : i < j /\ items[i] \in found => items[j] \in found

\* The item at the index k is the first bad one.
FirstBad(items, k) == items[k + 1] \in bad /\ \A i \in 1..k : items[i] \notin bad

\* c tests have halved m - 1 to d.
Halved(d, c, m) ==
  \E p \in [0..c -> 1..(m - 1)] :
    /\ p[0] = 1 /\ \A i \in 1..c : p[i] = 2 * p[i - 1]
    /\ p[c] * d <= m - 1

\* A search that goes on, after c tests.
Bisecting(items, b, c) ==
  /\ 0 <= b.lo /\ b.lo < b.hi /\ b.hi < Len(items)
  /\ ~gave_up => \E k \in b.lo..b.hi : FirstBad(items, k)
  /\ b.skipped = {} => Halved(b.hi - b.lo, c, Len(items))

\* Until a search gave up.
FoundRight(found, good) == ~gave_up => found \subseteq bad /\ good \cap bad = {}

-----------------------------------------------------------------------------
(* The inductive invariant                                                 *)

Ready == {"verifygood", "verifybad", "dosearch"}
Saving == {"cycle", "link", "rename", "getnext"}
Testing == {"flaky", "switchgood", "switchbad", "test"}

\* A triple of GetNextFlakyBinary is within the bounds and its middle below hi.
Within(b, t) == b.lo <= t[1] /\ t[1] <= t[2] /\ t[2] <= t[3] /\ t[3] <= b.hi /\ t[2] < b.hi

\* The search in memory, which is over at "remove" and lost at "dead".
InMemory ==
  /\ pc \in Ready \cup Saving \cup Testing \cup {"found"} => Listed(all_items, found_items, known_good)
  /\ pc \in Saving \cup Testing \cup {"found"} => prune_cycles < PruneIterations /\ ~resumed
  /\ pc \in Ready /\ ~resumed => binary_search = NewSearcher(Len(all_items))
  /\ pc \in Ready /\ resumed => Bisecting(all_items, binary_search, search_cycles)
  /\ pc \in Saving => Bisecting(all_items, binary_search, search_cycles)
  /\ pc \in Saving \ {"cycle"} => search_cycles < iterations
  /\ pc \in Testing => search_cycles > 0 /\ Bisecting(all_items, binary_search, search_cycles - 1)
  /\ pc = "flaky" => binary_search.skipped # {} /\ queue # <<>> /\ \A i \in 1..Len(queue) : Within(binary_search, queue[i])
  /\ pc \in Testing \ {"flaky"} => binary_search.current \in binary_search.lo..(binary_search.hi - 1)
  /\ pc \in Testing /\ binary_search.skipped = {} =>
       binary_search.current = Middle(binary_search.lo, binary_search.hi)
  /\ pc = "found" => prune_index < Len(all_items)
  /\ pc = "found" /\ ~gave_up => /\ prune_index \in binary_search.lo..binary_search.hi
                                 /\ FirstBad(all_items, prune_index)

\* The search in the state file, and what it had found.
OnDisk ==
  state_file # NoState =>
    /\ Listed(state_file.all_items, state_file.found_items, state_file.known_good)
    /\ Bisecting(state_file.all_items, state_file.binary_search, state_file.search_cycles)
    /\ FoundRight(state_file.found_items, state_file.known_good)

\* With --prune what was reported is right; at the end it is something, or a
\* limit was met.
Reported ==
  prune /\ ~gave_up =>
    /\ reported = bad \/ reported = {}
    /\ pc \in {"remove", "done"} /\ n > 1 =>
         reported = bad \/ search_cycles = iterations \/ prune_cycles = PruneIterations

\* What is believed to be switched is switched, and first the good items are.
Switched ==
  /\ \A i \in currently_good_items : env[i] = GOOD
  /\ \A i \in currently_bad_items : env[i] = BAD
  /\ pc = "switchbad" => next_good_items \subseteq currently_good_items
  /\ TestsWhatIsAsked

\* Between os.symlink and os.rename there is the link, and no save had failed.
Linked == SavesUnlessLinkLeft /\ (pc = "rename" => temp_link /\ ~save_failed)

BssInv ==
  /\ TypeOK /\ bad # {} /\ InMemory /\ OnDisk /\ FoundRight(found_items, known_good)
  /\ Reported /\ Switched /\ Linked

-----------------------------------------------------------------------------
(* The bounds of a search                                                  *)

LEMMA MiddleBetween ==
  ASSUME NEW lo \in Int, NEW hi \in Int, lo <= hi
  PROVE  /\ Middle(lo, hi) \in lo..hi
         /\ lo < hi => Middle(lo, hi) < hi
         /\ 2 * (Middle(lo, hi) - lo) <= hi - lo
         /\ 2 * (hi - (Middle(lo, hi) + 1)) <= hi - lo
BY DEF Middle

LEMMA HalvedNew ==
  ASSUME NEW m \in Nat, m > 1
  PROVE  Halved(m - 1, 0, m)
PROOF
<1>1. PICK p : p = [i \in 0..0 |-> 1]
  OBVIOUS
<1>2. p \in [0..0 -> 1..(m - 1)] /\ p[0] = 1
  BY <1>1
<1>3. QED
  BY <1>2 DEF Halved

LEMMA HalfOf == \A x, e, d, l \in Nat : 2 * e <= d /\ x * d <= l => (2 * x) * e <= l
OBVIOUS

LEMMA FactorOf == \A x, e, l \in Nat : 1 <= e /\ x * e <= l => x <= l
OBVIOUS

\* One more test leaves at most half of the rest.
LEMMA HalvedMore ==
  ASSUME NEW c \in Nat, NEW m \in Nat, NEW d \in Nat, NEW e \in Nat,
         e >= 1, 2 * e <= d, Halved(d, c, m)
  PROVE  Halved(e, c + 1, m)
PROOF
<1>1. PICK p \in [0..c -> 1..(m - 1)] :
        /\ p[0] = 1 /\ \A i \in 1..c : p[i] = 2 * p[i - 1]
        /\ p[c] * d <= m - 1
  BY DEF Halved
<1>2. PICK x \in Nat : x = p[c] /\ x >= 1 /\ x * d <= m - 1
  BY <1>1
<1>3. (2 * x) * e <= m - 1 /\ 2 * x \in 1..(m - 1)
  <2>1. PICK l : l = m - 1 /\ l \in Nat
    BY <1>1
  <2>2. (2 * x) * e <= l
    BY <1>2, <2>1, HalfOf
  <2>3. PICK y : y = 2 * x /\ y \in Nat /\ y >= 1
    BY <1>2
  <2>4. y <= l
    BY <2>1, <2>2, <2>3, FactorOf
  <2>5. QED
    BY <2>1, <2>2, <2>3, <2>4
<1>4. PICK q : q = [i \in 0..(c + 1) |-> IF i = c + 1 THEN 2 * x ELSE p[i]]
  OBVIOUS
<1>5. q \in [0..(c + 1) -> 1..(m - 1)] /\ q[0] = 1 /\ q[c + 1] = 2 * x
  BY <1>1, <1>3, <1>4
<1>6. \A i \in 1..(c + 1) : q[i] = 2 * q[i - 1]
  BY <1>1, <1>2, <1>4
<1>7. QED
  BY <1>3, <1>5, <1>6 DEF Halved

LEMMA HalvedPower ==
  ASSUME NEW d, NEW c, NEW m, Halved(d, c, m)
  PROVE  PowerBelow(c, m)
BY DEF Halved, PowerBelow

\* A non-empty set of numbers has a least one.
LEMMA LeastOf ==
  ASSUME NEW T, T \subseteq Nat, T # {}
  PROVE  \E k \in T : \A j \in T : k <= j
PROOF
<1>1. IsWellFoundedOn(OpToRel(<, Nat), Nat)
  BY ONLY NatLessThanWellFounded, Zenon
<1>2. PICK R : R = OpToRel(<, Nat)
  OBVIOUS
<1>3. IsWellFoundedOn(R, Nat)
  BY <1>1, <1>2, Zenon
<1>4. \A j, k \in Nat : j < k => <<j, k>> \in R
  BY <1>2, Zenon DEF OpToRel
<1>5. PICK k \in T : \A j \in T : ~(<<j, k>> \in R)
  BY <1>3, WFMin
<1>6. ASSUME NEW j \in T
      PROVE  k <= j
  <2>1. j \in Nat /\ k \in Nat
    OBVIOUS
  <2>2. ~(j < k)
    BY <1>4, <1>5, <2>1
  <2>3. QED
    BY <2>1, <2>2
<1>7. QED
  BY <1>6

\* A list with a bad item has a first one.
LEMMA FirstBadExists ==
  ASSUME NEW found, NEW good, NEW items \in Seq(Items), Listed(items, found, good),
         bad \subseteq Items, bad # {}, good \cap bad = {}
  PROVE  \E k \in 0..(Len(items) - 1) : FirstBad(items, k)
PROOF
<1> DEFINE T == {j \in 0..(Len(items) - 1) : items[j + 1] \in bad}
<1>1. Len(items) \in Nat
  OBVIOUS
<1>2. PICK x \in bad : x \in Items
  OBVIOUS
<1>3. PICK i \in 1..Len(items) : items[i] = x
  BY <1>2 DEF Listed
<1>4. i - 1 \in T
  BY <1>1, <1>2, <1>3
<1>5. T \subseteq Nat /\ T # {}
  <2>1. \A j \in 0..(Len(items) - 1) : j \in Nat
    BY <1>1
  <2>2. QED
    BY <1>4, <2>1
<1>6. PICK k \in T : \A j \in T : k <= j
  BY <1>5, LeastOf
<1>7. k \in 0..(Len(items) - 1) /\ items[k + 1] \in bad
  BY <1>6
<1>8. ASSUME NEW h \in 1..k
      PROVE  items[h] \notin bad
  <2>1. h - 1 \in 0..(Len(items) - 1) /\ h - 1 < k /\ (h - 1) + 1 = h
    BY <1>1, <1>7
  <2>2. h - 1 \notin T
    <3>1. \A j \in T : k <= j
      BY <1>6
    <3>2. ~(k <= h - 1)
      BY <1>1, <1>7, <2>1
    <3>3. QED
      BY <3>1, <3>2
  <2>3. QED
    BY <2>1, <2>2
<1>9. QED
  BY <1>7, <1>8 DEF FirstBad

LEMMA NewBisecting ==
  ASSUME NEW found, NEW good, NEW items \in Seq(Items), Listed(items, found, good), Len(items) > 1,
         bad \subseteq Items, bad # {}, FoundRight(found, good)
  PROVE  Bisecting(items, NewSearcher(Len(items)), 0)
PROOF
<1>1. PICK m \in Nat : m = Len(items) /\ m > 1
  OBVIOUS
<1>2. PICK b : b = NewSearcher(m)
  OBVIOUS
<1>3. b.lo = 0 /\ b.hi = m - 1
  BY <1>2 DEF NewSearcher
<1>4. Halved(m - 1, 0, m)
  BY <1>1, HalvedNew
<1>5. ~gave_up => \E k \in 0..(m - 1) : FirstBad(items, k)
  BY <1>1, FirstBadExists DEF FoundRight
<1>6. Halved(b.hi - b.lo, 0, m)
  BY <1>1, <1>3, <1>4
<1>7. Bisecting(items, b, 0)
  BY <1>1, <1>3, <1>5, <1>6 DEF Bisecting
<1>8. QED
  BY <1>1, <1>2, <1>7

\* The list that pruning leaves.
LEMMA PrunedListed ==
  ASSUME NEW found, NEW good, NEW items \in Seq(Items), Listed(items, found, good),
         NEW k \in 0..(Len(items) - 2), items[k + 1] \notin found, n \in Nat,
         NEW P, P = SubSeq(items, k + 2, Len(items)) \o <<items[k + 1]>>
  PROVE  /\ P \in Seq(Items)
         /\ Listed(P, found \cup {items[k + 1]}, good \cup {items[i] : i \in 1..k})
PROOF
<1>1. PICK m \in Nat : m = Len(items)
  OBVIOUS
<1>2. \A i \in 1..m : items[i] \in Items
  BY <1>1, ElementOfSeq
<1>3. PICK S : S = SubSeq(items, k + 2, m)
  OBVIOUS
<1>4. /\ S \in Seq(Items) /\ Len(S) = m - k - 1
      /\ \A i \in 1..(m - k - 1) : S[i] = items[k + 1 + i]
  <2>1. k + 2 \in Int /\ m \in Int /\ \A i \in (k + 2)..m : items[i] \in Items
    BY <1>1, <1>2
  <2>2. /\ SubSeq(items, k + 2, m) \in Seq(Items)
        /\ Len(SubSeq(items, k + 2, m)) = IF k + 2 <= m THEN m - (k + 2) + 1 ELSE 0
        /\ \A i \in 1..(m - (k + 2) + 1) : SubSeq(items, k + 2, m)[i] = items[(k + 2) + i - 1]
    BY <2>1, SubSeqProperties
  <2>3. \A i \in 1..(m - k - 1) : i \in 1..(m - (k + 2) + 1) /\ (k + 2) + i - 1 = k + 1 + i
    BY <1>1
  <2>4. Len(S) = m - k - 1 /\ S \in Seq(Items)
    BY <1>1, <1>3, <2>2
  <2>5. ASSUME NEW i \in 1..(m - k - 1)
        PROVE  S[i] = items[k + 1 + i]
    BY <1>3, <2>2, <2>3
  <2>6. QED
    BY <2>4, <2>5
<1>5. PICK x \in Items : x = items[k + 1]
  BY <1>1, <1>2
<1>6. P = S \o <<x>> /\ <<x>> \in Seq(Items) /\ Len(<<x>>) = 1 /\ <<x>>[1] = x
  BY <1>1, <1>3, <1>5
<1>7. /\ P \in Seq(Items) /\ Len(P) = m - k
      /\ \A i \in 1..(m - k - 1) : P[i] = items[k + 1 + i]
      /\ P[m - k] = x
  <2>1. /\ S \o <<x>> \in Seq(Items)
        /\ Len(S \o <<x>>) = Len(S) + Len(<<x>>)
        /\ \A i \in 1..(Len(S) + Len(<<x>>)) :
             (S \o <<x>>)[i] = IF i <= Len(S) THEN S[i] ELSE <<x>>[i - Len(S)]
    BY <1>4, <1>6, ConcatProperties
  <2>2. m - k \in Nat
    BY <1>1
  <2>3. P[m - k] = x
    <3>1. Len(S) + Len(<<x>>) = m - k /\ m - k \in 1..(m - k) /\ ~(m - k <= m - k - 1)
          /\ (m - k) - (m - k - 1) = 1
      BY <1>1, <1>4, <1>6
    <3>2. (S \o <<x>>)[m - k] = <<x>>[(m - k) - Len(S)]
      BY <2>1, <3>1, <1>4
    <3>3. <<x>>[(m - k) - Len(S)] = <<x>>[1]
      BY <1>4, <3>1
    <3>4. QED
      BY <1>6, <3>2, <3>3
  <2>4. QED
    BY <1>1, <1>4, <1>6, <2>1, <2>3
<1>8. /\ m \in 1..n /\ \A i, j \in 1..m : items[i] = items[j] => i = j
      /\ \A y \in Items : y \in good <=> \A i \in 1..m : items[i] # y
      /\ \A i, j \in 1..m : i < j /\ items[i] \in found => items[j] \in found
  BY <1>1 DEF Listed
<1>9. Len(P) \in 1..n /\ (n > 1 => Len(P) > 1)
  BY <1>1, <1>7, <1>8
\* Where an element of the new list was.
<1>10. \A i \in 1..(m - k) : \/ i < m - k /\ k + 1 + i \in 1..m /\ P[i] = items[k + 1 + i]
                             \/ i = m - k /\ P[i] = items[k + 1]
  BY <1>1, <1>5, <1>7
<1>11. \A i, j \in 1..(m - k) : P[i] = P[j] => i = j
  BY <1>1, <1>8, <1>10
<1>12. \A y \in Items : y \in good \cup {items[i] : i \in 1..k} <=> \A i \in 1..(m - k) : P[i] # y
  <2> SUFFICES ASSUME NEW y \in Items
               PROVE  y \in good \cup {items[i] : i \in 1..k} <=> \A i \in 1..(m - k) : P[i] # y
    OBVIOUS
  <2>1. CASE y \in good
    BY <1>1, <1>8, <1>10, <2>1
  <2>2. CASE y \notin good
    <3>1. PICK h \in 1..m : items[h] = y
      BY <1>8, <2>2
    <3>2. CASE h <= k
      <4>1. \A i \in 1..(m - k) : P[i] # y
        BY <1>1, <1>8, <1>10, <3>1, <3>2
      <4>2. y = items[h] /\ h \in 1..k
        BY <1>1, <3>1, <3>2
      <4>3. QED
        BY <4>1, <4>2
    <3>3. CASE h = k + 1
      <4>1. P[m - k] = y /\ m - k \in 1..(m - k)
        BY <1>1, <1>5, <1>7, <3>1, <3>3
      <4>2. y \notin {items[i] : i \in 1..k}
        BY <1>1, <1>8, <3>1, <3>3
      <4>3. QED
        BY <2>2, <4>1, <4>2
    <3>4. CASE h > k + 1
      <4>1. h - k - 1 \in 1..(m - k - 1) /\ k + 1 + (h - k - 1) = h /\ h - k - 1 \in 1..(m - k)
        BY <1>1, <3>4
      <4>2. P[h - k - 1] = y
        BY <1>7, <3>1, <4>1
      <4>3. y \notin {items[i] : i \in 1..k}
        BY <1>1, <1>8, <3>1, <3>4
      <4>4. QED
        BY <2>2, <4>1, <4>2, <4>3
    <3>5. h <= k \/ h = k + 1 \/ h > k + 1
      BY <1>1, <3>1
    <3>6. QED
      BY <3>2, <3>3, <3>4, <3>5
  <2>3. QED
    BY <2>1, <2>2
<1>13. \A i, j \in 1..(m - k) : i < j /\ P[i] \in found \cup {x} => P[j] \in found \cup {x}
  <2> SUFFICES ASSUME NEW i \in 1..(m - k), NEW j \in 1..(m - k), i < j, P[i] \in found \cup {x}
               PROVE  P[j] \in found \cup {x}
    OBVIOUS
  <2>1. i < m - k /\ k + 1 + i \in 1..m /\ P[i] = items[k + 1 + i]
    BY <1>1, <1>10
  <2>2. P[i] \in found
    BY <1>1, <1>5, <1>8, <2>1
  <2>3. CASE j = m - k
    BY <1>7, <2>3
  <2>4. CASE j < m - k
    BY <1>1, <1>8, <1>10, <2>1, <2>2, <2>4
  <2>5. QED
    BY <1>1, <2>3, <2>4
<1>14. QED
  BY <1>5, <1>7, <1>9, <1>11, <1>12, <1>13 DEF Listed

-----------------------------------------------------------------------------
(* Searchers                                                               *)

LEMMA NewSearcherType ==
  ASSUME NEW k \in Nat \ {0}, NEW m \in Nat, k <= m
  PROVE  NewSearcher(k) \in Searcher(m)
PROOF
<1>1. k - 1 \in 0..m /\ 0 \in 0..m /\ {} \in SUBSET (0..m)
  OBVIOUS
<1>2. QED
  BY <1>1 DEF NewSearcher, Searcher

\* A test that says bad keeps what is up to current, one that says good what is
\* above it, each at most half of it.
LEMMA SetStatusBounds ==
  ASSUME NEW m \in Nat, NEW b \in Searcher(m), NEW st \in {GOOD, BAD, SKIP},
         b.lo <= b.current, b.current < b.hi,
         NEW s, s = SetStatus(b, st)
  PROVE  /\ s \in Searcher(m)
         /\ st = SKIP => s.lo = b.lo /\ s.hi = b.hi /\ s.current = b.current /\ s.skipped # {}
         /\ st = GOOD => s.lo = b.current + 1 /\ s.hi = b.hi /\ s.current \in s.lo..s.hi /\ s.skipped = b.skipped
         /\ st = BAD => s.lo = b.lo /\ s.hi = b.current /\ s.current \in s.lo..s.hi /\ s.skipped = b.skipped
PROOF
<1>1. PICK lo \in 0..m, hi \in 0..m, cur \in 0..m, sk \in SUBSET (0..m) :
        b = [lo |-> lo, hi |-> hi, current |-> cur, skipped |-> sk]
  BY DEF Searcher
<1>2. lo <= cur /\ cur < hi
  BY <1>1
<1>3. b.lo = lo /\ b.hi = hi /\ b.current = cur /\ b.skipped = sk
  BY <1>1
<1>4. CASE st = SKIP
  <2>1. s = [lo |-> lo, hi |-> hi, current |-> cur, skipped |-> sk \cup {cur}]
    BY <1>1, <1>4 DEF SetStatus, GOOD, BAD, SKIP
  <2>2. sk \cup {cur} \in SUBSET (0..m) /\ sk \cup {cur} # {}
    OBVIOUS
  <2>3. s \in Searcher(m)
    BY <2>1, <2>2 DEF Searcher
  <2>4. s.lo = lo /\ s.hi = hi /\ s.current = cur /\ s.skipped # {}
    BY <2>1, <2>2
  <2>5. st # GOOD /\ st # BAD
    BY <1>4 DEF GOOD, BAD, SKIP
  <2>6. QED
    BY <1>3, <2>3, <2>4, <2>5
<1>5. CASE st = GOOD
  <2>1. PICK c : c = Middle(cur + 1, hi)
    OBVIOUS
  <2>2. c \in (cur + 1)..hi
    BY <1>2, <2>1, MiddleBetween
  <2>3. s = [lo |-> cur + 1, hi |-> hi, current |-> c, skipped |-> sk]
    <3>1. s = [b EXCEPT !.lo = b.current + 1, !.current = Middle(b.current + 1, b.hi)]
      BY <1>5 DEF SetStatus, GOOD, BAD, SKIP
    <3>2. s = [b EXCEPT !.lo = cur + 1, !.current = c]
      BY <1>3, <2>1, <3>1
    <3>3. QED
      BY <1>1, <3>2
  <2>4. cur + 1 \in 0..m /\ c \in 0..m
    BY <1>2, <2>2
  <2>5. s \in Searcher(m)
    BY <2>3, <2>4 DEF Searcher
  <2>6. s.lo = cur + 1 /\ s.hi = hi /\ s.current = c /\ s.skipped = sk
    BY <2>3
  <2>7. st # SKIP /\ st # BAD
    BY <1>5 DEF GOOD, BAD, SKIP
  <2>8. QED
    BY <1>3, <2>2, <2>5, <2>6, <2>7
<1>6. CASE st = BAD
  <2>1. PICK c : c = Middle(lo, cur)
    OBVIOUS
  <2>2. c \in lo..cur
    BY <1>2, <2>1, MiddleBetween
  <2>3. s = [lo |-> lo, hi |-> cur, current |-> c, skipped |-> sk]
    <3>1. s = [b EXCEPT !.hi = b.current, !.current = Middle(b.lo, b.current)]
      BY <1>6 DEF SetStatus, GOOD, BAD, SKIP
    <3>2. s = [b EXCEPT !.hi = cur, !.current = c]
      BY <1>3, <2>1, <3>1
    <3>3. QED
      BY <1>1, <3>2
  <2>4. c \in 0..m
    BY <1>2, <2>2
  <2>5. s \in Searcher(m)
    BY <2>3, <2>4 DEF Searcher
  <2>6. s.lo = lo /\ s.hi = cur /\ s.current = c /\ s.skipped = sk
    BY <2>3
  <2>7. st # SKIP /\ st # GOOD
    BY <1>6 DEF GOOD, BAD, SKIP
  <2>8. QED
    BY <1>3, <2>2, <2>5, <2>6, <2>7
<1>7. QED
  BY <1>4, <1>5, <1>6

-----------------------------------------------------------------------------
(* The initial states                                                      *)

LEMMA InitBss == Init => BssInv
PROOF
<1> SUFFICES ASSUME Init PROVE BssInv
  OBVIOUS
<1>1. n \in Nat \ {0} /\ n \in Sizes /\ iterations \in Nat /\ PruneIterations \in Nat /\ MaxSkips \in Nat
      /\ MaxCrashes \in Nat /\ iterations \in Iterations
  BY SizesAssumption, BoundsAssumption DEF Init
<1>2. bad \subseteq Items /\ bad # {}
  BY DEF Init
<1>3. PICK k \in Nat \ {0} : k = n
  BY <1>1
<1>4. PICK f : f = [i \in 1..k |-> i]
  OBVIOUS
<1>5. all_items = f /\ Items = 1..k
  BY <1>3, <1>4 DEF Init, Items
<1>6. f \in Seq(1..k) /\ Len(f) = k /\ \A i \in 1..k : f[i] = i
  BY <1>3, <1>4
<1>7. all_items \in Seq(Items) /\ Len(all_items) = n
  BY <1>3, <1>5, <1>6
<1>8. binary_search = NewSearcher(n) /\ binary_search \in Searcher(n)
  <2>1. NewSearcher(k) \in Searcher(k)
    BY <1>3, NewSearcherType
  <2>2. QED
    BY <1>3, <2>1 DEF Init
<1>9. TypeOK
  <2>1. {incremental, prune, verify, resumed, temp_link, gave_up, save_failed} \subseteq BOOLEAN
    BY DEF Init
  <2>2. /\ found_items \subseteq Items /\ known_good \subseteq Items
        /\ currently_good_items \subseteq Items /\ currently_bad_items \subseteq Items
        /\ reported \subseteq Items
    BY DEF Init
  <2>3. search_cycles \in 0..iterations /\ prune_cycles \in 0..PruneIterations
        /\ skips \in 0..MaxSkips /\ crashes \in 0..MaxCrashes
    BY <1>1 DEF Init
  <2>4. queue \in Seq((0..n) \X (0..n) \X (0..n)) /\ pc \in Pc
    BY DEF Init, Pc
  <2>5. env \in [Items -> {GOOD, BAD}] /\ state_file = NoState
    BY DEF Init
  <2>6. QED
    BY <1>1, <1>2, <1>7, <1>8, <2>1, <2>2, <2>3, <2>4, <2>5 DEF TypeOK
<1>10. InMemory
  <2>1. Listed(f, {}, {})
    BY <1>3, <1>5, <1>6 DEF Listed
  <2>2. Listed(all_items, found_items, known_good)
    BY <1>5, <2>1 DEF Init
  <2>3. pc \in Ready /\ pc \notin Saving \cup Testing \cup {"found"} /\ ~resumed
    BY DEF Init, Ready, Saving, Testing
  <2>4. binary_search = NewSearcher(Len(all_items))
    BY <1>7, <1>8
  <2>5. QED
    BY <2>2, <2>3, <2>4 DEF InMemory, Saving, Testing
<1>11. OnDisk /\ FoundRight(found_items, known_good) /\ Reported /\ Switched /\ Linked
  BY DEF Init, OnDisk, FoundRight, Reported, Switched, Linked, SavesUnlessLinkLeft, TestsWhatIsAsked
<1>12. QED
  BY <1>2, <1>9, <1>10, <1>11 DEF BssInv

-----------------------------------------------------------------------------
(* Types                                                                   *)

\* The numbers there are, and that the options stay.
LEMMA Numbers ==
  ASSUME TypeOK
  PROVE  /\ n \in Nat \ {0} /\ iterations \in Nat /\ PruneIterations \in Nat
         /\ MaxSkips \in Nat /\ MaxCrashes \in Nat
         /\ Len(all_items) \in Nat
         /\ {binary_search.lo, binary_search.hi, binary_search.current} \subseteq 0..n
         /\ search_cycles \in Nat /\ prune_cycles \in Nat
PROOF
<1>1. n \in Nat \ {0} /\ iterations \in Nat /\ PruneIterations \in Nat /\ MaxSkips \in Nat /\ MaxCrashes \in Nat
  BY SizesAssumption, BoundsAssumption DEF TypeOK
<1>2. {binary_search.lo, binary_search.hi, binary_search.current} \subseteq 0..n
  BY DEF TypeOK, Searcher
<1>3. Len(all_items) \in Nat
  BY DEF TypeOK
<1>4. search_cycles \in Nat /\ prune_cycles \in Nat
  BY <1>1 DEF TypeOK
<1>5. QED
  BY <1>1, <1>2, <1>3, <1>4

\* What switching does to one set of items, for either version.
LEMMA SwitchTypes ==
  ASSUME TypeOK, UNCHANGED options, NEW S, S \subseteq Items, SwitchToGood(S) \/ SwitchToBad(S)
  PROVE  /\ currently_good_items' \subseteq Items /\ currently_bad_items' \subseteq Items
         /\ env' \in [Items -> {GOOD, BAD}]
PROOF
<1>1. PICK T : T = IF SwitchToGood(S)
                   THEN IF incremental THEN S \ currently_good_items ELSE S
                   ELSE IF incremental THEN S \ currently_bad_items ELSE S
  OBVIOUS
<1>2. T \subseteq Items
  BY <1>1
<1>3. /\ currently_good_items \subseteq Items /\ currently_bad_items \subseteq Items
      /\ env \in [Items -> {GOOD, BAD}]
  BY DEF TypeOK
<1>4. CASE SwitchToGood(S)
  <2>1. /\ env' = [i \in Items |-> IF i \in T THEN GOOD ELSE env[i]]
        /\ currently_good_items' = currently_good_items \cup T
        /\ currently_bad_items' = currently_bad_items \ T
    BY <1>1, <1>4 DEF SwitchToGood
  <2>2. QED
    BY <1>2, <1>3, <2>1
<1>5. CASE ~SwitchToGood(S)
  <2>1. /\ env' = [i \in Items |-> IF i \in T THEN BAD ELSE env[i]]
        /\ currently_bad_items' = currently_bad_items \cup T
        /\ currently_good_items' = currently_good_items \ T
    BY <1>1, <1>5 DEF SwitchToBad
  <2>2. QED
    BY <1>2, <1>3, <2>1
<1>6. QED
  BY <1>4, <1>5

\* The items of the list.
LEMMA ListedItems ==
  ASSUME TypeOK
  PROVE  /\ \A i \in 1..Len(all_items) : all_items[i] \in Items
         /\ Len(all_items) \in Nat
BY ElementOfSeq DEF TypeOK

LEMMA NextItems ==
  ASSUME TypeOK, InMemory, pc \in Testing \ {"flaky"}
  PROVE  /\ next_good_items \cup next_bad_items = Items
         /\ next_good_items \cap next_bad_items = {}
PROOF
<1>1. PICK m \in Nat : m = Len(all_items)
  BY Numbers
<1>2. PICK c : c = binary_search.current /\ c \in 0..(m - 2)
  <2>1. binary_search.current \in binary_search.lo..(binary_search.hi - 1)
    BY DEF InMemory
  <2>2. 0 <= binary_search.lo /\ binary_search.hi < m
    BY <1>1 DEF InMemory, Bisecting
  <2>3. {binary_search.lo, binary_search.hi, binary_search.current} \subseteq Int
    BY Numbers
  <2>4. QED
    BY <1>1, <2>1, <2>2, <2>3
<1>3. /\ \A i, j \in 1..m : all_items[i] = all_items[j] => i = j
      /\ \A x \in Items : x \in known_good <=> \A i \in 1..m : all_items[i] # x
  BY <1>1 DEF InMemory, Listed
<1>4. next_bad_items = {all_items[i] : i \in 1..(c + 1)}
  BY <1>2 DEF next_bad_items
<1>5. next_good_items = {all_items[i] : i \in (c + 2)..m} \cup known_good
  BY <1>1, <1>2 DEF next_good_items
<1>6. \A i \in 1..m : all_items[i] \in Items
  BY <1>1, ListedItems
<1>7. known_good \subseteq Items
  BY DEF TypeOK
<1>8. next_good_items \subseteq Items /\ next_bad_items \subseteq Items
  BY <1>1, <1>2, <1>4, <1>5, <1>6, <1>7
<1>9. ASSUME NEW x \in Items
      PROVE  x \in next_good_items <=> x \notin next_bad_items
  <2>1. CASE x \in known_good
    <3>1. \A i \in 1..m : all_items[i] # x
      BY <1>3, <2>1
    <3>2. x \notin next_bad_items
      BY <1>1, <1>2, <1>4, <3>1
    <3>3. QED
      BY <1>5, <2>1, <3>2
  <2>2. CASE x \notin known_good
    <3>1. PICK h \in 1..m : all_items[h] = x
      BY <1>3, <2>2
    <3>2. CASE h <= c + 1
      <4>1. x \in next_bad_items
        BY <1>2, <1>4, <3>1, <3>2
      <4>2. \A i \in (c + 2)..m : all_items[i] # x
        BY <1>1, <1>2, <1>3, <3>1, <3>2
      <4>3. QED
        BY <1>5, <2>2, <4>1, <4>2
    <3>3. CASE h > c + 1
      <4>1. h \in (c + 2)..m
        BY <1>2, <3>1, <3>3
      <4>2. x \in next_good_items
        BY <1>5, <3>1, <4>1
      <4>3. \A i \in 1..(c + 1) : all_items[i] # x
        BY <1>1, <1>2, <1>3, <3>1, <3>3
      <4>4. QED
        BY <1>4, <4>2, <4>3
    <3>4. QED
      BY <1>1, <1>2, <3>1, <3>2, <3>3
  <2>3. QED
    BY <2>1, <2>2
<1>10. QED
  BY <1>8, <1>9

\* The triples into which GetNextFlakyBinary splits one.
LEMMA SplitWithin ==
  ASSUME NEW m \in Nat, NEW b \in Searcher(m), NEW t \in (0..m) \X (0..m) \X (0..m), Within(b, t)
  PROVE  /\ GoTop(t) \in (0..m) \X (0..m) \X (0..m) /\ Within(b, GoTop(t))
         /\ GoBottom(t) \in (0..m) \X (0..m) \X (0..m) /\ Within(b, GoBottom(t))
PROOF
<1>1. PICK x \in 0..m, y \in 0..m, z \in 0..m : t = <<x, y, z>>
  OBVIOUS
<1>2. PICK lo \in 0..m, hi \in 0..m : lo = b.lo /\ hi = b.hi
  BY DEF Searcher
<1>3. lo <= x /\ x <= y /\ y <= z /\ z <= hi /\ y < hi
  BY <1>1, <1>2 DEF Within
<1> x \in Int /\ y \in Int /\ z \in Int
  OBVIOUS
<1>4. PICK u : u = Middle(x, y) /\ u \in x..y
  <2>1. Middle(x, y) \in x..y
    BY <1>3, MiddleBetween
  <2>2. QED
    BY <2>1
<1>5. PICK v : v = Middle(y, z) /\ v \in y..z /\ (y < z => v < z)
  <2>1. Middle(y, z) \in y..z /\ (y < z => Middle(y, z) < z)
    BY <1>3, MiddleBetween
  <2>2. QED
    BY <2>1
<1>6. GoTop(t) = <<x, u, y>> /\ GoBottom(t) = <<y, v, z>>
  <2>1. t[1] = x /\ t[2] = y /\ t[3] = z
    BY <1>1
  <2>2. QED
    BY <1>4, <1>5, <2>1 DEF GoTop, GoBottom
<1>7. u \in 0..m /\ v \in 0..m /\ u < hi /\ v < hi
  BY <1>3, <1>4, <1>5
<1>8. GoTop(t) \in (0..m) \X (0..m) \X (0..m) /\ Within(b, GoTop(t))
  BY <1>2, <1>3, <1>4, <1>6, <1>7 DEF Within
<1>9. GoBottom(t) \in (0..m) \X (0..m) \X (0..m) /\ Within(b, GoBottom(t))
  BY <1>2, <1>3, <1>5, <1>6, <1>7 DEF Within
<1>10. QED
  BY <1>8, <1>9

\* The steps that change nothing but where the tool is and what is switched.
LEMMA SwitchingTypes ==
  ASSUME TypeOK, InMemory, VerifyGood \/ VerifyBad \/ SwitchGood \/ SwitchBad
  PROVE  TypeOK'
PROOF
<1>1. UNCHANGED <<options, saved, resumed, queue, disk, history>> /\ pc' \in Pc
  BY DEF VerifyGood, VerifyBad, SwitchGood, SwitchBad, Goto, Pc
<1>2. UNCHANGED options
  BY <1>1
<1>3. /\ currently_good_items' \subseteq Items /\ currently_bad_items' \subseteq Items
      /\ env' \in [Items -> {GOOD, BAD}]
  <2>1. CASE VerifyGood
    BY <1>2, <2>1, SwitchTypes DEF VerifyGood
  <2>2. CASE VerifyBad
    BY <1>2, <2>2, SwitchTypes DEF VerifyBad
  <2>3. CASE SwitchGood
    <3>1. next_good_items \subseteq Items
      BY <2>3, NextItems DEF SwitchGood, Goto, Testing
    <3>2. QED
      BY <1>2, <2>3, <3>1, SwitchTypes DEF SwitchGood
  <2>4. CASE SwitchBad
    <3>1. next_bad_items \subseteq Items
      BY <2>4, NextItems DEF SwitchBad, Goto, Testing
    <3>2. QED
      BY <1>2, <2>4, <3>1, SwitchTypes DEF SwitchBad
  <2>5. QED
    BY <2>1, <2>2, <2>3, <2>4
<1>4. Items' = Items
  BY <1>2 DEF Items, options
<1>5. QED
  BY <1>1, <1>3, <1>4 DEF TypeOK, State, options, saved, disk, history

LEMMA StateType ==
  ASSUME TypeOK
  PROVE  [all_items |-> all_items, binary_search |-> binary_search,
          found_items |-> found_items, known_good |-> known_good,
          search_cycles |-> search_cycles, prune_cycles |-> prune_cycles] \in State
BY DEF TypeOK, State

\* What is saved is a record.
LEMMA SavedTypes ==
  ASSUME TypeOK, state_file # NoState
  PROVE  /\ state_file.all_items \in Seq(Items) /\ state_file.binary_search \in Searcher(n)
         /\ state_file.found_items \subseteq Items /\ state_file.known_good \subseteq Items
         /\ state_file.search_cycles \in 0..iterations /\ state_file.prune_cycles \in 0..PruneIterations
BY DEF TypeOK, State

LEMMA NextType ==
  ASSUME BssInv, Next
  PROVE  TypeOK'
PROOF
<1> USE DEF BssInv
<1>1. n \in Nat \ {0} /\ iterations \in Nat /\ PruneIterations \in Nat /\ MaxSkips \in Nat /\ MaxCrashes \in Nat
      /\ search_cycles \in Nat /\ prune_cycles \in Nat
  BY Numbers
<1>2. UNCHANGED options
  BY DEF Next, Tool, VerifyGood, VerifyBad, BeginSearch, Cycle, SaveLink, SaveRename, GetNext, FlakyPop,
         SwitchGood, SwitchBad, Test, Found, RemoveState, Crash, LoadState
<1>3. Items' = Items /\ State' = State
  BY <1>2 DEF Items, State, options
<1>4. CASE VerifyGood \/ VerifyBad \/ SwitchGood \/ SwitchBad
  BY <1>4, SwitchingTypes
<1>5. CASE BeginSearch
  <2>1. search_cycles' \in 0..iterations
    <3>1. search_cycles' = search_cycles \/ search_cycles' = 0
      BY <1>5 DEF BeginSearch
    <3>2. search_cycles \in 0..iterations
      BY DEF TypeOK
    <3>3. QED
      BY <1>1, <3>1, <3>2
  <2>2. resumed' \in BOOLEAN
    BY <1>5 DEF BeginSearch, TypeOK
  <2>3. pc' \in Pc
    BY <1>5 DEF BeginSearch, Goto, Pc
  <2>4. QED
    BY <1>3, <1>5, <2>1, <2>2, <2>3 DEF BeginSearch, Goto, TypeOK, Pc, options, switched, disk, history
<1>6. CASE Cycle
  <2>1. prune_cycles' \in 0..PruneIterations
    <3>1. pc = "cycle" /\ (prune_cycles' = prune_cycles \/ prune_cycles' = prune_cycles + 1)
      BY <1>6 DEF Cycle, Goto
    <3>2. prune_cycles < PruneIterations
      BY <3>1 DEF InMemory, Saving
    <3>3. QED
      BY <1>1, <3>1, <3>2
  <2>2. QED
    BY <1>3, <1>6, <2>1 DEF Cycle, Goto, TypeOK, Pc, options, switched, disk, history
<1>7. CASE SaveLink
  BY <1>3, <1>7 DEF SaveLink, Goto, TypeOK, Pc, options, saved, switched
<1>8. CASE SaveRename
  <2>1. state_file' \in State
    BY <1>8, StateType DEF SaveRename
  <2>2. QED
    BY <1>3, <1>8, <2>1 DEF SaveRename, Goto, TypeOK, Pc, options, saved, switched, history
<1>9. CASE GetNext
  <2>1. search_cycles' \in 0..iterations
    <3>1. pc = "getnext" /\ search_cycles' = search_cycles + 1
      BY <1>9 DEF GetNext, Goto
    <3>2. search_cycles < iterations
      BY <3>1 DEF InMemory, Saving
    <3>3. QED
      BY <1>1, <3>1, <3>2
  <2>2. PICK k \in 0..n : k = Middle(binary_search.lo, binary_search.hi)
    <3>1. PICK lo \in 0..n, hi \in 0..n : lo = binary_search.lo /\ hi = binary_search.hi
      BY Numbers
    <3>2. pc = "getnext"
      BY <1>9 DEF GetNext, Goto
    <3>3. lo <= hi /\ lo \in Int /\ hi \in Int
      BY <1>1, <3>1, <3>2 DEF InMemory, Saving, Bisecting
    <3>4. Middle(lo, hi) \in lo..hi
      BY <3>3, MiddleBetween
    <3>5. QED
      BY <1>1, <3>1, <3>3, <3>4
  <2>3. binary_search' = [binary_search EXCEPT !.current = k]
    BY <1>9, <2>2 DEF GetNext
  <2>4. binary_search' \in Searcher(n)
    BY <2>2, <2>3 DEF TypeOK, Searcher
  <2>5. queue' \in Seq((0..n) \X (0..n) \X (0..n))
    <3>1. <<binary_search.lo, k, binary_search.hi>> \in (0..n) \X (0..n) \X (0..n)
      BY <2>2 DEF TypeOK, Searcher
    <3>2. queue' = queue \/ queue' = << <<binary_search.lo, k, binary_search.hi>> >>
      BY <1>9, <2>2 DEF GetNext
    <3>3. PICK T : T = (0..n) \X (0..n) \X (0..n)
      OBVIOUS
    <3>4. queue \in Seq(T)
      BY <3>3 DEF TypeOK
    <3>5. << <<binary_search.lo, k, binary_search.hi>> >> \in Seq(T)
      BY <3>1, <3>3
    <3>6. QED
      BY <3>2, <3>3, <3>4, <3>5
  <2>6. QED
    BY <1>3, <1>9, <2>1, <2>4, <2>5 DEF GetNext, Goto, TypeOK, Pc, options, switched, disk, history
<1>10. CASE FlakyPop
  <2>1. queue # <<>> /\ \A i \in 1..Len(queue) : Within(binary_search, queue[i])
    BY <1>10 DEF FlakyPop, InMemory
  <2>2. PICK t \in (0..n) \X (0..n) \X (0..n) : t = Head(queue) /\ Within(binary_search, t)
    BY <2>1, HeadTailProperties DEF TypeOK
  <2>3. GoTop(t) \in (0..n) \X (0..n) \X (0..n) /\ GoBottom(t) \in (0..n) \X (0..n) \X (0..n)
    BY <1>1, <2>2, SplitWithin DEF TypeOK
  <2>4. queue' \in Seq((0..n) \X (0..n) \X (0..n))
    <3>1. Tail(queue) \in Seq((0..n) \X (0..n) \X (0..n))
      BY <2>1, HeadTailProperties DEF TypeOK
    <3>2. <<GoTop(t), GoBottom(t)>> \in Seq((0..n) \X (0..n) \X (0..n))
      BY <2>3
    <3>3. queue' = <<>> \/ queue' = Tail(queue) \o <<GoTop(t), GoBottom(t)>>
      BY <1>10, <2>2 DEF FlakyPop
    <3>4. PICK T : T = (0..n) \X (0..n) \X (0..n)
      OBVIOUS
    <3>5. <<>> \in Seq(T) /\ Tail(queue) \in Seq(T) /\ <<GoTop(t), GoBottom(t)>> \in Seq(T)
      BY <3>1, <3>2, <3>4, EmptySeq
    <3>6. Tail(queue) \o <<GoTop(t), GoBottom(t)>> \in Seq(T)
      BY <3>5, ConcatProperties
    <3>7. QED
      BY <3>3, <3>4, <3>5, <3>6
  <2>5. binary_search' \in Searcher(n)
    <3>1. binary_search' = binary_search \/ binary_search' = [binary_search EXCEPT !.current = t[2]]
      BY <1>10, <2>2 DEF FlakyPop
    <3>2. t[2] \in 0..n
      BY <2>2
    <3>3. QED
      BY <3>1, <3>2 DEF TypeOK, Searcher
  <2>6. QED
    BY <1>3, <1>10, <2>4, <2>5 DEF FlakyPop, Goto, TypeOK, Pc, options, switched, disk, history
<1>11. CASE Test
  <2>1. PICK status \in {TestResult(env), SKIP} : Test!(status)
    BY <1>11 DEF Test
  <2>2. PICK s : s = SetStatus(binary_search, status)
    OBVIOUS
  <2>3. status \in {GOOD, BAD, SKIP}
    BY <2>1 DEF TestResult
  <2>4. binary_search.lo <= binary_search.current /\ binary_search.current < binary_search.hi
    <3>1. pc = "test" /\ {binary_search.lo, binary_search.hi, binary_search.current} \subseteq 0..n
      BY <2>1, Numbers DEF Goto
    <3>2. QED
      BY <1>1, <3>1 DEF InMemory, Testing
  <2>5. s \in Searcher(n)
    BY <1>1, <2>2, <2>3, <2>4, SetStatusBounds DEF TypeOK
  <2>6. binary_search' = s /\ gave_up' \in BOOLEAN
    BY <2>1, <2>2 DEF TypeOK
  <2>7. skips' \in 0..MaxSkips
    BY <1>1, <2>1 DEF TypeOK
  <2>8. pc' \in Pc
    BY <2>1 DEF Goto, Pc
  <2>9. QED
    BY <1>3, <2>1, <2>5, <2>6, <2>7, <2>8 DEF TypeOK, options, switched, disk
<1>12. CASE Found
  <2>1. PICK p \in Nat : p = prune_index
    BY <1>1, Numbers DEF prune_index
  <2>2. PICK item : item = all_items[p + 1] /\ item \in Items
    <3>1. p < Len(all_items)
      BY <1>12, <2>1 DEF Found, InMemory
    <3>2. p + 1 \in 1..Len(all_items)
      BY <2>1, <3>1, Numbers
    <3>3. QED
      BY <3>2, ListedItems
  <2>3. prune_cycles' \in 0..PruneIterations
    <3>1. prune_cycles < PruneIterations /\ prune_cycles' = prune_cycles + 1
      BY <1>12 DEF Found, InMemory
    <3>2. QED
      BY <1>1, <3>1
  <2>4. reported' \subseteq Items /\ found_items' \subseteq Items /\ pc' \in Pc
    BY <1>12, <2>1, <2>2 DEF Found, Goto, Pc, TypeOK
  <2>5. known_good' \subseteq Items
    <3>1. \A i \in 1..p : all_items[i] \in Items
      <4>1. p < Len(all_items)
        BY <1>12, <2>1 DEF Found, InMemory
      <4>2. \A i \in 1..p : i \in 1..Len(all_items)
        BY <2>1, <4>1, Numbers
      <4>3. QED
        BY <4>2, ListedItems
    <3>2. known_good' = known_good \/ known_good' = known_good \cup {all_items[i] : i \in 1..p}
      BY <1>12, <2>1 DEF Found
    <3>3. known_good \subseteq Items /\ {all_items[i] : i \in 1..p} \subseteq Items
      BY <3>1 DEF TypeOK
    <3>4. QED
      BY <3>2, <3>3
  <2>6. all_items' \in Seq(Items) /\ binary_search' \in Searcher(n)
    <3>1. CASE UNCHANGED <<all_items, binary_search>>
      BY <3>1 DEF TypeOK
    <3>2. CASE /\ p # Len(all_items) - 1 /\ item \notin found_items
               /\ all_items' = Pruned /\ binary_search' = NewSearcher(Len(Pruned))
      <4>1. Listed(all_items, found_items, known_good) /\ p < Len(all_items)
        BY <1>12, <2>1 DEF Found, InMemory
      <4>2. p \in 0..(Len(all_items) - 2)
        BY <2>1, <3>2, <4>1, Numbers
      <4>3. PICK P : P = Pruned
        OBVIOUS
      <4>4. P = SubSeq(all_items, p + 2, Len(all_items)) \o <<all_items[p + 1]>>
        BY <2>1, <4>3 DEF Pruned
      <4>5. all_items \in Seq(Items)
        BY DEF TypeOK
      <4>6. P \in Seq(Items) /\ Listed(P, found_items \cup {all_items[p + 1]}, known_good \cup {all_items[i] : i \in 1..p})
        BY <1>1, <2>2, <3>2, <4>1, <4>2, <4>4, <4>5, PrunedListed
      <4>7. Len(P) \in 1..n
        BY <4>6 DEF Listed
      <4>8. NewSearcher(Len(P)) \in Searcher(n)
        BY <1>1, <4>7, NewSearcherType
      <4>9. QED
        BY <3>2, <4>3, <4>6, <4>8
    <3>3. QED
      BY <1>12, <2>1, <2>2, <3>1, <3>2 DEF Found
  <2>7. QED
    BY <1>3, <1>12, <2>3, <2>4, <2>5, <2>6 DEF Found, TypeOK, options, switched, disk
<1>13. CASE RemoveState
  BY <1>3, <1>13 DEF RemoveState, Goto, TypeOK, Pc, options, saved, switched, history
<1>14. CASE Crash
  <2>1. crashes' \in 0..MaxCrashes
    BY <1>1, <1>14 DEF Crash, TypeOK
  <2>2. QED
    BY <1>3, <1>14, <2>1 DEF Crash, TypeOK, Pc, options, saved, switched, disk
<1>15. CASE LoadState
  <2>1. <<>> \in Seq((0..n) \X (0..n) \X (0..n))
    BY EmptySeq
  <2>2. state_file # NoState
    BY <1>15 DEF LoadState
  <2>3. QED
    BY <1>3, <1>15, <2>1, <2>2, SavedTypes DEF LoadState, TypeOK, Pc, options, disk, history
<1>16. QED
  BY <1>4, <1>5, <1>6, <1>7, <1>8, <1>9, <1>10, <1>11, <1>12, <1>13, <1>14, <1>15 DEF Next, Tool

-----------------------------------------------------------------------------
(* The link, what is switched, and what is on disk                         *)

LEMMA NextOptions == ASSUME Next PROVE UNCHANGED options
BY DEF Next, Tool, VerifyGood, VerifyBad, BeginSearch, Cycle, SaveLink, SaveRename, GetNext, FlakyPop,
       SwitchGood, SwitchBad, Test, Found, RemoveState, Crash, LoadState

LEMMA NextLinked ==
  ASSUME BssInv, Next
  PROVE  Linked'
PROOF
<1> USE DEF BssInv, Linked, SavesUnlessLinkLeft
<1>1. crashes \in Nat
  BY Numbers DEF TypeOK
<1>2. CASE SaveLink
  BY <1>2 DEF SaveLink, Goto
<1>3. CASE SaveRename
  BY <1>3 DEF SaveRename, Goto, history
<1>4. CASE Crash
  BY <1>1, <1>4 DEF Crash, disk
<1>5. CASE ~(SaveLink \/ SaveRename \/ Crash)
  <2>1. UNCHANGED <<temp_link, save_failed, crashes>> /\ pc \notin {"link", "rename"} /\ pc' # "rename"
    BY <1>5 DEF Next, Tool, VerifyGood, VerifyBad, BeginSearch, Cycle, GetNext, FlakyPop, SwitchGood,
                SwitchBad, Test, Found, RemoveState, LoadState, Goto, disk, history
  <2>2. QED
    BY <2>1
<1>6. QED
  BY <1>2, <1>3, <1>4, <1>5

\* Switching leaves the environment as it is believed to be, with S as asked.
LEMMA SwitchGoodRight ==
  ASSUME TypeOK, UNCHANGED options, NEW S, S \subseteq Items, SwitchToGood(S),
         \A i \in currently_good_items : env[i] = GOOD, \A i \in currently_bad_items : env[i] = BAD
  PROVE  /\ \A i \in currently_good_items' : env'[i] = GOOD
         /\ \A i \in currently_bad_items' : env'[i] = BAD
         /\ S \subseteq currently_good_items'
PROOF
<1>1. PICK T : T = IF incremental THEN S \ currently_good_items ELSE S
  OBVIOUS
<1>2. /\ env' = [i \in Items |-> IF i \in T THEN GOOD ELSE env[i]]
      /\ currently_good_items' = currently_good_items \cup T
      /\ currently_bad_items' = currently_bad_items \ T
  BY <1>1 DEF SwitchToGood
<1>3. T \subseteq Items /\ S \subseteq currently_good_items \cup T
  BY <1>1
<1>4. currently_good_items \subseteq Items /\ currently_bad_items \subseteq Items
  BY DEF TypeOK
<1>5. QED
  BY <1>2, <1>3, <1>4

LEMMA SwitchBadRight ==
  ASSUME TypeOK, UNCHANGED options, NEW S, S \subseteq Items, SwitchToBad(S),
         \A i \in currently_good_items : env[i] = GOOD, \A i \in currently_bad_items : env[i] = BAD
  PROVE  /\ \A i \in currently_good_items' : env'[i] = GOOD
         /\ \A i \in currently_bad_items' : env'[i] = BAD
         /\ S \subseteq currently_bad_items'
         /\ currently_good_items \ S \subseteq currently_good_items'
PROOF
<1>1. PICK T : T = IF incremental THEN S \ currently_bad_items ELSE S
  OBVIOUS
<1>2. /\ env' = [i \in Items |-> IF i \in T THEN BAD ELSE env[i]]
      /\ currently_bad_items' = currently_bad_items \cup T
      /\ currently_good_items' = currently_good_items \ T
  BY <1>1 DEF SwitchToBad
<1>3. T \subseteq S /\ S \subseteq currently_bad_items \cup T
  BY <1>1
<1>4. currently_good_items \subseteq Items /\ currently_bad_items \subseteq Items
  BY DEF TypeOK
<1>5. QED
  BY <1>2, <1>3, <1>4

LEMMA NextSwitched ==
  ASSUME BssInv, Next
  PROVE  Switched'
PROOF
<1> USE DEF BssInv
<1>1. UNCHANGED options /\ Items' = Items
  BY NextOptions DEF options, Items
<1>2. (\A i \in currently_good_items : env[i] = GOOD) /\ (\A i \in currently_bad_items : env[i] = BAD)
  BY DEF Switched
<1>3. CASE VerifyGood
  <2>1. SwitchToGood(Items) /\ pc' = "verifybad"
    BY <1>3 DEF VerifyGood, Goto
  <2>2. QED
    BY <1>1, <1>2, <2>1, SwitchGoodRight DEF Switched, TestsWhatIsAsked
<1>4. CASE VerifyBad
  <2>1. SwitchToBad(Items) /\ pc' = "dosearch"
    BY <1>4 DEF VerifyBad, Goto
  <2>2. QED
    BY <1>1, <1>2, <2>1, SwitchBadRight DEF Switched, TestsWhatIsAsked
<1>5. CASE SwitchGood
  <2>1. SwitchToGood(next_good_items) /\ pc' = "switchbad" /\ pc = "switchgood"
    BY <1>5 DEF SwitchGood, Goto
  <2>2. next_good_items \subseteq Items
    BY <2>1, NextItems DEF Testing
  <2>3. next_good_items' = next_good_items
    BY <1>5 DEF SwitchGood, next_good_items, saved
  <2>4. QED
    BY <1>1, <1>2, <2>1, <2>2, <2>3, SwitchGoodRight DEF Switched, TestsWhatIsAsked
<1>6. CASE SwitchBad
  <2>1. SwitchToBad(next_bad_items) /\ pc' = "test" /\ pc = "switchbad"
    BY <1>6 DEF SwitchBad, Goto
  <2>2. /\ next_good_items \cup next_bad_items = Items
        /\ next_good_items \cap next_bad_items = {}
    BY <2>1, NextItems DEF Testing
  <2>3. next_bad_items' = next_bad_items
    BY <1>6 DEF SwitchBad, next_bad_items, saved
  <2>4. next_good_items \subseteq currently_good_items
    BY <2>1 DEF Switched
  <2>5. /\ \A i \in currently_good_items' : env'[i] = GOOD
        /\ \A i \in currently_bad_items' : env'[i] = BAD
        /\ next_bad_items \subseteq currently_bad_items'
        /\ currently_good_items \ next_bad_items \subseteq currently_good_items'
    BY <1>1, <1>2, <2>1, <2>2, SwitchBadRight
  <2>6. next_good_items \subseteq currently_good_items'
    BY <2>2, <2>4, <2>5
  <2>7. \A i \in Items : env'[i] = BAD <=> i \in next_bad_items
    BY <2>2, <2>5, <2>6 DEF GOOD, BAD
  <2>8. QED
    BY <1>1, <2>1, <2>3, <2>5, <2>7 DEF Switched, TestsWhatIsAsked
<1>7. CASE LoadState
  BY <1>7 DEF LoadState, Switched, TestsWhatIsAsked
<1>8. CASE ~(VerifyGood \/ VerifyBad \/ SwitchGood \/ SwitchBad \/ LoadState)
  <2>1. UNCHANGED switched /\ pc' \notin {"switchbad", "test"}
    BY <1>8 DEF Next, Tool, BeginSearch, Cycle, SaveLink, SaveRename, GetNext, FlakyPop, Test, Found,
                RemoveState, Crash, Goto
  <2>2. QED
    BY <1>2, <2>1 DEF switched, Switched, TestsWhatIsAsked
<1>9. QED
  BY <1>3, <1>4, <1>5, <1>6, <1>7, <1>8

\* What is right stays right: only what gave up is forgiven.
LEMMA GaveUpStays == ASSUME Next PROVE gave_up => gave_up'
BY DEF Next, Tool, VerifyGood, VerifyBad, BeginSearch, Cycle, SaveLink, SaveRename, GetNext, FlakyPop,
       SwitchGood, SwitchBad, Test, Found, RemoveState, Crash, LoadState, history

LEMMA StaysRight ==
  ASSUME UNCHANGED options, gave_up => gave_up', NEW items, NEW found, NEW good, NEW b, NEW c
  PROVE  /\ Listed(items, found, good) => Listed(items, found, good)'
         /\ Bisecting(items, b, c) => Bisecting(items, b, c)'
         /\ FoundRight(found, good) => FoundRight(found, good)'
PROOF
<1>1. n' = n /\ bad' = bad
  BY DEF options
<1>2. Listed(items, found, good) => Listed(items, found, good)'
  BY <1>1 DEF Listed, Items
<1>3. Bisecting(items, b, c) => Bisecting(items, b, c)'
  BY <1>1 DEF Bisecting, FirstBad, Halved
<1>4. FoundRight(found, good) => FoundRight(found, good)'
  BY <1>1 DEF FoundRight
<1>5. QED
  BY <1>2, <1>3, <1>4

LEMMA NextFoundRight ==
  ASSUME BssInv, Next
  PROVE  FoundRight(found_items, known_good)'
PROOF
<1> USE DEF BssInv
<1>1. bad' = bad /\ (gave_up => gave_up')
  BY NextOptions, GaveUpStays DEF options
<1>2. CASE Found
  <2>1. PICK p : p = prune_index
    OBVIOUS
  <2>2. PICK item : item = all_items[p + 1]
    OBVIOUS
  <2>3. gave_up' = gave_up
    BY <1>2 DEF Found
  <2>4. ~gave_up => item \in bad /\ \A i \in 1..p : all_items[i] \notin bad
    BY <1>2, <2>1, <2>2 DEF Found, InMemory, FirstBad
  <2>5. /\ found_items' \subseteq found_items \cup {item}
        /\ known_good' \subseteq known_good \cup {all_items[i] : i \in 1..p}
    BY <1>2, <2>1, <2>2 DEF Found
  <2>6. ~gave_up => {all_items[i] : i \in 1..p} \cap bad = {}
    BY <2>4
  <2>7. QED
    BY <1>1, <2>3, <2>4, <2>5, <2>6 DEF FoundRight
<1>3. CASE LoadState
  BY <1>1, <1>3 DEF LoadState, OnDisk, FoundRight
<1>4. CASE ~(Found \/ LoadState)
  <2>1. UNCHANGED <<found_items, known_good>>
    BY <1>4 DEF Next, Tool, VerifyGood, VerifyBad, BeginSearch, Cycle, SaveLink, SaveRename, GetNext,
                FlakyPop, SwitchGood, SwitchBad, Test, RemoveState, Crash, saved
  <2>2. QED
    BY <1>1, <2>1 DEF FoundRight
<1>5. QED
  BY <1>2, <1>3, <1>4

\* What SaveState writes is the search in memory, the other steps leave it or
\* remove it.
LEMMA NextOnDisk ==
  ASSUME BssInv, Next
  PROVE  OnDisk'
PROOF
<1> USE DEF BssInv
<1>1. UNCHANGED options /\ (gave_up => gave_up')
  BY NextOptions, GaveUpStays
<1> SUFFICES ASSUME state_file' # NoState PROVE OnDisk'
  BY DEF OnDisk, NoState
<1>2. PICK s : s = state_file'
  OBVIOUS
<1>3. /\ Listed(s.all_items, s.found_items, s.known_good)
      /\ Bisecting(s.all_items, s.binary_search, s.search_cycles)
      /\ FoundRight(s.found_items, s.known_good)
  <2>1. CASE SaveRename
    <3>1. pc = "rename" /\ gave_up' = gave_up
      BY <2>1 DEF SaveRename, Goto, history
    <3>2. /\ Listed(all_items, found_items, known_good)
          /\ Bisecting(all_items, binary_search, search_cycles)
          /\ FoundRight(found_items, known_good)
      BY <3>1 DEF InMemory, Saving
    <3>3. /\ s.all_items = all_items /\ s.binary_search = binary_search /\ s.found_items = found_items
          /\ s.known_good = known_good /\ s.search_cycles = search_cycles
      BY <1>2, <2>1 DEF SaveRename
    <3>4. QED
      BY <3>2, <3>3
  <2>2. CASE ~SaveRename
    <3>1. state_file' = state_file
      BY <2>2 DEF Next, Tool, VerifyGood, VerifyBad, BeginSearch, Cycle, SaveLink, GetNext, FlakyPop,
                  SwitchGood, SwitchBad, Test, Found, RemoveState, Crash, LoadState, disk, NoState
    <3>2. QED
      BY <1>2, <3>1 DEF OnDisk, NoState
  <2>3. QED
    BY <2>1, <2>2
<1>4. PICK items, found, good, b, c :
        /\ items = s.all_items /\ found = s.found_items /\ good = s.known_good
        /\ b = s.binary_search /\ c = s.search_cycles
  OBVIOUS
<1>5. Listed(items, found, good)' /\ Bisecting(items, b, c)' /\ FoundRight(found, good)'
  BY <1>1, <1>3, <1>4, StaysRight
<1>6. QED
  BY <1>2, <1>4, <1>5 DEF OnDisk

\* The found item is the only bad one if it is the last of the list, and all bad
\* ones were found before if it was.
LEMMA FoundAll ==
  ASSUME TypeOK, NEW p \in Nat, NEW found, NEW good, Listed(all_items, found, good), p < Len(all_items),
         FirstBad(all_items, p), good \cap bad = {}, found \subseteq bad
  PROVE  /\ p = Len(all_items) - 1 => bad = {all_items[p + 1]}
         /\ all_items[p + 1] \in found => bad = found
PROOF
<1>1. PICK m \in Nat : m = Len(all_items)
  BY Numbers
<1>2. bad \subseteq Items
  BY DEF TypeOK
<1>3. \A i, j \in 1..m : i < j /\ all_items[i] \in found => all_items[j] \in found
  BY <1>1 DEF Listed
<1>4. ASSUME NEW x \in bad
      PROVE  \E h \in (p + 1)..m : all_items[h] = x
  <2>1. x \in Items /\ x \notin good
    BY <1>2
  <2>2. PICK h \in 1..m : all_items[h] = x
    BY <1>1, <2>1 DEF Listed
  <2>3. ~(h <= p)
    BY <2>2 DEF FirstBad
  <2>4. QED
    BY <2>2, <2>3
<1>5. all_items[p + 1] \in bad /\ p + 1 \in 1..m
  BY <1>1 DEF FirstBad
<1>6. ASSUME p = m - 1
      PROVE  bad = {all_items[p + 1]}
  <2>1. \A x \in bad : x = all_items[p + 1]
    BY <1>1, <1>4, <1>6
  <2>2. QED
    BY <1>5, <2>1
<1>7. ASSUME all_items[p + 1] \in found
      PROVE  bad = found
  <2>1. ASSUME NEW x \in bad
        PROVE  x \in found
    <3>1. PICK h \in (p + 1)..m : all_items[h] = x
      BY <1>4
    <3>2. h = p + 1 \/ p + 1 < h
      OBVIOUS
    <3>3. QED
      BY <1>1, <1>3, <1>5, <1>7, <3>1, <3>2
  <2>2. QED
    BY <2>1
<1>8. QED
  BY <1>1, <1>6, <1>7

LEMMA NextReported ==
  ASSUME BssInv, Next
  PROVE  Reported'
PROOF
<1> USE DEF BssInv
<1>1. UNCHANGED options /\ (gave_up => gave_up')
  BY NextOptions, GaveUpStays
<1>2. prune' = prune /\ bad' = bad /\ n' = n /\ iterations' = iterations
  BY <1>1 DEF options
<1> SUFFICES ASSUME prune', ~gave_up' PROVE Reported'
  BY DEF Reported
<1>3. reported = bad \/ reported = {}
  BY <1>1, <1>2 DEF Reported
<1>4. CASE Found
  <2>1. PICK p : p = prune_index
    OBVIOUS
  <2>2. p \in Nat
    BY <2>1, Numbers DEF prune_index
  <2>3. ~gave_up /\ prune
    BY <1>1, <1>2
  <2>4. Listed(all_items, found_items, known_good) /\ FirstBad(all_items, p) /\ p < Len(all_items)
    BY <1>4, <2>1, <2>3 DEF Found, InMemory
  <2>5. /\ p = Len(all_items) - 1 => bad = {all_items[p + 1]}
        /\ all_items[p + 1] \in found_items => bad = found_items
    BY <2>2, <2>3, <2>4, FoundAll DEF FoundRight
  <2>6. \/ reported' = {all_items[p + 1]} /\ p = Len(all_items) - 1
        \/ reported' = found_items /\ all_items[p + 1] \in found_items
        \/ reported' = reported /\ pc' = "dosearch"
    BY <1>4, <2>1, <2>3 DEF Found, Goto
  <2>7. (reported' = bad) \/ (reported' = {} /\ pc' = "dosearch")
    BY <1>3, <2>5, <2>6
  <2>8. QED
    BY <1>2, <2>7 DEF Reported
<1>5. CASE BeginSearch
  <2>1. pc' = "remove" /\ n > 1 => prune_cycles' = PruneIterations
    <3>1. CASE pc' = "remove" /\ n > 1
      <4>1. pc = "dosearch" /\ ~(Len(all_items) > 1 /\ prune_cycles < PruneIterations) /\ prune_cycles' = prune_cycles
        BY <1>5, <3>1 DEF BeginSearch, Goto
      <4>2. Len(all_items) > 1
        BY <3>1, <4>1 DEF InMemory, Ready, Listed
      <4>3. prune_cycles \in 0..PruneIterations /\ PruneIterations \in Nat
        BY Numbers DEF TypeOK
      <4>4. QED
        BY <4>1, <4>2, <4>3
    <3>2. QED
      BY <3>1
  <2>2. reported' = reported /\ pc' # "done"
    BY <1>5 DEF BeginSearch, Goto, history
  <2>3. QED
    BY <1>2, <1>3, <2>1, <2>2 DEF Reported
<1>6. CASE Cycle
  <2>1. pc' = "remove" => search_cycles' = iterations
    <3>1. pc' = "remove" => ~(search_cycles < iterations) /\ search_cycles' = search_cycles
      BY <1>6 DEF Cycle, Goto
    <3>2. search_cycles \in 0..iterations /\ iterations \in Nat
      BY Numbers DEF TypeOK
    <3>3. QED
      BY <3>1, <3>2
  <2>2. reported' = reported /\ pc' # "done"
    BY <1>6 DEF Cycle, Goto, history
  <2>3. QED
    BY <1>2, <1>3, <2>1, <2>2 DEF Reported
<1>7. CASE RemoveState
  <2>1. pc = "remove" /\ UNCHANGED <<reported, search_cycles, prune_cycles, gave_up>>
    BY <1>7 DEF RemoveState, Goto, history, saved
  <2>2. QED
    BY <1>2, <2>1 DEF Reported
<1>8. CASE ~(Found \/ BeginSearch \/ Cycle \/ RemoveState)
  <2>1. reported' = reported /\ pc' \notin {"remove", "done"}
    BY <1>8 DEF Next, Tool, VerifyGood, VerifyBad, SaveLink, SaveRename, GetNext, FlakyPop, SwitchGood,
                SwitchBad, Test, Crash, LoadState, Goto, history
  <2>2. QED
    BY <1>2, <1>3, <2>1 DEF Reported
<1>9. QED
  BY <1>4, <1>5, <1>6, <1>7, <1>8

-----------------------------------------------------------------------------
(* The search in memory                                                    *)

\* What is known of the search, where it is neither over nor lost.
LEMMA Over == pc' \in {"remove", "done", "dead"} => InMemory'
BY DEF InMemory, Ready, Saving, Testing

\* The steps that leave the search as it is: verification, saving, switching.
LEMMA KeptInMemory ==
  ASSUME BssInv, Next, UNCHANGED <<saved, resumed, gave_up>>,
         \/ pc \in Ready /\ pc' \in Ready
         \/ pc \in Saving /\ pc' \in Saving \ {"cycle"} /\ search_cycles < iterations
         \/ pc \in Testing \ {"flaky"} /\ pc' \in Testing \ {"flaky"}
  PROVE  InMemory'
PROOF
<1> USE DEF BssInv
<1>1. UNCHANGED options /\ (gave_up => gave_up')
  BY NextOptions, GaveUpStays
<1>2. PICK items, found, good, b, c :
        /\ items = all_items /\ found = found_items /\ good = known_good
        /\ b = binary_search /\ c = search_cycles
  OBVIOUS
<1>3. /\ all_items' = items /\ found_items' = found /\ known_good' = good
      /\ binary_search' = b /\ search_cycles' = c /\ prune_cycles' = prune_cycles
      /\ resumed' = resumed /\ iterations' = iterations
  BY <1>1, <1>2 DEF saved, options
<1>4. /\ Listed(items, found, good) => Listed(items, found, good)'
      /\ Bisecting(items, b, c) => Bisecting(items, b, c)'
      /\ Bisecting(items, b, c - 1) => Bisecting(items, b, c - 1)'
  BY <1>1, StaysRight
<1>5. Listed(items, found, good)'
  BY <1>2, <1>4 DEF InMemory
<1>6. CASE pc \in Ready /\ pc' \in Ready
  <2>1. /\ ~resumed => b = NewSearcher(Len(items))
        /\ resumed => Bisecting(items, b, c)'
    BY <1>2, <1>4, <1>6 DEF InMemory
  <2>2. QED
    BY <1>3, <1>5, <1>6, <2>1 DEF InMemory, Ready, Saving, Testing
<1>7. CASE pc \in Saving /\ pc' \in Saving \ {"cycle"} /\ search_cycles < iterations
  <2>1. Bisecting(items, b, c)' /\ prune_cycles < PruneIterations /\ ~resumed
    BY <1>2, <1>4, <1>7 DEF InMemory
  <2>2. QED
    BY <1>2, <1>3, <1>5, <1>7, <2>1 DEF InMemory, Ready, Saving, Testing
<1>8. CASE pc \in Testing \ {"flaky"} /\ pc' \in Testing \ {"flaky"}
  <2>1. /\ Bisecting(items, b, c - 1)' /\ prune_cycles < PruneIterations /\ ~resumed
        /\ c > 0 /\ b.current \in b.lo..(b.hi - 1)
        /\ b.skipped = {} => b.current = Middle(b.lo, b.hi)
    BY <1>2, <1>4, <1>8 DEF InMemory
  <2>2. QED
    BY <1>2, <1>3, <1>5, <1>8, <2>1 DEF InMemory, Ready, Saving, Testing
<1>9. QED
  BY <1>6, <1>7, <1>8

\* A search begins, or goes on where it was when the tool died.
LEMMA BeginSearchInMemory ==
  ASSUME BssInv, Next, BeginSearch
  PROVE  InMemory'
PROOF
<1> USE DEF BssInv
<1>1. UNCHANGED options /\ (gave_up => gave_up')
  BY NextOptions, GaveUpStays
<1>2. CASE pc' = "remove"
  BY <1>2, Over
<1>3. CASE pc' # "remove"
  <2>1. /\ pc = "dosearch" /\ pc' = "cycle" /\ ~resumed'
        /\ Len(all_items) > 1 /\ prune_cycles < PruneIterations
        /\ search_cycles' = IF resumed THEN search_cycles ELSE 0
        /\ UNCHANGED <<all_items, binary_search, found_items, known_good, prune_cycles>>
    BY <1>3 DEF BeginSearch, Goto
  <2>2. PICK items, found, good, b, c :
          /\ items = all_items /\ found = found_items /\ good = known_good
          /\ b = binary_search /\ c = IF resumed THEN search_cycles ELSE 0
    OBVIOUS
  <2>3. Listed(items, found, good)
    BY <2>1, <2>2 DEF InMemory, Ready
  <2>4. Bisecting(items, b, c)
    <3>1. CASE resumed
      BY <2>1, <2>2, <3>1 DEF InMemory, Ready
    <3>2. CASE ~resumed
      <4>1. b = NewSearcher(Len(items)) /\ c = 0
        BY <2>1, <2>2, <3>2 DEF InMemory, Ready
      <4>2. items \in Seq(Items) /\ bad \subseteq Items /\ FoundRight(found, good)
        BY <2>2 DEF TypeOK
      <4>3. QED
        BY <2>1, <2>2, <2>3, <4>1, <4>2, NewBisecting
    <3>3. QED
      BY <3>1, <3>2
  <2>5. Listed(items, found, good)' /\ Bisecting(items, b, c)'
    BY <1>1, <2>3, <2>4, StaysRight
  <2>6. /\ all_items' = items /\ found_items' = found /\ known_good' = good
        /\ binary_search' = b /\ search_cycles' = c
    BY <2>1, <2>2
  <2>7. QED
    BY <2>1, <2>5, <2>6 DEF InMemory, Ready, Saving, Testing
<1>4. QED
  BY <1>2, <1>3

\* The next index is below the upper bound, where there is something to test.
LEMMA GetNextInMemory ==
  ASSUME BssInv, Next, GetNext
  PROVE  InMemory'
PROOF
<1> USE DEF BssInv
<1>1. UNCHANGED options /\ (gave_up => gave_up')
  BY NextOptions, GaveUpStays
<1>2. PICK items, found, good, b, c :
        /\ items = all_items /\ found = found_items /\ good = known_good
        /\ b = binary_search /\ c = search_cycles
  OBVIOUS
<1>3. pc = "getnext"
  BY DEF GetNext, Goto
<1>4. /\ Listed(items, found, good) /\ Bisecting(items, b, c) /\ prune_cycles < PruneIterations /\ ~resumed
      /\ c \in Nat
  BY <1>2, <1>3, Numbers DEF InMemory, Saving
<1>5. PICK lo \in 0..n, hi \in 0..n, cur \in 0..n, sk \in SUBSET (0..n) :
        b = [lo |-> lo, hi |-> hi, current |-> cur, skipped |-> sk]
  BY <1>2 DEF TypeOK, Searcher
<1>6. b.lo = lo /\ b.hi = hi /\ b.skipped = sk /\ lo < hi /\ lo \in Int /\ hi \in Int
  BY <1>4, <1>5 DEF Bisecting
<1>7. PICK m : m = Middle(lo, hi) /\ m \in lo..hi /\ m < hi
  <2>1. Middle(lo, hi) \in lo..hi /\ Middle(lo, hi) < hi
    BY <1>6, MiddleBetween
  <2>2. QED
    BY <2>1
<1>8. PICK s : s = [lo |-> lo, hi |-> hi, current |-> m, skipped |-> sk]
  OBVIOUS
<1>9. s.lo = lo /\ s.hi = hi /\ s.current = m /\ s.skipped = sk
  BY <1>8
<1>10. Bisecting(items, s, c)
  BY <1>4, <1>6, <1>9 DEF Bisecting
<1>11. Listed(items, found, good)' /\ Bisecting(items, s, c)'
  BY <1>1, <1>4, <1>10, StaysRight
<1>12. binary_search' = s
  <2>1. binary_search' = [b EXCEPT !.current = m]
    BY <1>2, <1>6, <1>7 DEF GetNext
  <2>2. QED
    BY <1>5, <1>8, <2>1
<1>13. /\ search_cycles' = c + 1 /\ prune_cycles' = prune_cycles /\ resumed' = resumed
       /\ all_items' = items /\ found_items' = found /\ known_good' = good
       /\ \/ pc' = "flaky" /\ queue' = << <<lo, m, hi>> >> /\ m \in sk
          \/ pc' = "switchgood"
  BY <1>2, <1>6, <1>7 DEF GetNext, Goto
<1>14. search_cycles' - 1 = c /\ search_cycles' > 0
  BY <1>4, <1>13
<1>15. Bisecting(items, s, search_cycles - 1)'
  BY <1>11, <1>14
<1>16. pc' = "flaky" => s.skipped # {} /\ queue' # <<>> /\ \A i \in 1..Len(queue') : Within(s, queue'[i])
  <2>1. Within(s, <<lo, m, hi>>)
    BY <1>6, <1>7, <1>9 DEF Within
  <2>2. PICK q : q = << <<lo, m, hi>> >>
    OBVIOUS
  <2>3. q # <<>> /\ Len(q) = 1 /\ q[1] = <<lo, m, hi>>
    BY <2>2
  <2>4. \A i \in 1..Len(q) : Within(s, q[i])
    BY <2>1, <2>3
  <2>5. pc' = "flaky" => queue' = q /\ s.skipped # {}
    BY <1>9, <1>13, <2>2
  <2>6. QED
    BY <2>3, <2>4, <2>5
<1>17. s.current \in s.lo..(s.hi - 1) /\ s.current = Middle(s.lo, s.hi)
  BY <1>6, <1>7, <1>9
<1>18. pc' \in Testing /\ pc' \notin Ready \cup Saving \cup {"found"}
  BY <1>13 DEF Testing, Ready, Saving
<1>19. QED
  BY <1>4, <1>11, <1>12, <1>13, <1>14, <1>15, <1>16, <1>17, <1>18 DEF InMemory

\* The triples stay within the bounds, so the index that is found is one to test.
LEMMA FlakyPopInMemory ==
  ASSUME BssInv, Next, FlakyPop
  PROVE  InMemory'
PROOF
<1> USE DEF BssInv
<1>1. UNCHANGED options /\ (gave_up => gave_up')
  BY NextOptions, GaveUpStays
<1>2. PICK items, found, good, b, c :
        /\ items = all_items /\ found = found_items /\ good = known_good
        /\ b = binary_search /\ c = search_cycles
  OBVIOUS
<1>3. pc = "flaky"
  BY DEF FlakyPop
<1>4. /\ Listed(items, found, good) /\ Bisecting(items, b, c - 1) /\ prune_cycles < PruneIterations
      /\ ~resumed /\ c > 0 /\ c \in Nat
      /\ b.skipped # {} /\ queue # <<>> /\ \A i \in 1..Len(queue) : Within(b, queue[i])
  BY <1>2, <1>3, Numbers DEF InMemory, Testing
<1>5. PICK m \in Nat : m = n
  BY Numbers
<1>6. PICK T : T = (0..m) \X (0..m) \X (0..m)
  OBVIOUS
<1>7. PICK q \in Seq(T) : q = queue /\ q # <<>>
  BY <1>4, <1>5, <1>6 DEF TypeOK
<1>8. PICK t \in T : t = Head(q) /\ Within(b, t)
  BY <1>4, <1>7, HeadTailProperties
<1>9. b \in Searcher(m)
  BY <1>2, <1>5 DEF TypeOK
<1>10. /\ search_cycles' = c /\ prune_cycles' = prune_cycles /\ resumed' = resumed
       /\ all_items' = items /\ found_items' = found /\ known_good' = good
  BY <1>2 DEF FlakyPop
<1>11. Listed(items, found, good)'
  BY <1>1, <1>4, StaysRight
<1>12. CASE t[2] \in b.skipped
  <2>1. pc' = "flaky" /\ queue' = Tail(q) \o <<GoTop(t), GoBottom(t)>> /\ binary_search' = b
    BY <1>2, <1>7, <1>8, <1>12 DEF FlakyPop, Goto
  <2>2. PICK u \in T, v \in T : u = GoTop(t) /\ v = GoBottom(t) /\ Within(b, u) /\ Within(b, v)
    BY <1>6, <1>8, <1>9, SplitWithin
  <2>3. PICK r \in Seq(T) : r = Tail(q) /\ Len(r) = Len(q) - 1 /\ \A i \in 1..Len(r) : r[i] = q[i + 1]
    BY <1>7, HeadTailProperties
  <2>4. PICK k \in Nat : k = Len(r) /\ k = Len(q) - 1
    <3>1. Len(r) \in Nat
      OBVIOUS
    <3>2. QED
      BY <2>3, <3>1
  <2>5. \A i \in 1..k : Within(b, r[i])
    <3>1. \A i \in 1..k : i + 1 \in 1..Len(queue)
      BY <1>7, <2>4
    <3>2. QED
      BY <1>4, <1>7, <2>3, <2>4, <3>1
  <2>6. PICK w : w = r \o <<u, v>>
    OBVIOUS
  <2>7. <<u, v>> \in Seq(T) /\ Len(<<u, v>>) = 2 /\ <<u, v>>[1] = u /\ <<u, v>>[2] = v
    OBVIOUS
  <2>8. /\ w \in Seq(T) /\ Len(w) = k + 2
        /\ \A i \in 1..(k + 2) : w[i] = IF i <= k THEN r[i] ELSE <<u, v>>[i - k]
    BY <2>3, <2>4, <2>6, <2>7, ConcatProperties
  <2>9. \A i \in 1..Len(w) : Within(b, w[i])
    <3>1. \A i \in 1..(k + 2) : i \in 1..k \/ i = k + 1 \/ i = k + 2
      BY <2>4
    <3>2. w[k + 1] = u /\ w[k + 2] = v
      BY <2>4, <2>7, <2>8
    <3>3. \A i \in 1..k : w[i] = r[i]
      BY <2>4, <2>8
    <3>4. QED
      BY <2>2, <2>5, <2>8, <3>1, <3>2, <3>3
  <2>10. w # <<>>
    BY <2>8
  <2>11. Bisecting(items, b, c - 1)'
    BY <1>1, <1>4, StaysRight
  <2>12. queue' = w
    BY <2>1, <2>2, <2>3, <2>6
  <2>13. QED
    BY <1>4, <1>10, <1>11, <2>1, <2>9, <2>10, <2>11, <2>12 DEF InMemory, Ready, Saving, Testing
<1>13. CASE t[2] \notin b.skipped
  <2>1. pc' = "switchgood" /\ binary_search' = [b EXCEPT !.current = t[2]]
    BY <1>2, <1>7, <1>8, <1>13 DEF FlakyPop, Goto
  <2>2. PICK lo \in 0..m, hi \in 0..m, cur \in 0..m, sk \in SUBSET (0..m) :
          b = [lo |-> lo, hi |-> hi, current |-> cur, skipped |-> sk]
    BY <1>9 DEF Searcher
  <2>3. PICK x \in 0..m, y \in 0..m, z \in 0..m : t = <<x, y, z>>
    BY <1>6
  <2>4. PICK s : s = [lo |-> lo, hi |-> hi, current |-> y, skipped |-> sk]
    OBVIOUS
  <2>5. binary_search' = s
    <3>1. t[2] = y
      BY <2>3
    <3>2. QED
      BY <2>1, <2>2, <2>4, <3>1
  <2>6. s.lo = lo /\ s.hi = hi /\ s.current = y /\ s.skipped = sk
    BY <2>4
  <2>7. b.lo = lo /\ b.hi = hi /\ b.skipped = sk
    BY <2>2
  <2>8. lo <= x /\ x <= y /\ y < hi
    BY <1>8, <2>3, <2>7 DEF Within
  <2>9. y \in lo..(hi - 1)
    BY <2>8
  <2>10. Bisecting(items, s, c - 1)
    BY <1>4, <2>6, <2>7 DEF Bisecting
  <2>11. Bisecting(items, s, c - 1)'
    BY <1>1, <2>10, StaysRight
  <2>12. s.skipped # {}
    BY <1>4, <2>6, <2>7
  <2>13. QED
    BY <1>4, <1>10, <1>11, <2>1, <2>5, <2>6, <2>9, <2>11, <2>12 DEF InMemory, Ready, Saving, Testing
<1>14. QED
  BY <1>12, <1>13

\* The state file holds a search that goes on.
LEMMA LoadStateInMemory ==
  ASSUME BssInv, Next, LoadState
  PROVE  InMemory'
PROOF
<1> USE DEF BssInv
<1>1. UNCHANGED options /\ (gave_up => gave_up')
  BY NextOptions, GaveUpStays
<1>2. PICK items, found, good, b, c :
        /\ items = state_file.all_items /\ found = state_file.found_items /\ good = state_file.known_good
        /\ b = state_file.binary_search /\ c = state_file.search_cycles
  OBVIOUS
<1>3. Listed(items, found, good) /\ Bisecting(items, b, c)
  BY <1>2 DEF LoadState, OnDisk
<1>4. Listed(items, found, good)' /\ Bisecting(items, b, c)'
  BY <1>1, <1>3, StaysRight
<1>5. /\ all_items' = items /\ found_items' = found /\ known_good' = good
      /\ binary_search' = b /\ search_cycles' = c /\ resumed' = TRUE /\ pc' = "dosearch"
  BY <1>2 DEF LoadState
<1>6. QED
  BY <1>4, <1>5 DEF InMemory, Ready, Saving, Testing

\* Pruning leaves a list of all but the known good, which is searched anew.
LEMMA FoundInMemory ==
  ASSUME BssInv, Next, Found
  PROVE  InMemory'
PROOF
<1> USE DEF BssInv
<1>1. UNCHANGED options /\ (gave_up => gave_up')
  BY NextOptions, GaveUpStays
<1>2. CASE pc' = "remove"
  BY <1>2, Over
<1>3. CASE pc' # "remove"
  <2>1. PICK p : p = prune_index
    OBVIOUS
  <2>2. p \in Nat
    BY <2>1, Numbers DEF prune_index
  <2>3. PICK item : item = all_items[p + 1]
    OBVIOUS
  <2>4. /\ pc = "found" /\ pc' = "dosearch" /\ p # Len(all_items) - 1 /\ item \notin found_items
        /\ found_items' = found_items \cup {item}
        /\ known_good' = known_good \cup {all_items[i] : i \in 1..p}
        /\ all_items' = Pruned /\ binary_search' = NewSearcher(Len(Pruned)) /\ resumed' = resumed
    BY <1>3, <2>1, <2>3 DEF Found, Goto
  <2>5. Listed(all_items, found_items, known_good) /\ p < Len(all_items) /\ ~resumed
    BY <2>1, <2>4 DEF InMemory
  <2>6. p \in 0..(Len(all_items) - 2)
    BY <2>2, <2>4, <2>5, Numbers
  <2>7. PICK P : P = Pruned
    OBVIOUS
  <2>8. P = SubSeq(all_items, p + 2, Len(all_items)) \o <<all_items[p + 1]>>
    BY <2>1, <2>7 DEF Pruned
  <2>9. all_items \in Seq(Items) /\ n \in Nat
    BY Numbers DEF TypeOK
  <2>10. PICK found, good : found = found_items \cup {item} /\ good = known_good \cup {all_items[i] : i \in 1..p}
    OBVIOUS
  <2>11. Listed(P, found, good)
    BY <2>3, <2>4, <2>5, <2>6, <2>8, <2>9, <2>10, PrunedListed
  <2>12. Listed(P, found, good)'
    BY <1>1, <2>11, StaysRight
  <2>13. all_items' = P /\ found_items' = found /\ known_good' = good /\ binary_search' = NewSearcher(Len(P))
    BY <2>4, <2>7, <2>10
  <2>14. QED
    BY <2>4, <2>5, <2>12, <2>13 DEF InMemory, Ready, Saving, Testing
<1>4. QED
  BY <1>2, <1>3

\* The test says on which side of the current index the first bad item is.
LEMMA TestTells ==
  ASSUME TypeOK, TestsWhatIsAsked, pc = "test", NEW k \in Nat, k < Len(all_items), FirstBad(all_items, k)
  PROVE  TestResult(env) = IF k <= binary_search.current THEN BAD ELSE GOOD
PROOF
<1>1. PICK cur \in Nat : cur = binary_search.current
  BY Numbers
<1>2. \A i \in Items : env[i] = BAD <=> i \in {all_items[j] : j \in 1..(cur + 1)}
  BY <1>1 DEF TestsWhatIsAsked, next_bad_items
<1>3. bad \subseteq Items
  BY DEF TypeOK
<1>4. CASE k <= cur
  <2>1. all_items[k + 1] \in bad /\ k + 1 \in 1..(cur + 1)
    BY <1>1, <1>4 DEF FirstBad
  <2>2. env[all_items[k + 1]] = BAD
    BY <1>2, <1>3, <2>1
  <2>3. QED
    BY <1>1, <1>4, <2>1, <2>2 DEF TestResult
<1>5. CASE ~(k <= cur)
  <2>1. \A j \in 1..(cur + 1) : all_items[j] \notin bad
    BY <1>1, <1>5 DEF FirstBad
  <2>2. \A i \in bad : env[i] # BAD
    BY <1>2, <1>3, <2>1
  <2>3. QED
    BY <1>1, <1>5, <2>2 DEF TestResult
<1>6. QED
  BY <1>4, <1>5

\* One test: the bounds keep the first bad item and halve, and where they meet
\* it is.
LEMMA TestInMemory ==
  ASSUME BssInv, Next, Test
  PROVE  InMemory'
PROOF
<1> USE DEF BssInv
<1>1. UNCHANGED options /\ (gave_up => gave_up')
  BY NextOptions, GaveUpStays
<1>2. PICK status \in {TestResult(env), SKIP} : Test!(status)
  BY DEF Test
<1>3. PICK items, found, good, b, c :
        /\ items = all_items /\ found = found_items /\ good = known_good
        /\ b = binary_search /\ c = search_cycles
  OBVIOUS
<1>4. pc = "test"
  BY <1>2 DEF Goto
<1>5. /\ Listed(items, found, good) /\ Bisecting(items, b, c - 1) /\ prune_cycles < PruneIterations
      /\ ~resumed /\ c > 0 /\ c \in Nat
      /\ b.current \in b.lo..(b.hi - 1)
      /\ b.skipped = {} => b.current = Middle(b.lo, b.hi)
  BY <1>3, <1>4, Numbers DEF InMemory, Testing
<1>6. PICK m \in Nat : m = n
  BY Numbers
<1>7. b \in Searcher(m)
  BY <1>3, <1>6 DEF TypeOK
<1>8. PICK len \in Nat : len = Len(items)
  BY <1>3, Numbers
<1>9. PICK lo \in 0..m, hi \in 0..m, cur \in 0..m : lo = b.lo /\ hi = b.hi /\ cur = b.current
  BY <1>7 DEF Searcher
<1>10. 0 <= lo /\ lo <= cur /\ cur < hi /\ hi < len
  BY <1>5, <1>8, <1>9 DEF Bisecting
<1>11. PICK s : s = SetStatus(b, status)
  OBVIOUS
<1>12. status \in {GOOD, BAD, SKIP}
  BY <1>2 DEF TestResult
<1>13. /\ s \in Searcher(m)
       /\ status = SKIP => s.lo = b.lo /\ s.hi = b.hi /\ s.current = b.current /\ s.skipped # {}
       /\ status = GOOD => s.lo = b.current + 1 /\ s.hi = b.hi /\ s.current \in s.lo..s.hi /\ s.skipped = b.skipped
       /\ status = BAD => s.lo = b.lo /\ s.hi = b.current /\ s.current \in s.lo..s.hi /\ s.skipped = b.skipped
  BY <1>7, <1>9, <1>10, <1>11, <1>12, SetStatusBounds
<1>14. PICK lo2 \in 0..m, hi2 \in 0..m, cur2 \in 0..m : lo2 = s.lo /\ hi2 = s.hi /\ cur2 = s.current
  BY <1>13 DEF Searcher
<1>15. lo2 <= hi2 /\ hi2 <= hi /\ lo <= lo2 /\ cur2 \in lo2..hi2 /\ (status = SKIP => lo2 # hi2)
  <2>1. CASE status = SKIP
    BY <1>9, <1>10, <1>13, <1>14, <2>1
  <2>2. CASE status = GOOD
    BY <1>9, <1>10, <1>13, <1>14, <2>2 DEF GOOD, SKIP
  <2>3. CASE status = BAD
    BY <1>9, <1>10, <1>13, <1>14, <2>3 DEF BAD, SKIP
  <2>4. QED
    BY <1>12, <2>1, <2>2, <2>3
\* The first bad item stays between the bounds.
<1>16. ~gave_up => \E k \in lo2..hi2 : FirstBad(items, k)
  <2> SUFFICES ASSUME ~gave_up PROVE \E k \in lo2..hi2 : FirstBad(items, k)
    OBVIOUS
  <2>1. PICK k \in lo..hi : FirstBad(items, k)
    BY <1>5, <1>9 DEF Bisecting
  <2>2. CASE status = SKIP
    BY <1>9, <1>13, <1>14, <2>1, <2>2
  <2>3. CASE status # SKIP
    <3>1. k \in Nat /\ k < len
      BY <1>10, <2>1
    <3>2. status = IF k <= cur THEN BAD ELSE GOOD
      <4>1. TestResult(env) = IF k <= binary_search.current THEN BAD ELSE GOOD
        BY <1>3, <1>4, <1>8, <2>1, <3>1, TestTells DEF Switched
      <4>2. QED
        BY <1>2, <1>3, <1>9, <2>3, <4>1
    <3>3. k \in lo2..hi2
      <4>1. CASE k <= cur
        BY <1>9, <1>10, <1>13, <1>14, <2>1, <3>2, <4>1
      <4>2. CASE ~(k <= cur)
        BY <1>9, <1>10, <1>13, <1>14, <2>1, <3>2, <4>2
      <4>3. QED
        BY <4>1, <4>2
    <3>4. QED
      BY <2>1, <3>3
  <2>4. QED
    BY <2>2, <2>3
<1>17. /\ all_items' = items /\ found_items' = found /\ known_good' = good
       /\ binary_search' = s /\ search_cycles' = c /\ prune_cycles' = prune_cycles /\ resumed' = resumed
       /\ pc' = IF Terminated(s) THEN "found" ELSE "cycle"
       /\ gave_up' = (gave_up \/ (Terminated(s) /\ s.lo # s.hi))
  BY <1>2, <1>3, <1>11 DEF Goto
<1>18. Listed(items, found, good)'
  BY <1>1, <1>5, StaysRight
<1>19. CASE Terminated(s)
  <2>1. cur2 < len
    BY <1>10, <1>15
  <2>2. prune_index' = cur2
    BY <1>14, <1>17 DEF prune_index
  <2>3. ~gave_up' => cur2 \in lo2..hi2 /\ FirstBad(items, cur2)
    <3>1. ~gave_up' => ~gave_up /\ lo2 = hi2
      BY <1>14, <1>17, <1>19
    <3>2. QED
      BY <1>15, <1>16, <3>1
  <2>4. bad' = bad
    BY <1>1 DEF options
  <2>5. ~gave_up' => FirstBad(items, cur2)'
    BY <2>3, <2>4 DEF FirstBad
  <2>6. pc' = "found"
    BY <1>17, <1>19
  <2>7. pc' = "found" /\ ~gave_up' => prune_index' \in s.lo..s.hi /\ FirstBad(items, prune_index)'
    BY <1>14, <2>2, <2>3, <2>5
  <2>8. prune_index' < Len(items)
    BY <1>8, <2>1, <2>2
  <2>9. QED
    BY <1>5, <1>17, <1>18, <2>6, <2>7, <2>8 DEF InMemory, Ready, Saving, Testing
<1>20. CASE ~Terminated(s)
  <2>1. lo2 # hi2
    BY <1>14, <1>20 DEF Terminated
  <2>2. s.skipped = {} => Halved(s.hi - s.lo, c, len)
    <3> SUFFICES ASSUME s.skipped = {} PROVE Halved(s.hi - s.lo, c, len)
      OBVIOUS
    <3>1. status # SKIP /\ b.skipped = {}
      BY <1>12, <1>13
    <3>2. cur = Middle(lo, hi)
      BY <1>5, <1>9, <3>1
    <3>3. 2 * (cur - lo) <= hi - lo /\ 2 * (hi - (cur + 1)) <= hi - lo
      <4>1. lo \in Int /\ hi \in Int /\ lo <= hi
        BY <1>10
      <4>2. QED
        BY <3>2, <4>1, MiddleBetween
    <3>4. PICK d \in Nat, e \in Nat, c1 \in Nat : d = hi - lo /\ e = hi2 - lo2 /\ c1 = c - 1
      BY <1>5, <1>10, <1>15
    <3>5. e >= 1
      BY <1>15, <2>1, <3>4
    <3>6. 2 * e <= d
      <4>1. CASE status = GOOD
        BY <1>9, <1>13, <1>14, <3>3, <3>4, <4>1
      <4>2. CASE status = BAD
        BY <1>9, <1>13, <1>14, <3>3, <3>4, <4>2
      <4>3. QED
        BY <1>12, <3>1, <4>1, <4>2
    <3>7. Halved(d, c1, len)
      BY <1>5, <1>8, <1>9, <3>1, <3>4 DEF Bisecting
    <3>8. Halved(e, c1 + 1, len)
      BY <3>5, <3>6, <3>7, HalvedMore
    <3>9. c1 + 1 = c /\ e = s.hi - s.lo
      BY <1>5, <1>14, <3>4
    <3>10. QED
      BY <3>8, <3>9
  <2>3. Bisecting(items, s, c)
    BY <1>8, <1>10, <1>14, <1>15, <1>16, <2>1, <2>2 DEF Bisecting
  <2>4. Bisecting(items, s, c)'
    BY <1>1, <2>3, StaysRight
  <2>5. pc' = "cycle"
    BY <1>17, <1>20
  <2>6. QED
    BY <1>5, <1>17, <1>18, <2>4, <2>5 DEF InMemory, Ready, Saving, Testing
<1>21. QED
  BY <1>19, <1>20

LEMMA NextInMemory ==
  ASSUME BssInv, Next
  PROVE  InMemory'
PROOF
<1>1. CASE VerifyGood \/ VerifyBad
  <2>1. UNCHANGED <<saved, resumed, gave_up>> /\ pc \in Ready /\ pc' \in Ready
    BY <1>1 DEF VerifyGood, VerifyBad, Goto, Ready, history
  <2>2. QED
    BY <2>1, KeptInMemory
<1>2. CASE SaveLink \/ SaveRename \/ (Cycle /\ pc' = "link")
  <2>1. CASE pc' = "dead"
    BY <2>1, Over
  <2>2. CASE pc' # "dead"
    <3>1. UNCHANGED <<saved, resumed, gave_up>> /\ pc \in Saving /\ pc' \in Saving \ {"cycle"}
      BY <1>2, <2>2 DEF SaveLink, SaveRename, Cycle, Goto, Saving, history, saved
    <3>2. search_cycles < iterations
      BY <1>2, <3>1 DEF SaveLink, SaveRename, Cycle, Goto, Saving, BssInv, InMemory
    <3>3. QED
      BY <3>1, <3>2, KeptInMemory
  <2>3. QED
    BY <2>1, <2>2
<1>3. CASE SwitchGood \/ SwitchBad
  <2>1. /\ UNCHANGED <<saved, resumed, gave_up>> /\ pc \in Testing \ {"flaky"}
        /\ pc' \in Testing \ {"flaky"}
    BY <1>3 DEF SwitchGood, SwitchBad, Goto, Testing, history
  <2>2. QED
    BY <2>1, KeptInMemory
<1>4. CASE RemoveState \/ Crash \/ (Cycle /\ pc' # "link")
  <2>1. pc' \in {"remove", "done", "dead"}
    BY <1>4 DEF RemoveState, Crash, Cycle, Goto
  <2>2. QED
    BY <2>1, Over
<1>5. CASE BeginSearch \/ GetNext \/ FlakyPop \/ Test \/ Found \/ LoadState
  BY <1>5, BeginSearchInMemory, GetNextInMemory, FlakyPopInMemory, TestInMemory, FoundInMemory,
     LoadStateInMemory
<1>6. QED
  BY <1>1, <1>2, <1>3, <1>4, <1>5 DEF Next, Tool

-----------------------------------------------------------------------------
(* The theorems                                                            *)

LEMMA NextBss ==
  ASSUME BssInv, Next
  PROVE  BssInv'
PROOF
<1>1. bad' # {}
  BY NextOptions DEF BssInv, options
<1>2. TypeOK' /\ InMemory' /\ OnDisk' /\ FoundRight(found_items, known_good)' /\ Reported' /\ Switched' /\ Linked'
  BY NextType, NextInMemory, NextOnDisk, NextFoundRight, NextReported, NextSwitched, NextLinked
<1>3. QED
  BY <1>1, <1>2 DEF BssInv

LEMMA StutterBss ==
  ASSUME BssInv, UNCHANGED vars
  PROVE  BssInv'
PROOF
<1> USE DEF BssInv, vars, options, saved, switched, disk, history
<1>1. TypeOK' /\ bad' # {}
  BY DEF TypeOK, Items, State
<1>2. UNCHANGED options /\ (gave_up => gave_up')
  OBVIOUS
<1>3. PICK items, found, good, b, c :
        /\ items = all_items /\ found = found_items /\ good = known_good
        /\ b = binary_search /\ c = search_cycles
  OBVIOUS
<1>4. /\ Listed(items, found, good) => Listed(items, found, good)'
      /\ Bisecting(items, b, c) => Bisecting(items, b, c)'
      /\ Bisecting(items, b, c - 1) => Bisecting(items, b, c - 1)'
      /\ FoundRight(found, good) => FoundRight(found, good)'
  BY <1>2, StaysRight
<1>5. InMemory'
  BY <1>3, <1>4 DEF InMemory, FirstBad, prune_index
<1>6. OnDisk'
  <2>1. PICK s : s = state_file
    OBVIOUS
  <2>2. PICK items1, found1, good1, b1, c1 :
          /\ items1 = s.all_items /\ found1 = s.found_items /\ good1 = s.known_good
          /\ b1 = s.binary_search /\ c1 = s.search_cycles
    OBVIOUS
  <2>3. /\ Listed(items1, found1, good1) => Listed(items1, found1, good1)'
        /\ Bisecting(items1, b1, c1) => Bisecting(items1, b1, c1)'
        /\ FoundRight(found1, good1) => FoundRight(found1, good1)'
    BY <1>2, StaysRight
  <2>4. QED
    BY <2>1, <2>2, <2>3 DEF OnDisk
<1>7. FoundRight(found_items, known_good)' /\ Reported' /\ Linked'
  BY DEF FoundRight, Reported, Linked, SavesUnlessLinkLeft
<1>8. Switched'
  BY DEF Switched, TestsWhatIsAsked, next_good_items, next_bad_items, Items
<1>9. QED
  BY <1>1, <1>5, <1>6, <1>7, <1>8

LEMMA SpecBss == Spec => []BssInv
PROOF
<1>1. BssInv /\ [Next]_vars => BssInv'
  BY NextBss, StutterBss
<1>2. QED
  BY InitBss, <1>1, PTL DEF Spec

\* What is tested is what the bisection asks for: GetNextItems and SwitchToGood,
\* SwitchToBad.
THEOREM TestedAsAsked == Spec => []TestsWhatIsAsked
PROOF
<1>1. BssInv => TestsWhatIsAsked
  BY DEF BssInv, Switched
<1>2. QED
  BY SpecBss, <1>1, PTL

\* The bisection is right from its bounds to what it reports, and takes no more
\* tests than are estimated: DoSearch, DoBinarySearch and SetStatus.
THEOREM BisectionCorrect == Spec => []SearchCorrect
PROOF
<1>1. BssInv => SearchCorrect
  <2> SUFFICES ASSUME BssInv PROVE SearchCorrect
    OBVIOUS
  <2> USE DEF BssInv
  <2>1. FirstBadInRange
    <3> SUFFICES ASSUME Searching, ~gave_up
                 PROVE  \E k \in binary_search.lo..binary_search.hi :
                          /\ all_items[k + 1] \in bad
                          /\ \A i \in 1..k : all_items[i] \notin bad
                          /\ pc = "found" => k = prune_index
      BY DEF FirstBadInRange
    <3>1. CASE pc = "found"
      BY <3>1 DEF InMemory, FirstBad
    <3>2. CASE pc # "found"
      <4>1. pc \in Saving \cup Testing
        BY <3>2 DEF Searching, Saving, Testing
      <4>2. \E k \in binary_search.lo..binary_search.hi : FirstBad(all_items, k)
        BY <4>1 DEF InMemory, Bisecting
      <4>3. QED
        BY <3>2, <4>2 DEF FirstBad
    <3>3. QED
      BY <3>1, <3>2
  <2>2. FoundAreBad
    BY DEF FoundAreBad, FoundRight
  <2>3. AllBadReported
    BY DEF AllBadReported, Reported
  <2>4. TestsAsEstimated
    <3> SUFFICES ASSUME pc = "test", binary_search.skipped = {}
                 PROVE  PowerBelow(search_cycles - 1, Len(all_items))
      BY DEF TestsAsEstimated
    <3>1. Halved(binary_search.hi - binary_search.lo, search_cycles - 1, Len(all_items))
      BY DEF InMemory, Testing, Bisecting
    <3>2. QED
      BY <3>1, HalvedPower
  <2>5. QED
    BY <2>1, <2>2, <2>3, <2>4 DEF SearchCorrect
<1>2. QED
  BY SpecBss, <1>1, PTL

\* A save fails only on the link of a tool that died in SaveState between
\* os.symlink and os.rename.
THEOREM SaveFailsAfterCrash == Spec => []SavesUnlessLinkLeft
PROOF
<1>1. BssInv => SavesUnlessLinkLeft
  BY DEF BssInv, Linked
<1>2. QED
  BY SpecBss, <1>1, PTL

=============================================================================
