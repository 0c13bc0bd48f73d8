----------------------------- MODULE LockProofs -----------------------------
(***************************************************************************)
(* The two kinds of locks on machines.                                     *)
(*                                                                         *)
(* File locks are right for any number of processes and whatever dies      *)
(* when.                                                                   *)
(*                                                                         *)
(* AutoInv: an auto process that believes to hold the machine holds lockf  *)
(* on the liveness file, and so does one that is about to be told so; and  *)
(* whenever the description, on disk or about to be written, says that the *)
(* machine is locked by an auto process, it is that one.  The last part is *)
(* needed because Unlock of another process removes the liveness file      *)
(* without looking who holds it.  OwnInv: the description names the user   *)
(* of the process that took the lock, so who unlocks it is of that user.   *)
(*                                                                         *)
(* LockInv adds what truncate(0) of the process between __enter__ and      *)
(* __exit__ will change (Effects), that the process an auto lock names has *)
(* the liveness file open, so that its own __enter__ does not take its     *)
(* lock for void (LiveOpen), and, as long as no description was lost, that *)
(* the descriptions and the beliefs agree in both directions.              *)
(*                                                                         *)
(* Then the refinement of MachineLock.                                     *)
(*                                                                         *)
(* Locks on an AFE server: for every set of clients, users and machines,   *)
(* what an experiment takes down as locked is locked for it, it leaves     *)
(* nothing locked behind unless the server failed, and a command that asks *)
(* whose a lock is takes one from another user only if it was unlocked by  *)
(* someone else between the question and the unlock.                       *)
(***************************************************************************)
EXTENDS FileLock, AfeLock, FiniteSetTheorems, TLAPS

Inside(p) == pc[p] \in {"truncate", "write"}

AutoHolders == excl \cap AutoProcs

Granted(p) == Inside(p) /\ op[p] = "lockx" /\ ret[p] = "true"

Names(d, p) == d.exclusive /\ d.auto => d.by = p

Calls == {"none", "lockx", "locks", "unlockx", "unlocks", "list"}
Results == {"true", "false", "raised"}

\* Descriptions, with any counter.
AnyDescription ==
  [exclusive : BOOLEAN, counter : Int, auto : BOOLEAN,
   owner : {User[p] : p \in Procs} \cup {NoProc}, by : Procs \cup {NoProc}]

AutoTypes ==
  /\ excl \subseteq Procs
  /\ live \in Procs \cup {NoProc, NoFile}
  /\ file \in AnyDescription
  /\ pc \in [Procs -> {"idle", "truncate", "write", "exiting"}]
  /\ desc \in [Procs -> AnyDescription]
  /\ op \in [Procs -> Calls]
  /\ ret \in [Procs -> Results]

\* Only who holds flock is between __enter__ and the end of __exit__.
Alone == \A p \in Procs : Inside(p) => flock = p

HoldersLive == \A p \in AutoHolders : live = p /\ Names(file, p)

WriterAgrees == \A p \in AutoHolders, q \in Procs : Inside(q) => Names(desc[q], p)

GrantedLive == \A p \in AutoProcs : Granted(p) => live = p /\ Names(desc[p], p)

AutoInv == AutoTypes /\ Alone /\ HoldersLive /\ WriterAgrees /\ GrantedLive

-----------------------------------------------------------------------------

LEMMA UnlockedType == Unlocked \in AnyDescription /\ ~Unlocked.exclusive
BY DEF Unlocked, AnyDescription

LEMMA InitAuto == Init => AutoInv
PROOF
<1> SUFFICES ASSUME Init PROVE AutoInv
  OBVIOUS
<1>1. AutoTypes
  BY UnlockedType DEF Init, AutoTypes, Calls, Results
<1>2. \A p \in Procs : ~Inside(p)
  BY DEF Init, Inside
<1>3. Alone /\ WriterAgrees /\ GrantedLive
  BY <1>2, ProcsAssumption DEF Alone, WriterAgrees, GrantedLive, Granted
<1>4. HoldersLive
  BY DEF Init, HoldersLive, AutoHolders
<1>5. QED
  BY <1>1, <1>3, <1>4 DEF AutoInv

\* What __enter__ reads does not contradict an auto holder either.
LEMMA ReadAgrees ==
  ASSUME AutoInv, NEW p \in Procs
  PROVE  /\ DescriptionRead(p) \in AnyDescription
         /\ \A h \in AutoHolders : Names(DescriptionRead(p), h)
BY UnlockedType DEF DescriptionRead, AutoInv, AutoTypes, HoldersLive, Names

\* Trying the liveness file does not take it from a holder.
LEMMA ProbedKeeps ==
  ASSUME AutoInv
  PROVE  /\ Probed \in Procs \cup {NoProc, NoFile}
         /\ \A h \in AutoHolders : Probed = h
BY ProcsAssumption DEF Probed, AutoInv, AutoTypes, HoldersLive, AutoHolders

\* A process enters and its body leaves description d: what d and the liveness
\* file must satisfy for the invariant.
LEMMA BodyStep ==
  ASSUME AutoInv, NEW p \in Procs, Enter(p),
         NEW call \in Calls, NEW d \in AnyDescription, NEW r \in Results, Body(p, call, d, r),
         live' \in Procs \cup {NoProc, NoFile},
         excl' \subseteq excl,
         \A h \in excl' \cap AutoProcs : live' = h /\ Names(d, h),
         p \in AutoProcs /\ call = "lockx" /\ r = "true" => live' = p /\ Names(d, p)
  PROVE  AutoInv'
PROOF
<1>1. /\ flock = NoProc /\ flock' = p /\ file' = file
      /\ pc' = [pc EXCEPT ![p] = "truncate"]
      /\ desc' = [desc EXCEPT ![p] = d]
      /\ op' = [op EXCEPT ![p] = call]
      /\ ret' = [ret EXCEPT ![p] = r]
  BY DEF Enter, Body
<1>2. \A q \in Procs : Inside(q)' <=> q = p
  BY <1>1, ProcsAssumption DEF AutoInv, AutoTypes, Alone, Inside
<1>3. AutoTypes'
  BY <1>1 DEF AutoInv, AutoTypes
<1>4. Alone'
  BY <1>1, <1>2 DEF Alone
<1>5. desc'[p] = d /\ op'[p] = call /\ ret'[p] = r
  BY <1>1 DEF AutoInv, AutoTypes
<1>6. HoldersLive'
  BY <1>1 DEF AutoInv, HoldersLive, AutoHolders, Names
<1>7. WriterAgrees'
  BY <1>2, <1>5 DEF WriterAgrees, AutoHolders, Names
<1>8. GrantedLive'
  BY <1>2, <1>5, ProcsAssumption DEF GrantedLive, Granted, Names
<1>9. QED
  BY <1>3, <1>4, <1>6, <1>7, <1>8 DEF AutoInv

\* The description of an exclusive lock.
LEMMA GrantedType ==
  ASSUME NEW p \in Procs, NEW d \in AnyDescription
  PROVE  Taken(p, d) \in AnyDescription /\ Taken(p, d).by = p
PROOF
<1> DEFINE a == p \in AutoProcs
           d1 == [d EXCEPT !.exclusive = TRUE]
           d2 == [d1 EXCEPT !.owner = User[p]]
           d3 == [d2 EXCEPT !.auto = a]
           d4 == [d3 EXCEPT !.by = p]
<1>1. d1 \in AnyDescription
  BY DEF AnyDescription
<1> HIDE DEF d1
<1>2. d2 \in AnyDescription
  BY <1>1 DEF AnyDescription
<1> HIDE DEF d2
<1>a. a \in BOOLEAN
  OBVIOUS
<1> HIDE DEF a
<1>3. d3 \in AnyDescription
  BY <1>2, <1>a DEF AnyDescription
<1> HIDE DEF d3
<1>4. d4 \in AnyDescription /\ d4.by = p
  BY <1>3 DEF AnyDescription
<1>5. QED
  BY <1>4 DEF Taken, a, d1, d2, d3

LEMMA LockAuto ==
  ASSUME AutoInv, NEW p \in Procs, NEW exclusive \in BOOLEAN, NonBlockingLock(p, exclusive)
  PROVE  AutoInv'
PROOF
<1> DEFINE d == DescriptionRead(p)
           call == IF exclusive THEN "lockx" ELSE "locks"
<1>1. Enter(p) /\ excl' = excl /\ call \in Calls
  BY DEF NonBlockingLock, Calls
<1>2. d \in AnyDescription /\ \A h \in AutoHolders : Names(d, h)
  BY ReadAgrees
<1>3. \A h \in AutoHolders : live = h /\ h \in Procs
  BY ProcsAssumption DEF AutoInv, HoldersLive, AutoHolders
<1>4. CASE (Body(p, call, d, "false") \/ Body(p, call, d, "raised")) /\ UNCHANGED live
  <2>1. "false" \in Results /\ "raised" \in Results
    BY DEF Results
  <2>2. live' \in Procs \cup {NoProc, NoFile}
    BY <1>4 DEF AutoInv, AutoTypes
  <2>3. \A h \in excl' \cap AutoProcs : live' = h /\ Names(d, h)
    BY <1>1, <1>2, <1>3, <1>4 DEF AutoHolders
  <2>4. CASE Body(p, call, d, "false")
    BY <1>1, <1>2, <2>1, <2>2, <2>3, <2>4, BodyStep
  <2>5. CASE Body(p, call, d, "raised")
    BY <1>1, <1>2, <2>1, <2>2, <2>3, <2>5, BodyStep
  <2>6. QED
    BY <1>4, <2>4, <2>5
<1>5. CASE GrantExclusive(p, d)
  <2> DEFINE e == Taken(p, d)
  <2>1. /\ live \in {p, NoProc, NoFile} /\ live' = p
        /\ Body(p, "lockx", e, "true")
    BY <1>5 DEF GrantExclusive, CanOpenLiveCheck
  <2>2. e \in AnyDescription /\ e.by = p
    BY <1>2, GrantedType
  <2>3. \A h \in excl' \cap AutoProcs : live' = h /\ Names(e, h)
    BY <1>1, <1>3, <2>1, <2>2, ProcsAssumption DEF AutoHolders, Names
  <2>4. "lockx" \in Calls /\ "true" \in Results /\ Names(e, p)
    BY <2>2 DEF Calls, Results, Names
  <2>5. QED
    BY <1>1, <2>1, <2>2, <2>3, <2>4, BodyStep
<1>6. CASE /\ ~exclusive /\ ~Refused(d, exclusive)
           /\ live' = (IF d = file THEN live ELSE Probed)
           /\ Body(p, call, [d EXCEPT !.counter = @ + 1], "true")
  <2> DEFINE e == [d EXCEPT !.counter = @ + 1]
  <2>1. e \in AnyDescription /\ ~e.exclusive
    BY <1>2, <1>6 DEF AnyDescription, Refused
  <2>2. live' \in Procs \cup {NoProc, NoFile} /\ \A h \in AutoHolders : live' = h
    BY <1>3, <1>6, ProbedKeeps DEF AutoInv, AutoTypes
  <2>3. \A h \in excl' \cap AutoProcs : live' = h /\ Names(e, h)
    BY <1>1, <2>1, <2>2 DEF AutoHolders, Names
  <2>4. call # "lockx" /\ "true" \in Results
    BY <1>6 DEF Results
  <2>5. QED
    BY <1>1, <1>6, <2>1, <2>2, <2>3, <2>4, BodyStep
<1>7. QED
  BY <1>4, <1>5, <1>6 DEF NonBlockingLock

LEMMA UnlockAuto ==
  ASSUME AutoInv, NEW p \in Procs, NEW exclusive \in BOOLEAN, NEW force \in BOOLEAN,
         Unlock(p, exclusive, force)
  PROVE  AutoInv'
PROOF
<1> DEFINE d == DescriptionRead(p)
           call == IF exclusive THEN "unlockx" ELSE "unlocks"
           mismatch == \/ d.exclusive # exclusive
                       \/ NotMine(p, d, force)
                       \/ d.exclusive /\ d.auto # (p \in AutoProcs)
<1>1. Enter(p) /\ call \in Calls /\ call # "lockx" /\ "none" \in Calls /\ "unlockx" \in Calls
  BY DEF Unlock, Calls
<1>2. d \in AnyDescription /\ \A h \in AutoHolders : Names(d, h)
  BY ReadAgrees
<1>3. \A h \in AutoHolders : live = h /\ h \in Procs
  BY ProcsAssumption DEF AutoInv, HoldersLive, AutoHolders
<1>4. \A r \in {"true", "false", "raised"} : r \in Results
  BY DEF Results
<1>5. CASE /\ Body(p, IF IsLocked(d) THEN "none" ELSE call, d, IF IsLocked(d) THEN "false" ELSE "true")
           /\ live' = (IF d = file THEN live ELSE Probed)
           /\ excl' = (IF exclusive /\ ~IsLocked(d) THEN excl \ {p} ELSE excl)
  <2>1. live' \in Procs \cup {NoProc, NoFile} /\ \A h \in AutoHolders : live' = h
    BY <1>3, <1>5, ProbedKeeps DEF AutoInv, AutoTypes
  <2>2. excl' \subseteq excl
    BY <1>5
  <2>3. \A h \in excl' \cap AutoProcs : live' = h /\ Names(d, h)
    BY <1>2, <2>1, <2>2 DEF AutoHolders
  <2>4. CASE IsLocked(d)
    BY <1>1, <1>2, <1>4, <1>5, <2>1, <2>2, <2>3, <2>4, BodyStep
  <2>5. CASE ~IsLocked(d)
    BY <1>1, <1>2, <1>4, <1>5, <2>1, <2>2, <2>3, <2>5, BodyStep
  <2>6. QED
    BY <2>4, <2>5
<1>6. CASE IsLocked(d) /\ ~mismatch /\ exclusive /\ ReleaseExclusive(p, d)
  <2> DEFINE e == [d EXCEPT !.exclusive = FALSE, !.owner = NoProc]
             r == IF p \in AutoProcs /\ live = NoFile THEN "raised" ELSE "true"
  <2>1. Body(p, "unlockx", e, r) /\ r \in Results
    BY <1>4, <1>6 DEF ReleaseExclusive
  <2>2. e \in AnyDescription /\ ~e.exclusive
    BY <1>2 DEF AnyDescription
  <2>3. CASE p \in AutoProcs
    <3>1. live' = NoFile /\ excl' = excl \ {p, d.by}
      BY <1>6, <2>3 DEF ReleaseExclusive
    <3>2. d.exclusive /\ d.auto
      BY <1>2, <1>6, <2>3 DEF AnyDescription
    <3>3. excl' \cap AutoProcs = {}
      BY <1>2, <3>1, <3>2 DEF AutoHolders, Names
    <3>4. QED
      BY <1>1, <2>1, <2>2, <3>1, <3>3, BodyStep
  <2>4. CASE p \notin AutoProcs
    <3>1. UNCHANGED <<live, excl>>
      BY <1>6, <2>4 DEF ReleaseExclusive
    <3>2. \A h \in excl' \cap AutoProcs : live' = h /\ Names(e, h)
      BY <1>3, <2>2, <3>1 DEF AutoHolders, Names
    <3>3. live' \in Procs \cup {NoProc, NoFile} /\ excl' \subseteq excl
      BY <3>1 DEF AutoInv, AutoTypes
    <3>4. QED
      BY <1>1, <2>1, <2>2, <3>2, <3>3, BodyStep
  <2>5. QED
    BY <2>3, <2>4
<1>7. CASE /\ ~mismatch /\ ~exclusive
           /\ Body(p, call, [d EXCEPT !.counter = @ - 1], "true") /\ UNCHANGED <<live, excl>>
  <2> DEFINE e == [d EXCEPT !.counter = @ - 1]
  <2>1. e \in AnyDescription /\ ~e.exclusive
    BY <1>2, <1>7 DEF AnyDescription
  <2>2. \A h \in excl' \cap AutoProcs : live' = h /\ Names(e, h)
    BY <1>3, <1>7, <2>1 DEF AutoHolders, Names
  <2>3. live' \in Procs \cup {NoProc, NoFile} /\ excl' \subseteq excl
    BY <1>7 DEF AutoInv, AutoTypes
  <2>4. QED
    BY <1>1, <1>4, <1>7, <2>1, <2>2, <2>3, BodyStep
<1>8. QED
  BY <1>5, <1>6, <1>7 DEF Unlock

LEMMA ListAuto ==
  ASSUME AutoInv, NEW p \in Procs, ListLock(p)
  PROVE  AutoInv'
PROOF
<1> DEFINE d == DescriptionRead(p)
<1>1. /\ Enter(p) /\ excl' = excl /\ Body(p, "list", d, "true")
      /\ live' = (IF d = file THEN live ELSE Probed)
  BY DEF ListLock
<1>2. d \in AnyDescription /\ \A h \in AutoHolders : Names(d, h)
  BY ReadAgrees
<1>3. live' \in Procs \cup {NoProc, NoFile} /\ \A h \in AutoHolders : live' = h
  BY <1>1, ProbedKeeps DEF AutoInv, AutoTypes, HoldersLive
<1>4. "list" \in Calls /\ "true" \in Results
  BY DEF Calls, Results
<1>5. \A h \in excl' \cap AutoProcs : live' = h /\ Names(d, h)
  BY <1>1, <1>2, <1>3 DEF AutoHolders
<1>6. QED
  BY <1>1, <1>2, <1>3, <1>4, <1>5, BodyStep

LEMMA TruncateAuto ==
  ASSUME AutoInv, NEW p \in Procs, Truncate(p)
  PROVE  AutoInv'
PROOF
<1>1. /\ pc[p] = "truncate" /\ pc' = [pc EXCEPT ![p] = "write"]
      /\ excl' \subseteq excl
      /\ UNCHANGED <<file, flock, live, desc, op, ret>>
  BY DEF Truncate
<1>2. \A q \in Procs : Inside(q)' <=> Inside(q)
  BY <1>1 DEF AutoInv, AutoTypes, Inside
<1>3. AutoTypes'
  BY <1>1 DEF AutoInv, AutoTypes
<1>4. QED
  BY <1>1, <1>2, <1>3, ProcsAssumption
  DEF AutoInv, Alone, HoldersLive, WriterAgrees, GrantedLive, AutoHolders, Granted, Names

LEMMA WriteCloseAuto ==
  ASSUME AutoInv, NEW p \in Procs, WriteClose(p)
  PROVE  AutoInv'
PROOF
<1>1. /\ pc[p] = "write" /\ pc' = [pc EXCEPT ![p] = IF p \in AutoProcs THEN "idle" ELSE "exiting"]
      /\ file' = desc[p]
      /\ excl' = IF op[p] = "lockx" /\ ret[p] = "true" THEN excl \cup {p} ELSE excl
      /\ op' = [op EXCEPT ![p] = "none"]
      /\ desc' = [desc EXCEPT ![p] = Unlocked]
      /\ ret' = [ret EXCEPT ![p] = "true"]
      /\ live' = live
  BY DEF WriteClose
<1>2. \A q \in Procs : ~Inside(q)'
  BY <1>1, ProcsAssumption DEF AutoInv, AutoTypes, Alone, Inside
<1>3. AutoTypes'
  BY <1>1, UnlockedType DEF AutoInv, AutoTypes, Calls, Results
<1>4. Alone' /\ WriterAgrees' /\ GrantedLive'
  BY <1>2, ProcsAssumption DEF Alone, WriterAgrees, GrantedLive, Granted
<1>5. Inside(p)
  BY <1>1 DEF Inside
<1>6. ASSUME NEW h \in excl' \cap AutoProcs
      PROVE  live' = h /\ Names(desc[p], h)
  <2>1. CASE h \in excl
    BY <1>1, <1>5, <1>6, <2>1 DEF AutoInv, HoldersLive, WriterAgrees, AutoHolders
  <2>2. CASE h \notin excl
    <3>1. h = p /\ Granted(p)
      BY <1>1, <1>5, <1>6, <2>2 DEF Granted
    <3>2. QED
      BY <1>1, <1>6, <3>1 DEF AutoInv, GrantedLive
  <2>3. QED
    BY <2>1, <2>2
<1>7. HoldersLive'
  BY <1>1, <1>6 DEF HoldersLive, AutoHolders, Names
<1>8. QED
  BY <1>3, <1>4, <1>7 DEF AutoInv

LEMMA DieAuto ==
  ASSUME AutoInv, NEW p \in Procs, Die(p)
  PROVE  AutoInv'
PROOF
<1>1. /\ file' = IF pc[p] = "write" THEN Unlocked ELSE Orphaned(p, file)
      /\ flock' = IF flock = p THEN NoProc ELSE flock
      /\ live' = IF live = p THEN NoProc ELSE live
      /\ pc' = [pc EXCEPT ![p] = "idle"]
      /\ desc' = [q \in Procs |-> IF q = p THEN Unlocked ELSE Orphaned(p, desc[q])]
      /\ op' = [op EXCEPT ![p] = "none"]
      /\ ret' = [ret EXCEPT ![p] = "true"]
      /\ excl' = excl \ ({p} \cap AutoProcs)
  BY DEF Die
<1>2. ASSUME NEW e \in AnyDescription
      PROVE  /\ Orphaned(p, e) \in AnyDescription
             /\ \A h \in Procs \ {p} : Names(e, h) => Names(Orphaned(p, e), h)
  BY DEF Orphaned, AnyDescription, Names
<1>3. \A q \in Procs : Inside(q)' <=> q # p /\ Inside(q)
  BY <1>1 DEF AutoInv, AutoTypes, Inside
<1>4. AutoTypes'
  BY <1>1, <1>2, UnlockedType DEF AutoInv, AutoTypes, Calls, Results
<1>5. Alone'
  BY <1>1, <1>3 DEF AutoInv, Alone
<1>6. \A h \in excl' \cap AutoProcs : h \in AutoHolders /\ h # p /\ h \in Procs
  BY <1>1, ProcsAssumption DEF AutoHolders
<1>7. HoldersLive'
  <2>1. ASSUME NEW h \in excl' \cap AutoProcs
        PROVE  live' = h /\ Names(file', h)
    <3>1. live' = h /\ Names(file, h) /\ file \in AnyDescription
      BY <1>1, <1>6 DEF AutoInv, AutoTypes, HoldersLive
    <3>2. QED
      BY <1>1, <1>2, <1>6, <3>1, UnlockedType DEF Names
  <2>2. QED
    BY <2>1 DEF HoldersLive, AutoHolders, Names
<1>8. \A q \in Procs \ {p} : desc'[q] = Orphaned(p, desc[q]) /\ desc[q] \in AnyDescription
  BY <1>1 DEF AutoInv, AutoTypes
<1>9. WriterAgrees'
  <2>1. ASSUME NEW h \in excl' \cap AutoProcs, NEW q \in Procs, Inside(q)'
        PROVE  Names(desc'[q], h)
    BY <1>2, <1>3, <1>6, <1>8, <2>1 DEF AutoInv, WriterAgrees
  <2>2. QED
    BY <2>1 DEF WriterAgrees, AutoHolders, Names
<1>10. GrantedLive'
  <2>1. ASSUME NEW q \in AutoProcs, Granted(q)'
        PROVE  live' = q /\ Names(desc'[q], q)
    <3>1. q \in Procs /\ q # p /\ Inside(q)
      BY <1>3, <2>1, ProcsAssumption DEF Granted
    <3>2. Granted(q)
      BY <1>1, <2>1, <3>1 DEF Granted, AutoInv, AutoTypes
    <3>3. live = q /\ Names(desc[q], q)
      BY <3>2 DEF AutoInv, GrantedLive
    <3>4. QED
      BY <1>1, <1>2, <1>8, <3>1, <3>3
  <2>2. QED
    BY <2>1 DEF GrantedLive, Granted, Inside, Names
<1>11. QED
  BY <1>4, <1>5, <1>7, <1>9, <1>10 DEF AutoInv

LEMMA EnterFailsAuto ==
  ASSUME AutoInv, NEW p \in Procs, EnterFails(p)
  PROVE  AutoInv'
PROOF
<1>1. file' = Unlocked /\ UNCHANGED <<flock, live, pc, desc, op, ret, excl>>
  BY DEF EnterFails
<1>2. QED
  BY <1>1, UnlockedType DEF AutoInv, AutoTypes, Alone, HoldersLive, WriterAgrees, GrantedLive,
     AutoHolders, Inside, Granted, Names

LEMMA NextAuto == AutoInv /\ [Next]_vars => AutoInv'
PROOF
<1> SUFFICES ASSUME AutoInv, [Next]_vars PROVE AutoInv'
  OBVIOUS
<1>1. CASE UNCHANGED vars
  BY <1>1 DEF vars, procVars, history, AutoInv, AutoTypes, Alone, HoldersLive, WriterAgrees, GrantedLive,
     AutoHolders, Inside, Granted, Names
<1>2. ASSUME NEW p \in Procs, TryLock(p)
      PROVE  AutoInv'
  BY <1>2 DEF TryLock, history, AutoInv, AutoTypes, Alone, HoldersLive, WriterAgrees, GrantedLive,
     AutoHolders, Inside, Granted, Names
<1>3. ASSUME NEW p \in Procs, Crash(p) \/ Exit(p)
      PROVE  AutoInv'
  BY <1>3, DieAuto DEF Crash, Exit
<1>4. QED
  BY <1>1, <1>2, <1>3, LockAuto, UnlockAuto, ListAuto, TruncateAuto, WriteCloseAuto, EnterFailsAuto DEF Next

\* The description carries the user of the process that took the lock.
Owned(d) == d.exclusive /\ d.by # NoProc => d.owner = User[d.by]

OwnInv ==
  /\ Owned(file) /\ \A p \in Procs : Owned(desc[p])
  /\ evicted \in [Procs -> Procs \cup {NoProc}]
  /\ \A p \in Procs : evicted[p] # NoProc => EvictedByOwn(p)

LEMMA ReadOwned ==
  ASSUME OwnInv, NEW p \in Procs
  PROVE  Owned(DescriptionRead(p))
BY DEF OwnInv, Owned, DescriptionRead, Unlocked

\* The body of "with" leaves description d and evicts nobody.
LEMMA BodyOwned ==
  ASSUME AutoInv, OwnInv, NEW p \in Procs, NEW call, NEW d, NEW r, Body(p, call, d, r), Owned(d)
  PROVE  Owned(file') /\ \A q \in Procs : Owned(desc'[q])
PROOF
<1>1. file' = file /\ desc' = [desc EXCEPT ![p] = d]
  BY DEF Body
<1>2. \A q \in Procs : desc'[q] = IF q = p THEN d ELSE desc[q]
  BY <1>1 DEF AutoInv, AutoTypes
<1>3. QED
  BY <1>1, <1>2 DEF OwnInv, Owned

LEMMA EvictedOwned ==
  ASSUME OwnInv, NEW p \in Procs,
         evicted' = evicted \/ evicted' = [evicted EXCEPT ![p] = NoProc]
  PROVE  /\ evicted' \in [Procs -> Procs \cup {NoProc}]
         /\ \A q \in Procs : evicted'[q] # NoProc => EvictedByOwn(q)'
BY DEF OwnInv, EvictedByOwn

LEMMA LockOwned ==
  ASSUME AutoInv, OwnInv, NEW p \in Procs, NEW exclusive \in BOOLEAN, NonBlockingLock(p, exclusive)
  PROVE  OwnInv'
PROOF
<1> DEFINE d == DescriptionRead(p)
           call == IF exclusive THEN "lockx" ELSE "locks"
<1>1. Owned(d) /\ d \in AnyDescription
  BY ReadOwned, ReadAgrees
<1>2. evicted' = evicted
  BY DEF NonBlockingLock
<1>3. CASE Body(p, call, d, "false") \/ Body(p, call, d, "raised")
  BY <1>1, <1>2, <1>3, BodyOwned, EvictedOwned DEF OwnInv
<1>4. CASE GrantExclusive(p, d)
  <2>1. Owned(Taken(p, d))
    BY <1>1 DEF Owned, Taken, AnyDescription
  <2>2. QED
    BY <1>2, <1>4, <2>1, BodyOwned, EvictedOwned DEF OwnInv, GrantExclusive
<1>5. CASE Body(p, call, [d EXCEPT !.counter = @ + 1], "true")
  <2>1. Owned([d EXCEPT !.counter = @ + 1])
    BY <1>1 DEF Owned, AnyDescription
  <2>2. QED
    BY <1>2, <1>5, <2>1, BodyOwned, EvictedOwned DEF OwnInv
<1>6. QED
  BY <1>3, <1>4, <1>5 DEF NonBlockingLock

LEMMA UnlockOwned ==
  ASSUME AutoInv, OwnInv, NEW p \in Procs, NEW exclusive \in BOOLEAN, NEW force \in BOOLEAN,
         Unlock(p, exclusive, force)
  PROVE  OwnInv'
PROOF
<1> DEFINE d == DescriptionRead(p)
           call == IF exclusive THEN "unlockx" ELSE "unlocks"
           mismatch == \/ d.exclusive # exclusive
                       \/ NotMine(p, d, force)
                       \/ d.exclusive /\ d.auto # (p \in AutoProcs)
<1>1. Owned(d) /\ d \in AnyDescription
  BY ReadOwned, ReadAgrees
<1>2. CASE /\ Body(p, IF IsLocked(d) THEN "none" ELSE call, d, IF IsLocked(d) THEN "false" ELSE "true")
           /\ evicted' = evicted \/ evicted' = [evicted EXCEPT ![p] = NoProc]
  BY <1>1, <1>2, BodyOwned, EvictedOwned DEF OwnInv
<1>3. CASE IsLocked(d) /\ ~mismatch /\ exclusive /\ ReleaseExclusive(p, d)
  <2> DEFINE e == [d EXCEPT !.exclusive = FALSE, !.owner = NoProc]
  <2>1. Owned(e)
    BY <1>1 DEF Owned, AnyDescription
  <2>2. Owned(file') /\ \A q \in Procs : Owned(desc'[q])
    BY <1>3, <2>1, BodyOwned DEF ReleaseExclusive
  <2>3. CASE p \notin AutoProcs
    <3>1. evicted' = evicted
      BY <1>3, <2>3 DEF ReleaseExclusive
    <3>2. QED
      BY <2>2, <3>1, EvictedOwned DEF OwnInv
  <2>4. CASE p \in AutoProcs
    <3>1. evicted' = Evicts(p, d)
      BY <1>3, <2>4 DEF ReleaseExclusive
    <3>2. ~force
      BY <2>4 DEF Unlock
    <3>3. d.exclusive /\ d.owner = User[p]
      BY <1>1, <1>3, <3>2 DEF NotMine, AnyDescription
    <3>4. evicted' \in [Procs -> Procs \cup {NoProc}]
      BY <3>1 DEF Evicts, OwnInv
    <3>5. ASSUME NEW q \in Procs, evicted'[q] # NoProc
          PROVE  EvictedByOwn(q)'
      <4>1. q # p
        BY <3>1, <3>5 DEF Evicts
      <4>2. CASE q = d.by /\ q \in excl
        <5>1. evicted'[q] = p
          BY <3>1, <4>1, <4>2 DEF Evicts
        <5>2. User[q] = User[p]
          BY <1>1, <3>3, <4>2, ProcsAssumption DEF Owned
        <5>3. QED
          BY <2>4, <4>1, <5>1, <5>2 DEF EvictedByOwn
      <4>3. CASE ~(q = d.by /\ q \in excl)
        <5>1. evicted'[q] = evicted[q]
          BY <3>1, <4>1, <4>3 DEF Evicts
        <5>2. QED
          BY <3>5, <5>1 DEF OwnInv, EvictedByOwn
      <4>4. QED
        BY <4>2, <4>3
    <3>6. QED
      BY <2>2, <3>4, <3>5 DEF OwnInv
  <2>5. QED
    BY <2>3, <2>4
<1>4. CASE /\ Body(p, call, [d EXCEPT !.counter = @ - 1], "true") /\ evicted' = evicted
  <2>1. Owned([d EXCEPT !.counter = @ - 1])
    BY <1>1 DEF Owned, AnyDescription
  <2>2. QED
    BY <1>4, <2>1, BodyOwned, EvictedOwned DEF OwnInv
<1>5. QED
  BY <1>2, <1>3, <1>4 DEF Unlock

LEMMA ListOwned ==
  ASSUME AutoInv, OwnInv, NEW p \in Procs, ListLock(p)
  PROVE  OwnInv'
PROOF
<1>1. Body(p, "list", DescriptionRead(p), "true") /\ evicted' = evicted
  BY DEF ListLock
<1>2. QED
  BY <1>1, ReadOwned, BodyOwned, EvictedOwned DEF OwnInv

LEMMA WriteCloseOwned ==
  ASSUME AutoInv, OwnInv, NEW p \in Procs, WriteClose(p)
  PROVE  OwnInv'
PROOF
<1>1. /\ file' = desc[p] /\ desc' = [desc EXCEPT ![p] = Unlocked]
      /\ evicted' = evicted \/ evicted' = [evicted EXCEPT ![p] = NoProc]
  BY DEF WriteClose
<1>2. \A q \in Procs : desc'[q] = IF q = p THEN Unlocked ELSE desc[q]
  BY <1>1 DEF AutoInv, AutoTypes
<1>3. QED
  BY <1>1, <1>2, EvictedOwned, UnlockedType DEF OwnInv, Owned

LEMMA DieOwned ==
  ASSUME AutoInv, OwnInv, NEW p \in Procs, Die(p)
  PROVE  OwnInv'
PROOF
<1>1. /\ file' = IF pc[p] = "write" THEN Unlocked ELSE Orphaned(p, file)
      /\ desc' = [q \in Procs |-> IF q = p THEN Unlocked ELSE Orphaned(p, desc[q])]
      /\ evicted' = [evicted EXCEPT ![p] = NoProc]
  BY DEF Die
<1>2. ASSUME NEW d \in AnyDescription, Owned(d)
      PROVE  Owned(Orphaned(p, d))
  BY <1>2 DEF Owned, Orphaned, AnyDescription
<1>3. Owned(Unlocked)
  BY UnlockedType DEF Owned
<1>4. Owned(file')
  BY <1>1, <1>2, <1>3 DEF OwnInv, AutoInv, AutoTypes
<1>5. \A q \in Procs : Owned(desc'[q])
  BY <1>1, <1>2, <1>3 DEF OwnInv, AutoInv, AutoTypes
<1>6. QED
  BY <1>1, <1>4, <1>5, EvictedOwned DEF OwnInv, Owned

LEMMA NextOwned == AutoInv /\ OwnInv /\ [Next]_vars => OwnInv'
PROOF
<1> SUFFICES ASSUME AutoInv, OwnInv, [Next]_vars PROVE OwnInv'
  OBVIOUS
<1>1. CASE UNCHANGED <<file, desc, evicted>>
  BY <1>1 DEF OwnInv, Owned, EvictedByOwn
<1>2. UNCHANGED vars => UNCHANGED <<file, desc, evicted>>
  BY DEF vars, procVars, history
<1>3. ASSUME NEW p \in Procs, TryLock(p) \/ Truncate(p)
      PROVE  OwnInv'
  BY <1>1, <1>3 DEF TryLock, Truncate, history
<1>4. ASSUME NEW p \in Procs, EnterFails(p)
      PROVE  OwnInv'
  BY <1>4, UnlockedType DEF EnterFails, OwnInv, Owned, EvictedByOwn
<1>5. ASSUME NEW p \in Procs, Crash(p) \/ Exit(p)
      PROVE  OwnInv'
  BY <1>5, DieOwned DEF Crash, Exit
<1>6. QED
  BY <1>1, <1>2, <1>3, <1>4, <1>5, LockOwned, UnlockOwned, ListOwned, WriteCloseOwned DEF Next

LEMMA InitOwned == Init => OwnInv
BY UnlockedType DEF Init, OwnInv, Owned

\* For any number of processes, users, deaths and lost descriptions: two live
\* auto processes use the machine together only if one of them was unlocked by
\* a process of its own user.  Who was not holds lockf on the liveness file.
THEOREM LiveAutoAlone == Spec => []AutoAlone
PROOF
<1>1. Init => AutoInv /\ OwnInv
  BY InitAuto, InitOwned
<1>2. AutoInv /\ OwnInv /\ [Next]_vars => (AutoInv /\ OwnInv)'
  BY NextAuto, NextOwned
<1>3. AutoInv /\ OwnInv => AutoAlone
  <2> SUFFICES ASSUME AutoInv, OwnInv,
                      NEW p \in AutoProcs, NEW q \in AutoProcs, p # q, Uses(p), Uses(q),
                      evicted[p] = NoProc, evicted[q] = NoProc
               PROVE  FALSE
    BY ProcsAssumption DEF AutoAlone, OwnInv
  <2>1. p \in AutoHolders /\ q \in AutoHolders
    BY DEF Uses, AutoHolders
  <2>2. QED
    BY <2>1 DEF AutoInv, HoldersLive
<1>4. QED
  BY <1>1, <1>2, <1>3, PTL DEF Spec

-----------------------------------------------------------------------------
(* The description agrees with what the processes believe                  *)

\* The exclusive holder by description d, if l holds the liveness file.
HolderAt(d, l) == IF d.exclusive /\ (d.auto => d.by # NoProc /\ l = d.by) THEN d.by ELSE NoProc

\* d names a live auto process.
Named(d) == d.exclusive /\ d.auto /\ d.by # NoProc

WellFormed(d) ==
  /\ d.exclusive => d.counter = 0
  /\ d.exclusive /\ ~d.auto => d.by \in Procs \ AutoProcs
  /\ Named(d) => d.by \in AutoProcs

Descriptions == WellFormed(file) /\ \A p \in Procs : WellFormed(desc[p])

\* Who holds the liveness file has it open; who is named as the holder of an
\* auto lock has it open, too, even if another process removed it since, or is
\* unlocking it.
LiveOpen ==
  /\ live \in Procs => live \in file_ops
  /\ Named(file) => file.by \in file_ops \/ (Inside(file.by) /\ op[file.by] = "unlockx")
  /\ \A p \in Procs : Inside(p) /\ Named(desc[p]) => desc[p].by \in file_ops

\* What p is about to be told it has.
GrantedSelf ==
  \A p \in Procs : Granted(p) =>
    /\ desc[p].exclusive /\ desc[p].by = p /\ (desc[p].auto <=> p \in AutoProcs)
    /\ live = p

SharedGranted(p) == Inside(p) /\ op[p] = "locks" /\ ret[p] = "true"

NoHolder == HolderAt(file, live) = NoProc

\* What truncate(0) of p will change.
Effect(p) ==
  /\ Granted(p) => NoHolder /\ file.counter = 0
  /\ SharedGranted(p) => NoHolder /\ ~desc[p].exclusive /\ desc[p].counter = file.counter + 1
  /\ op[p] = "unlockx" => ~desc[p].exclusive /\ desc[p].counter = file.counter
  /\ op[p] = "unlocks" => /\ NoHolder /\ ~desc[p].exclusive
                          /\ desc[p].counter \in {file.counter, file.counter - 1}
  /\ ~Granted(p) /\ ~SharedGranted(p) /\ op[p] \notin {"unlockx", "unlocks"} =>
       \/ desc[p] = file
       \/ NoHolder /\ file.counter = 0 /\ ~desc[p].exclusive /\ desc[p].counter = 0

Effects == \A p \in Procs : pc[p] = "truncate" => Effect(p)

\* A process of the command line and an auto lock exclude each other.
CommandLineLive ==
  live \in Procs \ AutoProcs =>
    /\ file.exclusive /\ file.auto => Granted(live)
    /\ \A p \in Procs : Inside(p) => ~(desc[p].exclusive /\ desc[p].auto)

\* The counter is the number of shared locks, those about to be told apart.
Counted ==
  /\ (\A p \in Procs : pc[p] # "write") => file.counter = shared
  /\ \A p \in Procs : pc[p] = "write" =>
       desc[p].counter = shared + (IF SharedGranted(p) THEN 1 ELSE 0)

\* The description names whoever believes to have the machine ...
Holding ==
  \A h \in excl :
    /\ file.exclusive /\ file.by = h
    /\ \A p \in Procs :
         /\ ~Granted(p)
         /\ pc[p] = "write" \/ (pc[p] = "truncate" /\ op[p] # "unlockx")
              => desc[p].exclusive /\ desc[p].by = h
         /\ pc[p] = "truncate" /\ op[p] = "unlockx"
              => h \notin AutoProcs /\ ~desc[p].auto /\ desc[p].by = h

\* ... and nobody else, except an auto process that has died.
Believed ==
  /\ (\A p \in Procs : pc[p] # "write") /\ file.exclusive /\ ~file.auto => file.by \in excl
  /\ \A p \in Procs : Inside(p) /\ desc[p].exclusive /\ ~desc[p].auto => desc[p].by \in excl \/ Granted(p)
  /\ live \in AutoProcs => live \in excl \/ Granted(live)

\* TypeOK without the history of OwnInv.
LockTypes ==
  /\ file \in Description
  /\ flock \in Procs \cup {NoProc}
  /\ live \in Procs \cup {NoProc, NoFile}
  /\ file_ops \subseteq Procs
  /\ pc \in [Procs -> {"idle", "truncate", "write", "exiting"}]
  /\ desc \in [Procs -> Description]
  /\ op \in [Procs -> Calls]
  /\ ret \in [Procs -> Results]
  /\ timeout \in [Procs -> NotTrying..Timeout]
  /\ excl \subseteq Procs
  /\ shared \in 0..MaxShared
  /\ lost \in BOOLEAN

LockInv ==
  /\ LockTypes /\ AutoInv
  /\ Descriptions /\ LiveOpen /\ GrantedSelf /\ Effects /\ CommandLineLive
  /\ lost => shared = 0
  /\ ~lost => Counted /\ Holding /\ Believed

-----------------------------------------------------------------------------
(* Descriptions                                                            *)

LEMMA UnlockedDescription ==
  /\ Unlocked \in Description /\ WellFormed(Unlocked)
  /\ ~Unlocked.exclusive /\ Unlocked.counter = 0 /\ ~Unlocked.auto
PROOF BY SharedAssumption DEF Unlocked, Description, WellFormed, Named

LEMMA OrphanedDescription ==
  ASSUME NEW p \in Procs, NEW d \in Description
  PROVE  /\ Orphaned(p, d) \in Description
         /\ Orphaned(p, d).exclusive = d.exclusive /\ Orphaned(p, d).counter = d.counter
         /\ Orphaned(p, d).auto = d.auto
         /\ Orphaned(p, d).by = IF d.by = p /\ d.auto THEN NoProc ELSE d.by
         /\ WellFormed(d) => WellFormed(Orphaned(p, d))
PROOF BY DEF Orphaned, Description, WellFormed, Named

LEMMA TakenDescription ==
  ASSUME NEW p \in Procs, NEW d \in Description
  PROVE  /\ Taken(p, d) \in Description
         /\ Taken(p, d).exclusive /\ Taken(p, d).counter = d.counter
         /\ Taken(p, d).auto <=> p \in AutoProcs
         /\ Taken(p, d).by = p
PROOF
<1> DEFINE a == p \in AutoProcs
           d1 == [d EXCEPT !.exclusive = TRUE]
           d2 == [d1 EXCEPT !.owner = User[p]]
           d3 == [d2 EXCEPT !.auto = a]
           d4 == [d3 EXCEPT !.by = p]
<1>1. d1 \in Description /\ d1.exclusive /\ d1.counter = d.counter
  BY DEF Description
<1> HIDE DEF d1
<1>2. d2 \in Description /\ d2.exclusive /\ d2.counter = d.counter
  BY <1>1 DEF Description
<1> HIDE DEF d2
<1>a. a \in BOOLEAN
  OBVIOUS
<1> HIDE DEF a
<1>3. d3 \in Description /\ d3.exclusive /\ d3.counter = d.counter /\ d3.auto = a
  BY <1>2, <1>a DEF Description
<1> HIDE DEF d3
<1>4. d4 \in Description /\ d4.exclusive /\ d4.counter = d.counter /\ d4.auto = a /\ d4.by = p
  BY <1>3 DEF Description
<1>5. QED
  BY <1>4 DEF Taken, a, d1, d2, d3

LEMMA ReleasedDescription ==
  ASSUME NEW d \in Description, NEW e, e = [d EXCEPT !.exclusive = FALSE, !.owner = NoProc]
  PROVE  /\ e \in Description /\ ~e.exclusive /\ e.counter = d.counter
         /\ e.auto = d.auto /\ e.by = d.by /\ WellFormed(e)
PROOF BY DEF Description, WellFormed, Named

LEMMA CountedDescription ==
  ASSUME NEW d \in Description, NEW n \in 0..MaxShared, ~d.exclusive
  PROVE  LET e == [d EXCEPT !.counter = n]
         IN  e \in Description /\ ~e.exclusive /\ e.counter = n /\ e.auto = d.auto /\ e.by = d.by /\ WellFormed(e)
PROOF BY DEF Description, WellFormed, Named

\* When a process enters, nobody is inside.
LEMMA NobodyInside ==
  ASSUME LockInv, flock = NoProc
  PROVE  \A p \in Procs : ~Inside(p) /\ pc[p] # "truncate" /\ pc[p] # "write" /\ ~Granted(p) /\ ~SharedGranted(p)
PROOF BY ProcsAssumption DEF LockInv, AutoInv, Alone, Inside, Granted, SharedGranted

\* What __enter__ reads: the description, or that of an unlocked machine instead
\* of an auto lock that nobody relies on.
LEMMA ReadFacts ==
  ASSUME LockInv, flock = NoProc, NEW p \in Procs, NEW d, d = DescriptionRead(p)
  PROVE  /\ d \in Description /\ WellFormed(d) /\ d.counter = file.counter
         /\ \/ d = file
            \/ /\ d = Unlocked /\ file.exclusive /\ file.auto /\ file.counter = 0 /\ p \notin file_ops
               /\ \A l \in {live, Probed, p} : HolderAt(file, l) = NoProc
         /\ ~d.exclusive => \A l \in {live, Probed, p} : HolderAt(file, l) = NoProc
         /\ ~lost => \A h \in excl : d = file /\ d.exclusive /\ d.by = h
PROOF
<1>1. file \in Description /\ WellFormed(file) /\ live \in Procs \cup {NoProc, NoFile}
  BY DEF LockInv, LockTypes, Descriptions
<1>2. CASE d = file
  <2>1. ~lost => \A h \in excl : file.exclusive /\ file.by = h
    BY DEF LockInv, Holding
  <2>2. QED
    BY <1>1, <1>2, <2>1 DEF HolderAt
<1>3. CASE d # file
  <2>1. d = Unlocked /\ file.exclusive /\ file.auto /\ p \notin file_ops /\ live \in {p, NoProc, NoFile}
    BY <1>3 DEF DescriptionRead, CanOpenLiveCheck
  <2>2. live \in {NoProc, NoFile} /\ file.counter = 0
    BY <1>1, <2>1 DEF LockInv, LiveOpen, WellFormed
  <2>3. Named(file) => file.by \in file_ops /\ file.by \in Procs /\ file.by # p
    <3>1. Named(file) => file.by \in Procs
      BY <1>1, ProcsAssumption DEF WellFormed
    <3>2. QED
      BY <2>1, <3>1, NobodyInside DEF LockInv, LiveOpen
  <2>4. Probed \in {NoProc, NoFile}
    BY <2>2 DEF Probed
  <2>5. \A l \in {live, Probed, p} : HolderAt(file, l) = NoProc
    BY <2>1, <2>2, <2>3, <2>4, ProcsAssumption DEF HolderAt, Named
  <2>6. ~lost => excl = {}
    <3> SUFFICES ASSUME ~lost, NEW h \in excl PROVE FALSE
      OBVIOUS
    <3>1. file.by = h /\ h \in Procs
      BY DEF LockInv, Holding, AutoInv, AutoTypes
    <3>2. h \in AutoProcs
      BY <1>1, <2>1, <3>1, ProcsAssumption DEF WellFormed, Named
    <3>3. live = h
      BY <3>2 DEF LockInv, AutoInv, HoldersLive, AutoHolders
    <3>4. QED
      BY <2>2, <3>1, <3>3, ProcsAssumption
  <2>7. QED
    BY <1>1, <2>1, <2>2, <2>5, <2>6, UnlockedDescription
<1>4. QED
  BY <1>2, <1>3

-----------------------------------------------------------------------------
(* __enter__ and the body of "with"                                        *)

\* A process enters and its body leaves description e: what e and the liveness
\* file must satisfy for the invariant.
LEMMA BodyLock ==
  ASSUME LockInv, AutoInv', NEW p \in Procs, Enter(p),
         NEW call \in Calls, NEW e \in Description, NEW r \in Results, Body(p, call, e, r),
         NEW g \in BOOLEAN, g <=> call = "lockx" /\ r = "true",
         WellFormed(e), file_ops' \subseteq Procs, excl' \subseteq excl,
         live' \in Procs => live' \in file_ops',
         Named(file) => file.by \in file_ops' \/ (file.by = p /\ call = "unlockx"),
         Named(e) => e.by \in file_ops',
         g => e.exclusive /\ e.by = p /\ (e.auto <=> p \in AutoProcs) /\ live' = p,
         live' \in Procs \ AutoProcs => (file.exclusive /\ file.auto => g /\ live' = p) /\ ~(e.exclusive /\ e.auto),
         Effect(p)',
         ~lost => /\ \A h \in excl' : /\ ~g
                                      /\ call # "unlockx" => e.exclusive /\ e.by = h
                                      /\ call = "unlockx" => h \notin AutoProcs /\ ~e.auto /\ e.by = h
                  /\ file.exclusive /\ ~file.auto => file.by \in excl'
                  /\ e.exclusive /\ ~e.auto => e.by \in excl' \/ g
                  /\ live' \in AutoProcs => live' \in excl' \/ (g /\ live' = p)
  PROVE  LockInv'
PROOF
<1>1. /\ flock = NoProc /\ flock' = p /\ pc[p] = "idle"
      /\ pc' = [pc EXCEPT ![p] = "truncate"]
      /\ desc' = [desc EXCEPT ![p] = e]
      /\ op' = [op EXCEPT ![p] = call]
      /\ ret' = [ret EXCEPT ![p] = r]
      /\ UNCHANGED <<file, timeout, shared, lost>>
  BY DEF Enter, Body
<1>2. \A q \in Procs : /\ Inside(q)' <=> q = p
                       /\ pc'[q] = "truncate" <=> q = p
                       /\ pc'[q] # "write" /\ pc[q] # "write"
  BY <1>1, NobodyInside DEF LockInv, LockTypes, Inside
<1>3. desc'[p] = e /\ op'[p] = call /\ ret'[p] = r /\ \A q \in Procs \ {p} : desc'[q] = desc[q]
  BY <1>1 DEF LockInv, LockTypes
<1>4. \A q \in Procs : Granted(q)' <=> q = p /\ g
  BY <1>2, <1>3 DEF Granted
<1>5. LockTypes'
  BY <1>1 DEF LockInv, LockTypes, AutoInv, AutoTypes, Calls, Results
<1>6. Descriptions'
  BY <1>1, <1>3 DEF LockInv, Descriptions, WellFormed, Named
<1>7. LiveOpen'
  <2>1. p \in Procs /\ (call = "unlockx" => Inside(p)' /\ op'[p] = "unlockx")
    BY <1>2, <1>3
  <2>2. QED
    BY <1>1, <1>2, <1>3, <2>1 DEF LiveOpen, Named, Inside
<1>8. GrantedSelf' /\ CommandLineLive'
  BY <1>1, <1>2, <1>3, <1>4 DEF GrantedSelf, CommandLineLive
<1>9. Effects'
  BY <1>2 DEF Effects
<1>10. lost' => shared' = 0
  BY <1>1 DEF LockInv
<1>11. ASSUME ~lost' PROVE Counted' /\ Holding' /\ Believed'
  <2>0. ~lost /\ Counted /\ Holding /\ Believed
    BY <1>1, <1>11 DEF LockInv
  <2>1. Counted'
    BY <1>1, <1>2, <2>0 DEF Counted
  <2>2. Holding'
    <3> SUFFICES ASSUME NEW h \in excl'
                 PROVE  /\ file'.exclusive /\ file'.by = h
                        /\ \A q \in Procs :
                             /\ ~Granted(q)'
                             /\ pc'[q] = "write" \/ (pc'[q] = "truncate" /\ op'[q] # "unlockx")
                                  => desc'[q].exclusive /\ desc'[q].by = h
                             /\ pc'[q] = "truncate" /\ op'[q] = "unlockx"
                                  => h \notin AutoProcs /\ ~desc'[q].auto /\ desc'[q].by = h
      BY DEF Holding
    <3>1. file'.exclusive /\ file'.by = h
      BY <1>1, <2>0 DEF Holding
    <3>2. QED
      BY <1>2, <1>3, <1>4, <2>0, <3>1
  <2>3. Believed'
    BY <1>1, <1>2, <1>3, <1>4, <2>0 DEF Believed
  <2>4. QED
    BY <2>1, <2>2, <2>3
<1>12. QED
  BY <1>5, <1>6, <1>7, <1>8, <1>9, <1>10, <1>11 DEF LockInv

\* A body that leaves the description as it was read.
LEMMA ReadBodyLock ==
  ASSUME LockInv, AutoInv', NEW p \in Procs, Enter(p),
         NEW d, d = DescriptionRead(p),
         NEW call \in Calls, NEW r \in Results, Body(p, call, d, r),
         r = "true" => call \notin {"lockx", "locks"},
         call \in {"unlockx", "unlocks"} => ~d.exclusive,
         live' \in {live, Probed}, file_ops' = file_ops,
         excl' \subseteq excl, ~lost => excl' = excl
  PROVE  LockInv'
PROOF
<1>1. /\ flock = NoProc /\ file' = file
      /\ pc' = [pc EXCEPT ![p] = "truncate"]
      /\ desc' = [desc EXCEPT ![p] = d]
      /\ op' = [op EXCEPT ![p] = call]
      /\ ret' = [ret EXCEPT ![p] = r]
  BY DEF Enter, Body
<1>2. desc'[p] = d /\ op'[p] = call /\ ret'[p] = r
  BY <1>1 DEF LockInv, LockTypes
<1>3. /\ d \in Description /\ WellFormed(d) /\ d.counter = file.counter
      /\ \/ d = file
         \/ /\ d = Unlocked /\ file.exclusive /\ file.auto /\ file.counter = 0 /\ p \notin file_ops
            /\ \A l \in {live, Probed, p} : HolderAt(file, l) = NoProc
      /\ ~d.exclusive => \A l \in {live, Probed, p} : HolderAt(file, l) = NoProc
      /\ ~lost => \A h \in excl : d = file /\ d.exclusive /\ d.by = h
  BY <1>1, ReadFacts
<1>4. \A q \in Procs : ~Inside(q) /\ ~Granted(q) /\ pc[q] # "write"
  BY <1>1, NobodyInside
<1>5. WellFormed(file) /\ file_ops \subseteq Procs /\ live \in Procs \cup {NoProc, NoFile}
  BY DEF LockInv, Descriptions, LockTypes
<1>6. live' = live \/ (live = NoFile /\ live' = NoProc)
  BY DEF Probed
<1>7. Named(file) => file.by \in file_ops
  <2>1. Named(file) => file.by \in Procs
    BY <1>5, ProcsAssumption DEF WellFormed
  <2>2. QED
    BY <1>4, <2>1 DEF LockInv, LiveOpen
<1>8. Named(d) => d.by \in file_ops
  BY <1>3, <1>7, UnlockedDescription DEF Named
<1>9. live' \in Procs => live' = live /\ live \in file_ops
  BY <1>6, ProcsAssumption DEF LockInv, LiveOpen
<1>10. live' \in Procs \ AutoProcs => ~(file.exclusive /\ file.auto) /\ ~(d.exclusive /\ d.auto)
  BY <1>3, <1>4, <1>9, UnlockedDescription DEF LockInv, CommandLineLive
<1>11. Effect(p)'
  <2>1. ~Granted(p)' /\ ~SharedGranted(p)'
    BY <1>2 DEF Granted, SharedGranted
  <2>2. ~d.exclusive => NoHolder'
    BY <1>1, <1>3 DEF NoHolder
  <2>3. d = file \/ (NoHolder' /\ file.counter = 0 /\ ~d.exclusive /\ d.counter = 0)
    BY <1>1, <1>3, UnlockedDescription DEF NoHolder
  <2>4. QED
    BY <1>1, <1>2, <1>3, <2>1, <2>2, <2>3 DEF Effect
<1>12. ASSUME ~lost
       PROVE  /\ \A h \in excl' : call # "unlockx" /\ d.exclusive /\ d.by = h
              /\ file.exclusive /\ ~file.auto => file.by \in excl'
              /\ d.exclusive /\ ~d.auto => d.by \in excl'
              /\ live' \in AutoProcs => live' \in excl'
  <2>1. Believed /\ excl' = excl
    BY <1>12 DEF LockInv
  <2>2. \A h \in excl' : call # "unlockx" /\ d.exclusive /\ d.by = h
    BY <1>3, <1>12, <2>1
  <2>3. file.exclusive /\ ~file.auto => file.by \in excl'
    BY <1>4, <2>1 DEF Believed
  <2>4. d.exclusive /\ ~d.auto => d.by \in excl'
    BY <1>3, <2>3, UnlockedDescription
  <2>5. live' \in AutoProcs => live' \in excl'
    BY <1>4, <1>9, <2>1, ProcsAssumption DEF Believed
  <2>6. QED
    BY <2>2, <2>3, <2>4, <2>5
<1>13. QED
  <2> DEFINE g == call = "lockx" /\ r = "true"
  <2>1. g \in BOOLEAN /\ ~g
    OBVIOUS
  <2>2. ~lost => /\ \A h \in excl' : /\ ~g
                                     /\ call # "unlockx" => d.exclusive /\ d.by = h
                                     /\ call = "unlockx" => h \notin AutoProcs /\ ~d.auto /\ d.by = h
                 /\ file.exclusive /\ ~file.auto => file.by \in excl'
                 /\ d.exclusive /\ ~d.auto => d.by \in excl' \/ g
                 /\ live' \in AutoProcs => live' \in excl' \/ (g /\ live' = p)
    BY <1>12, <2>1
  <2>3. live' \in Procs => live' \in file_ops'
    BY <1>9
  <2>4. Named(file) => file.by \in file_ops' \/ (file.by = p /\ call = "unlockx")
    BY <1>7
  <2>5. Named(d) => d.by \in file_ops'
    BY <1>8
  <2>6. live' \in Procs \ AutoProcs => (file.exclusive /\ file.auto => g /\ live' = p) /\ ~(d.exclusive /\ d.auto)
    BY <1>10
  <2>7. g => d.exclusive /\ d.by = p /\ (d.auto <=> p \in AutoProcs) /\ live' = p
    BY <2>1
  <2>8. file_ops' \subseteq Procs
    BY <1>5
  <2> HIDE DEF g
  <2>9. g <=> call = "lockx" /\ r = "true"
    BY DEF g
  <2>10. QED
    BY <1>3, <1>11, <2>1, <2>2, <2>3, <2>4, <2>5, <2>6, <2>7, <2>8, <2>9, BodyLock

\* NonBlockingLock takes the exclusive lock.
LEMMA GrantLock ==
  ASSUME LockInv, AutoInv', NEW p \in Procs, Enter(p),
         NEW d, d = DescriptionRead(p), ~Refused(d, TRUE), GrantExclusive(p, d), excl' = excl
  PROVE  LockInv'
PROOF
<1> DEFINE e == Taken(p, d)
<1>1. /\ flock = NoProc /\ file' = file
      /\ pc' = [pc EXCEPT ![p] = "truncate"]
      /\ desc' = [desc EXCEPT ![p] = e]
      /\ op' = [op EXCEPT ![p] = "lockx"]
      /\ ret' = [ret EXCEPT ![p] = "true"]
      /\ live \in {p, NoProc, NoFile} /\ live' = p /\ file_ops' = file_ops \cup {p}
      /\ Body(p, "lockx", e, "true")
  BY DEF Enter, Body, GrantExclusive, CanOpenLiveCheck
<1>2. /\ d \in Description /\ WellFormed(d) /\ d.counter = file.counter
      /\ \/ d = file
         \/ /\ d = Unlocked /\ file.exclusive /\ file.auto /\ file.counter = 0 /\ p \notin file_ops
            /\ \A l \in {live, Probed, p} : HolderAt(file, l) = NoProc
      /\ ~d.exclusive => \A l \in {live, Probed, p} : HolderAt(file, l) = NoProc
      /\ ~lost => \A h \in excl : d = file /\ d.exclusive /\ d.by = h
  BY <1>1, ReadFacts
<1>3. ~d.exclusive /\ d.counter = 0
  BY <1>2 DEF Refused, Description
<1>4. /\ e \in Description /\ e.exclusive /\ e.counter = 0 /\ (e.auto <=> p \in AutoProcs) /\ e.by = p
  BY <1>2, <1>3, TakenDescription
<1> HIDE DEF e
<1>5. \A q \in Procs : ~Inside(q) /\ ~Granted(q) /\ pc[q] # "write"
  BY <1>1, NobodyInside
<1>6. WellFormed(e)
  BY <1>4 DEF WellFormed, Named
<1>7. Named(file) => file.by \in file_ops
  <2>1. Named(file) => file.by \in Procs
    BY ProcsAssumption DEF WellFormed, LockInv, Descriptions
  <2>2. QED
    BY <1>5, <2>1 DEF LockInv, LiveOpen
<1>8. pc'[p] = "truncate" /\ desc'[p] = e /\ op'[p] = "lockx" /\ ret'[p] = "true"
  BY <1>1 DEF LockInv, LockTypes
<1>9. Effect(p)'
  <2>1. NoHolder' /\ file'.counter = 0
    BY <1>1, <1>2, <1>3 DEF NoHolder
  <2>2. Granted(p)' /\ ~SharedGranted(p)'
    BY <1>8 DEF Granted, SharedGranted, Inside
  <2>3. QED
    BY <1>8, <2>1, <2>2 DEF Effect
<1>10. ~lost => excl = {} /\ (file.exclusive => file.auto)
  BY <1>2, <1>3, UnlockedDescription
<1>11. live' \in Procs \ AutoProcs => ~(e.exclusive /\ e.auto)
  BY <1>1, <1>4
<1>12. "lockx" \in Calls /\ "true" \in Results /\ file_ops' \subseteq Procs
  BY <1>1 DEF Calls, Results, LockInv, LockTypes
<1>13. QED
  <2> DEFINE g == TRUE
  <2>1. ~lost => /\ \A h \in excl' : /\ ~g
                                     /\ "lockx" # "unlockx" => e.exclusive /\ e.by = h
                                     /\ "lockx" = "unlockx" => h \notin AutoProcs /\ ~e.auto /\ e.by = h
                 /\ file.exclusive /\ ~file.auto => file.by \in excl'
                 /\ e.exclusive /\ ~e.auto => e.by \in excl' \/ g
                 /\ live' \in AutoProcs => live' \in excl' \/ (g /\ live' = p)
    BY <1>1, <1>10
  <2>2. QED
    BY <1>1, <1>4, <1>6, <1>7, <1>9, <1>11, <1>12, <2>1, BodyLock

\* A shared lock is taken or given back.
LEMMA SharedBodyLock ==
  ASSUME LockInv, AutoInv', NEW p \in Procs, Enter(p),
         NEW d, d = DescriptionRead(p), ~d.exclusive,
         NEW call \in {"locks", "unlocks"}, NEW n \in 0..MaxShared,
         n = IF call = "locks" THEN d.counter + 1 ELSE d.counter - 1,
         Body(p, call, [d EXCEPT !.counter = n], "true"),
         live' \in {live, Probed}, file_ops' = file_ops, excl' = excl
  PROVE  LockInv'
PROOF
<1> DEFINE e == [d EXCEPT !.counter = n]
<1>1. /\ flock = NoProc /\ file' = file
      /\ pc' = [pc EXCEPT ![p] = "truncate"]
      /\ desc' = [desc EXCEPT ![p] = e]
      /\ op' = [op EXCEPT ![p] = call]
      /\ ret' = [ret EXCEPT ![p] = "true"]
      /\ Body(p, call, e, "true")
  BY DEF Enter, Body
<1>2. /\ d \in Description /\ WellFormed(d) /\ d.counter = file.counter
      /\ \/ d = file
         \/ /\ d = Unlocked /\ file.exclusive /\ file.auto /\ file.counter = 0 /\ p \notin file_ops
            /\ \A l \in {live, Probed, p} : HolderAt(file, l) = NoProc
      /\ ~d.exclusive => \A l \in {live, Probed, p} : HolderAt(file, l) = NoProc
      /\ ~lost => \A h \in excl : d = file /\ d.exclusive /\ d.by = h
  BY <1>1, ReadFacts
<1>3. e \in Description /\ ~e.exclusive /\ e.counter = n /\ e.auto = d.auto /\ e.by = d.by /\ WellFormed(e)
  BY <1>2, CountedDescription
<1> HIDE DEF e
<1>4. \A q \in Procs : ~Inside(q) /\ ~Granted(q) /\ pc[q] # "write"
  BY <1>1, NobodyInside
<1>5. WellFormed(file) /\ file_ops \subseteq Procs /\ live \in Procs \cup {NoProc, NoFile}
  BY DEF LockInv, Descriptions, LockTypes
<1>6. live' = live \/ (live = NoFile /\ live' = NoProc)
  BY DEF Probed
<1>7. Named(file) => file.by \in file_ops
  <2>1. Named(file) => file.by \in Procs
    BY <1>5, ProcsAssumption DEF WellFormed
  <2>2. QED
    BY <1>4, <2>1 DEF LockInv, LiveOpen
<1>8. ~Named(e)
  BY <1>3 DEF Named
<1>9. live' \in Procs => live' = live /\ live \in file_ops
  BY <1>6, ProcsAssumption DEF LockInv, LiveOpen
<1>10. live' \in Procs \ AutoProcs => ~(file.exclusive /\ file.auto)
  BY <1>4, <1>9 DEF LockInv, CommandLineLive
<1>11. Effect(p)'
  <2>1. desc'[p] = e /\ op'[p] = call /\ ret'[p] = "true"
    BY <1>1 DEF LockInv, LockTypes
  <2>2. NoHolder'
    BY <1>1, <1>2 DEF NoHolder
  <2>3. e.counter = IF call = "locks" THEN file.counter + 1 ELSE file.counter - 1
    BY <1>2, <1>3
  <2>4. ~Granted(p)' /\ (SharedGranted(p)' => call = "locks")
    BY <2>1 DEF Granted, SharedGranted
  <2>5. call = "locks" => SharedGranted(p)'
    BY <1>1, <2>1 DEF SharedGranted, Inside, LockInv, LockTypes
  <2>6. QED
    BY <1>1, <1>3, <2>1, <2>2, <2>3, <2>4, <2>5 DEF Effect
<1>12. ~lost => excl = {} /\ (file.exclusive => file.auto)
  BY <1>2, UnlockedDescription
<1>13. ~lost => (live' \in AutoProcs => live' \in excl')
  <2>1. live' \in AutoProcs => live' = live /\ live \in Procs
    BY <1>9, ProcsAssumption
  <2>2. QED
    BY <1>4, <2>1 DEF LockInv, Believed
<1>14. call \in Calls /\ "true" \in Results /\ call # "lockx"
  BY DEF Calls, Results
<1>15. QED
  <2> DEFINE g == FALSE
  <2>1. ~lost => /\ \A h \in excl' : /\ ~g
                                     /\ call # "unlockx" => e.exclusive /\ e.by = h
                                     /\ call = "unlockx" => h \notin AutoProcs /\ ~e.auto /\ e.by = h
                 /\ file.exclusive /\ ~file.auto => file.by \in excl'
                 /\ e.exclusive /\ ~e.auto => e.by \in excl' \/ g
                 /\ live' \in AutoProcs => live' \in excl' \/ (g /\ live' = p)
    BY <1>3, <1>12, <1>13
  <2>2. file_ops' \subseteq Procs /\ (live' \in Procs => live' \in file_ops')
    BY <1>5, <1>9
  <2>3. live' \in Procs \ AutoProcs => (file.exclusive /\ file.auto => g /\ live' = p) /\ ~(e.exclusive /\ e.auto)
    BY <1>3, <1>10
  <2>4. QED
    BY <1>1, <1>3, <1>7, <1>8, <1>11, <1>14, <2>1, <2>2, <2>3, BodyLock

\* Unlock gives an exclusive lock up.
LEMMA ReleaseLock ==
  ASSUME LockInv, AutoInv', NEW p \in Procs, Enter(p),
         NEW d, d = DescriptionRead(p), d.exclusive, d.auto = (p \in AutoProcs),
         ReleaseExclusive(p, d)
  PROVE  LockInv'
PROOF
<1> DEFINE e == [d EXCEPT !.exclusive = FALSE, !.owner = NoProc]
           r == IF p \in AutoProcs /\ live = NoFile THEN "raised" ELSE "true"
<1>0. Body(p, "unlockx", e, r)
  BY DEF ReleaseExclusive
<1>1. /\ flock = NoProc /\ file' = file
      /\ pc' = [pc EXCEPT ![p] = "truncate"]
      /\ desc' = [desc EXCEPT ![p] = e]
      /\ op' = [op EXCEPT ![p] = "unlockx"]
      /\ ret' = [ret EXCEPT ![p] = r]
      /\ Body(p, "unlockx", e, r)
  BY <1>0 DEF Enter, Body
<1>2. d \in Description /\ WellFormed(d) /\ d.counter = file.counter /\ d = file
  BY <1>1, ReadFacts, UnlockedDescription
<1>e. e = [d EXCEPT !.exclusive = FALSE, !.owner = NoProc] /\ d \in Description
  BY <1>2
<1> HIDE DEF e
<1>3. e \in Description /\ ~e.exclusive /\ e.counter = d.counter /\ e.auto = d.auto /\ e.by = d.by /\ WellFormed(e)
  BY <1>e, ReleasedDescription, Zenon
<1>4. \A q \in Procs : ~Inside(q) /\ ~Granted(q) /\ pc[q] # "write"
  BY <1>1, NobodyInside
<1>5. ~Named(e)
  BY <1>3 DEF Named
<1>6. Named(file) => file.by \in file_ops
  <2>1. Named(file) => file.by \in Procs
    BY ProcsAssumption DEF WellFormed, LockInv, Descriptions
  <2>2. QED
    BY <1>4, <2>1 DEF LockInv, LiveOpen
<1>7. Effect(p)'
  <2>1. desc'[p] = e /\ op'[p] = "unlockx" /\ ~Granted(p)' /\ ~SharedGranted(p)'
    BY <1>1 DEF LockInv, LockTypes, Granted, SharedGranted
  <2>2. QED
    BY <1>1, <1>2, <1>3, <2>1 DEF Effect
<1>8. "unlockx" \in Calls /\ r \in Results
  BY DEF Calls, Results
<1>9. /\ file_ops' \subseteq Procs
      /\ live' \in Procs => live' \in file_ops'
      /\ Named(file) => file.by \in file_ops' \/ file.by = p
      /\ live' \in Procs \ AutoProcs => ~(file.exclusive /\ file.auto)
      /\ excl' \subseteq excl
      /\ ~lost => /\ \A h \in excl' : h \notin AutoProcs /\ ~d.auto /\ d.by = h
                  /\ file.exclusive /\ ~file.auto => file.by \in excl'
                  /\ live' \in AutoProcs => live' \in excl'
  <2>1. ~lost => \A h \in excl : d.by = h
    BY <1>1, ReadFacts
  <2>2. file_ops \subseteq Procs
    BY DEF LockInv, LockTypes
  <2>3. CASE p \in AutoProcs
    <3>1. live' = NoFile /\ excl' = excl \ {p, d.by} /\ file_ops' = file_ops \ {p}
      BY <2>3 DEF ReleaseExclusive
    <3>2. ~lost => excl' = {}
      BY <2>1, <3>1
    <3>3. NoFile \notin Procs /\ NoFile \notin AutoProcs /\ file.auto
      BY <1>2, <2>3, ProcsAssumption
    <3>4. QED
      BY <1>6, <2>2, <3>1, <3>2, <3>3
  <2>4. CASE p \notin AutoProcs
    <3>1. UNCHANGED <<live, file_ops, excl>> /\ ~d.auto
      BY <1>2, <2>4 DEF ReleaseExclusive, Description
    <3>2. d.by \notin AutoProcs
      BY <1>2, <3>1 DEF WellFormed
    <3>3. ~lost => (live \in AutoProcs => live \in excl) /\ (file.exclusive /\ ~file.auto => file.by \in excl)
      BY <1>4, ProcsAssumption DEF LockInv, Believed
    <3>4. QED
      BY <1>2, <1>6, <2>1, <2>2, <3>1, <3>2, <3>3 DEF LockInv, LiveOpen
  <2>5. QED
    BY <2>3, <2>4
<1>10. QED
  <2> DEFINE g == FALSE
  <2>1. ~lost => /\ \A h \in excl' : /\ ~g
                                     /\ "unlockx" # "unlockx" => e.exclusive /\ e.by = h
                                     /\ "unlockx" = "unlockx" => h \notin AutoProcs /\ ~e.auto /\ e.by = h
                 /\ file.exclusive /\ ~file.auto => file.by \in excl'
                 /\ e.exclusive /\ ~e.auto => e.by \in excl' \/ g
                 /\ live' \in AutoProcs => live' \in excl' \/ (g /\ live' = p)
    BY <1>3, <1>9
  <2>2. live' \in Procs \ AutoProcs => (file.exclusive /\ file.auto => g /\ live' = p) /\ ~(e.exclusive /\ e.auto)
    BY <1>3, <1>9
  <2>3. Named(file) => file.by \in file_ops' \/ (file.by = p /\ "unlockx" = "unlockx")
    BY <1>9
  <2> HIDE DEF r
  <2>4. QED
    BY <1>1, <1>3, <1>5, <1>7, <1>8, <1>9, <2>1, <2>2, <2>3, BodyLock

LEMMA LockOperation ==
  ASSUME LockInv, NEW p \in Procs, NEW exclusive \in BOOLEAN, NonBlockingLock(p, exclusive)
  PROVE  LockInv'
PROOF
<1> DEFINE d == DescriptionRead(p)
           call == IF exclusive THEN "lockx" ELSE "locks"
<1>1. AutoInv'
  BY LockAuto DEF LockInv
<1>2. Enter(p) /\ excl' = excl
  BY DEF NonBlockingLock
<1>3. call \in Calls /\ "false" \in Results /\ "raised" \in Results
  BY DEF Calls, Results
<1>4. CASE Refused(d, exclusive) /\ Body(p, call, d, "false") /\ UNCHANGED <<live, file_ops>>
  <2>1. call \notin {"unlockx", "unlocks"} /\ live' \in {live, Probed} /\ file_ops' = file_ops
    BY <1>4
  <2>2. QED
    BY <1>1, <1>2, <1>3, <1>4, <2>1, ReadBodyLock
<1>5. CASE ~Refused(d, exclusive) /\ exclusive /\ GrantExclusive(p, d)
  BY <1>1, <1>2, <1>5, GrantLock
<1>6. CASE Body(p, call, d, "raised") /\ UNCHANGED <<live, file_ops>>
  <2>1. call \notin {"unlockx", "unlocks"} /\ live' \in {live, Probed} /\ file_ops' = file_ops
    BY <1>6
  <2>2. QED
    BY <1>1, <1>2, <1>3, <1>6, <2>1, ReadBodyLock
<1>7. CASE /\ ~Refused(d, exclusive) /\ ~exclusive /\ d.counter < MaxShared
           /\ live' = (IF d = file THEN live ELSE Probed)
           /\ Body(p, call, [d EXCEPT !.counter = @ + 1], "true")
           /\ UNCHANGED file_ops
  <2>1. d \in Description /\ ~d.exclusive
    BY <1>2, <1>7, ReadFacts DEF Enter, Refused
  <2>2. d.counter + 1 \in 0..MaxShared
    BY <1>7, <2>1, SharedAssumption DEF Description
  <2>3. call = "locks" /\ live' \in {live, Probed}
    BY <1>7
  <2>4. Body(p, "locks", [d EXCEPT !.counter = d.counter + 1], "true")
    BY <1>7, <2>3
  <2>5. QED
    BY <1>1, <1>2, <1>7, <2>1, <2>2, <2>3, <2>4, SharedBodyLock
<1>8. QED
  BY <1>4, <1>5, <1>6, <1>7 DEF NonBlockingLock

LEMMA UnlockOperation ==
  ASSUME LockInv, NEW p \in Procs, NEW exclusive \in BOOLEAN, NEW force \in BOOLEAN,
         Unlock(p, exclusive, force)
  PROVE  LockInv'
PROOF
<1> DEFINE d == DescriptionRead(p)
           call == IF exclusive THEN "unlockx" ELSE "unlocks"
           mismatch == \/ d.exclusive # exclusive
                       \/ NotMine(p, d, force)
                       \/ d.exclusive /\ d.auto # (p \in AutoProcs)
<1>1. AutoInv'
  BY UnlockAuto DEF LockInv
<1>2. Enter(p) /\ flock = NoProc
  BY DEF Unlock, Enter
<1>3. d \in Description /\ ~lost => \A h \in excl : d.exclusive
  BY <1>2, ReadFacts
<1>4. d \in Description
  BY <1>2, ReadFacts
<1>5. CASE /\ ~IsLocked(d) \/ mismatch
           /\ Body(p, IF IsLocked(d) THEN "none" ELSE call, d, IF IsLocked(d) THEN "false" ELSE "true")
           /\ live' = (IF d = file THEN live ELSE Probed)
           /\ excl' = (IF exclusive /\ ~IsLocked(d) THEN excl \ {p} ELSE excl)
           /\ UNCHANGED file_ops
  <2>1. excl' \subseteq excl /\ live' \in {live, Probed}
    BY <1>5
  <2>2. ~lost => excl' = excl
    BY <1>3, <1>4, <1>5 DEF IsLocked
  <2>3. "none" \in Calls /\ call \in Calls /\ "false" \in Results /\ "true" \in Results
    BY DEF Calls, Results
  <2>4. CASE IsLocked(d)
    <3>1. Body(p, "none", d, "false")
      BY <1>5, <2>4
    <3>2. QED
      BY <1>1, <1>2, <1>5, <2>1, <2>2, <2>3, <3>1, ReadBodyLock
  <2>5. CASE ~IsLocked(d)
    <3>1. Body(p, call, d, "true") /\ ~d.exclusive /\ call \notin {"lockx", "locks"}
      BY <1>5, <2>5 DEF IsLocked
    <3>2. QED
      BY <1>1, <1>2, <1>5, <2>1, <2>2, <2>3, <3>1, ReadBodyLock
  <2>6. QED
    BY <2>4, <2>5
<1>6. CASE IsLocked(d) /\ ~mismatch /\ exclusive /\ ReleaseExclusive(p, d)
  <2>1. d.exclusive /\ d.auto = (p \in AutoProcs)
    BY <1>4, <1>6 DEF Description
  <2>2. QED
    BY <1>1, <1>2, <1>6, <2>1, ReleaseLock
<1>7. CASE /\ IsLocked(d) /\ ~mismatch /\ ~exclusive
           /\ Body(p, call, [d EXCEPT !.counter = @ - 1], "true")
           /\ UNCHANGED <<live, file_ops, excl>>
  <2>1. ~d.exclusive /\ d.counter > 0
    BY <1>4, <1>7 DEF IsLocked, Description
  <2>2. d.counter - 1 \in 0..MaxShared
    BY <1>4, <2>1, SharedAssumption DEF Description
  <2>3. call = "unlocks" /\ live' \in {live, Probed}
    BY <1>7
  <2>4. Body(p, "unlocks", [d EXCEPT !.counter = d.counter - 1], "true")
    BY <1>7, <2>3
  <2>5. QED
    BY <1>1, <1>2, <1>7, <2>1, <2>2, <2>3, <2>4, SharedBodyLock
<1>8. QED
  BY <1>5, <1>6, <1>7 DEF Unlock

LEMMA ListOperation ==
  ASSUME LockInv, NEW p \in Procs, ListLock(p)
  PROVE  LockInv'
PROOF
<1> DEFINE d == DescriptionRead(p)
<1>1. AutoInv'
  BY ListAuto DEF LockInv
<1>2. Enter(p) /\ Body(p, "list", d, "true") /\ live' \in {live, Probed} /\ UNCHANGED <<file_ops, excl>>
  BY DEF ListLock
<1>3. "list" \in Calls /\ "true" \in Results
  BY DEF Calls, Results
<1>4. QED
  BY <1>1, <1>2, <1>3, ReadBodyLock

LEMMA TryLockOperation ==
  ASSUME LockInv, NEW p \in Procs, TryLock(p)
  PROVE  LockInv'
PROOF
<1>1. /\ timeout' = [timeout EXCEPT ![p] = Timeout]
      /\ UNCHANGED <<file, flock, live, file_ops, pc, desc, op, ret, history>>
  BY DEF TryLock
<1>2. AutoInv'
  BY <1>1 DEF LockInv, history, AutoInv, AutoTypes, Alone, HoldersLive, WriterAgrees, GrantedLive,
     AutoHolders, Inside, Granted, Names
<1>3. LockTypes'
  BY <1>1, TimeoutAssumption DEF LockInv, LockTypes, NotTrying, history
<1>4. /\ Descriptions' /\ LiveOpen' /\ GrantedSelf' /\ CommandLineLive'
  BY <1>1 DEF LockInv, history, Descriptions, LiveOpen, GrantedSelf, CommandLineLive, Inside, Granted, Named, WellFormed
<1>5. Effects'
  BY <1>1 DEF LockInv, Effects, Effect, NoHolder, SharedGranted, Granted, Inside, HolderAt
<1>6. ~lost' => Counted' /\ Holding' /\ Believed'
  BY <1>1 DEF LockInv, history, Counted, Holding, Believed, SharedGranted, Granted, Inside
<1>7. QED
  BY <1>1, <1>2, <1>3, <1>4, <1>5, <1>6 DEF LockInv, history

-----------------------------------------------------------------------------
(* __exit__                                                                *)

LEMMA TruncateOperation ==
  ASSUME LockInv, NEW p \in Procs, Truncate(p)
  PROVE  LockInv'
PROOF
<1>1. /\ pc[p] = "truncate" /\ pc' = [pc EXCEPT ![p] = "write"]
      /\ excl' = IF op[p] = "unlockx" THEN excl \ {p, desc[p].by} ELSE excl
      /\ shared' = IF ~lost /\ op[p] = "unlocks" /\ file.counter > desc[p].counter THEN shared - 1 ELSE shared
      /\ UNCHANGED <<file, flock, live, file_ops, desc, op, ret, timeout, lost>>
  BY DEF Truncate
<1>2. AutoInv'
  BY TruncateAuto DEF LockInv
<1>3. /\ \A q \in Procs : Inside(q)' <=> Inside(q)
      /\ \A q \in Procs : Granted(q)' <=> Granted(q)
      /\ \A q \in Procs : SharedGranted(q)' <=> SharedGranted(q)
  BY <1>1 DEF LockInv, LockTypes, Inside, Granted, SharedGranted
<1>4. \A q \in Procs : /\ Inside(q) <=> q = p
                       /\ pc[q] # "write" /\ (pc[q] = "truncate" <=> q = p)
                       /\ pc'[q] = "write" <=> q = p
                       /\ pc'[q] # "truncate"
  BY <1>1, ProcsAssumption DEF LockInv, LockTypes, AutoInv, Alone, Inside
<1>5. Effect(p) /\ file \in Description /\ desc[p] \in Description
  BY <1>4 DEF LockInv, Effects, LockTypes
<1>6. ~lost => Counted /\ Holding /\ Believed /\ file.counter = shared
  BY <1>4 DEF LockInv, Counted
<1>7. shared' \in 0..MaxShared
  <2>1. CASE ~lost /\ op[p] = "unlocks" /\ file.counter > desc[p].counter
    <3>1. file.counter \in 0..MaxShared /\ desc[p].counter \in 0..MaxShared /\ file.counter = shared
      BY <1>5, <1>6, <2>1 DEF Description
    <3>2. shared' = shared - 1
      BY <1>1, <2>1
    <3>3. QED
      BY <2>1, <3>1, <3>2, SharedAssumption
  <2>2. CASE ~(~lost /\ op[p] = "unlocks" /\ file.counter > desc[p].counter)
    BY <1>1, <2>2 DEF LockInv, LockTypes
  <2>3. QED
    BY <2>1, <2>2
<1>8. LockTypes'
  BY <1>1, <1>7 DEF LockInv, LockTypes
<1>9. Descriptions' /\ LiveOpen' /\ GrantedSelf' /\ Effects'
  <2>1. Descriptions'
    BY <1>1 DEF LockInv, Descriptions, WellFormed, Named
  <2>2. LiveOpen'
    <3>1. Named(file) => file.by \in file_ops \/ (Inside(file.by)' /\ op[file.by] = "unlockx")
      <4>1. Named(file) => file.by \in Procs
        BY ProcsAssumption DEF LockInv, Descriptions, WellFormed
      <4>2. QED
        BY <1>1, <4>1 DEF LockInv, LockTypes, LiveOpen, Inside
    <3>2. QED
      BY <1>1, <1>3, <3>1 DEF LockInv, LiveOpen, Named, Inside
  <2>3. GrantedSelf'
    BY <1>1, <1>3 DEF LockInv, GrantedSelf
  <2>4. Effects'
    BY <1>4 DEF Effects
  <2>5. QED
    BY <2>1, <2>2, <2>3, <2>4
<1>10. CommandLineLive'
  <2>1. live \in Procs => (Granted(live)' <=> Granted(live))
    BY <1>1 DEF Granted, Inside, LockInv, LockTypes
  <2>2. \A q \in Procs : Inside(q)' /\ desc'[q].exclusive /\ desc'[q].auto => Inside(q) /\ desc[q].exclusive /\ desc[q].auto
    BY <1>1, <1>3
  <2>3. QED
    BY <1>1, <2>1, <2>2 DEF LockInv, CommandLineLive
<1>11. lost' => shared' = 0
  BY <1>1 DEF LockInv
<1>12. ASSUME ~lost' PROVE Counted' /\ Holding' /\ Believed'
  <2>0. ~lost
    BY <1>1, <1>12
  <2>1. Counted'
    <3>1. desc[p].counter = shared' + (IF SharedGranted(p) THEN 1 ELSE 0)
      <4>1. file.counter = shared /\ shared \in Nat /\ desc[p].counter \in Nat
        BY <1>5, <1>6, <2>0 DEF LockInv, LockTypes, Description
      <4>2. Granted(p) => desc[p].counter = 0 /\ ~SharedGranted(p)
        BY DEF LockInv, GrantedSelf, Descriptions, WellFormed, Granted, SharedGranted
      <4>3. CASE op[p] = "unlocks"
        <5>1. ~SharedGranted(p)
          BY <4>3 DEF SharedGranted
        <5>2. QED
          BY <1>1, <1>5, <2>0, <4>1, <4>3, <5>1 DEF Effect
      <4>4. CASE op[p] # "unlocks"
        BY <1>1, <1>5, <2>0, <4>1, <4>2, <4>4 DEF Effect
      <4>5. QED
        BY <4>3, <4>4
    <3>2. QED
      BY <1>1, <1>3, <1>4, <3>1 DEF Counted
  <2>2. op[p] = "unlockx" => excl' = {}
    BY <1>1, <1>6, <2>0 DEF Holding
  <2>3. Holding'
    BY <1>1, <1>3, <1>4, <1>6, <2>0, <2>2 DEF Holding
  <2>4. Believed'
    <3>1. op[p] = "unlockx" => ~desc[p].exclusive /\ ~Granted(p)
      BY <1>5 DEF Effect, Granted
    <3>2. live \in AutoProcs => live \in excl' \/ Granted(live)'
      <4>1. live \in AutoProcs => live \in excl \/ Granted(live)
        BY <1>6, <2>0 DEF Believed
      <4>2. op[p] = "unlockx" => \A h \in excl : h \notin AutoProcs
        BY <1>1, <1>6, <2>0 DEF Holding
      <4>3. live \in AutoProcs => (Granted(live)' <=> Granted(live))
        BY <1>1, <1>3, ProcsAssumption DEF Granted, Inside
      <4>4. QED
        BY <1>1, <4>1, <4>2, <4>3
    <3>3. Inside(p) /\ desc[p].exclusive /\ ~desc[p].auto => desc[p].by \in excl' \/ Granted(p)'
      BY <1>1, <1>3, <1>6, <2>0, <3>1 DEF Believed
    <3>4. QED
      BY <1>1, <1>3, <1>4, <3>2, <3>3 DEF Believed, Granted, Inside
  <2>5. QED
    BY <2>1, <2>3, <2>4
<1>13. QED
  BY <1>2, <1>8, <1>9, <1>10, <1>11, <1>12 DEF LockInv

LEMMA SliceLemma == \A t \in 0..Timeout : t - Timeout \div Slices \in NotTrying..Timeout
PROOF
<1>1. Timeout \div Slices \in 0..Timeout
  <2> DEFINE q == Timeout \div Slices
  <2>1. q \in Int /\ Slices * q <= Timeout /\ Timeout < Slices * (q + 1)
    BY TimeoutAssumption
  <2>2. q >= 0 /\ q <= Timeout
    BY <2>1, TimeoutAssumption
  <2>3. QED
    BY <2>1, <2>2
<1> HIDE DEF NotTrying
<1>2. QED
  BY <1>1, TimeoutAssumption DEF NotTrying

LEMMA WriteCloseOperation ==
  ASSUME LockInv, NEW p \in Procs, WriteClose(p)
  PROVE  LockInv'
PROOF
<1>1. /\ pc[p] = "write" /\ pc' = [pc EXCEPT ![p] = IF p \in AutoProcs THEN "idle" ELSE "exiting"]
      /\ file' = desc[p]
      /\ flock' = IF flock = p THEN NoProc ELSE flock
      /\ timeout' = [timeout EXCEPT ![p] = TimeLeft(p)]
      /\ excl' = IF op[p] = "lockx" /\ ret[p] = "true" THEN excl \cup {p} ELSE excl
      /\ shared' = IF ~lost /\ op[p] = "locks" /\ ret[p] = "true" THEN shared + 1 ELSE shared
      /\ op' = [op EXCEPT ![p] = "none"]
      /\ desc' = [desc EXCEPT ![p] = Unlocked]
      /\ ret' = [ret EXCEPT ![p] = "true"]
      /\ UNCHANGED <<live, file_ops, lost>>
  BY DEF WriteClose
<1>2. AutoInv'
  BY WriteCloseAuto DEF LockInv
<1>3. \A q \in Procs : ~Inside(q)' /\ pc'[q] # "truncate" /\ pc'[q] # "write"
  BY <1>1, ProcsAssumption DEF LockInv, LockTypes, AutoInv, Alone, Inside
<1>4. \A q \in Procs : ~Granted(q)' /\ ~SharedGranted(q)'
  BY <1>3 DEF Granted, SharedGranted
<1>5. /\ Inside(p)
      /\ Granted(p) <=> op[p] = "lockx" /\ ret[p] = "true"
      /\ SharedGranted(p) <=> op[p] = "locks" /\ ret[p] = "true"
  BY <1>1 DEF Inside, Granted, SharedGranted
<1>6. /\ desc[p] \in Description /\ shared \in 0..MaxShared
      /\ ~lost => desc[p].counter = shared + (IF SharedGranted(p) THEN 1 ELSE 0)
  BY <1>1 DEF LockInv, LockTypes, Counted
<1>7. ~lost => shared' = desc[p].counter
  BY <1>1, <1>5, <1>6
<1>8. LockTypes'
  <2>1. shared' \in 0..MaxShared
    BY <1>1, <1>6, <1>7 DEF Description
  <2>2. TimeLeft(p) \in NotTrying..Timeout
    <3>1. timeout[p] \in NotTrying..Timeout /\ NotTrying \in NotTrying..Timeout
      BY TimeoutAssumption DEF LockInv, LockTypes, NotTrying
    <3>2. timeout[p] # NotTrying /\ ~(timeout[p] < 0) => timeout[p] \in 0..Timeout
      BY <3>1, TimeoutAssumption DEF NotTrying
    <3> HIDE DEF NotTrying
    <3>3. QED
      BY <3>1, <3>2, SliceLemma DEF TimeLeft
  <2>3. /\ file' \in Description /\ flock' \in Procs \cup {NoProc} /\ live' \in Procs \cup {NoProc, NoFile}
        /\ file_ops' \subseteq Procs
        /\ pc' \in [Procs -> {"idle", "truncate", "write", "exiting"}]
        /\ op' \in [Procs -> {"none", "lockx", "locks", "unlockx", "unlocks", "list"}]
        /\ ret' \in [Procs -> {"true", "false", "raised"}]
        /\ excl' \subseteq Procs /\ lost' \in BOOLEAN
    BY <1>1, <1>6 DEF LockInv, LockTypes, Calls, Results
  <2>4. desc' \in [Procs -> Description]
    BY <1>1, UnlockedDescription DEF LockInv, LockTypes
  <2>5. timeout' \in [Procs -> NotTrying..Timeout]
    BY <1>1, <2>2 DEF LockInv, LockTypes
  <2>6. QED
    BY <2>1, <2>3, <2>4, <2>5 DEF LockTypes, Calls, Results
<1>9. Descriptions'
  BY <1>1, UnlockedDescription DEF LockInv, LockTypes, Descriptions, WellFormed, Named
<1>10. LiveOpen'
  <2>1. Named(desc[p]) => desc[p].by \in file_ops
    BY <1>5 DEF LockInv, LiveOpen
  <2>2. QED
    BY <1>1, <1>3, <2>1 DEF LockInv, LiveOpen, Named
<1>11. GrantedSelf' /\ Effects'
  BY <1>3, <1>4 DEF GrantedSelf, Effects
<1>12. CommandLineLive'
  BY <1>1, <1>3, <1>5 DEF LockInv, CommandLineLive
<1>13. lost' => shared' = 0
  BY <1>1 DEF LockInv
<1>14. ASSUME ~lost' PROVE Counted' /\ Holding' /\ Believed'
  <2>0. ~lost /\ Holding /\ Believed
    BY <1>1, <1>14 DEF LockInv
  <2>1. Counted'
    BY <1>1, <1>3, <1>7, <2>0 DEF Counted
  <2>2. ASSUME NEW h \in excl' PROVE desc[p].exclusive /\ desc[p].by = h
    <3>1. CASE h \in excl
      BY <1>1, <2>0, <3>1 DEF Holding
    <3>2. CASE h \notin excl
      BY <1>1, <1>5, <2>2, <3>2 DEF LockInv, GrantedSelf
    <3>3. QED
      BY <3>1, <3>2
  <2>3. Holding'
    BY <1>1, <1>3, <1>4, <2>2 DEF Holding
  <2>4. desc[p].exclusive /\ ~desc[p].auto => desc[p].by \in excl'
    BY <1>1, <1>5, <2>0 DEF Believed, LockInv, GrantedSelf
  <2>5. live \in AutoProcs => live \in excl'
    <3>1. live \in AutoProcs => live \in excl \/ Granted(live)
      BY <2>0 DEF Believed
    <3>2. live \in AutoProcs /\ Granted(live) => live = p
      BY <1>5, ProcsAssumption DEF LockInv, AutoInv, Alone, Granted
    <3>3. QED
      BY <1>1, <1>5, <3>1, <3>2
  <2>6. Believed'
    BY <1>1, <1>3, <2>4, <2>5 DEF Believed
  <2>7. QED
    BY <2>1, <2>3, <2>6
<1>15. QED
  BY <1>2, <1>8, <1>9, <1>10, <1>11, <1>12, <1>13, <1>14 DEF LockInv

-----------------------------------------------------------------------------
(* A process dies                                                          *)

LEMMA DieOperation ==
  ASSUME LockInv, NEW p \in Procs, Die(p)
  PROVE  LockInv'
PROOF
<1>1. /\ file' = IF pc[p] = "write" THEN Unlocked ELSE Orphaned(p, file)
      /\ lost' = (lost \/ (pc[p] = "write" /\ Held(desc[p])))
      /\ flock' = IF flock = p THEN NoProc ELSE flock
      /\ live' = IF live = p THEN NoProc ELSE live
      /\ file_ops' = file_ops \ {p}
      /\ pc' = [pc EXCEPT ![p] = "idle"]
      /\ desc' = [q \in Procs |-> IF q = p THEN Unlocked ELSE Orphaned(p, desc[q])]
      /\ op' = [op EXCEPT ![p] = "none"]
      /\ timeout' = [timeout EXCEPT ![p] = NotTrying]
      /\ excl' = excl \ ({p} \cap AutoProcs)
      /\ shared' = IF lost' THEN 0 ELSE shared
      /\ ret' = [ret EXCEPT ![p] = "true"]
  BY DEF Die
<1>2. AutoInv'
  BY DieAuto DEF LockInv
<1>3. \A q \in Procs : /\ Inside(q)' <=> q # p /\ Inside(q)
                       /\ pc'[q] = "write" <=> q # p /\ pc[q] = "write"
                       /\ pc'[q] = "truncate" <=> q # p /\ pc[q] = "truncate"
                       /\ Granted(q)' <=> q # p /\ Granted(q)
                       /\ SharedGranted(q)' <=> q # p /\ SharedGranted(q)
                       /\ q # p => op'[q] = op[q] /\ ret'[q] = ret[q]
  BY <1>1 DEF LockInv, LockTypes, Inside, Granted, SharedGranted
<1>4. ASSUME NEW q \in Procs \ {p}
      PROVE  /\ desc'[q] = Orphaned(p, desc[q])
             /\ desc[q] \in Description /\ desc'[q] \in Description
             /\ desc'[q].exclusive = desc[q].exclusive /\ desc'[q].counter = desc[q].counter
             /\ desc'[q].auto = desc[q].auto
             /\ desc'[q].by = IF desc[q].by = p /\ desc[q].auto THEN NoProc ELSE desc[q].by
             /\ WellFormed(desc[q]) /\ WellFormed(desc'[q])
  <2>1. desc'[q] = Orphaned(p, desc[q]) /\ desc[q] \in Description /\ WellFormed(desc[q])
    BY <1>1 DEF LockInv, LockTypes, Descriptions
  <2>2. QED
    BY <2>1, OrphanedDescription
<1>5. pc[p] # "write" =>
        /\ file' = Orphaned(p, file)
        /\ file'.exclusive = file.exclusive /\ file'.counter = file.counter
        /\ file'.auto = file.auto
        /\ file'.by = IF file.by = p /\ file.auto THEN NoProc ELSE file.by
  BY <1>1, OrphanedDescription DEF LockInv, LockTypes
<1>6. file \in Description /\ WellFormed(file) /\ file' \in Description /\ WellFormed(file')
  BY <1>1, OrphanedDescription, UnlockedDescription DEF LockInv, LockTypes, Descriptions
<1>7. desc'[p] = Unlocked
  BY <1>1
<1>8. pc[p] = "write" => /\ file' = Unlocked /\ \A q \in Procs : ~Inside(q)' /\ pc'[q] # "write" /\ pc'[q] # "truncate"
  BY <1>1, <1>3, ProcsAssumption DEF LockInv, LockTypes, AutoInv, Alone, Inside
<1>9. /\ live' \in Procs => live' = live /\ live # p
      /\ \A q \in Procs \ {p} : live = q => live' = q
  BY <1>1, ProcsAssumption
<1>10. LockTypes'
  <2>1. desc' \in [Procs -> Description]
    BY <1>1, <1>4, UnlockedDescription
  <2>2. timeout' \in [Procs -> NotTrying..Timeout]
    <3>1. NotTrying \in NotTrying..Timeout
      BY TimeoutAssumption DEF NotTrying
    <3>2. QED
      BY <1>1, <3>1 DEF LockInv, LockTypes
  <2>3. shared' \in 0..MaxShared /\ lost' \in BOOLEAN
    BY <1>1, SharedAssumption DEF LockInv, LockTypes
  <2>4. QED
    BY <1>1, <1>6, <2>1, <2>2, <2>3 DEF LockInv, LockTypes, Calls, Results
<1>11. Descriptions'
  <2>1. ASSUME NEW q \in Procs PROVE WellFormed(desc'[q])
    <3>1. CASE q = p
      BY <1>7, <3>1, UnlockedDescription
    <3>2. CASE q # p
      BY <1>4, <3>2
    <3>3. QED
      BY <3>1, <3>2
  <2>2. QED
    BY <1>6, <2>1 DEF Descriptions, WellFormed, Named
<1>12. LiveOpen'
  <2>1. live' \in Procs => live' \in file_ops'
    BY <1>1, <1>9 DEF LockInv, LiveOpen
  <2>2. ASSUME Named(file') PROVE file'.by \in file_ops' \/ (Inside(file.by)' /\ op'[file'.by] = "unlockx")
    <3>1. pc[p] # "write"
      BY <1>8, <2>2, UnlockedDescription DEF Named
    <3>2. Named(file) /\ file'.by = file.by /\ file.by # p
      BY <1>5, <2>2, <3>1 DEF Named
    <3>3. file.by \in Procs
      BY <1>6, <3>2, ProcsAssumption DEF WellFormed
    <3>4. file.by \in file_ops \/ (Inside(file.by) /\ op[file.by] = "unlockx")
      BY <3>2 DEF LockInv, LiveOpen
    <3>5. CASE file.by \in file_ops
      BY <1>1, <3>2, <3>5
    <3>6. CASE Inside(file.by) /\ op[file.by] = "unlockx"
      <4> DEFINE b == file.by
      <4>1. b \in Procs \ {p} /\ Inside(b) /\ op[b] = "unlockx"
        BY <3>2, <3>3, <3>6
      <4>2. pc'[b] = pc[b] /\ op'[b] = op[b]
        BY <1>1, <4>1 DEF LockInv, LockTypes
      <4>3. QED
        BY <3>2, <4>1, <4>2 DEF Inside
    <3>7. QED
      BY <3>4, <3>5, <3>6
  <2>3. ASSUME NEW q \in Procs, Inside(q)', Named(desc'[q]) PROVE desc'[q].by \in file_ops'
    <3>1. q # p /\ Inside(q)
      BY <1>3, <2>3
    <3>2. Named(desc[q]) /\ desc'[q].by = desc[q].by /\ desc[q].by # p
      BY <1>4, <2>3, <3>1 DEF Named
    <3>3. QED
      BY <1>1, <3>1, <3>2 DEF LockInv, LiveOpen
  <2>4. QED
    BY <2>1, <2>2, <2>3 DEF LiveOpen, Named
<1>13. GrantedSelf'
  <2> SUFFICES ASSUME NEW q \in Procs, Granted(q)'
               PROVE  desc'[q].exclusive /\ desc'[q].by = q /\ (desc'[q].auto <=> q \in AutoProcs) /\ live' = q
    BY DEF GrantedSelf
  <2>1. q # p /\ Granted(q)
    BY <1>3
  <2>2. desc[q].exclusive /\ desc[q].by = q /\ (desc[q].auto <=> q \in AutoProcs) /\ live = q
    BY <2>1 DEF LockInv, GrantedSelf
  <2>3. QED
    BY <1>4, <1>9, <2>1, <2>2
<1>14. Effects'
  <2> SUFFICES ASSUME NEW q \in Procs, pc'[q] = "truncate" PROVE Effect(q)'
    BY DEF Effects
  <2>1. q # p /\ pc[q] = "truncate" /\ Effect(q)
    BY <1>3 DEF LockInv, Effects
  <2>2. pc[p] # "write"
    BY <1>8
  <2>3. NoHolder => NoHolder'
    BY <1>5, <1>9, <2>2, ProcsAssumption, <1>1 DEF NoHolder, HolderAt
  <2>4. desc[q] = file => desc'[q] = file'
    BY <1>4, <1>5, <2>1, <2>2
  <2>5. /\ Granted(q)' <=> Granted(q)
        /\ SharedGranted(q)' <=> SharedGranted(q)
        /\ op'[q] = op[q]
        /\ desc'[q].exclusive = desc[q].exclusive /\ desc'[q].counter = desc[q].counter
        /\ file'.counter = file.counter
    BY <1>3, <1>4, <1>5, <2>1, <2>2
  <2>6. QED
    BY <2>1, <2>3, <2>4, <2>5 DEF Effect
<1>15. CommandLineLive'
  <2> SUFFICES ASSUME live' \in Procs \ AutoProcs
               PROVE  /\ file'.exclusive /\ file'.auto => Granted(live)'
                      /\ \A q \in Procs : Inside(q)' => ~(desc'[q].exclusive /\ desc'[q].auto)
    BY DEF CommandLineLive
  <2>1. live' = live /\ live # p /\ live \in Procs \ AutoProcs
    BY <1>9
  <2>2. file.exclusive /\ file.auto => Granted(live)
    BY <2>1 DEF LockInv, CommandLineLive
  <2>3. Granted(live) => Granted(live)'
    BY <1>1, <2>1 DEF Granted, Inside, LockInv, LockTypes
  <2>4. file'.exclusive /\ file'.auto => file.exclusive /\ file.auto
    BY <1>5, <1>8, UnlockedDescription
  <2>5. \A q \in Procs : Inside(q)' => ~(desc'[q].exclusive /\ desc'[q].auto)
    BY <1>3, <1>4, <2>1 DEF LockInv, CommandLineLive
  <2>6. QED
    BY <2>2, <2>3, <2>4, <2>5
<1>16. lost' => shared' = 0
  BY <1>1
<1>17. ASSUME ~lost' PROVE Counted' /\ Holding' /\ Believed'
  <2>0. ~lost /\ Counted /\ Holding /\ Believed /\ shared' = shared
    BY <1>1, <1>17 DEF LockInv
  <2>1. CASE pc[p] = "write"
    <3>1. ~Held(desc[p]) /\ desc[p] \in Description /\ WellFormed(desc[p])
      BY <1>1, <1>17, <2>1 DEF LockInv, LockTypes, Descriptions
    <3>2. desc[p].counter = 0 /\ ~(desc[p].exclusive /\ (desc[p].auto => desc[p].by # NoProc /\ live = desc[p].by))
      BY <3>1 DEF Held, Description
    <3>3. shared = 0
      BY <2>0, <2>1, <3>2 DEF Counted, LockInv, LockTypes
    <3>4. excl = {}
      <4> SUFFICES ASSUME NEW h \in excl PROVE FALSE
        OBVIOUS
      <4>1. desc[p].exclusive /\ desc[p].by = h /\ h \in Procs
        BY <2>0, <2>1 DEF Holding, LockInv, LockTypes
      <4>2. desc[p].auto /\ h \in AutoProcs
        BY <3>1, <3>2, <4>1, ProcsAssumption DEF WellFormed, Named
      <4>3. live = h
        BY <4>2 DEF LockInv, AutoInv, HoldersLive, AutoHolders
      <4>4. QED
        BY <3>2, <4>1, <4>2, <4>3, ProcsAssumption
    <3>5. live' \notin AutoProcs
      <4> SUFFICES ASSUME live' \in AutoProcs PROVE FALSE
        OBVIOUS
      <4>1. live' \in Procs /\ live' = live /\ live # p
        BY <1>9, ProcsAssumption
      <4>2. Granted(live)
        BY <2>0, <3>4, <4>1 DEF Believed
      <4>3. Inside(live) /\ Inside(p)
        BY <2>1, <4>2 DEF Granted, Inside
      <4>4. QED
        BY <4>1, <4>3 DEF LockInv, AutoInv, Alone
    <3>6. QED
      BY <1>1, <1>8, <2>0, <2>1, <3>3, <3>4, <3>5, UnlockedDescription DEF Counted, Holding, Believed
  <2>2. CASE pc[p] # "write"
    <3>1. Counted'
      <4>1. (\A q \in Procs : pc'[q] # "write") => file'.counter = shared'
        BY <1>3, <1>5, <2>0, <2>2 DEF Counted
      <4>2. \A q \in Procs : pc'[q] = "write" =>
              desc'[q].counter = shared' + (IF SharedGranted(q)' THEN 1 ELSE 0)
        BY <1>3, <1>4, <2>0 DEF Counted
      <4>3. QED
        BY <4>1, <4>2 DEF Counted
    <3>2. ASSUME NEW h \in excl'
          PROVE  /\ h \in excl /\ file'.exclusive /\ file'.by = h
                 /\ ~file.auto \/ h # p
      <4>1. h \in excl /\ h \in Procs /\ file.exclusive /\ file.by = h /\ (h = p => p \notin AutoProcs)
        BY <1>1, <2>0 DEF Holding, LockInv, LockTypes
      <4>2. file.auto => h # p
        BY <1>6, <4>1, ProcsAssumption DEF WellFormed, Named
      <4>3. QED
        BY <1>5, <2>2, <4>1, <4>2
    <3>3. Holding'
      <4> SUFFICES ASSUME NEW h \in excl', NEW q \in Procs
                   PROVE  /\ ~Granted(q)'
                          /\ pc'[q] = "write" \/ (pc'[q] = "truncate" /\ op'[q] # "unlockx")
                               => desc'[q].exclusive /\ desc'[q].by = h
                          /\ pc'[q] = "truncate" /\ op'[q] = "unlockx"
                               => h \notin AutoProcs /\ ~desc'[q].auto /\ desc'[q].by = h
        BY <3>2 DEF Holding
      <4>1. h \in excl /\ h \in Procs /\ (h = p => p \notin AutoProcs)
        BY <1>1, <3>2 DEF LockInv, LockTypes
      <4>2. ~Granted(q)'
        BY <1>3, <2>0, <4>1 DEF Holding
      <4>3. ASSUME pc'[q] = "write" \/ (pc'[q] = "truncate" /\ op'[q] # "unlockx")
            PROVE  desc'[q].exclusive /\ desc'[q].by = h
        <5>1. q # p /\ desc[q].exclusive /\ desc[q].by = h
          BY <1>3, <2>0, <4>1, <4>3 DEF Holding
        <5>2. desc[q].auto => h # p
          BY <1>4, <4>1, <5>1, ProcsAssumption DEF WellFormed, Named
        <5>3. QED
          BY <1>4, <5>1, <5>2
      <4>4. ASSUME pc'[q] = "truncate", op'[q] = "unlockx"
            PROVE  h \notin AutoProcs /\ ~desc'[q].auto /\ desc'[q].by = h
        <5>1. q # p /\ h \notin AutoProcs /\ ~desc[q].auto /\ desc[q].by = h
          BY <1>3, <2>0, <4>1, <4>4 DEF Holding
        <5>2. QED
          BY <1>4, <5>1
      <4>5. QED
        BY <4>2, <4>3, <4>4
    <3>4. Believed'
      <4>1. ASSUME \A q \in Procs : pc'[q] # "write", file'.exclusive, ~file'.auto
            PROVE  file'.by \in excl'
        <5>1. (\A q \in Procs : pc[q] # "write") /\ file.exclusive /\ ~file.auto /\ file'.by = file.by
          BY <1>3, <1>5, <2>2, <4>1
        <5>2. file.by \in excl /\ file.by \notin AutoProcs
          BY <1>6, <2>0, <5>1 DEF Believed, WellFormed
        <5>3. QED
          BY <1>1, <5>1, <5>2
      <4>2. ASSUME NEW q \in Procs, Inside(q)', desc'[q].exclusive, ~desc'[q].auto
            PROVE  desc'[q].by \in excl' \/ Granted(q)'
        <5>1. q # p /\ Inside(q) /\ desc[q].exclusive /\ ~desc[q].auto /\ desc'[q].by = desc[q].by
          BY <1>3, <1>4, <4>2
        <5>2. desc[q].by \in excl \/ Granted(q)
          BY <2>0, <5>1 DEF Believed
        <5>3. desc[q].by \notin AutoProcs
          BY <1>4, <5>1 DEF WellFormed
        <5>4. QED
          BY <1>1, <1>3, <5>1, <5>2, <5>3
      <4>3. ASSUME live' \in AutoProcs PROVE live' \in excl' \/ Granted(live)'
        <5>1. live' = live /\ live # p /\ live \in Procs
          BY <1>9, <4>3, ProcsAssumption
        <5>2. live \in excl \/ Granted(live)
          BY <2>0, <4>3, <5>1 DEF Believed
        <5>3. Granted(live) => Granted(live)'
          BY <1>1, <5>1 DEF Granted, Inside, LockInv, LockTypes
        <5>4. QED
          BY <1>1, <5>1, <5>2, <5>3
      <4>4. QED
        BY <4>1, <4>2, <4>3 DEF Believed
    <3>5. QED
      BY <3>1, <3>3, <3>4
  <2>3. QED
    BY <2>1, <2>2
<1>18. QED
  BY <1>2, <1>10, <1>11, <1>12, <1>13, <1>14, <1>15, <1>16, <1>17 DEF LockInv

-----------------------------------------------------------------------------
(* The theorems about what the processes believe                           *)

LEMMA EnterFailsOperation ==
  ASSUME LockInv, NEW p \in Procs, EnterFails(p)
  PROVE  LockInv'
PROOF
<1>1. /\ flock = NoProc /\ file' = Unlocked
      /\ lost' = (lost \/ Held(file))
      /\ shared' = IF lost' THEN 0 ELSE shared
      /\ timeout' = [timeout EXCEPT ![p] = NotTrying]
      /\ UNCHANGED <<flock, live, file_ops, pc, desc, op, ret, excl>>
  BY DEF EnterFails
<1>2. \A q \in Procs : ~Inside(q)' /\ ~Granted(q)' /\ ~SharedGranted(q)' /\ pc'[q] # "truncate" /\ pc'[q] # "write"
  BY <1>1, NobodyInside DEF Inside, Granted, SharedGranted
<1>3. LockTypes'
  <2>1. NotTrying \in NotTrying..Timeout
    BY TimeoutAssumption DEF NotTrying
  <2>2. timeout' \in [Procs -> NotTrying..Timeout]
    BY <1>1, <2>1 DEF LockInv, LockTypes
  <2>3. shared' \in 0..MaxShared /\ lost' \in BOOLEAN
    BY <1>1, SharedAssumption DEF LockInv, LockTypes
  <2>4. QED
    BY <1>1, <2>2, <2>3, UnlockedDescription DEF LockInv, LockTypes
<1>4. AutoInv'
  BY EnterFailsAuto DEF LockInv
<1>5. Descriptions'
  BY <1>1, UnlockedDescription DEF LockInv, Descriptions, WellFormed, Named
<1>6. LiveOpen' /\ CommandLineLive'
  BY <1>1, <1>2, UnlockedDescription DEF LockInv, LiveOpen, CommandLineLive, Named
<1>7. GrantedSelf' /\ Effects'
  BY <1>2 DEF GrantedSelf, Effects
<1>8. lost' => shared' = 0
  BY <1>1
<1>9. ASSUME ~lost'
      PROVE  Counted' /\ Holding' /\ Believed'
  <2>1. ~lost /\ ~Held(file) /\ shared' = shared
    BY <1>1, <1>9
  <2>2. file \in Description /\ WellFormed(file)
    BY DEF LockInv, LockTypes, Descriptions
  <2>3. file.counter = 0 /\ shared = 0
    <3>1. file.counter = shared
      BY <1>1, <2>1, NobodyInside DEF LockInv, Counted
    <3>2. QED
      BY <2>1, <2>2, <3>1, SharedAssumption DEF Held, Description
  <2>4. Counted'
    BY <1>1, <1>2, <2>1, <2>3, UnlockedDescription DEF Counted
  <2>5. excl = {}
    <3> SUFFICES ASSUME NEW h \in excl PROVE FALSE
      OBVIOUS
    <3>1. h \in Procs /\ file.exclusive /\ file.by = h
      BY <2>1 DEF LockInv, LockTypes, Holding
    <3>2. file.auto /\ live # h
      BY <2>1, <3>1, ProcsAssumption DEF Held
    <3>3. h \in AutoHolders
      BY <2>2, <3>1, <3>2, ProcsAssumption DEF WellFormed, Named, AutoHolders
    <3>4. QED
      BY <3>2, <3>3 DEF LockInv, AutoInv, HoldersLive
  <2>6. Holding'
    BY <1>1, <2>5 DEF Holding
  <2>7. Believed'
    BY <1>1, <1>2, <2>1, <2>5, UnlockedDescription, NobodyInside DEF LockInv, Believed, Granted, Inside
  <2>8. QED
    BY <2>4, <2>6, <2>7
<1>10. QED
  BY <1>3, <1>4, <1>5, <1>6, <1>7, <1>8, <1>9 DEF LockInv

LEMMA InitLock == Init => LockInv
PROOF
<1> SUFFICES ASSUME Init PROVE LockInv
  OBVIOUS
<1>1. \A p \in Procs : ~Inside(p) /\ ~Granted(p) /\ ~SharedGranted(p) /\ pc[p] # "truncate" /\ pc[p] # "write"
  BY DEF Init, Inside, Granted, SharedGranted
<1>2. /\ file = Unlocked /\ live = NoFile /\ excl = {} /\ shared = 0 /\ ~lost
      /\ \A p \in Procs : desc[p] = Unlocked
  BY DEF Init
<1>3. LockTypes
  <2>1. NotTrying \in NotTrying..Timeout /\ 0 \in 0..MaxShared
    BY TimeoutAssumption, SharedAssumption DEF NotTrying
  <2>2. QED
    BY <2>1, UnlockedDescription DEF Init, LockTypes, Calls, Results
<1>4. Descriptions
  BY <1>2, UnlockedDescription DEF Descriptions
<1>5. LiveOpen /\ CommandLineLive /\ Believed
  BY <1>1, <1>2, UnlockedDescription, ProcsAssumption DEF LiveOpen, CommandLineLive, Believed, Named
<1>6. GrantedSelf /\ Effects /\ Counted /\ Holding
  BY <1>1, <1>2, UnlockedDescription DEF GrantedSelf, Effects, Counted, Holding
<1>7. QED
  BY <1>2, <1>3, <1>4, <1>5, <1>6, InitAuto DEF LockInv

LEMMA StutterLock == LockInv /\ UNCHANGED vars => LockInv'
PROOF
<1> SUFFICES ASSUME LockInv, UNCHANGED vars PROVE LockInv'
  OBVIOUS
<1>0. UNCHANGED <<file, flock, live, file_ops, pc, desc, op, ret, timeout, excl, shared, lost>>
  BY DEF vars, procVars, history
<1>1. AutoInv'
  BY <1>0, NextAuto DEF LockInv
<1>2. LockTypes'
  BY <1>0 DEF LockInv, LockTypes
<1>3. Descriptions' /\ LiveOpen' /\ GrantedSelf' /\ CommandLineLive'
  BY <1>0 DEF LockInv, Descriptions, LiveOpen, GrantedSelf, CommandLineLive, Inside, Granted, Named, WellFormed
<1>4. Effects'
  BY <1>0 DEF LockInv, Effects, Effect, NoHolder, SharedGranted, Granted, Inside, HolderAt
<1>5. ~lost' => Counted' /\ Holding' /\ Believed'
  BY <1>0 DEF LockInv, Counted, Holding, Believed, SharedGranted, Granted, Inside
<1>6. QED
  BY <1>0, <1>1, <1>2, <1>3, <1>4, <1>5 DEF LockInv

LEMMA NextLock == LockInv /\ [Next]_vars => LockInv'
PROOF
<1>1. ASSUME LockInv, NEW p \in Procs, Crash(p) \/ Exit(p)
      PROVE  LockInv'
  BY <1>1, DieOperation DEF Crash, Exit
<1>2. QED
  BY <1>1, StutterLock, LockOperation, UnlockOperation, ListOperation, TryLockOperation,
     TruncateOperation, WriteCloseOperation, EnterFailsOperation DEF Next

\* For any number of processes, users, shared locks and deaths: as long as no
\* description was lost, an exclusive holder is alone, and the counter that
\* __exit__ writes is the number of shared locks handed out.
THEOREM FileLockCorrect == Spec => []LockCorrect
PROOF
<1>1. LockInv /\ OwnInv => LockCorrect
  <2> SUFFICES ASSUME LockInv, OwnInv PROVE LockCorrect
    OBVIOUS
  <2>1. TypeOK
    <3>1. LockTypes /\ evicted \in [Procs -> Procs \cup {NoProc}]
      BY DEF LockInv, OwnInv
    <3>2. QED
      BY <3>1, Zenon DEF LockTypes, TypeOK, Calls, Results
  <2>2. ASSUME ~lost PROVE Cardinality(excl) <= 1
    <3>1. CASE excl = {}
      BY <3>1, FS_EmptySet
    <3>2. CASE excl # {}
      <4>1. excl = {file.by}
        BY <2>2, <3>2 DEF LockInv, Holding
      <4>2. Cardinality({file.by}) = 1
        BY FS_Singleton
      <4>3. QED
        BY <4>1, <4>2
    <3>3. QED
      BY <3>1, <3>2
  <2>3. ASSUME ~lost, excl # {} PROVE shared = 0
    <3>1. PICK h \in excl : TRUE
      BY <2>3
    <3>2. file.exclusive /\ file.counter = 0
      BY <2>3, <3>1 DEF LockInv, Holding, Descriptions, WellFormed
    <3>3. CASE \A p \in Procs : pc[p] # "write"
      BY <2>3, <3>2, <3>3 DEF LockInv, Counted
    <3>4. CASE \E p \in Procs : pc[p] = "write"
      <4>1. PICK p \in Procs : pc[p] = "write"
        BY <3>4
      <4>2. desc[p].exclusive /\ desc[p].counter = 0
        BY <2>3, <3>1, <4>1 DEF LockInv, Holding, Descriptions, WellFormed
      <4>3. 0 = shared + (IF SharedGranted(p) THEN 1 ELSE 0) /\ shared \in Nat
        BY <2>3, <4>1, <4>2, SharedAssumption DEF LockInv, Counted, LockTypes
      <4>4. QED
        BY <4>3
    <3>5. QED
      BY <3>3, <3>4
  <2>4. ASSUME ~lost, flock = NoProc PROVE file.counter = shared
    BY <2>4, NobodyInside DEF LockInv, Counted
  <2>5. QED
    BY <2>1, <2>2, <2>3, <2>4 DEF LockCorrect, ReadersOrWriter
<1>2. Init => LockInv /\ OwnInv
  BY InitLock, InitOwned
<1>3. LockInv /\ OwnInv /\ [Next]_vars => (LockInv /\ OwnInv)'
  BY NextLock, NextOwned DEF LockInv
<1>4. QED
  BY <1>1, <1>2, <1>3, PTL DEF Spec

\* For any number of processes and deaths: NonBlockingLock refuses the exclusive
\* lock only if somebody has the machine; a dead auto holder keeps nobody out.
THEOREM FileLockRefusedOnlyIfHeld == Spec => RefusedOnlyIfHeld
PROOF
<1> DEFINE Ok == \A p \in Procs :
             (op'[p] = "lockx" /\ ret'[p] = "false" /\ pc[p] = "idle" /\ pc'[p] = "truncate")
               => excl # {} \/ shared > 0 \/ lost \/ p \in file_ops
<1>1. LockInv /\ [Next]_vars => Ok
  <2> SUFFICES ASSUME LockInv, [Next]_vars, NEW p \in Procs,
                      op'[p] = "lockx", ret'[p] = "false", pc[p] = "idle", pc'[p] = "truncate",
                      ~lost, p \notin file_ops, excl = {}
               PROVE  shared > 0
    BY DEF Ok
  <2>1. PICK q \in Procs : \/ \E exclusive \in BOOLEAN : NonBlockingLock(q, exclusive)
                           \/ \E exclusive, force \in BOOLEAN : Unlock(q, exclusive, force)
                           \/ ListLock(q) \/ TryLock(q) \/ Truncate(q) \/ WriteClose(q)
                           \/ EnterFails(q) \/ Die(q)
    BY DEF Next, vars, procVars, Crash, Exit
  <2>2. ~TryLock(q) /\ ~Truncate(q) /\ ~WriteClose(q) /\ ~EnterFails(q) /\ ~Die(q)
    BY DEF TryLock, Truncate, WriteClose, EnterFails, Die, LockInv, LockTypes
  <2>3. Enter(q)
    BY <2>1, <2>2 DEF NonBlockingLock, Unlock, ListLock
  <2>4. q = p
    BY <2>3 DEF Enter, LockInv, LockTypes
  <2>5. ~ListLock(p)
    BY DEF ListLock, Body, LockInv, LockTypes
  <2>6. \A exclusive, force \in BOOLEAN : ~Unlock(p, exclusive, force)
    <3> SUFFICES ASSUME NEW exclusive \in BOOLEAN, NEW force \in BOOLEAN, Unlock(p, exclusive, force)
                 PROVE  op'[p] # "lockx"
      OBVIOUS
    <3> QED
      BY DEF Unlock, Body, ReleaseExclusive, LockInv, LockTypes
  <2>7. PICK exclusive \in BOOLEAN : NonBlockingLock(p, exclusive)
    BY <2>1, <2>2, <2>4, <2>5, <2>6
  <2> DEFINE d == DescriptionRead(p)
  <2>8. exclusive /\ Refused(d, TRUE)
    <3>1. exclusive
      BY <2>7 DEF NonBlockingLock, Body, GrantExclusive, LockInv, LockTypes
    <3>2. Refused(d, TRUE)
      BY <2>7, <3>1 DEF NonBlockingLock, Body, GrantExclusive, LockInv, LockTypes
    <3>3. QED
      BY <3>1, <3>2
  <2>9. flock = NoProc
    BY <2>3 DEF Enter
  <2>10. d \in Description /\ d.counter = file.counter /\ (d.exclusive => d = file)
    BY <2>9, ReadFacts, UnlockedDescription
  <2>11. shared = file.counter
    BY <2>9, NobodyInside DEF LockInv, Counted
  <2>12. ~d.exclusive
    <3> SUFFICES ASSUME d.exclusive PROVE FALSE
      OBVIOUS
    <3>1. file.exclusive /\ d = file
      BY <2>10
    <3>2. file.auto
      BY <2>9, <3>1, NobodyInside DEF LockInv, Believed
    <3>3. live \notin {p, NoProc, NoFile}
      BY <3>1, <3>2, UnlockedDescription DEF DescriptionRead, CanOpenLiveCheck
    <3>4. live \in Procs
      BY <3>3 DEF LockInv, LockTypes
    <3>5. live \in AutoProcs
      BY <2>9, <3>1, <3>2, <3>4, NobodyInside DEF LockInv, CommandLineLive
    <3>6. QED
      BY <2>9, <3>4, <3>5, NobodyInside DEF LockInv, Believed
  <2>13. d.counter > 0
    BY <2>8, <2>12 DEF Refused
  <2>14. QED
    BY <2>10, <2>11, <2>13
<1>2. QED
  BY <1>1, InitLock, NextLock, PTL DEF Spec, RefusedOnlyIfHeld

-----------------------------------------------------------------------------
(* FileLock implements MachineLock                                         *)

\* The values of MachineLock's variables.
TheHolder == IF committed.exclusive /\ Held(committed) THEN committed.by ELSE NoProc
TheCounter == committed.counter

LEMMA AbstractSteps ==
  /\ UNCHANGED <<TheHolder, TheCounter, lost>> => UNCHANGED ML!lockVars
  /\ \A p \in Procs : TheHolder = NoProc /\ TheCounter = 0 /\ TheHolder' = p /\ UNCHANGED <<TheCounter, lost>> => ML!Next
  /\ TheHolder = NoProc /\ TheCounter' = TheCounter + 1 /\ UNCHANGED <<TheHolder, lost>> => ML!Next
  /\ TheHolder # NoProc /\ TheHolder' = NoProc /\ UNCHANGED <<TheCounter, lost>> => ML!Next
  /\ TheCounter > 0 /\ TheCounter' = TheCounter - 1 /\ UNCHANGED <<TheHolder, lost>> => ML!Next
  /\ (TheHolder # NoProc \/ TheCounter > 0) /\ TheHolder' = NoProc /\ TheCounter' = 0 /\ lost' = TRUE => ML!Next
PROOF
<1>1. UNCHANGED <<TheHolder, TheCounter, lost>> => UNCHANGED ML!lockVars
  BY DEF ML!lockVars, TheHolder, TheCounter
<1>2. \A p \in Procs : TheHolder = NoProc /\ TheCounter = 0 /\ TheHolder' = p /\ UNCHANGED <<TheCounter, lost>> => ML!Next
  BY DEF ML!Next, ML!LockExclusive, TheHolder, TheCounter
<1>3. TheHolder = NoProc /\ TheCounter' = TheCounter + 1 /\ UNCHANGED <<TheHolder, lost>> => ML!Next
  BY DEF ML!Next, ML!LockShared, TheHolder, TheCounter
<1>4. TheHolder # NoProc /\ TheHolder' = NoProc /\ UNCHANGED <<TheCounter, lost>> => ML!Next
  BY DEF ML!Next, ML!UnlockExclusive, TheHolder, TheCounter
<1>5. TheCounter > 0 /\ TheCounter' = TheCounter - 1 /\ UNCHANGED <<TheHolder, lost>> => ML!Next
  BY DEF ML!Next, ML!UnlockShared, TheHolder, TheCounter
<1>6. (TheHolder # NoProc \/ TheCounter > 0) /\ TheHolder' = NoProc /\ TheCounter' = 0 /\ lost' = TRUE => ML!Next
  BY DEF ML!Next, ML!Lose, TheHolder, TheCounter
<1>7. QED
  BY <1>1, <1>2, <1>3, <1>4, <1>5, <1>6

\* What the next process will read, and who holds the machine by it.
CommittedRight ==
  /\ \A p \in Procs : pc[p] = "write" => committed = desc[p]
  /\ (\A p \in Procs : pc[p] # "write") => committed = file
  /\ committed \in Description /\ WellFormed(committed)
  /\ TheHolder = HolderAt(committed, live)
  /\ TheCounter = committed.counter

LEMMA CommittedIs == LockInv => CommittedRight
PROOF
<1> SUFFICES ASSUME LockInv PROVE CommittedRight
  OBVIOUS
<1>1. ASSUME NEW p \in Procs, pc[p] = "write" PROVE committed = desc[p]
  <2>1. \A q \in Procs : pc[q] = "write" => q = p
    BY <1>1, ProcsAssumption DEF LockInv, AutoInv, Alone, Inside
  <2>2. (CHOOSE q \in Procs : pc[q] = "write") = p
    BY <1>1, <2>1
  <2>3. QED
    BY <1>1, <2>2 DEF committed
<1>2. (\A p \in Procs : pc[p] # "write") => committed = file
  BY DEF committed
<1>3. committed \in Description /\ WellFormed(committed)
  BY <1>1, <1>2 DEF LockInv, LockTypes, Descriptions
<1>4. TheHolder = HolderAt(committed, live)
  BY <1>3 DEF TheHolder, Held, HolderAt, WellFormed
<1>5. QED
  BY <1>1, <1>2, <1>3, <1>4 DEF CommittedRight, TheCounter

LEMMA CommittedNext == LockInv' => CommittedRight'
PROOF BY CommittedIs, PTL

\* A process that enters changes nothing, except that an auto process gives the
\* exclusive lock up as soon as it removes the liveness file.
LEMMA EnterImplements ==
  ASSUME LockInv, LockInv', NEW p \in Procs, Enter(p), UNCHANGED <<file, lost>>,
         \/ live' \in {live, Probed}
         \/ live' = p /\ (Granted(p)' \/ SharedGranted(p)') /\ NoHolder
         \/ live' = NoFile
  PROVE  [ML!Next]_(ML!lockVars)
PROOF
<1>1. /\ \A q \in Procs : pc[q] # "write" /\ pc'[q] # "write"
      /\ pc'[p] = "truncate"
  BY NobodyInside DEF Enter, LockInv, LockTypes
<1>2. committed = file /\ committed' = file
  BY <1>1, CommittedIs, CommittedNext DEF CommittedRight
<1>3. /\ TheHolder = HolderAt(file, live) /\ TheHolder' = HolderAt(file, live')
      /\ TheCounter' = TheCounter
      /\ WellFormed(file)
  BY <1>2, CommittedIs, CommittedNext DEF CommittedRight
<1>4. CASE live' \in {live, Probed}
  <2>1. TheHolder' = TheHolder
    BY <1>3, <1>4, ProcsAssumption DEF HolderAt, Probed, WellFormed, Named
  <2>2. QED
    BY <1>3, <2>1, AbstractSteps
<1>5. CASE live' = p /\ (Granted(p)' \/ SharedGranted(p)') /\ NoHolder
  <2>1. Effect(p)'
    BY <1>1 DEF LockInv, Effects
  <2>2. NoHolder'
    BY <1>5, <2>1 DEF Effect
  <2>3. TheHolder' = TheHolder
    BY <1>3, <1>5, <2>2 DEF NoHolder
  <2>4. QED
    BY <1>3, <2>3, AbstractSteps
<1>6. CASE live' = NoFile
  <2>1. TheHolder' = TheHolder \/ TheHolder' = NoProc
    BY <1>3, <1>6, ProcsAssumption DEF HolderAt, WellFormed, Named
  <2>2. QED
    BY <1>3, <2>1, AbstractSteps
<1>7. QED
  BY <1>4, <1>5, <1>6

\* truncate(0) is where an operation takes effect.
LEMMA TruncateImplements ==
  ASSUME LockInv, LockInv', NEW p \in Procs, Truncate(p)
  PROVE  [ML!Next]_(ML!lockVars)
PROOF
<1>1. /\ pc[p] = "truncate" /\ pc' = [pc EXCEPT ![p] = "write"]
      /\ UNCHANGED <<file, flock, live, file_ops, desc, op, ret, timeout, lost>>
  BY DEF Truncate
<1>2. (\A q \in Procs : pc[q] # "write") /\ pc'[p] = "write"
  BY <1>1, ProcsAssumption DEF LockInv, LockTypes, AutoInv, Alone, Inside
<1>3. committed = file /\ committed' = desc[p]
  BY <1>1, <1>2, CommittedIs, CommittedNext DEF CommittedRight
<1>4. /\ TheHolder = HolderAt(file, live) /\ TheHolder' = HolderAt(desc[p], live)
      /\ TheCounter = file.counter /\ TheCounter' = desc[p].counter
      /\ desc[p] \in Description /\ WellFormed(desc[p]) /\ file \in Description
  BY <1>1, <1>3, CommittedIs, CommittedNext DEF CommittedRight, LockInv, LockTypes
<1>5. Effect(p)
  BY <1>1 DEF LockInv, Effects
<1>6. CASE Granted(p)
  <2>1. TheHolder' = p
    BY <1>4, <1>6, ProcsAssumption DEF LockInv, GrantedSelf, HolderAt
  <2>2. desc[p].counter = 0
    BY <1>4, <1>6 DEF LockInv, GrantedSelf, WellFormed
  <2>3. TheHolder = NoProc /\ TheCounter = 0 /\ TheCounter' = TheCounter
    BY <1>4, <1>5, <1>6, <2>2 DEF Effect, NoHolder
  <2>4. QED
    BY <1>1, <2>1, <2>3, AbstractSteps
<1>7. CASE SharedGranted(p)
  <2>1. TheHolder = NoProc /\ TheHolder' = NoProc /\ TheCounter' = TheCounter + 1
    BY <1>4, <1>5, <1>7 DEF Effect, NoHolder, HolderAt
  <2>2. QED
    BY <1>1, <2>1, AbstractSteps
<1>8. CASE op[p] = "unlockx"
  <2>1. TheHolder' = NoProc /\ TheCounter' = TheCounter
    BY <1>4, <1>5, <1>8 DEF Effect, HolderAt
  <2>2. QED
    BY <1>1, <2>1, AbstractSteps
<1>9. CASE op[p] = "unlocks"
  <2>1. TheHolder = NoProc /\ TheHolder' = NoProc /\ TheCounter' \in {TheCounter, TheCounter - 1}
    BY <1>4, <1>5, <1>9 DEF Effect, NoHolder, HolderAt
  <2>2. TheCounter \in Nat /\ TheCounter' \in Nat
    BY <1>4, SharedAssumption DEF Description
  <2>3. TheCounter' = TheCounter \/ (TheCounter > 0 /\ TheCounter' = TheCounter - 1)
    BY <2>1, <2>2
  <2>4. QED
    BY <1>1, <2>1, <2>3, AbstractSteps
<1>10. CASE ~Granted(p) /\ ~SharedGranted(p) /\ op[p] \notin {"unlockx", "unlocks"}
  <2>1. TheHolder' = TheHolder /\ TheCounter' = TheCounter
    BY <1>4, <1>5, <1>10 DEF Effect, NoHolder, HolderAt
  <2>2. QED
    BY <1>1, <2>1, AbstractSteps
<1>11. QED
  BY <1>6, <1>7, <1>8, <1>9, <1>10

\* An auto lock ends with its holder.
LEMMA OrphanedLapses ==
  ASSUME NEW p \in Procs, NEW d \in Description, WellFormed(d), live \in Procs \cup {NoProc, NoFile},
         live' = IF live = p THEN NoProc ELSE live
  PROVE  \/ HolderAt(Orphaned(p, d), live') = HolderAt(d, live)
         \/ HolderAt(d, live) # NoProc /\ HolderAt(Orphaned(p, d), live') = NoProc
PROOF
<1> DEFINE e == Orphaned(p, d)
<1>1. /\ e.exclusive = d.exclusive /\ e.auto = d.auto
      /\ e.by = IF d.by = p /\ d.auto THEN NoProc ELSE d.by
  BY OrphanedDescription
<1> HIDE DEF e
<1>2. HolderAt(e, live') = HolderAt(d, live) \/ (HolderAt(d, live) # NoProc /\ HolderAt(e, live') = NoProc)
  BY <1>1, ProcsAssumption DEF HolderAt, WellFormed, Named
<1>3. QED
  BY <1>2 DEF e

LEMMA DieImplements ==
  ASSUME LockInv, LockInv', NEW p \in Procs, Die(p)
  PROVE  [ML!Next]_(ML!lockVars)
PROOF
<1>1. /\ file' = IF pc[p] = "write" THEN Unlocked ELSE Orphaned(p, file)
      /\ lost' = (lost \/ (pc[p] = "write" /\ Held(desc[p])))
      /\ live' = IF live = p THEN NoProc ELSE live
      /\ pc' = [pc EXCEPT ![p] = "idle"]
      /\ desc' = [q \in Procs |-> IF q = p THEN Unlocked ELSE Orphaned(p, desc[q])]
  BY DEF Die
<1>2. live \in Procs \cup {NoProc, NoFile} /\ lost \in BOOLEAN /\ WellFormed(file) /\ file \in Description
  BY DEF LockInv, LockTypes, Descriptions
<1>3. CASE pc[p] = "write"
  <2>1. \A q \in Procs : pc'[q] # "write"
    BY <1>1, <1>3, ProcsAssumption DEF LockInv, LockTypes, AutoInv, Alone, Inside
  <2>2. committed = desc[p] /\ committed' = Unlocked
    BY <1>1, <1>3, <2>1, CommittedIs, CommittedNext DEF CommittedRight
  <2>3. /\ TheHolder = HolderAt(desc[p], live) /\ TheCounter = desc[p].counter
        /\ TheHolder' = NoProc /\ TheCounter' = 0
        /\ desc[p] \in Description /\ WellFormed(desc[p])
    BY <2>2, CommittedIs, CommittedNext, UnlockedDescription DEF CommittedRight, HolderAt
  <2>4. CASE Held(desc[p])
    <3>1. TheHolder # NoProc \/ TheCounter > 0
      BY <2>3, <2>4, ProcsAssumption DEF Held, HolderAt, WellFormed, Named
    <3>2. lost' = TRUE
      BY <1>1, <1>3, <2>4
    <3>3. QED
      BY <2>3, <3>1, <3>2, AbstractSteps
  <2>5. CASE ~Held(desc[p])
    <3>1. TheHolder = NoProc /\ TheCounter = 0
      BY <2>3, <2>5 DEF Held, HolderAt, Description
    <3>2. lost' = lost
      BY <1>1, <1>2, <2>5
    <3>3. QED
      BY <2>3, <3>1, <3>2, AbstractSteps
  <2>6. QED
    BY <2>4, <2>5
<1>4. CASE pc[p] # "write"
  <2>1. lost' = lost
    BY <1>1, <1>2, <1>4
  <2>2. ASSUME NEW d \in Description, WellFormed(d), committed = d, committed' = Orphaned(p, d)
        PROVE  [ML!Next]_(ML!lockVars)
    <3>1. TheHolder = HolderAt(d, live) /\ TheHolder' = HolderAt(Orphaned(p, d), live')
      BY <2>2, CommittedIs, CommittedNext DEF CommittedRight
    <3>2. TheCounter' = TheCounter
      BY <2>2, OrphanedDescription, CommittedIs, CommittedNext DEF CommittedRight
    <3>3. TheHolder' = TheHolder \/ (TheHolder # NoProc /\ TheHolder' = NoProc)
      BY <1>1, <1>2, <2>2, <3>1, OrphanedLapses
    <3>4. QED
      BY <2>1, <3>2, <3>3, AbstractSteps
  <2>3. CASE \A q \in Procs : pc[q] # "write"
    <3>1. \A q \in Procs : pc'[q] # "write"
      BY <1>1, <2>3 DEF LockInv, LockTypes
    <3>2. committed = file /\ committed' = Orphaned(p, file)
      BY <1>1, <1>4, <2>3, <3>1, CommittedIs, CommittedNext DEF CommittedRight
    <3>3. QED
      BY <1>2, <2>2, <3>2
  <2>4. CASE \E q \in Procs : pc[q] = "write"
    <3>1. PICK q \in Procs : pc[q] = "write"
      BY <2>4
    <3>2. q # p /\ pc'[q] = "write"
      BY <1>1, <1>4, <3>1 DEF LockInv, LockTypes
    <3>3. desc[q] \in Description /\ WellFormed(desc[q]) /\ desc'[q] = Orphaned(p, desc[q])
      BY <1>1, <3>2 DEF LockInv, LockTypes, Descriptions
    <3>4. committed = desc[q] /\ committed' = Orphaned(p, desc[q])
      BY <3>1, <3>2, <3>3, CommittedIs, CommittedNext DEF CommittedRight
    <3>5. QED
      BY <2>2, <3>3, <3>4
  <2>5. QED
    BY <2>3, <2>4
<1>5. QED
  BY <1>3, <1>4

LEMMA EnterFailsImplements ==
  ASSUME LockInv, LockInv', NEW p \in Procs, EnterFails(p)
  PROVE  [ML!Next]_(ML!lockVars)
PROOF
<1>1. /\ flock = NoProc /\ file' = Unlocked
      /\ lost' = (lost \/ Held(file))
      /\ UNCHANGED <<live, pc>>
  BY DEF EnterFails
<1>2. \A q \in Procs : pc[q] # "write" /\ pc'[q] # "write"
  BY <1>1, NobodyInside
<1>3. committed = file /\ committed' = Unlocked
  BY <1>1, <1>2, CommittedIs, CommittedNext DEF CommittedRight
<1>4. /\ TheHolder = HolderAt(file, live) /\ TheCounter = file.counter
      /\ TheHolder' = NoProc /\ TheCounter' = 0
      /\ file \in Description /\ WellFormed(file)
  BY <1>3, CommittedIs, CommittedNext, UnlockedDescription DEF CommittedRight, HolderAt
<1>5. CASE Held(file)
  <2>1. TheHolder # NoProc \/ TheCounter > 0
    BY <1>4, <1>5, ProcsAssumption DEF Held, HolderAt, WellFormed, Named
  <2>2. QED
    BY <1>1, <1>4, <1>5, <2>1, AbstractSteps
<1>6. CASE ~Held(file)
  <2>1. TheHolder = NoProc /\ TheCounter = 0
    BY <1>4, <1>6 DEF Held, HolderAt, Description
  <2>2. lost' = lost
    BY <1>1, <1>6 DEF LockInv, LockTypes
  <2>3. QED
    BY <1>4, <2>1, <2>2, AbstractSteps
<1>7. QED
  BY <1>5, <1>6

LEMMA WriteCloseImplements ==
  ASSUME LockInv, LockInv', NEW p \in Procs, WriteClose(p)
  PROVE  [ML!Next]_(ML!lockVars)
PROOF
<1>1. /\ pc[p] = "write" /\ pc' = [pc EXCEPT ![p] = IF p \in AutoProcs THEN "idle" ELSE "exiting"]
      /\ file' = desc[p] /\ UNCHANGED <<live, lost>>
  BY DEF WriteClose
<1>2. \A q \in Procs : pc'[q] # "write"
  BY <1>1, ProcsAssumption DEF LockInv, LockTypes, AutoInv, Alone, Inside
<1>3. committed = desc[p] /\ committed' = desc[p]
  BY <1>1, <1>2, CommittedIs, CommittedNext DEF CommittedRight
<1>4. UNCHANGED <<TheHolder, TheCounter, lost>>
  BY <1>1, <1>3, CommittedIs, CommittedNext DEF CommittedRight
<1>5. QED
  BY <1>4, AbstractSteps

LEMMA LockImplements ==
  ASSUME LockInv, LockInv', NEW p \in Procs, NEW exclusive \in BOOLEAN, NonBlockingLock(p, exclusive)
  PROVE  [ML!Next]_(ML!lockVars)
PROOF
<1> DEFINE d == DescriptionRead(p)
<1>1. Enter(p) /\ UNCHANGED <<file, lost>>
  BY DEF NonBlockingLock, Body, GrantExclusive
<1>2. CASE live' \in {live, Probed}
  BY <1>1, <1>2, EnterImplements
<1>3. CASE live' \notin {live, Probed}
  <2>1. GrantExclusive(p, d) /\ ~Refused(d, exclusive)
    BY <1>3 DEF NonBlockingLock
  <2>2. live' = p /\ op'[p] = "lockx" /\ ret'[p] = "true" /\ pc'[p] = "truncate"
    BY <1>1, <2>1 DEF GrantExclusive, Body, Enter, LockInv, LockTypes
  <2>3. NoHolder
    BY <1>1, <2>1, ReadFacts DEF Refused, NoHolder, Enter
  <2>4. QED
    BY <1>1, <2>2, <2>3, EnterImplements DEF Granted, Inside
<1>4. QED
  BY <1>2, <1>3

LEMMA UnlockImplements ==
  ASSUME LockInv, LockInv', NEW p \in Procs, NEW exclusive \in BOOLEAN, NEW force \in BOOLEAN,
         Unlock(p, exclusive, force)
  PROVE  [ML!Next]_(ML!lockVars)
PROOF
<1>1. Enter(p) /\ UNCHANGED <<file, lost>>
  BY DEF Unlock, Body, ReleaseExclusive
<1>2. live' \in {live, Probed} \/ live' = NoFile
  BY DEF Unlock, ReleaseExclusive
<1>3. QED
  BY <1>1, <1>2, EnterImplements

LEMMA ListImplements ==
  ASSUME LockInv, LockInv', NEW p \in Procs, ListLock(p)
  PROVE  [ML!Next]_(ML!lockVars)
PROOF
<1>1. Enter(p) /\ UNCHANGED <<file, lost>> /\ live' \in {live, Probed}
  BY DEF ListLock, Body
<1>2. QED
  BY <1>1, EnterImplements

\* A step that leaves the descriptions and the liveness file alone.
LEMMA SameImplements ==
  ASSUME LockInv, LockInv', UNCHANGED <<file, desc, pc, live, lost>>
  PROVE  [ML!Next]_(ML!lockVars)
PROOF
<1>1. committed' = committed
  <2>1. CASE \E q \in Procs : pc[q] = "write"
    BY <2>1, CommittedIs, CommittedNext DEF CommittedRight
  <2>2. CASE \A q \in Procs : pc[q] # "write"
    BY <2>2, CommittedIs, CommittedNext DEF CommittedRight
  <2>3. QED
    BY <2>1, <2>2
<1>2. UNCHANGED <<TheHolder, TheCounter, lost>>
  BY <1>1, CommittedIs, CommittedNext DEF CommittedRight
<1>3. QED
  BY <1>2, AbstractSteps

LEMMA NextImplements == LockInv /\ LockInv' /\ [Next]_vars => [ML!Next]_(ML!lockVars)
PROOF
<1> SUFFICES ASSUME LockInv, LockInv', [Next]_vars PROVE [ML!Next]_(ML!lockVars)
  OBVIOUS
<1>1. CASE UNCHANGED vars
  BY <1>1, SameImplements DEF vars, procVars, history
<1>2. CASE Next
  <2>1. PICK p \in Procs : \/ \E exclusive \in BOOLEAN : NonBlockingLock(p, exclusive)
                           \/ \E exclusive, force \in BOOLEAN : Unlock(p, exclusive, force)
                           \/ ListLock(p) \/ TryLock(p) \/ Truncate(p) \/ WriteClose(p)
                           \/ EnterFails(p) \/ Die(p)
    BY <1>2 DEF Next, Crash, Exit
  <2>2. CASE TryLock(p)
    BY <2>2, SameImplements DEF TryLock, history
  <2>3. QED
    BY <2>1, <2>2, LockImplements, UnlockImplements, ListImplements, TruncateImplements,
       WriteCloseImplements, EnterFailsImplements, DieImplements
<1>3. QED
  BY <1>1, <1>2

LEMMA InitImplements == Init => ML!Init
PROOF
<1> SUFFICES ASSUME Init PROVE ML!Init
  OBVIOUS
<1>1. \A p \in Procs : pc[p] # "write"
  BY DEF Init
<1>2. committed = Unlocked
  BY <1>1 DEF committed, Init
<1>3. QED
  BY <1>2, UnlockedDescription DEF ML!Init, Init

\* For any number of processes, whatever dies when, and with both kinds of lock:
\* the lock files behave as one lock on the machine, exclusive or shared, that an
\* operation takes or gives up at the truncate(0) of its __exit__, that an auto
\* holder loses when it dies, and that is forgotten only by a death between
\* truncate(0) and the write.
THEOREM FileLockImplements == Spec => ImplementsMachineLock
PROOF
<1>1. Spec => Init /\ [][Next]_vars
  BY PTL DEF Spec
<1>2. QED
  BY <1>1, InitLock, NextLock, InitImplements, NextImplements, PTL DEF ImplementsMachineLock, ML!Spec

-----------------------------------------------------------------------------
(* AFE locks: the inductive invariant                                      *)

\* Where an experiment, a person and DoImage can be.
ExperimentPhases == {"idle", "locking", "running", "unlock", "unlocking", "atexit", "cleanup", "over"}

\* The machines an experiment still knows it may have locked.
Known(e) ==
  CASE phase[e] \in {"idle", "locking"} -> updated[e]
    [] phase[e] \in {"running", "unlock", "unlocking", "atexit"} -> locked_machines[e]
    [] phase[e] = "cleanup" -> todo[e]
    [] OTHER -> {}

\* An experiment has locked nothing it does not know of, unless the server
\* failed it, and until it unlocks it has what it knows of and nobody unlocked.
KnowsLocks(e) ==
  /\ phase[e] \in ExperimentPhases
  /\ e \notin failed => Holds(e) \subseteq Known(e)
  /\ phase[e] \in {"idle", "locking", "running", "unlock"} => Holds(e) = Known(e) \ released[e]

\* What was the user's own when c asked is so until c unlocks it, or another
\* client has unlocked it.
StillOwn(c) == phase[c] = "unlocking" => \A m \in todo[c] : m \in released[c] \/ Owns(c, m)

\* DoImage makes another attempt only while it has one left.
TriesLeft(i) == phase[i] \in {"idle", "acquiring"} => tries[i] < MaxTries

AfeInv ==
  /\ AfeTypeOK
  /\ \A i \in Imagers : TriesLeft(i)
  /\ \A e \in Experiments : KnowsLocks(e)
  /\ \A c \in Experiments \cup People : StillOwn(c)

-----------------------------------------------------------------------------
(* What a step of client c leaves of the others                            *)

\* c locks a free machine, or unlocks one, which those that rely on it note.
ServerChange(c) ==
  \/ holder' = holder /\ (released' = released \/ released' = [released EXCEPT ![c] = {}])
  \/ \E m \in Machines : /\ ~Locked(m) /\ holder' = [holder EXCEPT ![m] = c]
                         /\ released' = [released EXCEPT ![c] = @ \ {m}]
  \/ \E m \in Machines :
       /\ holder' = [holder EXCEPT ![m] = Free]
       /\ released' = [d \in Clients |-> IF d # c /\ ReliesOn(d, m) THEN released[d] \cup {m} ELSE released[d]]

\* Of another client only the locks change.
LeavesOthers(c) ==
  /\ \A d \in Clients \ {c} : /\ phase'[d] = phase[d] /\ todo'[d] = todo[d] /\ updated'[d] = updated[d]
                              /\ locked_machines'[d] = locked_machines[d] /\ tries'[d] = tries[d]
  /\ failed \subseteq failed'
  /\ ServerChange(c)

LEMMA OursAreMachines == \A c \in Clients : Ours(c) \subseteq Machines
PROOF
<1> SUFFICES ASSUME NEW c \in Clients, NEW m \in Ours(c) PROVE m \in Machines
  OBVIOUS
<1>1. Remote[c] \in Seq(Machines)
  BY AfeAssumption
<1>2. PICK i \in DOMAIN Remote[c] : m = Remote[c][i]
  BY DEF Ours, ToSet
<1>3. QED
  BY <1>1, <1>2

LEMMA RemoveWithin == \A c \in Clients : \A S : RemoveWhileIterating(Remote[c], S) \subseteq Ours(c)
PROOF
<1> SUFFICES ASSUME NEW c \in Clients, NEW S PROVE RemoveWhileIterating(Remote[c], S) \subseteq Ours(c)
  OBVIOUS
<1>1. Remote[c] \in Seq(Machines)
  BY AfeAssumption
<1>2. DOMAIN Remote[c] = 1..Len(Remote[c])
  BY <1>1
<1>3. QED
  BY <1>2 DEF RemoveWhileIterating, Ours, ToSet

LEMMA KindsDisjoint ==
  ASSUME NEW c \in Clients
  PROVE  /\ c # Free
         /\ c \in Experiments => c \notin People /\ c \notin Imagers
         /\ c \in People => c \notin Imagers
PROOF BY AfeAssumption DEF Clients

\* The server's part of a step.
LEMMA ServerTypes ==
  ASSUME AfeTypeOK, NEW c \in Clients, ServerChange(c)
  PROVE  /\ holder' \in [Machines -> Clients \cup {Free}]
         /\ released' \in [Clients -> SUBSET Machines]
PROOF BY DEF ServerChange, AfeTypeOK, Clients

LEMMA ServerSteps ==
  ASSUME AfeTypeOK, NEW c \in Clients,
         \/ \E m \in Machines : LockNext(c, m) \/ UnlockNext(c, m)
         \/ ServerFails(c)
         \/ UNCHANGED <<holder, todo, released>>
  PROVE  /\ ServerChange(c)
         /\ todo' \in [Clients -> SUBSET Machines]
         /\ \A d \in Clients : todo'[d] \subseteq todo[d]
         /\ \A d \in Clients \ {c} : todo'[d] = todo[d]
PROOF
<1>1. CASE \E m \in Machines : LockNext(c, m)
  <2>1. PICK m \in Machines : LockNext(c, m)
    BY <1>1
  <2>2. ServerChange(c)
    BY <2>1 DEF LockNext, ServerChange
  <2>3. todo' = [todo EXCEPT ![c] = @ \ {m}]
    BY <2>1 DEF LockNext
  <2>4. QED
    BY <2>2, <2>3 DEF AfeTypeOK
<1>2. CASE \E m \in Machines : UnlockNext(c, m)
  <2>1. PICK m \in Machines : UnlockNext(c, m)
    BY <1>2
  <2>2. ServerChange(c)
    BY <2>1 DEF UnlockNext, ServerChange
  <2>3. todo' = [todo EXCEPT ![c] = @ \ {m}]
    BY <2>1 DEF UnlockNext
  <2>4. QED
    BY <2>2, <2>3 DEF AfeTypeOK
<1>3. CASE ServerFails(c)
  BY <1>3 DEF ServerFails, AfeTypeOK, ServerChange
<1>4. CASE UNCHANGED <<holder, todo, released>>
  BY <1>4 DEF AfeTypeOK, ServerChange
<1>5. QED
  BY <1>1, <1>2, <1>3, <1>4

\* A loop or a query of c that ends: the lists of machines stay as they are.
LEMMA EndSteps ==
  ASSUME AfeTypeOK, NEW c \in Clients, NEW q, NEW r \in Phases, LoopEnds(c, q, r) \/ QueryFails(c, q, r)
  PROVE  AfeTypeOK' /\ LeavesOthers(c)
PROOF
<1>1. /\ phase' = [phase EXCEPT ![c] = r]
      /\ UNCHANGED <<updated, locked_machines, remote, tries>>
      /\ failed' = failed \/ failed' = failed \cup ({c} \cap Experiments)
  BY DEF LoopEnds, QueryFails, Goto, ServerFails
<1>2. ServerFails(c) \/ UNCHANGED <<holder, todo, released>>
  BY DEF LoopEnds, QueryFails
<1>3. /\ ServerChange(c)
      /\ todo' \in [Clients -> SUBSET Machines]
      /\ \A d \in Clients : todo'[d] \subseteq todo[d]
      /\ \A d \in Clients \ {c} : todo'[d] = todo[d]
  BY <1>2, ServerSteps
<1>4. /\ holder' \in [Machines -> Clients \cup {Free}]
      /\ released' \in [Clients -> SUBSET Machines]
  BY <1>3, ServerTypes
<1>5. /\ phase' \in [Clients -> Phases]
      /\ failed' \subseteq Experiments
  BY <1>1 DEF AfeTypeOK
<1>6. AfeTypeOK'
  BY <1>1, <1>3, <1>4, <1>5 DEF AfeTypeOK
<1>7. QED
  BY <1>1, <1>3, <1>6 DEF AfeTypeOK, LeavesOthers

\* c changes one machine.
LEMMA LoopSteps ==
  ASSUME AfeTypeOK, NEW c \in Clients,
         \E m \in Machines : LockNext(c, m) \/ UnlockNext(c, m),
         UNCHANGED <<phase, updated, locked_machines, remote, tries, failed>>
  PROVE  AfeTypeOK' /\ LeavesOthers(c)
PROOF
<1>1. /\ ServerChange(c)
      /\ todo' \in [Clients -> SUBSET Machines]
      /\ \A d \in Clients : todo'[d] \subseteq todo[d]
      /\ \A d \in Clients \ {c} : todo'[d] = todo[d]
  BY ServerSteps
<1>2. /\ holder' \in [Machines -> Clients \cup {Free}]
      /\ released' \in [Clients -> SUBSET Machines]
  BY <1>1, ServerTypes
<1>3. AfeTypeOK'
  BY <1>1, <1>2 DEF AfeTypeOK
<1>4. QED
  BY <1>1, <1>3 DEF LeavesOthers

\* c goes on to a list of machines of its own.
LEMMA QuerySteps ==
  ASSUME AfeTypeOK, NEW c \in Clients, NEW r \in Phases, NEW ms \in SUBSET Ours(c),
         phase' = [phase EXCEPT ![c] = r],
         todo' = [todo EXCEPT ![c] = ms] \/ todo' = todo,
         released' = released \/ released' = [released EXCEPT ![c] = {}],
         UNCHANGED <<holder, updated, locked_machines, remote, tries, failed>>
  PROVE  AfeTypeOK' /\ LeavesOthers(c)
PROOF BY OursAreMachines DEF AfeTypeOK, LeavesOthers, ServerChange

-----------------------------------------------------------------------------
(* Every step keeps the types and leaves the others alone                  *)

LEMMA FilterOurs ==
  \A c \in Clients : \A ms : ms \subseteq Ours(c) => ToLock(ms) \subseteq Ours(c) /\ ToUnlock(ms) \subseteq Ours(c)
PROOF BY DEF ToLock, ToUnlock

LEMMA ExperimentSteps ==
  ASSUME AfeTypeOK, NEW e \in Experiments, Experiment(e)
  PROVE  AfeTypeOK' /\ LeavesOthers(e)
PROOF
<1> e \in Clients
  BY DEF Clients
<1> DEFINE ls == locked_machines[e]
<1>0. ls \subseteq Ours(e)
  BY DEF AfeTypeOK
<1>p. Phases = {"idle", "locking", "running", "unlock", "unlocking", "atexit", "cleanup",
             "owner", "acquiring", "imaging", "releasing", "over"}
  BY DEF Phases
<1>1. CASE QueryToLock(e)
  BY <1>1, <1>p, FilterOurs, QuerySteps DEF QueryToLock, Goto
<1>2. CASE LockMachine(e)
  <2>1. PICK m \in Machines : LockNext(e, m) /\ updated' = [updated EXCEPT ![e] = @ \cup {m}]
    BY <1>2 DEF LockMachine
  <2>2. UNCHANGED <<phase, locked_machines, remote, tries, failed>> /\ m \in todo[e]
    BY <1>2, <2>1 DEF LockMachine, LockNext
  <2>3. /\ ServerChange(e)
        /\ todo' \in [Clients -> SUBSET Machines]
        /\ \A d \in Clients : todo'[d] \subseteq todo[d]
        /\ \A d \in Clients \ {e} : todo'[d] = todo[d]
    BY <2>1, ServerSteps
  <2>4. /\ holder' \in [Machines -> Clients \cup {Free}]
        /\ released' \in [Clients -> SUBSET Machines]
    BY <2>3, ServerTypes
  <2>5. /\ updated' \in [Clients -> SUBSET Machines]
        /\ \A d \in Clients : updated'[d] \subseteq Ours(d)
        /\ \A d \in Clients \ {e} : updated'[d] = updated[d]
    BY <2>1, <2>2 DEF AfeTypeOK
  <2>6. AfeTypeOK'
    BY <2>2, <2>3, <2>4, <2>5 DEF AfeTypeOK
  <2>7. QED
    BY <2>2, <2>3, <2>5, <2>6 DEF LeavesOthers
<1>3. CASE AllLocked(e)
  <2>1. /\ locked_machines' = [locked_machines EXCEPT ![e] = updated[e]]
        /\ remote' = [remote EXCEPT ![e] = RemoveWhileIterating(Remote[e], updated[e])]
        /\ phase' = [phase EXCEPT ![e] = IF updated[e] = {} THEN "atexit" ELSE "running"]
        /\ updated' = [updated EXCEPT ![e] = {}]
        /\ UNCHANGED <<holder, todo, tries, failed, released>>
    BY <1>3 DEF AllLocked
  <2>2. RemoveWhileIterating(Remote[e], updated[e]) \subseteq Ours(e)
    BY RemoveWithin
  <2>3. AfeTypeOK'
    BY <1>p, <2>1, <2>2, OursAreMachines DEF AfeTypeOK
  <2>4. QED
    BY <2>1, <2>3 DEF LeavesOthers, ServerChange, AfeTypeOK
<1>4. CASE LockingError(e)
  <2>1. /\ phase' = [phase EXCEPT ![e] = "atexit"]
        /\ ServerFails(e)
        /\ updated' = [updated EXCEPT ![e] = {}]
        /\ UNCHANGED <<locked_machines, remote, tries>>
    BY <1>4 DEF LockingError, Goto
  <2>2. /\ ServerChange(e)
        /\ todo' \in [Clients -> SUBSET Machines]
        /\ \A d \in Clients : todo'[d] \subseteq todo[d]
        /\ \A d \in Clients \ {e} : todo'[d] = todo[d]
    BY <2>1, ServerSteps
  <2>3. /\ holder' \in [Machines -> Clients \cup {Free}]
        /\ released' \in [Clients -> SUBSET Machines]
    BY <2>2, ServerTypes
  <2>4. failed' = failed \cup ({e} \cap Experiments)
    BY <2>1 DEF ServerFails
  <2>5. /\ phase' \in [Clients -> Phases]
        /\ updated' \in [Clients -> SUBSET Machines]
        /\ \A d \in Clients : updated'[d] \subseteq Ours(d)
        /\ failed' \subseteq Experiments
    BY <1>p, <2>1, <2>4 DEF AfeTypeOK
  <2>6. AfeTypeOK'
    BY <2>1, <2>2, <2>3, <2>5 DEF AfeTypeOK
  <2>7. QED
    BY <2>1, <2>2, <2>4, <2>6 DEF LeavesOthers, AfeTypeOK
<1>5. CASE RunEnds(e)
  BY <1>5, <1>0, <1>p, QuerySteps DEF RunEnds, Goto
<1>6. CASE QueryToUnlock(e)
  <2>1. /\ \E r \in Phases : phase' = [phase EXCEPT ![e] = r]
        /\ todo' = [todo EXCEPT ![e] = ToUnlock(ls)] \/ todo' = todo
        /\ released' = [released EXCEPT ![e] = {}]
        /\ UNCHANGED <<holder, updated, locked_machines, remote, tries, failed>>
    BY <1>6, <1>p DEF QueryToUnlock, Goto
  <2>2. ToUnlock(ls) \in SUBSET Ours(e)
    BY <1>0, FilterOurs
  <2>3. QED
    BY <2>1, <2>2, QuerySteps
<1>7. CASE UnlockMachine(e)
  BY <1>7, LoopSteps DEF UnlockMachine
<1>8. CASE UnlockEnds(e)
  BY <1>8, <1>p, EndSteps DEF UnlockEnds
<1>9. CASE QueryToCleanup(e)
  BY <1>9, <1>0, <1>p, FilterOurs, QuerySteps DEF QueryToCleanup, Goto
<1>10. CASE CleanupMachine(e)
  BY <1>10, LoopSteps DEF CleanupMachine
<1>11. CASE CleanupEnds(e)
  BY <1>11, <1>p, EndSteps DEF CleanupEnds
<1>12. CASE ExperimentQueryFails(e)
  BY <1>12, <1>p, EndSteps DEF ExperimentQueryFails
<1>13. QED
  BY <1>1, <1>2, <1>3, <1>4, <1>5, <1>6, <1>7, <1>8, <1>9, <1>10, <1>11, <1>12 DEF Experiment

LEMMA PersonSteps ==
  ASSUME AfeTypeOK, NEW p \in People, PersonLocks(p) \/ PersonUnlocks(p)
  PROVE  AfeTypeOK' /\ LeavesOthers(p)
PROOF
<1> p \in Clients
  BY DEF Clients
<1>p. Phases = {"idle", "locking", "running", "unlock", "unlocking", "atexit", "cleanup",
             "owner", "acquiring", "imaging", "releasing", "over"}
  BY DEF Phases
<1>q. ToLock(Ours(p)) \subseteq Ours(p) /\ ToUnlock(Ours(p)) \subseteq Ours(p)
  BY FilterOurs
<1>1. CASE PersonLocks(p)
  <2>1. CASE Goto(p, "idle", "locking") /\ todo' = [todo EXCEPT ![p] = ToLock(Ours(p))]
             /\ UNCHANGED <<holder, updated, locked_machines, remote, tries, failed, released>>
    BY <2>1, <1>p, <1>q, QuerySteps DEF Goto
  <2>2. CASE QueryFails(p, "idle", "owner") \/ LoopEnds(p, "locking", "owner")
    BY <2>2, <1>p, EndSteps
  <2>3. CASE /\ \E m \in Machines : LockNext(p, m)
             /\ UNCHANGED <<phase, updated, locked_machines, remote, tries, failed>>
    BY <2>3, LoopSteps
  <2>4. QED
    BY <1>1, <2>1, <2>2, <2>3 DEF PersonLocks
<1>2. CASE PersonUnlocks(p)
  <2>1. CASE /\ Goto(p, "owner", "unlocking") \/ Goto(p, "owner", "over")
             /\ todo' = [todo EXCEPT ![p] = ToUnlock(Ours(p))] \/ todo' = todo
             /\ released' = [released EXCEPT ![p] = {}]
             /\ UNCHANGED <<holder, updated, locked_machines, remote, tries, failed>>
    BY <2>1, <1>p, <1>q, QuerySteps DEF Goto
  <2>2. CASE QueryFails(p, "owner", "over") \/ LoopEnds(p, "unlocking", "over")
    BY <2>2, <1>p, EndSteps
  <2>3. CASE /\ \E m \in Machines : UnlockNext(p, m)
             /\ UNCHANGED <<phase, updated, locked_machines, remote, tries, failed>>
    BY <2>3, LoopSteps
  <2>4. QED
    BY <1>2, <2>1, <2>2, <2>3 DEF PersonUnlocks
<1>3. QED
  BY <1>1, <1>2

LEMMA ImagerSteps ==
  ASSUME AfeTypeOK, NEW i \in Imagers, TriesLeft(i), Imager(i)
  PROVE  AfeTypeOK' /\ LeavesOthers(i)
PROOF
<1> i \in Clients
  BY DEF Clients
<1>p. Phases = {"idle", "locking", "running", "unlock", "unlocking", "atexit", "cleanup",
             "owner", "acquiring", "imaging", "releasing", "over"}
  BY DEF Phases
<1>1. CASE AcquireLock(i) \/ Acquired(i) \/ Imaged(i)
  BY <1>1, <1>p, QuerySteps DEF AcquireLock, Acquired, Imaged, Goto
<1>2. CASE AcquireMachine(i)
  BY <1>2, LoopSteps DEF AcquireMachine
<1>3. CASE ReleaseMachine(i)
  BY <1>3, LoopSteps DEF ReleaseMachine
<1>4. CASE ReleaseEnds(i)
  BY <1>4, <1>p, EndSteps DEF ReleaseEnds
<1>5. CASE AttemptFails(i)
  <2>1. /\ ServerFails(i)
        /\ tries' = [tries EXCEPT ![i] = @ + 1]
        /\ phase' = [phase EXCEPT ![i] = IF tries'[i] < MaxTries THEN "idle" ELSE "imaging"]
        /\ UNCHANGED <<updated, locked_machines, remote>>
    BY <1>5 DEF AttemptFails
  <2>2. /\ ServerChange(i)
        /\ todo' \in [Clients -> SUBSET Machines]
        /\ \A d \in Clients : todo'[d] \subseteq todo[d]
        /\ \A d \in Clients \ {i} : todo'[d] = todo[d]
    BY <2>1, ServerSteps
  <2>3. /\ holder' \in [Machines -> Clients \cup {Free}]
        /\ released' \in [Clients -> SUBSET Machines]
    BY <2>2, ServerTypes
  <2>4. failed' = failed \cup ({i} \cap Experiments)
    BY <2>1 DEF ServerFails
  <2>5. tries' \in [Clients -> 0..MaxTries]
    <3>1. tries[i] < MaxTries
      BY <1>5 DEF AttemptFails, TriesLeft
    <3>2. QED
      BY <2>1, <3>1, AfeAssumption DEF AfeTypeOK
  <2>6. AfeTypeOK'
    BY <1>p, <2>1, <2>2, <2>3, <2>4, <2>5 DEF AfeTypeOK
  <2>7. QED
    BY <2>1, <2>2, <2>4, <2>6 DEF LeavesOthers, AfeTypeOK
<1>6. QED
  BY <1>1, <1>2, <1>3, <1>4, <1>5 DEF Imager

LEMMA Steps ==
  ASSUME AfeInv, NEW c \in Clients, Step(c)
  PROVE  AfeTypeOK' /\ LeavesOthers(c)
PROOF BY ExperimentSteps, PersonSteps, ImagerSteps DEF AfeInv, Step

-----------------------------------------------------------------------------
(* What the others know stays right                                        *)

LEMMA OthersKnow ==
  ASSUME AfeTypeOK, NEW c \in Clients, NEW e \in Experiments \ {c}, KnowsLocks(e), LeavesOthers(c)
  PROVE  KnowsLocks(e)'
PROOF
<1>1. e \in Clients /\ e # Free /\ e \notin Imagers
  BY AfeAssumption DEF Clients
<1>2. phase'[e] = phase[e] /\ Known(e)' = Known(e) /\ failed \subseteq failed'
  BY <1>1 DEF LeavesOthers, Known
<1>3. ServerChange(c)
  BY DEF LeavesOthers
<1>4. CASE holder' = holder /\ released'[e] = released[e]
  BY <1>2, <1>4 DEF KnowsLocks, Holds
<1>5. CASE \E m \in Machines : /\ ~Locked(m) /\ holder' = [holder EXCEPT ![m] = c]
                               /\ released' = [released EXCEPT ![c] = @ \ {m}]
  <2>1. Holds(e)' = Holds(e) /\ released'[e] = released[e]
    BY <1>1, <1>5 DEF Holds, Locked, AfeTypeOK
  <2>2. QED
    BY <1>2, <2>1 DEF KnowsLocks
<1>6. ASSUME NEW m \in Machines, holder' = [holder EXCEPT ![m] = Free],
             released'[e] = IF ReliesOn(e, m) THEN released[e] \cup {m} ELSE released[e]
      PROVE  KnowsLocks(e)'
  <2>1. Holds(e)' = Holds(e) \ {m}
    BY <1>1, <1>6 DEF Holds, AfeTypeOK
  <2>2. CASE phase[e] \in {"idle", "locking", "running", "unlock"}
    <3>1. ~ReliesOn(e, m) => m \notin Known(e)
      BY <1>1, <2>2 DEF ReliesOn, Known
    <3>2. Holds(e) = Known(e) \ released[e]
      BY <2>2 DEF KnowsLocks
    <3>3. Holds(e)' = Known(e) \ released'[e]
      BY <1>6, <2>1, <3>1, <3>2
    <3>4. QED
      BY <1>2, <2>1, <3>3 DEF KnowsLocks
  <2>3. CASE phase[e] \notin {"idle", "locking", "running", "unlock"}
    BY <1>2, <2>1, <2>3 DEF KnowsLocks
  <2>4. QED
    BY <2>2, <2>3
<1>7. QED
  BY <1>1, <1>3, <1>4, <1>5, <1>6 DEF ServerChange, AfeTypeOK

LEMMA OthersStillOwn ==
  ASSUME AfeTypeOK, NEW c \in Clients, NEW d \in (Experiments \cup People) \ {c}, StillOwn(d), LeavesOthers(c)
  PROVE  StillOwn(d)'
PROOF
<1>1. d \in Clients /\ d \notin Imagers
  BY AfeAssumption DEF Clients
<1>2. phase'[d] = phase[d] /\ todo'[d] = todo[d] /\ todo[d] \subseteq Machines
  BY <1>1 DEF LeavesOthers, AfeTypeOK
<1> SUFFICES ASSUME phase[d] = "unlocking", NEW n \in todo[d]
             PROVE  n \in released'[d] \/ Owns(d, n)'
  BY <1>2 DEF StillOwn
<1>3. n \in Machines /\ (n \in released[d] \/ Owns(d, n)) /\ ReliesOn(d, n)
  BY <1>1, <1>2 DEF StillOwn, ReliesOn
<1>4. CASE holder' = holder /\ released'[d] = released[d]
  BY <1>3, <1>4 DEF Owns, Locked
<1>5. CASE \E m \in Machines : /\ ~Locked(m) /\ holder' = [holder EXCEPT ![m] = c]
                               /\ released' = [released EXCEPT ![c] = @ \ {m}]
  BY <1>1, <1>3, <1>5 DEF Owns, Locked, AfeTypeOK
<1>6. ASSUME NEW m \in Machines, holder' = [holder EXCEPT ![m] = Free],
             released'[d] = IF ReliesOn(d, m) THEN released[d] \cup {m} ELSE released[d]
      PROVE  n \in released'[d] \/ Owns(d, n)'
  BY <1>3, <1>6 DEF Owns, Locked, AfeTypeOK
<1>7. LeavesOthers(c)
  OBVIOUS
<1>8. QED
  BY <1>1, <1>4, <1>5, <1>6, <1>7 DEF LeavesOthers, ServerChange, AfeTypeOK

-----------------------------------------------------------------------------
(* What a client knows of its own locks                                    *)

LEMMA HoldsAfterUnlock ==
  ASSUME AfeTypeOK, NEW c \in Clients, NEW m \in Machines, UnlockNext(c, m)
  PROVE  Holds(c)' = Holds(c) \ {m} /\ todo'[c] = todo[c] \ {m}
PROOF BY KindsDisjoint DEF UnlockNext, Holds, AfeTypeOK

\* One step per action: an experiment knows after it what it has locked.
LEMMA ExperimentKnows ==
  ASSUME AfeInv, NEW e \in Experiments, Experiment(e)
  PROVE  KnowsLocks(e)'
PROOF
<1>0. e \in Clients /\ AfeTypeOK /\ KnowsLocks(e)
  BY DEF Clients, AfeInv
<1>1. CASE QueryToLock(e)
  BY <1>0, <1>1 DEF QueryToLock, Goto, KnowsLocks, Known, Holds, AfeTypeOK, ExperimentPhases
<1>2. CASE LockMachine(e)
  <2>1. PICK m \in Machines : LockNext(e, m) /\ updated' = [updated EXCEPT ![e] = @ \cup {m}]
    BY <1>2 DEF LockMachine
  <2>2. phase[e] = "locking" /\ UNCHANGED <<phase, locked_machines, remote, tries, failed>>
    BY <1>2, <2>1 DEF LockMachine, LockNext
  <2>3. Holds(e)' = Holds(e) \cup {m} /\ updated'[e] = updated[e] \cup {m} /\ released'[e] = released[e] \ {m}
    BY <1>0, <2>1 DEF LockNext, Holds, AfeTypeOK
  <2>4. Known(e) = updated[e] /\ Known(e)' = updated'[e]
    BY <2>2 DEF Known
  <2>5. QED
    BY <1>0, <2>2, <2>3, <2>4 DEF KnowsLocks
<1>3. CASE AllLocked(e)
  <2>1. /\ phase[e] = "locking"
        /\ phase'[e] = IF updated[e] = {} THEN "atexit" ELSE "running"
        /\ locked_machines'[e] = updated[e]
        /\ UNCHANGED <<holder, failed, released>>
    BY <1>0, <1>3 DEF AllLocked, AfeTypeOK
  <2>2. Known(e) = updated[e] /\ Known(e)' = updated[e]
    BY <2>1 DEF Known
  <2>3. Holds(e)' = Holds(e) /\ phase'[e] \in ExperimentPhases
    BY <2>1 DEF Holds, ExperimentPhases
  <2>4. QED
    BY <1>0, <2>1, <2>2, <2>3 DEF KnowsLocks
<1>4. CASE LockingError(e)
  BY <1>0, <1>4 DEF LockingError, Goto, ServerFails, KnowsLocks, AfeTypeOK, ExperimentPhases
<1>5. CASE RunEnds(e)
  BY <1>0, <1>5 DEF RunEnds, Goto, KnowsLocks, Known, Holds, AfeTypeOK, ExperimentPhases
<1>6. CASE QueryToUnlock(e)
  <2>1. /\ phase[e] = "unlock" /\ phase'[e] \in {"unlocking", "atexit"}
        /\ UNCHANGED <<holder, locked_machines, failed>>
    BY <1>0, <1>6 DEF QueryToUnlock, Goto, AfeTypeOK
  <2>2. Known(e) = locked_machines[e] /\ Known(e)' = locked_machines[e]
    BY <2>1 DEF Known
  <2>3. QED
    BY <1>0, <2>1, <2>2 DEF KnowsLocks, Holds, ExperimentPhases
<1>7. CASE UnlockMachine(e)
  <2>1. PICK m \in Machines : UnlockNext(e, m)
    BY <1>7 DEF UnlockMachine
  <2>2. /\ phase[e] = "unlocking" /\ UNCHANGED <<phase, locked_machines, failed>>
    BY <1>7 DEF UnlockMachine
  <2>3. Known(e) = locked_machines[e] /\ Known(e)' = locked_machines[e]
    BY <2>2 DEF Known
  <2>4. Holds(e)' = Holds(e) \ {m}
    BY <1>0, <2>1, HoldsAfterUnlock
  <2>5. QED
    BY <1>0, <2>2, <2>3, <2>4 DEF KnowsLocks
<1>8. CASE UnlockEnds(e)
  <2>1. /\ phase[e] = "unlocking" /\ phase'[e] = "atexit"
        /\ UNCHANGED <<holder, locked_machines, released>> /\ failed \subseteq failed'
    BY <1>0, <1>8 DEF UnlockEnds, LoopEnds, Goto, ServerFails, AfeTypeOK
  <2>2. Known(e) = locked_machines[e] /\ Known(e)' = locked_machines[e]
    BY <2>1 DEF Known
  <2>3. QED
    BY <1>0, <2>1, <2>2 DEF KnowsLocks, Holds, ExperimentPhases
<1>9. CASE QueryToCleanup(e)
  <2>1. /\ phase[e] = "atexit" /\ phase'[e] = "cleanup"
        /\ todo'[e] = ToUnlock(locked_machines[e])
        /\ UNCHANGED <<holder, failed, released>>
    BY <1>0, <1>9 DEF QueryToCleanup, Goto, AfeTypeOK
  <2>2. Known(e) = locked_machines[e] /\ Known(e)' = ToUnlock(locked_machines[e])
    BY <2>1 DEF Known
  <2>3. Holds(e) \subseteq locked_machines[e] => Holds(e) \subseteq ToUnlock(locked_machines[e])
    BY <1>0, KindsDisjoint DEF Holds, ToUnlock, Locked
  <2>4. Holds(e)' = Holds(e)
    BY <2>1 DEF Holds
  <2>5. QED
    BY <1>0, <2>1, <2>2, <2>3, <2>4 DEF KnowsLocks, ExperimentPhases
<1>10. CASE CleanupMachine(e)
  <2>1. PICK m \in Machines : UnlockNext(e, m)
    BY <1>10 DEF CleanupMachine
  <2>2. /\ phase[e] = "cleanup" /\ UNCHANGED <<phase, failed>>
    BY <1>10 DEF CleanupMachine
  <2>3. Known(e) = todo[e] /\ Known(e)' = todo'[e]
    BY <2>2 DEF Known
  <2>4. Holds(e)' = Holds(e) \ {m} /\ todo'[e] = todo[e] \ {m}
    BY <1>0, <2>1, HoldsAfterUnlock
  <2>5. QED
    BY <1>0, <2>2, <2>3, <2>4 DEF KnowsLocks
<1>11. CASE CleanupEnds(e)
  <2>1. /\ phase[e] = "cleanup" /\ phase'[e] = "over" /\ holder' = holder
        /\ failed \subseteq failed' /\ (todo[e] = {} \/ e \in failed')
    BY <1>0, <1>11 DEF CleanupEnds, LoopEnds, Goto, ServerFails, AfeTypeOK
  <2>2. Known(e) = todo[e] /\ Known(e)' = {}
    BY <2>1 DEF Known
  <2>3. QED
    BY <1>0, <2>1, <2>2 DEF KnowsLocks, Holds, ExperimentPhases
<1>12. CASE ExperimentQueryFails(e)
  <2>1. e \in failed' /\ phase'[e] \in {"atexit", "over"}
    BY <1>0, <1>12 DEF ExperimentQueryFails, QueryFails, Goto, ServerFails, AfeTypeOK
  <2>2. QED
    BY <2>1 DEF KnowsLocks, ExperimentPhases
<1>13. QED
  BY <1>1, <1>2, <1>3, <1>4, <1>5, <1>6, <1>7, <1>8, <1>9, <1>10, <1>11, <1>12 DEF Experiment

\* Where c unlocks a machine, it is its user's own or others have unlocked it.
UnlocksOwn(c) ==
  phase[c] = "unlocking" =>
    \A n \in Machines : Locked(n) /\ holder'[n] # holder[n] /\ ~Owns(c, n) => n \in released[c]

\* The query finds no lock of another user.
LEMMA QueryOwn ==
  ASSUME AfeTypeOK, NEW c \in Clients, NEW ms \in SUBSET Machines, MayUnlock(c, ms),
         todo'[c] = ToUnlock(ms), holder' = holder
  PROVE  StillOwn(c)'
PROOF BY DEF StillOwn, ToUnlock, MayUnlock, Owns, Locked

LEMMA UnlockOwn ==
  ASSUME AfeTypeOK, NEW c \in Clients, StillOwn(c), phase[c] = "unlocking",
         NEW m \in Machines, UnlockNext(c, m), phase' = phase
  PROVE  StillOwn(c)' /\ UnlocksOwn(c)
PROOF
<1>1. /\ m \in todo[c] /\ todo'[c] = todo[c] \ {m} /\ todo[c] \subseteq Machines
      /\ holder' = [holder EXCEPT ![m] = Free]
      /\ released'[c] = released[c]
  BY DEF UnlockNext, AfeTypeOK
<1>2. \A n \in Machines \ {m} : holder'[n] = holder[n]
  BY <1>1 DEF AfeTypeOK
<1>3. QED
  BY <1>1, <1>2 DEF StillOwn, UnlocksOwn, Owns, Locked

LEMMA ExperimentStillOwns ==
  ASSUME AfeInv, NEW e \in Experiments, Experiment(e)
  PROVE  StillOwn(e)' /\ UnlocksOwn(e)
PROOF
<1>0. e \in Clients /\ AfeTypeOK /\ StillOwn(e)
  BY DEF Clients, AfeInv
<1>1. CASE UnlockMachine(e)
  <2>1. PICK m \in Machines : UnlockNext(e, m)
    BY <1>1 DEF UnlockMachine
  <2>2. phase[e] = "unlocking" /\ phase' = phase
    BY <1>1 DEF UnlockMachine
  <2>3. QED
    BY <1>0, <2>1, <2>2, UnlockOwn
<1>2. CASE QueryToUnlock(e)
  <2>1. phase[e] = "unlock" /\ UnlocksOwn(e)
    BY <1>2 DEF QueryToUnlock, Goto, UnlocksOwn
  <2>2. CASE phase'[e] # "unlocking"
    BY <2>1, <2>2 DEF StillOwn
  <2>3. CASE phase'[e] = "unlocking"
    <3>1. MayUnlock(e, locked_machines[e]) /\ todo'[e] = ToUnlock(locked_machines[e]) /\ holder' = holder
      BY <1>0, <1>2, <2>3 DEF QueryToUnlock, Goto, AfeTypeOK
    <3>2. locked_machines[e] \in SUBSET Machines
      BY <1>0 DEF AfeTypeOK
    <3>3. QED
      BY <1>0, <2>1, <3>1, <3>2, QueryOwn
  <2>4. QED
    BY <2>2, <2>3
<1>3. CASE UnlockEnds(e) \/ ExperimentQueryFails(e)
  <2>1. phase'[e] # "unlocking" /\ holder' = holder
    BY <1>0, <1>3 DEF UnlockEnds, LoopEnds, ExperimentQueryFails, QueryFails, Goto, ServerFails, AfeTypeOK
  <2>2. QED
    BY <2>1 DEF StillOwn, UnlocksOwn
<1>4. CASE QueryToLock(e) \/ AllLocked(e) \/ RunEnds(e) \/ LockingError(e) \/ QueryToCleanup(e) \/ CleanupEnds(e)
  <2>1. phase'[e] # "unlocking" /\ phase[e] # "unlocking"
    BY <1>0, <1>4 DEF QueryToLock, AllLocked, RunEnds, LockingError, QueryToCleanup, CleanupEnds, LoopEnds, Goto, AfeTypeOK
  <2>2. QED
    BY <2>1 DEF StillOwn, UnlocksOwn
<1>5. CASE LockMachine(e) \/ CleanupMachine(e)
  <2>1. phase'[e] # "unlocking" /\ phase[e] # "unlocking"
    BY <1>5 DEF LockMachine, CleanupMachine
  <2>2. QED
    BY <2>1 DEF StillOwn, UnlocksOwn
<1>6. QED
  BY <1>1, <1>2, <1>3, <1>4, <1>5 DEF Experiment

LEMMA PersonStillOwns ==
  ASSUME AfeInv, NEW p \in People, PersonLocks(p) \/ PersonUnlocks(p)
  PROVE  StillOwn(p)' /\ UnlocksOwn(p)
PROOF
<1>0. p \in Clients /\ AfeTypeOK /\ StillOwn(p)
  BY DEF Clients, AfeInv
<1>1. CASE PersonLocks(p)
  <2>1. phase'[p] # "unlocking" /\ phase[p] # "unlocking"
    BY <1>0, <1>1 DEF PersonLocks, QueryFails, LoopEnds, Goto, AfeTypeOK
  <2>2. QED
    BY <2>1 DEF StillOwn, UnlocksOwn
<1>2. CASE PersonUnlocks(p)
  <2>1. CASE /\ MayUnlock(p, Ours(p))
             /\ Goto(p, "owner", "unlocking")
             /\ todo' = [todo EXCEPT ![p] = ToUnlock(Ours(p))]
             /\ holder' = holder
    <3>1. phase[p] = "owner" /\ todo'[p] = ToUnlock(Ours(p)) /\ Ours(p) \in SUBSET Machines
      BY <1>0, <2>1, OursAreMachines DEF Goto, AfeTypeOK
    <3>2. QED
      BY <1>0, <2>1, <3>1, QueryOwn DEF UnlocksOwn
  <2>2. CASE Goto(p, "owner", "over")
    <3>1. phase'[p] # "unlocking" /\ phase[p] # "unlocking"
      BY <1>0, <2>2 DEF Goto, AfeTypeOK
    <3>2. QED
      BY <3>1 DEF StillOwn, UnlocksOwn
  <2>3. CASE QueryFails(p, "owner", "over") \/ LoopEnds(p, "unlocking", "over")
    <3>1. phase'[p] # "unlocking" /\ holder' = holder
      BY <1>0, <2>3 DEF QueryFails, LoopEnds, Goto, ServerFails, AfeTypeOK
    <3>2. QED
      BY <3>1 DEF StillOwn, UnlocksOwn
  <2>4. CASE /\ phase[p] = "unlocking"
             /\ \E m \in Machines : UnlockNext(p, m)
             /\ UNCHANGED <<phase, updated, locked_machines, remote, tries, failed>>
    BY <1>0, <2>4, UnlockOwn
  <2>5. QED
    BY <1>2, <2>1, <2>2, <2>3, <2>4 DEF PersonUnlocks
<1>3. QED
  BY <1>1, <1>2

LEMMA ImagerTries ==
  ASSUME AfeTypeOK, NEW i \in Imagers, TriesLeft(i), Imager(i)
  PROVE  TriesLeft(i)'
PROOF
<1>0. i \in Clients
  BY DEF Clients
<1>1. CASE AcquireLock(i) \/ AcquireMachine(i) \/ ReleaseMachine(i)
  BY <1>0, <1>1 DEF AcquireLock, AcquireMachine, ReleaseMachine, TriesLeft, AfeTypeOK
<1>2. CASE AttemptFails(i)
  BY <1>0, <1>2 DEF AttemptFails, TriesLeft, AfeTypeOK
<1>3. CASE Acquired(i) \/ Imaged(i) \/ ReleaseEnds(i)
  BY <1>0, <1>3 DEF Acquired, Imaged, ReleaseEnds, LoopEnds, Goto, TriesLeft, AfeTypeOK
<1>4. QED
  BY <1>1, <1>2, <1>3 DEF Imager

-----------------------------------------------------------------------------
(* The theorems                                                            *)

LEMMA AfeInvInit == AfeInit => AfeInv
PROOF
<1> SUFFICES ASSUME AfeInit PROVE AfeInv
  OBVIOUS
<1>1. AfeTypeOK
  <2>1. holder \in [Machines -> Clients \cup {Free}] /\ phase \in [Clients -> Phases] /\ tries \in [Clients -> 0..MaxTries]
    BY AfeAssumption DEF AfeInit, Phases
  <2>2. QED
    BY <2>1, OursAreMachines DEF AfeInit, AfeTypeOK
<1>2. \A m \in Machines : holder[m] = Free
  BY DEF AfeInit
<1>3. ASSUME NEW e \in Experiments PROVE KnowsLocks(e)
  <2>1. e \in Clients /\ e # Free
    BY AfeAssumption DEF Clients
  <2>2. phase[e] = "idle" /\ updated[e] = {} /\ Holds(e) = {}
    BY <1>2, <2>1 DEF AfeInit, Holds
  <2>3. QED
    BY <2>2 DEF KnowsLocks, Known, ExperimentPhases
<1>4. \A c \in Clients : phase[c] = "idle" /\ tries[c] = 0
  BY DEF AfeInit
<1>5. QED
  BY <1>1, <1>3, <1>4, AfeAssumption DEF AfeInv, StillOwn, TriesLeft, Clients

LEMMA AfeInvStep ==
  ASSUME AfeInv, NEW c \in Clients, Step(c)
  PROVE  AfeInv'
PROOF
<1>1. AfeTypeOK /\ AfeTypeOK' /\ LeavesOthers(c)
  BY Steps DEF AfeInv
<1>2. ASSUME NEW e \in Experiments PROVE KnowsLocks(e)'
  <2>1. CASE e = c
    <3>1. Experiment(e)
      BY <2>1, KindsDisjoint DEF Step
    <3>2. QED
      BY <3>1, ExperimentKnows
  <2>2. CASE e # c
    BY <1>1, <2>2, OthersKnow DEF AfeInv
  <2>3. QED
    BY <2>1, <2>2
<1>3. ASSUME NEW d \in Experiments \cup People PROVE StillOwn(d)'
  <2>1. CASE d # c
    BY <1>1, <2>1, OthersStillOwn DEF AfeInv
  <2>2. CASE d = c /\ d \in Experiments
    <3>1. Experiment(d)
      BY <2>2, KindsDisjoint DEF Step
    <3>2. QED
      BY <2>2, <3>1, ExperimentStillOwns
  <2>3. CASE d = c /\ d \in People
    <3>1. PersonLocks(d) \/ PersonUnlocks(d)
      BY <2>3, KindsDisjoint DEF Step
    <3>2. QED
      BY <2>3, <3>1, PersonStillOwns
  <2>4. QED
    BY <2>1, <2>2, <2>3
<1>4. ASSUME NEW i \in Imagers PROVE TriesLeft(i)'
  <2>1. i \in Clients
    BY DEF Clients
  <2>2. CASE i = c
    <3>1. Imager(i)
      BY <2>2, KindsDisjoint DEF Step
    <3>2. QED
      BY <1>1, <3>1, ImagerTries DEF AfeInv
  <2>3. CASE i # c
    BY <1>1, <2>1, <2>3 DEF LeavesOthers, TriesLeft, AfeInv
  <2>4. QED
    BY <2>2, <2>3
<1>5. QED
  BY <1>1, <1>2, <1>3, <1>4 DEF AfeInv

LEMMA AfeInvNext == AfeInv /\ [AfeNext]_afeVars => AfeInv'
PROOF
<1>1. ASSUME AfeInv, UNCHANGED afeVars PROVE AfeInv'
  BY <1>1 DEF afeVars, AfeInv, AfeTypeOK, KnowsLocks, Known, Holds, StillOwn, Owns, Locked, TriesLeft
<1>2. QED
  BY <1>1, AfeInvStep DEF AfeNext

\* For any clients, users and machines: an experiment has exactly the machines
\* it took down that nobody else unlocked, while it runs (_LockAllMachines), and one
\* for which no call failed leaves none locked (_UnlockAllMachines, Cleanup).
THEOREM AfeLocksKept == AfeSpec => []LocksKept
PROOF
<1>1. AfeInv => LocksKept
  <2> SUFFICES ASSUME AfeInv PROVE LocksKept
    OBVIOUS
  <2>1. ASSUME NEW e \in Experiments, phase[e] \in {"running", "unlock"}
        PROVE  Holds(e) = locked_machines[e] \ released[e]
    BY <2>1 DEF AfeInv, KnowsLocks, Known
  <2>2. ASSUME NEW e \in Experiments, phase[e] = "over", e \notin failed
        PROVE  Holds(e) = {}
    BY <2>2 DEF AfeInv, KnowsLocks, Known
  <2>3. QED
    BY <2>1, <2>2 DEF LocksKept, LockedAreHeld, NothingLeftLocked, AfeInv
<1>2. QED
  BY <1>1, AfeInvInit, AfeInvNext, PTL DEF AfeSpec

\* For any clients, users and machines: _UnlockAllMachines and the command line,
\* which ask whose the locks are (CheckMachineLocks), take the lock of another
\* user only where a third client unlocked the machine after they asked.
THEOREM AfeStaleUnlocksOnly == AfeSpec => StaleUnlocksOnly
PROOF
<1> DEFINE Takes == \A c \in Experiments \cup People, m \in Machines :
                      /\ phase[c] = "unlocking" /\ Step(c)
                      /\ Locked(m) /\ holder'[m] # holder[m] /\ ~Owns(c, m)
                      => m \in released[c]
<1>1. AfeInv => Takes
  <2> SUFFICES ASSUME AfeInv, NEW c \in Experiments \cup People, phase[c] = "unlocking", Step(c)
               PROVE  UnlocksOwn(c)
    BY DEF UnlocksOwn
  <2>1. CASE c \in Experiments
    <3>1. c \in Clients /\ Experiment(c)
      BY <2>1, KindsDisjoint DEF Step, Clients
    <3>2. QED
      BY <2>1, <3>1, ExperimentStillOwns
  <2>2. CASE c \in People
    <3>1. c \in Clients /\ (PersonLocks(c) \/ PersonUnlocks(c))
      BY <2>2, KindsDisjoint DEF Step, Clients
    <3>2. QED
      BY <2>2, <3>1, PersonStillOwns
  <2>3. QED
    BY <2>1, <2>2
<1>2. QED
  BY <1>1, AfeInvInit, AfeInvNext, PTL DEF AfeSpec, StaleUnlocksOnly

=============================================================================
