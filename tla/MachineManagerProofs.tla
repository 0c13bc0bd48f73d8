------------------------ MODULE MachineManagerProofs ------------------------
(***************************************************************************)
(* MachineManager never gives a machine to two brs, keeps the machines in  *)
(* use locked, and loses none that was not removed: for any number of brs, *)
(* machines and labels, and any acquire_timeout.                           *)
(*                                                                         *)
(* Inv says who has which machine: a br between AcquireMachine and the end *)
(* of ReleaseMachine has a machine of its own, which is marked locked; it  *)
(* is in _machines, unless the br has removed it already.                  *)
(***************************************************************************)
EXTENDS MachineManager, FiniteSetTheorems, TLAPS

Has(b) == Uses(b) \/ pc[b] = "release"

Types ==
  /\ machines \subseteq Machines
  /\ locked \in [Machines -> BOOLEAN]
  /\ lockfile \in [Machines -> {"free", "us", "other"}]
  /\ pc \in [Brs -> {"poll", "asleep", "image", "imaging", "run", "finally", "release", "ended"}]
  /\ machine \in [Brs -> Machines \cup {NoMachine}]

\* Who has a machine has one of its own, and that is locked.
Held ==
  /\ \A b \in Brs : Has(b) => machine[b] \in Machines /\ locked[machine[b]]
  /\ \A b \in Brs : ~Has(b) => machine[b] = NoMachine
  /\ \A b, c \in Brs : b # c /\ Has(b) /\ Has(c) => machine[b] # machine[c]

\* Until Cleanup _machines are the machines the process has lock files of; the
\* ones in use are among them.
Kept ==
  /\ BeforeCleanup => \A m \in machines : lockfile[m] = "us"
  /\ \A b \in Brs : Uses(b) => machine[b] \in machines
  /\ \A b \in Brs : pc[b] = "release" => machine[b] \in machines \cup removed

Inv == Types /\ Held /\ Kept /\ LostWereRemoved

-----------------------------------------------------------------------------

LEMMA InitInv == Init => Inv
BY DEF Init, Inv, Types, Held, Kept, BeforeCleanup, LostWereRemoved, Lost, Has, Uses

\* The steps of a br that leave its machine alone.
LEMMA OnlyPcStep ==
  ASSUME Inv, NEW b \in Brs, onlyPc, main # "gone",
         NEW to \in {"poll", "asleep", "image", "imaging", "run", "finally", "release", "ended"},
         pc' = [pc EXCEPT ![b] = to],
         \/ ~Has(b) /\ to \in {"poll", "asleep", "ended"}
         \/ Uses(b) /\ to \in {"image", "imaging", "run", "finally", "release"}
  PROVE  Inv'
BY DEF Inv, Types, Held, Kept, BeforeCleanup, LostWereRemoved, Lost, Has, Uses, onlyPc, mainUnchanged

LEMMA AcquireMachineInv ==
  ASSUME Inv, NEW b \in Brs, AcquireMachine(b), main # "gone"
  PROVE  Inv'
PROOF
<1>1. PICK m \in Choice(b) :
        /\ machine' = [machine EXCEPT ![b] = m]
        /\ locked' = [n \in Machines |-> locked[n] \/ n = m]
        /\ pc' = [pc EXCEPT ![b] = IF m = NoMachine THEN "poll" ELSE "image"]
  BY DEF AcquireMachine
<1>2. /\ machines' = machines \cup Lockable(b)
      /\ lockfile' = [n \in Machines |-> IF n \in Lockable(b) THEN "us" ELSE lockfile[n]]
      /\ UNCHANGED <<removed, main>>
      /\ Lockable(b) \subseteq Machines
      /\ ~Has(b)
  BY ManagerAssumption DEF AcquireMachine, TryToLockMachines, mainUnchanged, InLoop, Has, Uses, Lockable
<1>3. m = NoMachine \/ (m \in machines' /\ m \in Machines /\ ~locked[m])
  BY <1>2, ManagerAssumption DEF Choice, UnlockedMachines, Inv, Types
<1>4. NoMachine \notin Machines
  BY ManagerAssumption
<1>5. Types'
  BY <1>1, <1>2, <1>3 DEF Inv, Types
<1>6. Held'
  <2>1. CASE m = NoMachine
    BY <1>1, <1>2, <1>4, <2>1 DEF Inv, Types, Held, Has, Uses
  <2>2. CASE m # NoMachine
    <3>1. /\ machine'[b] = m /\ locked'[m] /\ m \in Machines /\ ~locked[m] /\ Has(b)'
          /\ \A n \in Machines : locked[n] => locked'[n]
      BY <1>1, <1>3, <2>2 DEF Inv, Types, Has, Uses
    <3>2. \A c \in Brs \ {b} : machine'[c] = machine[c] /\ (Has(c)' <=> Has(c))
      BY <1>1 DEF Inv, Types, Has, Uses
    <3>3. QED
      BY <3>1, <3>2 DEF Inv, Held
  <2>3. QED
    BY <2>1, <2>2
<1>7. Kept'
  BY <1>1, <1>2, <1>3, <1>4 DEF Inv, Types, Held, Kept, BeforeCleanup, Has, Uses
<1>8. LostWereRemoved'
  BY <1>1, <1>2, <1>3, <1>4 DEF Inv, Types, Held, LostWereRemoved, Lost, Has, Uses
<1>9. QED
  BY <1>5, <1>6, <1>7, <1>8 DEF Inv

\* A step that changes neither who has what, nor _machines and the lock files.
LEMMA ImagingStep ==
  ASSUME Inv, NEW b \in Brs, main # "gone", Uses(b),
         NEW to \in {"run", "finally"}, pc' = [pc EXCEPT ![b] = to],
         UNCHANGED <<machines, locked, lockfile, machine, removed, main>>
  PROVE  Inv'
BY DEF Inv, Types, Held, Kept, BeforeCleanup, LostWereRemoved, Lost, Has, Uses

LEMMA RemoveMachineInv ==
  ASSUME Inv, NEW b \in Brs, RemoveMachine(b), main # "gone"
  PROVE  Inv'
PROOF
<1>1. /\ pc[b] = "finally" /\ pc' = [pc EXCEPT ![b] = "release"]
      /\ machines' = machines \ {machine[b]}
      /\ lockfile' \in {lockfile, [lockfile EXCEPT ![machine[b]] = "free"]}
      /\ removed' = removed \cup {machine[b]}
      /\ UNCHANGED <<locked, machine, main>>
  BY DEF RemoveMachine, Goto, mainUnchanged
<1>2. Types' /\ Held'
  BY <1>1 DEF Inv, Types, Held, Has, Uses
<1>3. Kept'
  BY <1>1 DEF Inv, Types, Held, Kept, BeforeCleanup, Has, Uses
<1>4. LostWereRemoved'
  BY <1>1 DEF Inv, LostWereRemoved, Lost
<1>5. QED
  BY <1>2, <1>3, <1>4 DEF Inv

LEMMA ReleaseMachineInv ==
  ASSUME Inv, NEW b \in Brs, ReleaseMachine(b), main # "gone"
  PROVE  Inv'
PROOF
<1>1. /\ pc[b] = "release" /\ pc' = [pc EXCEPT ![b] = "ended"]
      /\ locked' = [locked EXCEPT ![machine[b]] = @ /\ machine[b] \notin machines]
      /\ machine' = [machine EXCEPT ![b] = NoMachine]
      /\ UNCHANGED <<machines, lockfile, removed, main>>
  BY DEF ReleaseMachine, Goto, mainUnchanged
<1>2. machine[b] \in Machines /\ NoMachine \notin Machines
  BY <1>1, ManagerAssumption DEF Inv, Held, Has
<1>3. Types'
  BY <1>1, <1>2 DEF Inv, Types
<1>4. Held'
  <2>1. ~Has(b)' /\ machine'[b] = NoMachine
    BY <1>1 DEF Inv, Types, Has, Uses
  <2>2. \A c \in Brs \ {b} : machine'[c] = machine[c] /\ (Has(c)' <=> Has(c))
    BY <1>1 DEF Inv, Types, Has, Uses
  <2>3. \A n \in Machines \ {machine[b]} : locked[n] => locked'[n]
    BY <1>1 DEF Inv, Types
  <2>4. Has(b)
    BY <1>1 DEF Has
  <2>5. \A c \in Brs : Has(c)' => machine'[c] \in Machines /\ locked'[machine'[c]]
    BY <2>1, <2>2, <2>3, <2>4 DEF Inv, Held
  <2>6. QED
    BY <2>1, <2>2, <2>5 DEF Inv, Held
<1>5. Kept'
  BY <1>1, <1>2 DEF Inv, Types, Kept, BeforeCleanup, Has, Uses
<1>6. LostWereRemoved'
  <2>1. SUFFICES ASSUME NEW n \in Machines, locked'[n], \A c \in Brs : machine'[c] # n
                 PROVE  n \in removed
    BY <1>1 DEF LostWereRemoved, Lost
  <2>2. CASE n = machine[b]
    <3>1. machine[b] \notin machines
      BY <1>1, <1>2, <2>1, <2>2 DEF Inv, Types
    <3>2. QED
      BY <1>1, <2>2, <3>1 DEF Inv, Kept, BeforeCleanup
  <2>3. CASE n # machine[b]
    <3>1. locked[n] /\ \A c \in Brs : machine[c] # n
      BY <1>1, <1>2, <2>1, <2>3 DEF Inv, Types
    <3>2. QED
      BY <3>1 DEF Inv, LostWereRemoved, Lost
  <2>4. QED
    BY <2>2, <2>3
<1>7. QED
  BY <1>3, <1>4, <1>5, <1>6 DEF Inv

LEMMA BrInv ==
  ASSUME Inv, NEW b \in Brs, Br(b)
  PROVE  Inv'
PROOF
<1>1. main # "gone"
  BY DEF Br
<1>2. CASE AcquireMachine(b)
  BY <1>1, <1>2, AcquireMachineInv
<1>3. CASE Sleep(b)
  <2>1. /\ ~Has(b) /\ pc' = [pc EXCEPT ![b] = "asleep"]
        /\ UNCHANGED <<machines, locked, lockfile, machine, removed, main>>
    BY <1>3 DEF Sleep, InLoop, Has, Uses, mainUnchanged
  <2>2. QED
    BY <1>1, <2>1 DEF Inv, Types, Held, Kept, BeforeCleanup, LostWereRemoved, Lost, Has, Uses
<1>4. CASE GiveUp(b)
  <2>1. ~Has(b) /\ pc' = [pc EXCEPT ![b] = "ended"] /\ onlyPc
    BY <1>4 DEF GiveUp, Has, Uses
  <2>2. QED
    BY <1>1, <2>1, OnlyPcStep
<1>5. CASE ImageMachine(b)
  <2>1. Uses(b) /\ onlyPc /\ \E to \in {"run", "imaging"} : pc' = [pc EXCEPT ![b] = to]
    BY <1>5 DEF ImageMachine, Goto, Uses
  <2>2. QED
    BY <1>1, <2>1, OnlyPcStep
<1>6. CASE DoImage(b)
  <2>1. /\ Uses(b) /\ pc' = [pc EXCEPT ![b] = "run"]
        /\ UNCHANGED <<machines, locked, lockfile, machine, removed, main>>
    BY <1>6 DEF DoImage, Goto, Uses, mainUnchanged
  <2>2. QED
    BY <1>1, <2>1, ImagingStep
<1>7. CASE DoImageFails(b)
  <2>1. /\ Uses(b) /\ pc' = [pc EXCEPT ![b] = "finally"]
        /\ UNCHANGED <<machines, locked, lockfile, machine, removed, main>>
    BY <1>7 DEF DoImageFails, Goto, Uses, mainUnchanged
  <2>2. QED
    BY <1>1, <2>1, ImagingStep
<1>8. CASE RunTest(b) \/ Reachable(b)
  <2>1. Uses(b) /\ onlyPc /\ \E to \in {"finally", "release"} : pc' = [pc EXCEPT ![b] = to]
    BY <1>8 DEF RunTest, Reachable, Goto, Uses
  <2>2. QED
    BY <1>1, <2>1, OnlyPcStep
<1>9. CASE RemoveMachine(b)
  BY <1>1, <1>9, RemoveMachineInv
<1>10. CASE ReleaseMachine(b)
  BY <1>1, <1>10, ReleaseMachineInv
<1>11. QED
  BY <1>2, <1>3, <1>4, <1>5, <1>6, <1>7, <1>8, <1>9, <1>10 DEF Br

LEMMA MainInv ==
  ASSUME Inv, Main \/ Interrupt
  PROVE  Inv'
PROOF
<1>1. UNCHANGED <<locked, pc, machine, removed>>
  BY DEF Main, Interrupt, CheckThread, IsComplete, Cleanup, UnlockMachine, Leave, brsUnchanged
<1>2. CASE Cleanup \/ UnlockMachine \/ Leave
  <2>1. /\ main' \in {"cleanup", "left", "gone"} /\ UNCHANGED machines
        /\ \/ UNCHANGED lockfile
           \/ \E m \in machines : lockfile' = [lockfile EXCEPT ![m] = "free"]
    BY <1>2 DEF Cleanup, UnlockMachine, Leave
  <2>2. QED
    BY <1>1, <2>1 DEF Inv, Types, Held, Kept, BeforeCleanup, LostWereRemoved, Lost, Has, Uses
<1>3. CASE CheckThread \/ IsComplete \/ Interrupt
  <2>1. UNCHANGED <<machines, lockfile>> /\ BeforeCleanup
    BY <1>3 DEF CheckThread, IsComplete, Interrupt, BeforeCleanup
  <2>2. QED
    BY <1>1, <2>1 DEF Inv, Types, Held, Kept, BeforeCleanup, LostWereRemoved, Lost, Has, Uses
<1>4. QED
  BY <1>2, <1>3 DEF Main

LEMMA OtherInv ==
  ASSUME Inv, NEW m \in Machines, OtherTakes(m) \/ OtherGives(m)
  PROVE  Inv'
PROOF
<1>1. UNCHANGED <<machines, locked, pc, machine, removed, main>>
  BY DEF OtherTakes, OtherGives, mainUnchanged
<1>2. /\ lockfile[m] # "us"
      /\ lockfile' = [lockfile EXCEPT ![m] = "other"] \/ lockfile' = [lockfile EXCEPT ![m] = "free"]
  BY DEF OtherTakes, OtherGives
<1>3. QED
  BY <1>1, <1>2 DEF Inv, Types, Held, Kept, BeforeCleanup, LostWereRemoved, Lost, Has, Uses

LEMMA NextInv == Inv /\ [Next]_vars => Inv'
PROOF
<1>1. CASE UNCHANGED vars
  BY <1>1 DEF vars, Inv, Types, Held, Kept, BeforeCleanup, LostWereRemoved, Lost, Has, Uses
<1>2. CASE Next
  BY <1>2, BrInv, MainInv, OtherInv DEF Next
<1>3. QED
  BY <1>1, <1>2

LEMMA AlwaysInv == Spec => []Inv
BY InitInv, NextInv, PTL DEF Spec

\* For any number of brs and machines: AcquireMachine never gives a machine to
\* two brs, and ReleaseMachine's assertion against a double release holds.
THEOREM MachineOfOneBr == Spec => []OneBrPerMachine
PROOF
<1>1. Inv => OneBrPerMachine
  BY DEF Inv, Held, OneBrPerMachine, Has
<1>2. QED
  BY <1>1, AlwaysInv, PTL

\* For any number of brs, machines and other experiments: the lock file of a
\* machine in use is this process's until Cleanup begins.
THEOREM MachineKeptLocked == Spec => []UsedAreLocked
PROOF
<1>1. Inv => UsedAreLocked
  BY DEF Inv, Kept, BeforeCleanup, UsedAreLocked
<1>2. QED
  BY <1>1, AlwaysInv, PTL

\* For any number of brs and machines: only RemoveMachine followed by
\* ReleaseMachine leaves a machine locked for no br.
THEOREM OnlyRemovedAreLost == Spec => []LostWereRemoved
BY AlwaysInv, PTL DEF Inv

-----------------------------------------------------------------------------
(* The image a br runs on.                                                 *)

ImageTypes ==
  /\ checksum \in [Machines -> Images]
  /\ installed \in [Machines -> Images]
  /\ file \in [Machines -> Images]

\* What the checksum file of a machine says, and what MachineManager believes
\* before Cleanup of a machine in _machines, is nothing or true unless the
\* machine is suspect; a br runs when its machine is believed to carry its image.
Believed ==
  /\ \A m \in Machines \ suspect : file[m] \in {NoImage, installed[m]}
  /\ BeforeCleanup => \A m \in machines \ suspect : checksum[m] \in {NoImage, installed[m]}
  /\ \A b \in Brs : pc[b] = "run" => checksum[machine[b]] = Image[b]

ImageInv == Inv /\ ImageTypes /\ Believed

LEMMA InitImageInv == Init => ImageInv
PROOF
<1> SUFFICES ASSUME Init PROVE ImageTypes /\ Believed
  BY InitInv DEF ImageInv
<1>1. installed \in [Machines -> Images] /\ NoImage \in Images
  BY DEF Init, Images
<1>2. QED
  BY <1>1 DEF Init, ImageTypes, Believed, BeforeCleanup

\* A step that changes no machine and brings no br to "run".
LEMMA SameImages ==
  ASSUME Inv, Inv', ImageTypes, Believed, BeforeCleanup' => BeforeCleanup,
         UNCHANGED <<checksum, installed, file, suspect>>,
         machines' \subseteq machines,
         \A b \in Brs : pc'[b] = "run" => machine'[b] = machine[b] /\ checksum[machine[b]] = Image[b]
  PROVE  ImageTypes' /\ Believed'
BY DEF ImageTypes, Believed, BeforeCleanup

LEMMA AcquireMachineImages ==
  ASSUME ImageInv, NEW b \in Brs, AcquireMachine(b), main # "gone"
  PROVE  ImageTypes' /\ Believed'
PROOF
<1>1. PICK m \in Choice(b) :
        /\ machine' = [machine EXCEPT ![b] = m]
        /\ pc' = [pc EXCEPT ![b] = IF m = NoMachine THEN "poll" ELSE "image"]
  BY DEF AcquireMachine
<1>2. PICK failing \in SUBSET Lockable(b) : ReadChecksums(Lockable(b), failing)
  BY DEF AcquireMachine, TryToLockMachines
<1>3. /\ machines' = machines \cup Lockable(b)
      /\ UNCHANGED <<installed, file, main>>
      /\ Lockable(b) \subseteq Machines \ machines
  BY ManagerAssumption DEF AcquireMachine, TryToLockMachines, mainUnchanged, Lockable
<1>4. /\ checksum' = [n \in Machines |-> IF n \in Lockable(b) \ failing THEN file[n] ELSE checksum[n]]
      /\ suspect' = suspect \cup {n \in failing : checksum[n] # NoImage}
  BY <1>2 DEF ReadChecksums
<1>5. ImageTypes'
  BY <1>3, <1>4 DEF ImageInv, ImageTypes
<1>6. \A n \in Machines \ suspect' : file'[n] \in {NoImage, installed'[n]}
  BY <1>3, <1>4 DEF ImageInv, Believed, BeforeCleanup
<1>7. BeforeCleanup' => \A n \in machines' \ suspect' : checksum'[n] \in {NoImage, installed'[n]}
  BY <1>3, <1>4 DEF ImageInv, Inv, Types, Believed, BeforeCleanup
<1>8. ASSUME NEW c \in Brs, pc'[c] = "run"
      PROVE  checksum'[machine'[c]] = Image[c]
  <2>1. c # b /\ pc[c] = "run" /\ machine'[c] = machine[c]
    BY <1>1, <1>8 DEF ImageInv, Inv, Types
  <2>2. machine[c] \in machines /\ machine[c] \in Machines
    BY <2>1 DEF ImageInv, Inv, Types, Kept, BeforeCleanup, Uses
  <2>3. QED
    BY <1>3, <1>4, <2>1, <2>2 DEF ImageInv, Believed, BeforeCleanup
<1>9. QED
  BY <1>5, <1>6, <1>7, <1>8 DEF Believed, BeforeCleanup

LEMMA DoImageImages ==
  ASSUME ImageInv, NEW b \in Brs, DoImage(b), main # "gone"
  PROVE  ImageTypes' /\ Believed'
PROOF
<1> DEFINE m == machine[b]
<1>1. /\ pc[b] = "imaging" /\ pc' = [pc EXCEPT ![b] = "run"]
      /\ checksum' = [checksum EXCEPT ![m] = Image[b]]
      /\ UNCHANGED <<machines, machine, main>>
      /\ m \in Machines
      /\ Image[b] \in Images
  BY DEF DoImage, Goto, mainUnchanged, ImageInv, Inv, Held, Has, Uses, Images
<1>2. \A c \in Brs \ {b} : pc[c] = "run" => machine[c] # m
  BY <1>1 DEF ImageInv, Inv, Held, Has, Uses
<1>3. \A c \in Brs : pc'[c] = "run" => checksum'[machine'[c]] = Image[c]
  <2>1. checksum'[machine'[b]] = Image[b]
    BY <1>1 DEF ImageInv, ImageTypes
  <2>2. ASSUME NEW c \in Brs \ {b}, pc'[c] = "run"
        PROVE  checksum'[machine'[c]] = Image[c]
    <3>1. pc[c] = "run"
      BY <1>1, <2>2 DEF ImageInv, Inv, Types
    <3>2. machine[c] \in Machines
      BY <3>1 DEF ImageInv, Inv, Held, Has, Uses
    <3>3. QED
      BY <1>1, <1>2, <3>1, <3>2 DEF ImageInv, ImageTypes, Believed, BeforeCleanup
  <2>3. QED
    BY <2>1, <2>2
<1>4. CASE file[m] = Image[b] /\ UNCHANGED <<installed, file, suspect>>
  <2>1. m \notin suspect => installed[m] = Image[b]
    BY <1>1, <1>4, ManagerAssumption DEF ImageInv, Believed, BeforeCleanup
  <2>2. QED
    BY <1>1, <1>3, <1>4, <2>1 DEF ImageInv, Inv, Types, ImageTypes, Believed, BeforeCleanup
<1>5. CASE /\ installed' = [installed EXCEPT ![m] = Image[b]]
           /\ file' = [file EXCEPT ![m] = Image[b]]
           /\ suspect' = suspect \ {m}
  BY <1>1, <1>3, <1>5 DEF ImageInv, Inv, Types, ImageTypes, Believed, BeforeCleanup
<1>6. QED
  BY <1>4, <1>5 DEF DoImage

LEMMA DoImageFailsImages ==
  ASSUME ImageInv, NEW b \in Brs, DoImageFails(b), main # "gone"
  PROVE  ImageTypes' /\ Believed'
PROOF
<1> DEFINE m == machine[b]
<1>1. /\ pc[b] = "imaging" /\ pc' = [pc EXCEPT ![b] = "finally"]
      /\ suspect' = suspect \cup {m}
      /\ UNCHANGED <<machines, machine, main, checksum>>
      /\ m \in Machines
      /\ Image[b] \in Images /\ NoImage \in Images
  BY DEF DoImageFails, Goto, mainUnchanged, ImageInv, Inv, Held, Has, Uses, Images
<1>2. PICK i \in Images, f \in Images :
        installed' = [installed EXCEPT ![m] = i] /\ file' = [file EXCEPT ![m] = f]
  <2>1. PICK s \in {<<installed[m], file[m]>>, <<NoImage, NoImage>>, <<Image[b], NoImage>>, <<NoImage, Image[b]>>} :
          installed' = [installed EXCEPT ![m] = s[1]] /\ file' = [file EXCEPT ![m] = s[2]]
    BY DEF DoImageFails
  <2>2. s[1] \in Images /\ s[2] \in Images
    BY <1>1, <2>1 DEF ImageInv, ImageTypes
  <2>3. QED
    BY <2>1, <2>2
<1>3. QED
  BY <1>1, <1>2 DEF ImageInv, Inv, Types, ImageTypes, Believed, BeforeCleanup

LEMMA BrImages ==
  ASSUME ImageInv, NEW b \in Brs, Br(b)
  PROVE  ImageTypes' /\ Believed'
PROOF
<1>1. main # "gone" /\ Inv'
  BY BrInv DEF Br, ImageInv
<1>2. CASE AcquireMachine(b)
  BY <1>1, <1>2, AcquireMachineImages
<1>3. CASE DoImage(b)
  BY <1>1, <1>3, DoImageImages
<1>4. CASE DoImageFails(b)
  BY <1>1, <1>4, DoImageFailsImages
<1>5. CASE Sleep(b) \/ GiveUp(b) \/ ImageMachine(b) \/ RunTest(b) \/ Reachable(b) \/ RemoveMachine(b) \/ ReleaseMachine(b)
  <2>1. UNCHANGED <<checksum, installed, file, suspect, main>> /\ machines' \subseteq machines
    BY <1>5 DEF Sleep, GiveUp, ImageMachine, RunTest, Reachable, RemoveMachine, ReleaseMachine, onlyPc, mainUnchanged
  <2>2. ASSUME NEW c \in Brs, pc'[c] = "run"
        PROVE  machine'[c] = machine[c] /\ checksum[machine[c]] = Image[c]
    <3>1. CASE pc[c] = "run"
      BY <1>1, <1>5, <2>2, <3>1
      DEF ImageInv, Inv, Types, Believed, BeforeCleanup, Sleep, GiveUp, ImageMachine, RunTest, Reachable, RemoveMachine, ReleaseMachine, Goto, InLoop, onlyPc
    <3>2. CASE pc[c] # "run"
      BY <1>5, <2>2, <3>2
      DEF ImageInv, Inv, Types, Sleep, GiveUp, ImageMachine, RunTest, Reachable, RemoveMachine, ReleaseMachine, Goto, onlyPc
    <3>3. QED
      BY <3>1, <3>2
  <2>3. QED
    BY <1>1, <2>1, <2>2, SameImages DEF ImageInv, BeforeCleanup
<1>6. QED
  BY <1>2, <1>3, <1>4, <1>5 DEF Br

LEMMA NextImageInv == ImageInv /\ [Next]_vars => ImageInv'
PROOF
<1> SUFFICES ASSUME ImageInv, [Next]_vars PROVE ImageInv'
  OBVIOUS
<1>1. Inv'
  BY NextInv DEF ImageInv
<1>2. CASE UNCHANGED vars
  BY <1>1, <1>2 DEF vars, ImageInv, ImageTypes, Believed, BeforeCleanup
<1>3. ASSUME NEW b \in Brs, Br(b)
      PROVE  ImageInv'
  BY <1>1, <1>3, BrImages DEF ImageInv
<1>4. CASE Main \/ Interrupt
  <2>1. UNCHANGED <<machines, checksum, installed, file, suspect, pc, machine>>
    BY <1>4 DEF Main, Interrupt, CheckThread, IsComplete, Cleanup, UnlockMachine, Leave, brsUnchanged
  <2>2. BeforeCleanup' => BeforeCleanup
    BY <1>4 DEF Main, Interrupt, CheckThread, IsComplete, Cleanup, UnlockMachine, Leave, BeforeCleanup
  <2>3. QED
    BY <1>1, <2>1, <2>2 DEF ImageInv, ImageTypes, Believed, BeforeCleanup
<1>5. ASSUME NEW m \in Machines, main # "gone", OtherTakes(m)
      PROVE  ImageInv'
  <2>1. /\ installed' = [installed EXCEPT ![m] = OtherImage]
        /\ file' = [file EXCEPT ![m] = OtherImage]
        /\ UNCHANGED <<machines, checksum, pc, machine, suspect, main>>
        /\ lockfile[m] = "free" /\ OtherImage \in Images
    BY <1>5 DEF OtherTakes, mainUnchanged, Images
  <2>2. BeforeCleanup => m \notin machines
    BY <1>5, <2>1 DEF ImageInv, Inv, Kept, BeforeCleanup
  <2>3. QED
    BY <1>1, <1>5, <2>1, <2>2 DEF ImageInv, Inv, Types, ImageTypes, Believed, BeforeCleanup
<1>6. ASSUME NEW m \in Machines, main # "gone", OtherGives(m)
      PROVE  ImageInv'
  BY <1>1, <1>6 DEF OtherGives, mainUnchanged, ImageInv, ImageTypes, Believed, BeforeCleanup
<1>7. QED
  BY <1>2, <1>3, <1>4, <1>5, <1>6 DEF Next

\* For any number of brs, machines and images: a br runs on its label's image,
\* unless an imaging of its machine failed or its checksum could not be read.
THEOREM RunsOnRightImage == Spec => []RightImage
PROOF
<1>1. ImageInv => RightImage
  <2>1. SUFFICES ASSUME ImageInv, NEW b \in Brs, pc[b] = "run", machine[b] \notin suspect, BeforeCleanup
                 PROVE  installed[machine[b]] = Image[b]
    BY DEF RightImage
  <2>2. machine[b] \in machines /\ checksum[machine[b]] = Image[b]
    BY <2>1 DEF ImageInv, Inv, Kept, Uses, Believed, BeforeCleanup
  <2>3. QED
    BY <2>1, <2>2, ManagerAssumption DEF ImageInv, Believed, BeforeCleanup
<1>2. QED
  BY <1>1, InitImageInv, NextImageInv, PTL DEF Spec

-----------------------------------------------------------------------------
(* The counts of Experiment.IsComplete.                                    *)

\* The values that neither Inv nor the images speak of.
OtherTypes ==
  /\ patience \in 0..Patience
  /\ terminated \in BOOLEAN
  /\ main \in {"monitor", "exit", "cleanup", "left", "gone"}
  /\ others \in 0..MaxOther
  /\ removed \subseteq Machines /\ suspect \subseteq Machines

\* active_threads lists every br that has not been counted, and main_i is a
\* place in it or the one after its end.
Counts ==
  /\ active_threads \in Seq(Brs)
  /\ main_i \in 1..(Len(active_threads) + 1)
  /\ num_complete \in Nat
  /\ num_complete + Len(active_threads) = Cardinality(Brs)
  /\ \A b \in Brs : pc[b] = "ended" \/ \E i \in 1..Len(active_threads) : active_threads[i] = b

CountInv == ImageInv /\ OtherTypes /\ Counts

LEMMA BrsCount == IsFiniteSet(Brs) /\ Cardinality(Brs) \in Nat
BY ManagerAssumption, FS_CardinalityType

\* A list of all brs lists each of them.
LEMMA AllBrs ==
  /\ SetToSeq(Brs) \in [1..Cardinality(Brs) -> Brs]
  /\ \A b \in Brs : \E i \in 1..Cardinality(Brs) : SetToSeq(Brs)[i] = b
PROOF
<1> PICK n \in Nat : n = Cardinality(Brs)
  BY BrsCount
<1>1. Bijection(1..n, Brs) # {}
  BY FS_CardinalityType, ManagerAssumption DEF ExistsBijection
<1>2. PICK g : g \in Bijection(1..n, Brs)
  BY <1>1
<1>3. g \in [1..n -> Brs] /\ IsInjective(g)
  BY <1>2 DEF Bijection, Injection
<1>4. SetToSeq(Brs) \in [1..n -> Brs] /\ IsInjective(SetToSeq(Brs))
  <2>1. \E f \in [1..n -> Brs] : IsInjective(f)
    BY <1>3
  <2>2. SetToSeq(Brs) = CHOOSE f \in [1..n -> Brs] : IsInjective(f)
    BY DEF SetToSeq
  <2>3. QED
    BY <2>1, <2>2
<1>5. PICK f : f = SetToSeq(Brs)
  OBVIOUS
<1>6. f \in Injection(1..n, Brs)
  BY <1>4, <1>5 DEF Injection
<1>7. IsFiniteSet(1..n) /\ Cardinality(1..n) = n
  BY FS_Interval
<1>8. f \in Surjection(1..n, Brs)
  BY <1>6, <1>7, BrsCount, FS_Injection
<1>9. QED
  BY <1>4, <1>5, <1>8 DEF Surjection

LEMMA InitCountInv == Init => CountInv
PROOF
<1> SUFFICES ASSUME Init PROVE OtherTypes /\ Counts
  BY InitImageInv DEF CountInv
<1>1. OtherTypes
  <2>1. Patience \in 0..Patience /\ 0 \in 0..MaxOther
    BY ManagerAssumption
  <2>2. QED
    BY <2>1 DEF Init, OtherTypes
<1>2. PICK s : s = active_threads
  OBVIOUS
<1>3. s \in Seq(Brs) /\ Len(s) = Cardinality(Brs)
  BY <1>2, AllBrs, BrsCount DEF Init
<1>4. \A b \in Brs : \E i \in 1..Len(s) : s[i] = b
  BY <1>2, <1>3, AllBrs DEF Init
<1>5. main_i = 1 /\ num_complete = 0
  BY DEF Init
<1>6. QED
  BY <1>1, <1>2, <1>3, <1>4, <1>5, BrsCount DEF Counts

LEMMA BrCounts ==
  ASSUME CountInv, NEW b \in Brs, Br(b)
  PROVE  OtherTypes' /\ Counts'
PROOF
<1>1. UNCHANGED <<terminated, main, main_i, active_threads, num_complete>>
  BY DEF Br, AcquireMachine, Sleep, GiveUp, ImageMachine, DoImage, DoImageFails, RunTest, Reachable,
         RemoveMachine, ReleaseMachine, onlyPc, mainUnchanged
<1>2. \A c \in Brs : pc[c] = "ended" => pc'[c] = "ended"
  <2>1. pc[b] # "ended" /\ \E to : pc' = [pc EXCEPT ![b] = to]
    BY DEF Br, AcquireMachine, Sleep, GiveUp, ImageMachine, DoImage, DoImageFails, RunTest, Reachable,
           RemoveMachine, ReleaseMachine, Goto, InLoop
  <2>2. QED
    BY <2>1 DEF CountInv, ImageInv, Inv, Types
<1>3. patience' \in 0..Patience
  BY ManagerAssumption DEF CountInv, OtherTypes, Br, AcquireMachine, Sleep, GiveUp, ImageMachine, DoImage, DoImageFails,
     RunTest, Reachable, RemoveMachine, ReleaseMachine, onlyPc
<1>4. others' = others
  BY DEF Br, AcquireMachine, Sleep, GiveUp, ImageMachine, DoImage, DoImageFails, RunTest, Reachable,
         RemoveMachine, ReleaseMachine, onlyPc
<1>5. removed' \subseteq Machines
  <2>1. CASE RemoveMachine(b)
    BY <2>1 DEF CountInv, OtherTypes, RemoveMachine, Goto, ImageInv, Inv, Held, Has, Uses
  <2>2. CASE ~RemoveMachine(b)
    BY <2>2 DEF CountInv, OtherTypes, Br, AcquireMachine, Sleep, GiveUp, ImageMachine, DoImage, DoImageFails,
       RunTest, Reachable, ReleaseMachine, onlyPc
  <2>3. QED
    BY <2>1, <2>2
<1>6. suspect' \subseteq Machines
  <2>1. CASE AcquireMachine(b)
    <3>1. PICK failing \in SUBSET Lockable(b) : ReadChecksums(Lockable(b), failing)
      BY <2>1 DEF AcquireMachine, TryToLockMachines
    <3>2. failing \subseteq Machines
      BY ManagerAssumption DEF Lockable
    <3>3. QED
      BY <3>1, <3>2 DEF ReadChecksums, CountInv, OtherTypes
  <2>2. CASE DoImageFails(b)
    BY <2>2 DEF CountInv, OtherTypes, DoImageFails, Goto, ImageInv, Inv, Held, Has, Uses
  <2>3. CASE ~AcquireMachine(b) /\ ~DoImageFails(b)
    BY <2>3 DEF CountInv, OtherTypes, Br, Sleep, GiveUp, ImageMachine, DoImage,
       RunTest, Reachable, RemoveMachine, ReleaseMachine, onlyPc
  <2>4. QED
    BY <2>1, <2>2, <2>3
<1>7. QED
  BY <1>1, <1>2, <1>3, <1>4, <1>5, <1>6 DEF CountInv, OtherTypes, Counts

LEMMA ConcatAt ==
  ASSUME NEW a \in Seq(Brs), NEW z \in Seq(Brs)
  PROVE  /\ a \o z \in Seq(Brs) /\ Len(a \o z) = Len(a) + Len(z)
         /\ \A n \in 1..Len(a) : (a \o z)[n] = a[n]
         /\ \A n \in 1..Len(z) : (a \o z)[Len(a) + n] = z[n]
OBVIOUS

\* What an element removed leaves of a list.
LEMMA RemoveAtProperties ==
  ASSUME NEW s \in Seq(Brs), NEW i \in 1..Len(s)
  PROVE  /\ RemoveAt(s, i) \in Seq(Brs)
         /\ Len(RemoveAt(s, i)) = Len(s) - 1
         /\ \A k \in 1..Len(s) : k # i => \E n \in 1..(Len(s) - 1) : RemoveAt(s, i)[n] = s[k]
PROOF
<1>a. PICK a : a = SubSeq(s, 1, i - 1)
  OBVIOUS
<1>z. PICK z : z = SubSeq(s, i + 1, Len(s))
  OBVIOUS
<1>r. PICK r : r = RemoveAt(s, i)
  OBVIOUS
<1>1. /\ a \in Seq(Brs) /\ Len(a) = i - 1
      /\ \A n \in 1..(i - 1) : a[n] = s[n]
  BY <1>a
<1>2. /\ z \in Seq(Brs) /\ Len(z) = Len(s) - i
      /\ \A n \in 1..(Len(s) - i) : z[n] = s[n + i]
  BY <1>z
<1>3. /\ r \in Seq(Brs) /\ Len(r) = Len(a) + Len(z)
      /\ \A n \in 1..Len(a) : r[n] = a[n]
      /\ \A n \in 1..Len(z) : r[Len(a) + n] = z[n]
  <2>1. r = a \o z
    BY <1>a, <1>z, <1>r DEF RemoveAt
  <2>2. QED
    BY <1>1, <1>2, <2>1, ConcatAt
<1>4. Len(s) \in Nat /\ Len(r) = Len(s) - 1
  BY <1>1, <1>2, <1>3
<1>5. ASSUME NEW k \in 1..Len(s), k # i
      PROVE  \E n \in 1..(Len(s) - 1) : r[n] = s[k]
  <2>1. CASE k < i
    <3>1. k \in 1..Len(a) /\ k \in 1..(Len(s) - 1)
      BY <1>1, <1>4, <2>1
    <3>2. r[k] = s[k]
      BY <1>1, <1>3, <3>1
    <3>3. QED
      BY <3>1, <3>2
  <2>2. CASE k > i
    <3>1. PICK n : n = k - i
      OBVIOUS
    <3>2. /\ n \in 1..Len(z) /\ n \in 1..(Len(s) - i) /\ n + i = k
          /\ Len(a) + n \in 1..(Len(s) - 1)
      BY <1>1, <1>2, <1>4, <2>2, <3>1
    <3>3. r[Len(a) + n] = s[k]
      BY <1>2, <1>3, <3>2
    <3>4. QED
      BY <3>2, <3>3
  <2>3. QED
    BY <1>4, <1>5, <2>1, <2>2
<1>6. QED
  BY <1>r, <1>3, <1>4, <1>5

LEMMA CheckThreadCounts ==
  ASSUME CountInv, CheckThread
  PROVE  Counts'
PROOF
<1>1. /\ pc' = pc /\ main_i \in 1..Len(active_threads)
      /\ active_threads \in Seq(Brs)
  BY DEF CheckThread, brsUnchanged, CountInv, Counts
<1>2. CASE /\ pc[active_threads[main_i]] = "ended"
           /\ num_complete' = num_complete + 1
           /\ active_threads' = RemoveAt(active_threads, main_i)
           /\ main_i' = IF main_i < Len(active_threads) THEN main_i + 1 ELSE main_i
  <2>1. /\ active_threads' \in Seq(Brs)
        /\ Len(active_threads') = Len(active_threads) - 1
        /\ \A k \in 1..Len(active_threads) :
             k # main_i => \E n \in 1..(Len(active_threads) - 1) : active_threads'[n] = active_threads[k]
    BY <1>1, <1>2, RemoveAtProperties
  <2>2. main_i' \in 1..(Len(active_threads') + 1)
    BY <1>1, <1>2, <2>1
  <2>3. num_complete' \in Nat /\ num_complete' + Len(active_threads') = Cardinality(Brs)
    BY <1>1, <1>2, <2>1, BrsCount DEF CountInv, Counts
  <2>4. ASSUME NEW b \in Brs, pc'[b] # "ended"
        PROVE  \E n \in 1..Len(active_threads') : active_threads'[n] = b
    <3>1. PICK k \in 1..Len(active_threads) : active_threads[k] = b
      BY <1>1, <2>4 DEF CountInv, Counts
    <3>2. k # main_i
      BY <1>1, <1>2, <2>4, <3>1
    <3>3. QED
      BY <2>1, <3>1, <3>2
  <2>5. QED
    BY <2>1, <2>2, <2>3, <2>4 DEF Counts
<1>3. CASE main_i' = main_i + 1 /\ UNCHANGED <<num_complete, active_threads>>
  BY <1>1, <1>3 DEF CountInv, Counts
<1>4. QED
  BY <1>2, <1>3 DEF CheckThread

LEMMA NextCountInv == CountInv /\ [Next]_vars => CountInv'
PROOF
<1> SUFFICES ASSUME CountInv, [Next]_vars PROVE CountInv'
  OBVIOUS
<1>1. ImageInv'
  BY NextImageInv DEF CountInv
<1>2. CASE UNCHANGED vars
  BY <1>1, <1>2 DEF vars, CountInv, OtherTypes, Counts
<1>3. ASSUME NEW b \in Brs, Br(b)
      PROVE  CountInv'
  BY <1>1, <1>3, BrCounts DEF CountInv
<1>4. CASE CheckThread
  <2>1. OtherTypes'
    BY <1>4 DEF CheckThread, brsUnchanged, CountInv, OtherTypes
  <2>2. QED
    BY <1>1, <1>4, <2>1, CheckThreadCounts DEF CountInv
<1>5. CASE IsComplete \/ Interrupt \/ Cleanup \/ UnlockMachine \/ Leave
  <2>1. OtherTypes'
    BY <1>5 DEF IsComplete, Interrupt, Cleanup, UnlockMachine, Leave, brsUnchanged, CountInv, OtherTypes
  <2>2. /\ UNCHANGED <<pc, active_threads, num_complete>> /\ main_i' \in {1, main_i}
    BY <1>5 DEF IsComplete, Interrupt, Cleanup, UnlockMachine, Leave, brsUnchanged
  <2>3. Counts'
    BY <2>2 DEF CountInv, Counts
  <2>4. QED
    BY <1>1, <2>1, <2>3 DEF CountInv
<1>6. ASSUME NEW m \in Machines, OtherTakes(m) \/ OtherGives(m)
      PROVE  CountInv'
  <2>1. OtherTypes'
    BY <1>6, ManagerAssumption DEF OtherTakes, OtherGives, mainUnchanged, CountInv, OtherTypes
  <2>2. Counts'
    BY <1>6 DEF OtherTakes, OtherGives, mainUnchanged, CountInv, Counts
  <2>3. QED
    BY <1>1, <2>1, <2>2 DEF CountInv
<1>7. QED
  BY <1>2, <1>3, <1>4, <1>5, <1>6 DEF Next, Main

\* For any number of brs: IsComplete counts every br once and none that still
\* runs, although it removes threads from the list it iterates and thereby
\* steps over others; and every variable has its type.
THEOREM MachineCountsRight == Spec => []CountsRight
PROOF
<1>1. CountInv => CountsRight
  <2> SUFFICES ASSUME CountInv PROVE CountsRight
    OBVIOUS
  <2>1. TypeOK
    <3>1. num_complete \in 0..Cardinality(Brs)
      BY BrsCount DEF CountInv, Counts
    <3>2. QED
      BY <3>1 DEF CountInv, OtherTypes, Counts, ImageInv, ImageTypes, Inv, Types, TypeOK
  <2>2. CountedOnce
    BY DEF CountInv, Counts, CountedOnce, ToSet
  <2>3. QED
    BY <2>1, <2>2 DEF CountsRight
<1>2. QED
  BY <1>1, InitCountInv, NextCountInv, PTL DEF Spec
=============================================================================
