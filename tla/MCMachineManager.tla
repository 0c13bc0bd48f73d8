-------------------------- MODULE MCMachineManager --------------------------
(* Three brs of three labels, two of them with the same image, on two      *)
(* machines of which the second is for the first label only.               *)
EXTENDS MachineManager

MCRemote == [b \in Brs |-> IF b # "b1" THEN {"m1"} ELSE Machines]
MCImage == [b \in Brs |-> IF b = "b3" THEN "j" ELSE "i"]

\* Machine m1 carries the image of b1 and b2, m2 none.
MCInit == Init /\ installed = [m \in Machines |-> IF m = "m1" THEN "i" ELSE NoImage]

MCSpec == MCInit /\ [][Next]_vars /\ Fairness
=============================================================================
