----------------------------- MODULE MCAfeLock -----------------------------
(* Two experiments of two users, DoImage of the first of them, and a third  *)
(* user at the command line share two machines.                             *)
EXTENDS AfeLock

MCUserOf == [c \in Clients |-> IF c = "e2" THEN "v" ELSE IF c = "p" THEN "w" ELSE "u"]
MCRemote == [c \in Clients |->
  CASE c = "e1" -> <<1, 2>> [] c = "e2" -> <<2>> [] c = "p" -> <<1>> [] c = "i" -> <<2>>]
=============================================================================
