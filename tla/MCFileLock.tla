---------------------------- MODULE MCFileLock ----------------------------
(* Auto processes of two users and the command line of a third.            *)
EXTENDS FileLock

CONSTANTS a1, a2, b, cli

MCUser == [p \in Procs |-> CASE p = cli -> "root" [] p = b -> "other" [] OTHER -> "user"]
=============================================================================
