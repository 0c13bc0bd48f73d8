----------------------------- MODULE MCPipeline -----------------------------
(* One numeric flag, with the values 1..3 or off: four tasks.  One builder *)
(* and two testers.                                                        *)
EXTENDS Pipeline

MCSpecs == {"b"}
MCNumeric == {"b"}
MCStart == [s \in MCNumeric |-> 1]
MCEnd == [s \in MCNumeric |-> 3]
MCNumProcesses == [s \in Stages |-> IF s = BUILD THEN 1 ELSE 2]
=============================================================================
