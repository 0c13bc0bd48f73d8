---------------------------- MODULE MCJobManager ----------------------------
(* Three jobs, the third after the first two; two machines, shared by the  *)
(* first and the third job and wanted exclusively by the second.           *)
EXTENDS JobManager

MCPreds == <<{}, {}, {1, 2}>>
MCNeeds ==
  <<<<[matches |-> {1, 2}, lock_required |-> FALSE]>>,
    <<[matches |-> {1}, lock_required |-> TRUE]>>,
    <<[matches |-> {1, 2}, lock_required |-> FALSE]>>>>
\* As clients/dejagnu_compiler.py: clean up whatever the outcome.
MCCleanups == {{"SUCCEEDED", "FAILED"}}
\* Both predecessors queue the third job.
MCMaxStarts == <<1, 1, 2>>

VARIABLE requests       \* KillJobGroup and SIGINT are in this behaviour

MCInit == Init /\ requests \in BOOLEAN

\* The first two jobs have one executer each, of which nobody sees how it gets
\* to its command: it goes there at once.
Begin(e) == Setup(e) \/ Change(e) \/ TakeMachines(e) \/ StageSucceeds(e)
Beginning == {e \in Executers : e[1] # 3 /\ ex[e] \in {"new", "change", "take", "SETUP", "COPYING"}}

\* With requests, every job is started once: the manager wakes when no executer
\* is about to notify.  Without, timeouts do not differ from other failures.
MCNext ==
  /\ UNCHANGED requests
  /\ IF Beginning # {}
     THEN Begin(CHOOSE e \in Beginning : TRUE)
     ELSE /\ Next
          /\ jm = "notified" /\ jm' = "scan" =>
               /\ main # "adding" \/ main_i > NJobs
               /\ requests /\ held = {} => \A e \in Executers : ex[e] \notin {"return", "notify"}
          /\ ~requests => main' \notin {"stop", "waiting"} /\ UNCHANGED killed

MCSpec == MCInit /\ [][MCNext]_<<vars, requests>> /\ Fairness
=============================================================================
