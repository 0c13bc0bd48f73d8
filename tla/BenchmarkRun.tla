---------------------------- MODULE BenchmarkRun ----------------------------
(***************************************************************************)
(* One crosperf BenchmarkRun (crosperf/benchmark_run.py) with its Timeline *)
(* (cros_utils/timeline.py) and the part of SuiteRunner it depends on: the *)
(* thread that executes run() against the thread that calls Terminate().   *)
(*                                                                         *)
(* With scheduled = TRUE the br belongs to a DutWorker of Schedv2, which   *)
(* calls run() between setting and clearing _active_br, and Terminate() is *)
(* called under _active_br_lock.  With FALSE the br is a thread of its own *)
(* (Experiment.Run without schedv2) that acquires and releases a machine,  *)
(* and Experiment.Terminate calls Terminate() on a thread found alive.     *)
(*                                                                         *)
(* Timeline.Record is not atomic: its assertion reads the events, then it  *)
(* appends.  A thread in between has its event in recording.               *)
(***************************************************************************)
EXTENDS Integers, Sequences

CONSTANT Retries             \* benchmark.retries

ASSUME RetriesAssumption == Retries \in Nat

Threads == {"run", "term"}
Events == {"PENDING", "WAITING", "IMAGING", "RUNNING", "SUCCEEDED", "FAILED"}

\* Exceptions run() may end with: none, one that "except Exception" catches,
\* an AssertionError of Record inside the except clause, or SystemExit, which
\* LogFatal raises and which is not an Exception.
Exceptions == {"none", "Exception", "AssertionError", "SystemExit"}

VARIABLES
  scheduled,                 \* owner_thread is not None
  cache_only,                \* label.cache_only
  telemetry,                 \* benchmark.suite == 'telemetry'
  cache,                     \* "unread", "hit" or "miss"
  terminated,                \* BenchmarkRun.terminated
  ct_terminated,             \* the CommandTerminator of suite_runner
  events,                    \* timeline.events
  recording,                 \* per thread: the event past Record's assertion
  retval,                    \* result.retval: 0, 1, or NoResult
  machine,                   \* a machine acquired by this br is held
  attempt,                   \* SuiteRunner.Run's i
  output,                    \* the last test said where its results are
  exc,                       \* the exception in flight in run()
  finally_raised,            \* one of the finally clause, which replaces exc
  late,                      \* history: tests started after ct_terminated
  pc, tpc                    \* control of run() and of Terminate()

\* What only run() changes.
own_vars == <<cache, retval, machine, attempt, output, exc, finally_raised, late, pc>>
br_vars == <<scheduled, cache_only, telemetry, terminated, ct_terminated, events,
             recording, own_vars, tpc>>

NoResult == -1
Nothing == "none"

RunPc == {"read", "branch", "acquire", "imaging", "image", "running", "pin", "test",
          "testing", "collect", "store", "check", "outcome", "failed", "except", "finally", "ended", "cleared"}
TermPc == {"idle", "flag", "command", "last", "record", "done", "raised"}

Recorded(e) == \E i \in 1..Len(events) : events[i] = e
LastEvent == events[Len(events)]

RunTypeOK ==
  /\ scheduled \in BOOLEAN /\ cache_only \in BOOLEAN /\ telemetry \in BOOLEAN
  /\ cache \in {"unread", "hit", "miss"}
  /\ terminated \in BOOLEAN /\ ct_terminated \in BOOLEAN
  /\ events \in Seq(Events) /\ events # <<>>
  /\ recording \in [Threads -> Events \cup {Nothing}]
  /\ retval \in {0, 1, NoResult}
  /\ machine \in BOOLEAN
  /\ attempt \in 0..Retries
  /\ output \in BOOLEAN /\ finally_raised \in BOOLEAN
  /\ late \in Nat
  /\ exc \in Exceptions
  /\ pc \in RunPc
  /\ tpc \in TermPc

\* A br as __init__ and, with schedv2, the cache readers leave it.  A br whose
\* cache was found to hit also goes through run(); without RUN_SUCCEEDED the
\* result of a failed test is a hit as well.
RunInit ==
  /\ scheduled \in BOOLEAN
  /\ cache_only \in BOOLEAN
  /\ telemetry \in BOOLEAN
  /\ cache \in IF scheduled THEN {"unread", "hit", "miss"} ELSE {"unread"}
  /\ terminated = FALSE
  /\ ct_terminated = FALSE
  /\ events = <<"PENDING">>
  /\ recording = [t \in Threads |-> Nothing]
  /\ retval \in IF cache = "hit" THEN {0, 1} ELSE {NoResult}
  /\ machine = FALSE
  /\ attempt = 0
  /\ output = FALSE
  /\ exc = "none"
  /\ finally_raised = FALSE
  /\ late = 0
  /\ pc = "read"
  /\ tpc = "idle"

-----------------------------------------------------------------------------
(* Timeline.Record                                                         *)

\* Record passes its for loop of assertions.
AssertNew(t, e) ==
  /\ ~Recorded(e)
  /\ recording' = [recording EXCEPT ![t] = e]

\* self.events.append(cur_event)
AppendEvent(t) ==
  /\ recording[t] # Nothing
  /\ events' = Append(events, recording[t])
  /\ recording' = [recording EXCEPT ![t] = Nothing]
  /\ UNCHANGED <<scheduled, cache_only, telemetry, terminated, ct_terminated, own_vars, tpc>>

-----------------------------------------------------------------------------
(* run()                                                                   *)

RunAt(p) == pc = p /\ recording["run"] = Nothing

input == <<scheduled, cache_only, telemetry, terminated, ct_terminated, tpc, events>>
testVars == <<attempt, output, late>>

\* An exception in the try block: except Exception, or straight to finally.
Raise(e) ==
  /\ exc' = e
  /\ pc' = IF e = "Exception" THEN "except" ELSE "finally"

\* A call that raises, or that ends in LogFatal.
Fails == \E e \in {"Exception", "SystemExit"} : Raise(e)

\* timeline.Record(e) in the try block, and on to next.
RecordThen(e, next) ==
  IF Recorded(e)
  THEN Raise("Exception") /\ UNCHANGED recording
  ELSE AssertNew("run", e) /\ pc' = next /\ UNCHANGED exc

\* if not self.cache_has_been_read: self.ReadCache()
ReadCache ==
  /\ RunAt("read")
  /\ IF cache # "unread"
     THEN pc' = "branch" /\ UNCHANGED <<cache, retval, exc>>
     ELSE \/ pc' = "branch" /\ cache' = "hit" /\ retval' \in {0, 1} /\ UNCHANGED exc
          \/ pc' = "branch" /\ cache' = "miss" /\ UNCHANGED <<retval, exc>>
          \/ Fails /\ UNCHANGED <<cache, retval>>
  /\ UNCHANGED <<input, recording, machine, testVars, finally_raised>>

\* Result.CreateFromRun: but for TelemetryResult, it needs an output that says
\* where the results are, else it is a RuntimeError.
Creatable(out) == telemetry \/ out

\* A cached result; cache_only without one, for which a result is created from
\* the output 'No Cache hit.'; or timeline.Record(WAITING).
Branch ==
  /\ RunAt("branch")
  /\ \/ retval # NoResult /\ pc' = "check" /\ UNCHANGED <<retval, recording, exc>>
     \/ /\ retval = NoResult /\ cache_only
        /\ IF Creatable(FALSE)
           THEN pc' = "check" /\ retval' = 1 /\ UNCHANGED exc
           ELSE Raise("Exception") /\ UNCHANGED retval
        /\ UNCHANGED recording
     \/ /\ retval = NoResult /\ ~cache_only
        /\ RecordThen("WAITING", "acquire")
        /\ UNCHANGED retval
  /\ UNCHANGED <<input, cache, machine, testVars, finally_raised>>

\* AcquireMachine: the worker's dut; or poll the MachineManager, which gives
\* up with LogFatal, until there is a machine or the br is terminated.
AcquireMachine ==
  /\ RunAt("acquire")
  /\ \/ scheduled /\ pc' = "imaging" /\ UNCHANGED <<machine, exc>>
     \/ ~scheduled /\ terminated /\ Raise("Exception") /\ UNCHANGED machine
     \/ ~scheduled /\ ~terminated /\ pc' = "imaging" /\ machine' = TRUE /\ UNCHANGED exc
     \/ ~scheduled /\ ~terminated /\ Fails /\ UNCHANGED machine
  /\ UNCHANGED <<input, cache, recording, retval, testVars, finally_raised>>

\* RunTest: timeline.Record(IMAGING)
RecordImaging ==
  /\ RunAt("imaging")
  /\ RecordThen("IMAGING", "image")
  /\ UNCHANGED <<input, cache, retval, machine, testVars, finally_raised>>

\* ImageMachine, only for a br that is not scheduled: it raises when the image
\* cannot be put on the machine, and DoImage has its LogFatalIfs.
ImageMachine ==
  /\ RunAt("image")
  /\ \/ pc' = "running" /\ UNCHANGED exc
     \/ ~scheduled /\ Fails
  /\ UNCHANGED <<input, cache, recording, retval, machine, testVars, finally_raised>>

\* timeline.Record(RUNNING)
RecordRunning ==
  /\ RunAt("running")
  /\ RecordThen("RUNNING", "pin")
  /\ UNCHANGED <<input, cache, retval, machine, testVars, finally_raised>>

\* SuiteRunner.Run, the commands that prepare the dut, for test_that also its
\* reboot: run without the command terminator, and LogFatalIf one fails.
PrepareDut ==
  /\ RunAt("pin")
  /\ \/ pc' = "test" /\ UNCHANGED exc
     \/ Fails
  /\ UNCHANGED <<input, cache, recording, retval, machine, testVars, finally_raised>>

\* A failed test is repeated while retries are left.
TestFailed ==
  \/ attempt < Retries /\ attempt' = attempt + 1 /\ pc' = "pin" /\ UNCHANGED retval
  \/ attempt = Retries /\ retval' = 1 /\ pc' = "collect" /\ UNCHANGED attempt

\* Whether the test command heeds the command terminator: Telemetry_Run does
\* not pass it on.
Stopped == ct_terminated /\ ~telemetry

\* Mutant: the test command is begun whatever the command terminator says.
MutStartTest ==
  /\ RunAt("test")
  /\ pc' = "testing"
  /\ late' = IF ct_terminated THEN late + 1 ELSE late
  /\ UNCHANGED <<input, cache, recording, retval, machine, attempt, output, exc, finally_raised>>

\* The test command starts, unless the command terminator is set: then it is
\* (1, '', '') at once.
StartTest ==
  /\ RunAt("test")
  /\ IF Stopped
     THEN TestFailed /\ output' = FALSE /\ UNCHANGED late
     ELSE /\ pc' = "testing" /\ UNCHANGED <<attempt, retval, output>>
          /\ late' = IF ct_terminated THEN late + 1 ELSE late
  /\ UNCHANGED <<input, cache, recording, machine, exc, finally_raised>>

\* It ends: by itself, or killed by the command terminator, or because the
\* executer raises.
EndTest ==
  /\ RunAt("testing")
  /\ \/ retval' = 0 /\ pc' = "collect" /\ output' \in BOOLEAN /\ UNCHANGED <<attempt, exc>>
     \/ TestFailed /\ output' \in BOOLEAN /\ UNCHANGED exc
     \/ Raise("Exception") /\ UNCHANGED <<attempt, output, retval>>
  /\ UNCHANGED <<input, cache, recording, machine, late, finally_raised>>

\* Result.CreateFromRun collects the results, and raises what the commands and
\* files it needs raise.
CollectResult ==
  /\ RunAt("collect")
  /\ \/ Creatable(output) /\ pc' = "store" /\ UNCHANGED exc
     \/ Raise("Exception")
  /\ UNCHANGED <<input, cache, recording, retval, machine, testVars, finally_raised>>

\* GetChromeVersion and cache.StoreResult, which looks at the shared caches
\* again.
StoreResult ==
  /\ RunAt("store")
  /\ \/ pc' = "check" /\ UNCHANGED exc
     \/ Fails
  /\ UNCHANGED <<input, cache, recording, retval, machine, testVars, finally_raised>>

\* if self.terminated: return
CheckTerminated ==
  /\ RunAt("check")
  /\ pc' = IF terminated THEN "finally" ELSE "outcome"
  /\ UNCHANGED <<input, cache, recording, retval, machine, testVars, exc, finally_raised>>

\* Record(SUCCEEDED), or FAILED unless it is the last event already.
RecordOutcome ==
  /\ RunAt("outcome")
  /\ \/ /\ retval = 0
        /\ RecordThen("SUCCEEDED", "finally")
     \/ /\ retval # 0
        /\ pc' = IF LastEvent = "FAILED" THEN "finally" ELSE "failed"
        /\ UNCHANGED <<recording, exc>>
  /\ UNCHANGED <<input, cache, retval, machine, testVars, finally_raised>>

\* timeline.Record(FAILED) in the try block.
RecordFailed ==
  /\ RunAt("failed")
  /\ RecordThen("FAILED", "finally")
  /\ UNCHANGED <<input, cache, retval, machine, testVars, finally_raised>>

\* The except clause: Record(FAILED) unless it is the last event; here an
\* assertion of Record leaves run().
Except ==
  /\ RunAt("except")
  /\ pc' = "finally"
  /\ \/ LastEvent = "FAILED" /\ exc' = "none" /\ UNCHANGED recording
     \/ LastEvent # "FAILED" /\ AssertNew("run", "FAILED") /\ exc' = "none"
     \/ /\ LastEvent # "FAILED" /\ Recorded("FAILED")
        /\ exc' = "AssertionError" /\ UNCHANGED recording
  /\ UNCHANGED <<input, cache, retval, machine, testVars, finally_raised>>

\* The finally clause releases the machine of a br that is not scheduled, if
\* the machine can be asked whether it is reachable and is still in the pool.
Finally ==
  /\ RunAt("finally")
  /\ pc' = "ended"
  /\ \/ machine' = FALSE /\ UNCHANGED finally_raised
     \/ machine /\ finally_raised' = TRUE /\ UNCHANGED machine
  /\ UNCHANGED <<input, cache, recording, retval, testVars, exc>>

InTerminate == tpc \in {"flag", "command", "last", "record"} \/ recording["term"] # Nothing

\* The worker's _active_br = None, for which it needs _active_br_lock.
ClearActive ==
  /\ pc = "ended" /\ scheduled /\ ~InTerminate
  /\ pc' = "cleared"
  /\ UNCHANGED <<input, cache, recording, retval, machine, testVars, exc, finally_raised>>

-----------------------------------------------------------------------------
(* Terminate()                                                             *)

runVars == <<scheduled, cache_only, telemetry, own_vars>>

\* DutWorker.terminate finds the br active; Experiment.Terminate finds the
\* thread alive.
CallTerminate ==
  /\ tpc = "idle" /\ tpc' = "flag"
  /\ pc # "cleared" /\ (~scheduled => pc # "ended")
  /\ UNCHANGED <<runVars, terminated, ct_terminated, events, recording>>

SetTerminated ==
  /\ tpc = "flag" /\ tpc' = "command"
  /\ terminated' = TRUE
  /\ UNCHANGED <<runVars, ct_terminated, events, recording>>

\* Mutant: Terminate() leaves the suite runner alone.
MutTerminateCommand ==
  /\ tpc = "command" /\ tpc' = "last"
  /\ UNCHANGED <<runVars, terminated, ct_terminated, events, recording>>

TerminateCommand ==
  /\ tpc = "command" /\ tpc' = "last"
  /\ ct_terminated' = TRUE
  /\ UNCHANGED <<runVars, terminated, events, recording>>

\* Mutant: only a br whose test is running is marked.
MutCheckLastEvent ==
  /\ tpc = "last"
  /\ tpc' = IF LastEvent = "RUNNING" THEN "record" ELSE "done"
  /\ UNCHANGED <<runVars, terminated, ct_terminated, events, recording>>

CheckLastEvent ==
  /\ tpc = "last"
  /\ tpc' = IF LastEvent = "FAILED" THEN "done" ELSE "record"
  /\ UNCHANGED <<runVars, terminated, ct_terminated, events, recording>>

RecordTerminated ==
  /\ tpc = "record"
  /\ \/ AssertNew("term", "FAILED") /\ tpc' = "done"
     \/ Recorded("FAILED") /\ tpc' = "raised" /\ UNCHANGED recording
  /\ UNCHANGED <<runVars, terminated, ct_terminated, events>>

-----------------------------------------------------------------------------
RunStep ==
  \/ AppendEvent("run") \/ ReadCache \/ Branch \/ AcquireMachine \/ RecordImaging
  \/ ImageMachine \/ RecordRunning \/ PrepareDut \/ StartTest \/ EndTest \/ CollectResult
  \/ StoreResult \/ CheckTerminated \/ RecordOutcome \/ RecordFailed \/ Except \/ Finally
  \/ ClearActive
TerminateStep ==
  \/ SetTerminated \/ TerminateCommand \/ CheckLastEvent \/ RecordTerminated
  \/ AppendEvent("term")

RunNext == RunStep \/ TerminateStep \/ CallTerminate

\* Waiting for a machine goes on as long as the MachineManager has none, and a
\* test that nobody stops may hang.
Waiting == pc = "acquire" /\ ~scheduled /\ ~terminated
Hanging == pc = "testing" /\ ~Stopped

\* Both threads are scheduled, and the short commands that prepare a dut and
\* collect results end; nothing is assumed about getting a machine, nor about
\* a test command that is not killed.
RunSpec ==
  RunInit /\ [][RunNext]_br_vars
  /\ WF_br_vars(~Waiting /\ ~Hanging /\ RunStep) /\ WF_br_vars(TerminateStep)

-----------------------------------------------------------------------------
(* Properties                                                              *)

Over == pc \in {"ended", "cleared"} /\ ~InTerminate

\* A br that is over has an outcome in its timeline, however run() and
\* Terminate() interleaved and whatever was raised, with one exception:
\* SystemExit, which neither the except clause nor the worker records.
OutcomeRecorded ==
  Over /\ (exc # "SystemExit" \/ terminated) => Recorded("FAILED") \/ Recorded("SUCCEEDED")

\* Undisturbed by Terminate(), run() leaves exactly one outcome, it is the
\* last event, and it agrees with the result, be it cached, made for a
\* cache_only label or of a test.
OneOutcome ==
  pc \in {"ended", "cleared"} /\ tpc = "idle" /\ exc # "SystemExit" =>
    /\ exc = "none"
    /\ LastEvent \in {"SUCCEEDED", "FAILED"}
    /\ \A i \in 1..(Len(events) - 1) : events[i] \notin {"SUCCEEDED", "FAILED"}
    /\ LastEvent = "SUCCEEDED" => retval = 0

\* A machine acquired by a br that is not scheduled is released on every path
\* out of run(), so other brs waiting for it are not starved; it is kept only
\* if the finally clause itself fails.
MachineReleased == pc = "ended" => ~machine \/ finally_raised

\* A br that is terminated starts no further test: retries are refused, also
\* those of a br that was still preparing the dut.  The suite 'telemetry' goes
\* through all its retries.
NoTestAfterTerminate == late <= IF telemetry THEN Retries + 1 ELSE 0

\* How a br ends: with its outcome on record, without its machine, and without
\* a test that was started after Terminate().
EndsProperly ==
  RunTypeOK /\ OutcomeRecorded /\ OneOutcome /\ MachineReleased /\ NoTestAfterTerminate

\* Terminate() gets the br out of run(), also while it waits for a machine and
\* while its test hangs; the suite 'telemetry' has no such promise, its command
\* is not given the terminator.
TerminateEndsRun == terminated /\ ~telemetry ~> pc \in {"ended", "cleared"}
=============================================================================
