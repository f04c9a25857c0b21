-------------------------------- MODULE Jobs --------------------------------
(***************************************************************************)
(* The process jobs of one session: the command a runCommand call starts   *)
(* and waits for, the monitor that records how the process ended and       *)
(* reports it, and the calls that wait for a job or signal it meanwhile.   *)
(*                                                                         *)
(* How a command ended reaches the model in the answer of its call, or as  *)
(* a notice of the session once the call has stopped waiting.  awaited is  *)
(* the flag by which the caller and the monitor agree on which; the caller *)
(* clears it and the monitor reads it under one mutex, everything around   *)
(* that is concurrent.  Output, exit codes and metrics are left out.       *)
(***************************************************************************)
EXTENDS Naturals, Sequences, FiniteSets

CONSTANTS
    Job,            \* the runCommand calls, each with the job it starts
    MaxFault        \* bound: writes to the store that fail

ASSUME JobsAssumption == MaxFault \in Nat

VARIABLES
    proc,       \* proc[j]: the process group of the command
    signal,     \* jobs with a kill on its way to the process group
    row,        \* row[j]: the state of the job in the database
    state,      \* state[j]: the state in the registry, "none" before it
    awaited,    \* jobs whose result a caller reports itself
    unsaved,    \* jobs whose output could not be stored
    monitor,    \* monitor[j]: where the goroutine of the job is
    done,       \* jobs whose done channel is closed
    reported,   \* jobs whose notice is published
    call,       \* call[j]: where the runCommand call is
    wait,       \* jobs a waitJob call waits for
    cancelled,  \* jobs whose runCommand call has a cancelled context
    told,       \* told[j]: what the runCommand call answered
    faults      \* jobs of which a write failed

jobVars   == <<proc, signal, row, state, awaited, unsaved, monitor, done,
               reported>>
callVars  == <<call, wait, cancelled, told>>
jobsVars  == <<jobVars, callVars, faults>>

\* The call is between its start and its answer.
InCall(j) == call[j] \notin {"none", "answered"}

JobsInit ==
    /\ proc = [j \in Job |-> "none"] /\ signal = {}
    /\ row = [j \in Job |-> "none"] /\ state = [j \in Job |-> "none"]
    /\ awaited = {} /\ unsaved = {} /\ done = {} /\ reported = {}
    /\ monitor = [j \in Job |-> "none"] /\ call = [j \in Job |-> "none"]
    /\ wait = {} /\ cancelled = {}
    /\ told = [j \in Job |-> "nothing"] /\ faults = {}

\* A write for the job fails.
Fault(j) ==
    /\ Cardinality(faults) < MaxFault
    /\ faults' = faults \cup {j}

-----------------------------------------------------------------------------
(* The runCommand call                                                      *)

\* Start launches the process before the job has a row.
RunCommand(j) ==
    /\ call[j] = "none" /\ j \notin cancelled
    /\ \E foreground \in BOOLEAN :
          awaited' = IF foreground THEN awaited \cup {j} ELSE awaited
    /\ proc' = [proc EXCEPT ![j] = "alive"]
    /\ call' = [call EXCEPT ![j] = "starting"]
    /\ UNCHANGED <<signal, row, state, unsaved, monitor, done, reported, wait,
                   cancelled, told, faults>>

\* The job is recorded and registered, and its monitor starts.  A call in the
\* background answers next, one in the foreground waits.
RecordStart(j) ==
    /\ call[j] = "starting"
    /\ row' = [row EXCEPT ![j] = "running"]
    /\ state' = [state EXCEPT ![j] = "running"]
    /\ monitor' = [monitor EXCEPT ![j] = "waiting"]
    /\ call' = [call EXCEPT
                  ![j] = IF j \in awaited THEN "waiting" ELSE "answering"]
    /\ UNCHANGED <<proc, signal, awaited, unsaved, done, reported, wait,
                   cancelled, told, faults>>

\* Start kills a process it could not record, and waits for it.
StartUnrecorded(j) ==
    /\ call[j] = "starting" /\ Fault(j)
    /\ proc' = [proc EXCEPT ![j] = "exited"]
    /\ call' = [call EXCEPT ![j] = "answered"]
    /\ told' = [told EXCEPT ![j] = "error"]
    /\ UNCHANGED <<signal, row, state, awaited, unsaved, monitor, done,
                   reported, wait, cancelled>>

\* Release without its effect.
ReleasedNever(j) == awaited

\* Release clears awaited while the job runs; once it has ended, its caller
\* holds the result.
Released(j) == IF state[j] = "running" THEN awaited \ {j} ELSE awaited

\* waitForJob returns: the job is done, the wait bound elapsed and the call
\* released the job, or the context is cancelled and it did not.
WaitForJob(j) ==
    /\ call[j] = "waiting"
    /\ \/ j \in done \cup cancelled /\ UNCHANGED awaited
       \/ j \notin cancelled /\ awaited' = Released(j)
    /\ call' = [call EXCEPT ![j] = "returned"]
    /\ UNCHANGED <<proc, signal, row, state, unsaved, monitor, done, reported,
                   wait, cancelled, told, faults>>

\* The call looks at its context once more before it answers.
WaitReturned(j) ==
    /\ call[j] = "returned"
    /\ call' = [call EXCEPT
                  ![j] = IF j \in cancelled THEN "cancelling" ELSE "answering"]
    /\ UNCHANGED <<jobVars, wait, cancelled, told, faults>>

\* jobRunOutput: the answer is the job's state at this moment.
Answer(j) ==
    /\ call[j] = "answering"
    /\ call' = [call EXCEPT ![j] = "answered"]
    /\ told' = [told EXCEPT
                  ![j] = IF state[j] = "running" THEN "handle" ELSE "result"]
    /\ UNCHANGED <<jobVars, wait, cancelled, faults>>

\* The kill of stopForegroundCommand is skipped when it is not recorded.
KilledRecordedOnly(j) == proc

\* A kill that could not be recorded is sent all the same, before the call
\* goes on.
Killed(j) == [proc EXCEPT ![j] = "exited"]

\* stopForegroundCommand records the request for a kill.  SignalContext
\* dispatches it to a running job only, on a goroutine of its own.
StopForeground(j) ==
    /\ call[j] = "cancelling"
    /\ \/ /\ signal' = IF state[j] = "running" THEN signal \cup {j} ELSE signal
          /\ UNCHANGED <<proc, faults>>
       \/ Fault(j) /\ proc' = Killed(j) /\ UNCHANGED signal
    /\ call' = [call EXCEPT ![j] = "killing"]
    /\ UNCHANGED <<row, state, awaited, unsaved, monitor, done, reported, wait,
                   cancelled, told>>

\* The job is done, or the grace period of the stop is over.
StopReturned(j) ==
    /\ call[j] = "killing"
    /\ call' = [call EXCEPT ![j] = "answered"]
    /\ told' = [told EXCEPT ![j] = "error"]
    /\ UNCHANGED <<jobVars, wait, cancelled, faults>>

-----------------------------------------------------------------------------
(* Other calls for the job                                                  *)

WaitJob(j) ==
    /\ state[j] # "none" /\ j \notin wait
    /\ wait' = wait \cup {j}
    /\ UNCHANGED <<jobVars, call, cancelled, told, faults>>

\* waitForJob again.  A waitJob call whose bound elapses releases the job, one
\* that its own runCommand call still waits for included; a waitJob call that
\* sees the job done, or is cancelled, does not.
WaitJobReturns(j) ==
    /\ j \in wait
    /\ awaited' \in {awaited, Released(j)}
    /\ wait' = wait \ {j}
    /\ UNCHANGED <<proc, signal, row, state, unsaved, monitor, done, reported,
                   call, cancelled, told, faults>>

\* SignalContext for signalJob, and the stop Shutdown asks for.
SignalJob(j) ==
    /\ state[j] = "running" /\ j \notin signal
    /\ signal' = signal \cup {j}
    /\ UNCHANGED <<proc, row, state, awaited, unsaved, monitor, done, reported,
                   callVars, faults>>

-----------------------------------------------------------------------------
(* The process and its monitor                                              *)

Exit(j) ==
    /\ proc[j] = "alive"
    /\ proc' = [proc EXCEPT ![j] = "exited"]
    /\ UNCHANGED <<signal, row, state, awaited, unsaved, monitor, done,
                   reported, callVars, faults>>

\* requestKill, or requestStop with its escalation to a kill.
DeliverSignal(j) ==
    /\ j \in signal
    /\ proc' = [proc EXCEPT ![j] = "exited"]
    /\ signal' = signal \ {j}
    /\ UNCHANGED <<row, state, awaited, unsaved, monitor, done, reported,
                   callVars, faults>>

\* Output that cannot be stored fails the job and kills its process.
LoseOutput(j) ==
    /\ monitor[j] = "waiting" /\ j \notin unsaved /\ Fault(j)
    /\ unsaved' = unsaved \cup {j}
    /\ proc' = [proc EXCEPT ![j] = "exited"]
    /\ UNCHANGED <<signal, row, state, awaited, monitor, done, reported,
                   callVars>>

\* The process is gone and its output recorded.  finalize sets the state and
\* reads awaited in one critical section.
Finalize(j) ==
    /\ monitor[j] = "waiting" /\ proc[j] = "exited"
    /\ state' = [state EXCEPT ![j] = IF j \in unsaved THEN "failed" ELSE "ended"]
    /\ monitor' = [monitor EXCEPT
                     ![j] = IF j \in awaited THEN "quiet" ELSE "loud"]
    /\ UNCHANGED <<proc, signal, row, awaited, unsaved, done, reported,
                   callVars, faults>>

\* FinalizeJob changes a running row only.
RecordFinish(j) ==
    /\ monitor[j] \in {"quiet", "loud"} /\ row[j] = "running"
    /\ row' = [row EXCEPT ![j] = state[j]]
    /\ monitor' = [monitor EXCEPT
                     ![j] = IF @ = "loud" THEN "publishing" ELSE "closing"]
    /\ UNCHANGED <<proc, signal, state, awaited, unsaved, done, reported,
                   callVars, faults>>

\* finalize returns early and publishes nothing.
FinishUnrecorded(j) ==
    /\ monitor[j] \in {"quiet", "loud"} /\ Fault(j)
    /\ done' = done \cup {j}
    /\ monitor' = [monitor EXCEPT ![j] = "gone"]
    /\ UNCHANGED <<proc, signal, row, state, awaited, unsaved, reported,
                   callVars>>

\* publish stores the notice, and considers a wake before it returns.
Announce(j) ==
    /\ monitor[j] = "publishing"
    /\ reported' = reported \cup {j}
    /\ monitor' = [monitor EXCEPT ![j] = "considering"]
    /\ UNCHANGED <<proc, signal, row, state, awaited, unsaved, done, callVars,
                   faults>>

Announced(j) ==
    /\ monitor[j] = "considering"
    /\ monitor' = [monitor EXCEPT ![j] = "closing"]
    /\ UNCHANGED <<proc, signal, row, state, awaited, unsaved, done, reported,
                   callVars, faults>>

\* A notice that cannot be stored is logged and dropped.
AnnounceFails(j) ==
    /\ monitor[j] = "publishing" /\ Fault(j)
    /\ monitor' = [monitor EXCEPT ![j] = "closing"]
    /\ UNCHANGED <<proc, signal, row, state, awaited, unsaved, done, reported,
                   callVars>>

CloseDone(j) ==
    /\ monitor[j] = "closing"
    /\ done' = done \cup {j}
    /\ monitor' = [monitor EXCEPT ![j] = "gone"]
    /\ UNCHANGED <<proc, signal, row, state, awaited, unsaved, reported,
                   callVars, faults>>

-----------------------------------------------------------------------------
\* The steps of a job that touch nothing of the session's turns.
JobStep(j) ==
    \/ RecordStart(j) \/ StartUnrecorded(j) \/ WaitForJob(j)
    \/ WaitReturned(j) \/ Answer(j) \/ StopForeground(j) \/ StopReturned(j)
    \/ WaitJobReturns(j) \/ Exit(j) \/ DeliverSignal(j) \/ LoseOutput(j)
    \/ Finalize(j) \/ RecordFinish(j) \/ FinishUnrecorded(j)
    \/ AnnounceFails(j) \/ CloseDone(j)

-----------------------------------------------------------------------------
(* Properties                                                               *)

\* A command never ends in silence.  When the runCommand call was answered
\* with the handle of a running job, the end of that job is published, unless
\* a write for it failed: the call that stops waiting and the monitor that
\* finds the process gone never both leave it to the other.
NeverSilent ==
    \A j \in Job \ faults :
        told[j] = "handle" /\ monitor[j] = "gone" => j \in reported

\* A command in the foreground does not outlive the cancelled call that waited
\* for it: once the call has answered with an error, its process is gone or a
\* kill is on its way, whether or not the request could be recorded.
CancelledIsKilled ==
    \A j \in Job : told[j] = "error" /\ proc[j] = "alive" => j \in signal
=============================================================================
