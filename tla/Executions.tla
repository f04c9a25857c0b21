----------------------------- MODULE Executions -----------------------------
(***************************************************************************)
(* Durable executions of one session and the activity checkpoints under    *)
(* them, as internal/pkg/session stores them.                              *)
(*                                                                         *)
(* An execution is one workflow: the root of a turn, or a nested child     *)
(* that belongs to an agent run.  Every external step it takes is an       *)
(* activity: a row that is claimed by a worker generation (one run of the  *)
(* session's worker process), attempted, and then completed, interrupted,  *)
(* or left uncertain.  Each action below is one SQLite transaction of the  *)
(* store.  A transaction that fails rolls back, so a refused call is no    *)
(* step at all.                                                            *)
(*                                                                         *)
(* Requests of any generation can arrive at any time: the store does not   *)
(* know which worker is current, and an answer computed by a worker that   *)
(* has been replaced may still be on its way.  Leases are therefore never  *)
(* withdrawn from the model; a lease that was handed out once can be used  *)
(* late, and more than once.                                               *)
(*                                                                         *)
(* Identities are constants: the code refuses to change an execution's     *)
(* parent or an activity's input (sameExecutionIdentity,                   *)
(* sameActivityInput).  The message inbox and the root turn's holder can   *)
(* refuse or postpone a finish; here a finish that the other parts allow   *)
(* may also simply not happen.                                             *)
(***************************************************************************)
EXTENDS Integers, FiniteSets

CONSTANTS
    Execution,      \* the executions that may be created
    NoParent,       \* the parent of a root
    Parent,         \* ParentExecutionID of each execution
    Activity,       \* the activities that may be scheduled
    Owner,          \* the execution each activity belongs to
    Tool,           \* activities of kind "tool"
    Reconcile,      \* activities with replay policy "reconcile"
    Finishing,      \* final activities, which end their execution
    Generation,     \* worker generations
    NoGeneration,   \* an owner column that is empty
    MaxAttempt,     \* math.MaxInt64 for the Attempt column
    MaxRevision,    \* math.MaxInt64 for the ControlRevision column
    MaxStop         \* math.MaxInt64 for the StopRevision column

\* Constants the code guarantees: only tools may be reconciled, a final
\* activity is never a tool, and the counters have room for one step.
ASSUME ExecutionsAssumption ==
    /\ NoParent \notin Execution
    /\ Parent \in [Execution -> Execution \cup {NoParent}]
    /\ Owner \in [Activity -> Execution]
    /\ Tool \subseteq Activity
    /\ Reconcile \subseteq Tool
    /\ Finishing \subseteq Activity \ Tool
    /\ NoGeneration \notin Generation
    /\ MaxAttempt \in Nat
    /\ MaxRevision \in Nat
    /\ MaxStop \in Nat

VARIABLES
    stopRevision,     \* the session's StopRevision
    turnRevision,     \* StopRevision of each root's turn, -1 before the turn
    execState,        \* State of each execution row, "none" before creation
    controlRevision,  \* ControlRevision of each execution row
    runState,         \* State of each child's agent run row
    runOwner,         \* WorkerGenerationID of that row
    cancelRequested,  \* children whose run has CancelRequested set
    launcher,         \* the generation whose launch of a child is unanswered
    actState,         \* State of each activity row, "none" before creation
    attempt,          \* Attempt of each activity row
    actOwner,         \* OwnerGenerationID of each activity row
    output,           \* the attempt whose result is saved, 0 when none is
    leases,           \* every activity lease a worker was ever given
    granted,          \* attempts of each activity inspected and allowed again
    held              \* executions under a session stop nobody has lifted

execVars == <<execState, controlRevision>>
runVars  == <<runState, runOwner, cancelRequested, launcher>>
actVars  == <<actState, attempt, actOwner, output, leases, granted>>
stopVars == <<stopRevision, turnRevision, held>>
vars     == <<execVars, runVars, actVars, stopVars>>

-----------------------------------------------------------------------------
Root  == {e \in Execution : Parent[e] = NoParent}
Child == Execution \ Root

Terminal == {"completed", "failed", "cancelled"}

ExecState == {"none", "queued", "running", "paused", "reconciling"}
               \cup Terminal
RunState  == {"none", "running", "interrupted"} \cup Terminal
ActState  == {"none", "scheduled", "running", "completed", "uncertain",
              "failed", "paused", "cancelled"}

Lease == [activity : Activity, generation : Generation,
          attempt : 1..MaxAttempt]

Exists(e) == execState[e] # "none"
Open(e)   == Exists(e) /\ execState[e] \notin Terminal

\* The execution and everything below it: the least set that holds e and the
\* children of its members.  The store reads it with a recursive query.
Subtrees ==
    [e \in Execution |->
       {d \in Execution :
          \A S \in SUBSET Execution :
             (e \in S /\ \A c \in Execution : Parent[c] \in S => c \in S)
                => d \in S}]
Subtree(e) == Subtrees[e]

\* A cancellation that stops at the named child.
CancelledByTopOnly(e) == {d \in {e} : Open(d)}

\* Members of e's subtree that a cancellation settles.
CancelledBy(e) == {d \in Subtree(e) : Open(d)}

Init ==
    /\ stopRevision = 0
    /\ turnRevision = [e \in Execution |-> -1]
    /\ execState = [e \in Execution |-> "none"]
    /\ controlRevision = [e \in Execution |-> 0]
    /\ runState = [e \in Execution |-> "none"]
    /\ runOwner = [e \in Execution |-> NoGeneration]
    /\ cancelRequested = {}
    /\ launcher = [e \in Execution |-> NoGeneration]
    /\ actState = [a \in Activity |-> "none"]
    /\ attempt = [a \in Activity |-> 0]
    /\ actOwner = [a \in Activity |-> NoGeneration]
    /\ output = [a \in Activity |-> 0]
    /\ leases = {}
    /\ granted = [a \in Activity |-> {}]
    /\ held = {}

-----------------------------------------------------------------------------
(* Turns and creation                                                       *)

\* A root's turn is admitted and remembers the session's StopRevision.
AdmitTurn(r) ==
    /\ turnRevision[r] = -1
    /\ turnRevision' = [turnRevision EXCEPT ![r] = stopRevision]
    /\ UNCHANGED <<execVars, runVars, actVars, stopRevision, held>>

\* A creation that forgets the stops since its turn was admitted.
\* State of a new root: paused when its turn was cancelled or the session
\* stopped since the turn began.
inheritSessionStop(r, turnCancelled) ==
    IF turnRevision[r] # stopRevision \/ turnCancelled
      THEN "paused" ELSE "queued"

\* CreateExecution without a parent.  Repeating it returns the same row.
CreateRoot(r, turnCancelled) ==
    /\ turnRevision[r] # -1
    /\ ~Exists(r)
    /\ execState' =
         [execState EXCEPT ![r] = inheritSessionStop(r, turnCancelled)]
    /\ UNCHANGED <<controlRevision, runVars, actVars, stopVars>>

\* A launch tool of the parent creates the child's agent run; the request to
\* create the execution follows.  The worker read the parent's state before,
\* so the parent may have stopped or ended since.
LaunchChild(e, g) ==
    /\ runState[e] = "none"
    /\ Exists(Parent[e])
    /\ runState' = [runState EXCEPT ![e] = "running"]
    /\ runOwner' = [runOwner EXCEPT ![e] = g]
    /\ launcher' = [launcher EXCEPT ![e] = g]
    /\ UNCHANGED <<execVars, cancelRequested, actVars, stopVars>>

\* Admission of a child below a parent that has ended.
\* The parent's state allows another child.
parentAdmits(e) == Open(Parent[e])

\* A creation that leaves the pause of the parent to the parent.
inheritExecutionParentState(e) == "queued"

\* State of a new child: paused with its parent.
inheritExecutionParent(e) ==
    IF execState[Parent[e]] = "paused" THEN "paused" ELSE "queued"

\* CreateExecution with a parent.  The request was sent during the launch and
\* may be served after the launching worker gave up on it.
CreateChild(e) ==
    /\ runState[e] # "none"
    /\ ~Exists(e)
    /\ parentAdmits(e)
    /\ e \notin cancelRequested
    /\ execState' = [execState EXCEPT ![e] = inheritExecutionParent(e)]
    /\ held' = IF Parent[e] \in held THEN held \cup {e} ELSE held
    /\ UNCHANGED <<controlRevision, runVars, actVars, stopRevision,
                   turnRevision>>

\* The launching worker learns that its child's execution exists.
LaunchAnswered(e) ==
    /\ launcher[e] # NoGeneration
    /\ Exists(e)
    /\ launcher' = [launcher EXCEPT ![e] = NoGeneration]
    /\ UNCHANGED <<execVars, runState, runOwner, cancelRequested, actVars,
                   stopVars>>

\* An outcome that replaces the one recorded before.
FinalizesAnyState(e) == runOwner[e] = launcher[e]

\* The store accepts the launching worker's outcome for the run.
Finalizes(e) == runState[e] = "running" /\ runOwner[e] = launcher[e]

\* The launch ends with an error: a refusal, a failed preparation, or a wait
\* that was cancelled before the answer came.  The worker records how the run
\* ended (endChildAgentRun); the store refuses that for a run that is not
\* running or has another owner, which the worker only logs.
LaunchFailed(e, state) ==
    /\ launcher[e] # NoGeneration
    /\ runState' =
         IF Finalizes(e) THEN [runState EXCEPT ![e] = state] ELSE runState
    /\ launcher' = [launcher EXCEPT ![e] = NoGeneration]
    /\ UNCHANGED <<execVars, runOwner, cancelRequested, actVars, stopVars>>

-----------------------------------------------------------------------------
(* Ownership of agent runs                                                  *)

Recoverable(e, g) ==
    \/ runState[e] = "interrupted"
    \/ runState[e] = "running" /\ runOwner[e] # g

\* A child's activity may run for generation g: g owns the agent run already
\* or takes it over.
MayClaimChild(e, g) ==
    /\ e \notin cancelRequested
    /\ \/ runState[e] = "running" /\ runOwner[e] = g
       \/ Recoverable(e, g)

\* A replacement worker claims one child it found unfinished.
ClaimAgentRun(e, g) ==
    /\ e \notin cancelRequested
    /\ Recoverable(e, g)
    /\ runState' = [runState EXCEPT ![e] = "running"]
    /\ runOwner' = [runOwner EXCEPT ![e] = g]
    /\ UNCHANGED <<execVars, cancelRequested, launcher, actVars, stopVars>>

\* Runs of the session become interrupted, except those of generation g.
InterruptRuns(g) ==
    /\ runState' = [e \in Execution |->
         IF runState[e] = "running" /\ runOwner[e] # g
           THEN "interrupted" ELSE runState[e]]
    /\ UNCHANGED <<execVars, runOwner, cancelRequested, launcher, actVars,
                   stopVars>>

\* A replacement worker settles the runs of the workers before it.
PrepareAgentRunRecovery(g) == InterruptRuns(g)

\* A restarted controller settles every run.
RecoverInterruptedAgentRuns == InterruptRuns(NoGeneration)

-----------------------------------------------------------------------------
(* Activity checkpoints                                                     *)

\* Taking over an interrupted step without starting a new attempt.
NextAttemptReused(a) ==
    IF actState[a] = "running" THEN attempt[a] ELSE attempt[a] + 1

\* The number of the attempt that a claim starts.
NextAttempt(a) == attempt[a] + 1

\* Trusting that the attempt counter never ends.
AttemptsRemainUnchecked(a) == TRUE

\* The attempt counter has room.
AttemptsRemain(a) == attempt[a] < MaxAttempt

\* A running step of another worker whose effects are unknown.
LeftUncertain(a, g) ==
    /\ actState[a] = "running"
    /\ actOwner[a] # g
    /\ a \in Reconcile

\* A claim that treats an interrupted tool like a retryable step.
StartableAnyPolicy(a, g) ==
    \/ actState[a] \notin {"running", "completed", "uncertain"}
    \/ actState[a] = "running" /\ actOwner[a] # g

\* A claim that runs a completed step again.
StartableCompleted(a, g) ==
    \/ actState[a] \notin {"running", "uncertain"}
    \/ actState[a] = "running" /\ actOwner[a] # g /\ a \notin Reconcile

\* The step's state lets generation g start an attempt.
Startable(a, g) ==
    \/ actState[a] \notin {"running", "completed", "uncertain"}
    \/ actState[a] = "running" /\ actOwner[a] # g /\ a \notin Reconcile

\* Uncertainty that wakes a paused execution.
markUncertainAnyState(e) ==
    IF execState[e] \in Terminal THEN execState[e] ELSE "reconciling"

\* State of the execution after one of its steps became uncertain.
markUncertain(e) ==
    IF execState[e] = "paused" \/ execState[e] \in Terminal
      THEN execState[e] ELSE "reconciling"

\* A paused execution saves the step's input and starts nothing.
SchedulePaused(a) ==
    /\ execState[Owner[a]] = "paused"
    /\ actState[a] = "none"
    /\ actState' = [actState EXCEPT ![a] = "scheduled"]
    /\ UNCHANGED <<execVars, runVars, attempt, actOwner, output, leases,
                   granted, stopVars>>

\* A claim finds a tool of another worker still running.
FindUncertain(a, g) ==
    /\ Open(Owner[a])
    /\ execState[Owner[a]] # "paused"
    /\ LeftUncertain(a, g)
    /\ actState' = [actState EXCEPT ![a] = "uncertain"]
    /\ execState' = [execState EXCEPT ![Owner[a]] = markUncertain(Owner[a])]
    /\ UNCHANGED <<controlRevision, runVars, attempt, actOwner, output,
                   leases, granted, stopVars>>

\* A claim starts an attempt and answers with its lease.
StartAttempt(a, g) ==
    LET e == Owner[a]
    IN
    /\ Open(e)
    /\ execState[e] # "paused"
    /\ Startable(a, g)
    /\ e \in Child => MayClaimChild(e, g)
    /\ AttemptsRemain(a)
    /\ actState' = [actState EXCEPT ![a] = "running"]
    /\ attempt' = [attempt EXCEPT ![a] = NextAttempt(a)]
    /\ actOwner' = [actOwner EXCEPT ![a] = g]
    /\ leases' = leases \cup {[activity |-> a, generation |-> g,
                               attempt |-> NextAttempt(a)]}
    /\ execState' = [execState EXCEPT ![e] =
         IF @ = "queued" THEN "running" ELSE @]
    /\ runState' = IF e \in Child
         THEN [runState EXCEPT ![e] = "running"] ELSE runState
    /\ runOwner' = IF e \in Child
         THEN [runOwner EXCEPT ![e] = g] ELSE runOwner
    /\ UNCHANGED <<controlRevision, cancelRequested, launcher, output,
                   granted, stopVars>>

\* BeginExecutionActivity.  A completed step is answered from its saved
\* result and an uncertain one with the need to inspect it: no change.
BeginExecutionActivity(a, g) ==
    \/ SchedulePaused(a)
    \/ FindUncertain(a, g)
    \/ StartAttempt(a, g)

\* A fence that knows the worker and forgets the attempt.
activityForLeaseAnyAttempt(l) == actOwner[l.activity] = l.generation

\* The lease still names the current attempt of its activity.
activityForLease(l) ==
    /\ actOwner[l.activity] = l.generation
    /\ attempt[l.activity] = l.attempt

SaveResult(a, n) ==
    /\ actState' = [actState EXCEPT ![a] = "completed"]
    /\ output' = [output EXCEPT ![a] = n]

\* CompleteExecutionActivity without a finish.  A result counts even when the
\* execution was paused meanwhile.
CompleteExecutionActivity(l) ==
    /\ activityForLease(l)
    /\ actState[l.activity] = "running"
    /\ l.activity \notin Finishing
    /\ SaveResult(l.activity, l.attempt)
    /\ UNCHANGED <<execVars, runVars, attempt, actOwner, leases, granted,
                   stopVars>>

\* States a final result tolerates in the other steps of its execution.
SettledFor(state) ==
    {"none", "completed"} \cup (IF state = "failed" THEN {"failed"} ELSE {})

\* A finish that overlooks the steps whose effects are unknown.
requireSettledActivitiesButUncertain(a, state) ==
    \A b \in Activity \ {a} : Owner[b] = Owner[a] =>
        actState[b] \in SettledFor(state) \cup {"uncertain"}

\* Every other step of the execution is settled.
requireSettledActivities(a, state) ==
    \A b \in Activity \ {a} : Owner[b] = Owner[a] =>
        actState[b] \in SettledFor(state)

\* The execution may still finish.
validateFinishClaim(e) ==
    Open(e) /\ execState[e] \notin {"paused", "reconciling"}

\* CompleteExecutionActivity of a final activity: its result, the agent run
\* and the execution end in one transaction.  The store would also take the
\* finish of a child without an outcome for its run, which
\* prepareChildWorkflowFinish never sends.
FinishExecution(l, state) ==
    LET e == Owner[l.activity]
    IN
    /\ activityForLease(l)
    /\ actState[l.activity] = "running"
    /\ l.activity \in Finishing
    /\ validateFinishClaim(e)
    /\ requireSettledActivities(l.activity, state)
    /\ e \in Child => runState[e] = "running"
    /\ SaveResult(l.activity, l.attempt)
    /\ execState' = [execState EXCEPT ![e] = state]
    /\ runState' = IF e \in Child
         THEN [runState EXCEPT ![e] = state] ELSE runState
    /\ UNCHANGED <<controlRevision, runOwner, cancelRequested, launcher,
                   attempt, actOwner, leases, granted, stopVars>>

\* The same call while the inbox holds messages: the result says to continue,
\* and the execution goes on with another final activity later.
ContinueExecution(l) ==
    /\ activityForLease(l)
    /\ actState[l.activity] = "running"
    /\ l.activity \in Finishing
    /\ validateFinishClaim(Owner[l.activity])
    /\ requireSettledActivities(l.activity, "completed")
    /\ SaveResult(l.activity, l.attempt)
    /\ UNCHANGED <<execVars, runVars, attempt, actOwner, leases, granted,
                   stopVars>>

\* InterruptExecutionActivity: a tool becomes uncertain, another step can be
\* claimed again.
InterruptExecutionActivity(l) ==
    LET a == l.activity
        e == Owner[a]
    IN
    /\ activityForLease(l)
    /\ actState[a] = "running"
    /\ \/ /\ a \in Reconcile
          /\ actState' = [actState EXCEPT ![a] = "uncertain"]
          /\ execState' = [execState EXCEPT ![e] = markUncertain(e)]
       \/ /\ a \notin Reconcile
          /\ actState' = [actState EXCEPT ![a] =
               IF execState[e] = "paused" THEN "paused" ELSE "failed"]
          /\ UNCHANGED execState
    /\ UNCHANGED <<controlRevision, runVars, attempt, actOwner, output,
                   leases, granted, stopVars>>

-----------------------------------------------------------------------------
(* Inspection of uncertain steps                                            *)

\* Applying a decision to whatever attempt is uncertain now.
activityResolutionStatusAnyAttempt(a, n) == actState[a] = "uncertain"

\* A decision about attempt n of a applies.
activityResolutionStatus(a, n) ==
    attempt[a] = n /\ actState[a] = "uncertain"

\* Leaving reconciliation only by hand.
restoreReconciledNever(e, a) == execState[e]

\* State of the execution once a, one of its steps, is no longer uncertain.
restoreReconciled(e, a) ==
    IF /\ execState[e] = "reconciling"
       /\ \A b \in Activity \ {a} : Owner[b] = e => actState[b] # "uncertain"
      THEN "running" ELSE execState[e]

\* The inspected effect is accepted as the result of attempt n.
AcceptActivity(a, n) ==
    /\ activityResolutionStatus(a, n)
    /\ SaveResult(a, n)
    /\ execState' = [execState EXCEPT ![Owner[a]] =
                       restoreReconciled(Owner[a], a)]
    /\ UNCHANGED <<controlRevision, runVars, attempt, actOwner, leases,
                   granted, stopVars>>

\* The inspection allows one more attempt.
RetryActivity(a, n) ==
    /\ activityResolutionStatus(a, n)
    /\ actState' = [actState EXCEPT ![a] = "scheduled"]
    /\ actOwner' = [actOwner EXCEPT ![a] = NoGeneration]
    /\ granted' = [granted EXCEPT ![a] = @ \cup {n}]
    /\ execState' = [execState EXCEPT ![Owner[a]] =
                       restoreReconciled(Owner[a], a)]
    /\ UNCHANGED <<controlRevision, runVars, attempt, output, leases,
                   stopVars>>

ResolveExecutionActivity(a, n) == AcceptActivity(a, n) \/ RetryActivity(a, n)

-----------------------------------------------------------------------------
(* Pause, resume, stop and cancellation                                     *)

\* A pause that reaches executions that have ended.
\* A pause changes the execution.
Pausable(e) == Open(e) /\ execState[e] # "paused"

\* Trusting that the revision counter never ends.
RevisionsRemainUnchecked(S) == TRUE

\* Every member can record one more control decision.
RevisionsRemain(S) == \A e \in S : controlRevision[e] < MaxRevision

\* Record a control decision for the members of S, which enter one state.
Change(S, state) ==
    /\ RevisionsRemain(S)
    /\ execState' = [e \in Execution |->
                       IF e \in S THEN state ELSE execState[e]]
    /\ controlRevision' = [e \in Execution |->
         IF e \in S THEN controlRevision[e] + 1 ELSE controlRevision[e]]

PauseExecution(e) ==
    /\ Exists(e)
    /\ Change({d \in Subtree(e) : Pausable(d)}, "paused")
    /\ UNCHANGED <<runVars, actVars, stopVars>>

\* Every execution names its workflow (submitRoot, submitChild), so what was
\* paused becomes running, never queued.
ResumeSubtree(e) ==
    /\ Change({d \in Subtree(e) : execState[d] = "paused"}, "running")
    /\ held' = held \ Subtree(e)
    /\ UNCHANGED <<runVars, actVars, stopRevision, turnRevision>>

\* A person resumes an execution, directly or with a message to a child.
ResumeExecution(e) ==
    /\ Exists(e)
    /\ ResumeSubtree(e)

\* The lease belongs to a tool call that is still active.
authorizeExecutionControl(l) ==
    /\ activityForLease(l)
    /\ actState[l.activity] = "running"
    /\ l.activity \in Tool
    /\ execState[Owner[l.activity]] = "running"

\* An agent resumes an execution from one of its tool calls.
ResumeExecutionFromActivity(l, e) ==
    /\ authorizeExecutionControl(l)
    /\ Exists(e)
    /\ ResumeSubtree(e)

\* An agent reports its inspection of a step from one of its tool calls.
ResolveExecutionActivityFromActivity(l, a, n) ==
    /\ authorizeExecutionControl(l)
    /\ ResolveExecutionActivity(a, n)

\* The session's Cancel: a Stop of everything the session has begun.  The
\* executions it holds include those whose turn is admitted and whose row is
\* still to be created.
Stop ==
    /\ stopRevision < MaxStop
    /\ stopRevision' = stopRevision + 1
    /\ Change({e \in Execution : Pausable(e)}, "paused")
    /\ held' = held \cup {e \in Execution :
                 Open(e) \/ (~Exists(e) /\ turnRevision[e] # -1)}
    /\ UNCHANGED <<turnRevision, runVars, actVars>>

\* Startup pauses what a crash left unfinished, with everything below it.
PauseUnfinishedExecutions ==
    /\ Change({d \in Execution :
                 /\ Pausable(d)
                 /\ \E e \in Execution :
                      /\ execState[e] \in {"running", "reconciling"}
                      /\ d \in Subtree(e)}, "paused")
    /\ UNCHANGED <<runVars, actVars, stopVars>>

\* The run has not ended.
LiveRun(e) == runState[e] \in {"running", "interrupted"}

\* A cancellation that forgets the steps nobody works on.
\* A cancellation settles the step.
CancelsStep(a) == actState[a] \notin {"none", "completed"}

\* RequestAgentRunCancellation: the child, everything unfinished below it,
\* their steps and their runs end in one transaction.  One member that cannot
\* be settled undoes the whole request.
RequestAgentRunCancellation(e) ==
    LET D == IF Exists(e) THEN CancelledBy(e) ELSE {}
    IN
    /\ LiveRun(e)
    /\ e \notin cancelRequested
    /\ \A d \in D : LiveRun(d)
    /\ Change(D, "cancelled")
    /\ cancelRequested' = cancelRequested \cup {e} \cup D
    /\ runState' = [d \in Execution |->
         IF d \in D THEN "cancelled" ELSE runState[d]]
    /\ actState' = [a \in Activity |->
         IF Owner[a] \in D /\ CancelsStep(a)
           THEN "cancelled" ELSE actState[a]]
    /\ UNCHANGED <<runOwner, launcher, attempt, actOwner, output, leases,
                   granted, stopVars>>

-----------------------------------------------------------------------------
CreateNext ==
    \/ \E r \in Root : AdmitTurn(r)
    \/ \E r \in Root, c \in BOOLEAN : CreateRoot(r, c)
    \/ \E e \in Child, g \in Generation : LaunchChild(e, g)
    \/ \E e \in Child : CreateChild(e)
    \/ \E e \in Child : LaunchAnswered(e)
    \/ \E e \in Child, s \in {"failed", "cancelled"} : LaunchFailed(e, s)

RunNext ==
    \/ \E e \in Child, g \in Generation : ClaimAgentRun(e, g)
    \/ \E g \in Generation : PrepareAgentRunRecovery(g)
    \/ RecoverInterruptedAgentRuns

ActivityNext ==
    \/ \E a \in Activity, g \in Generation : BeginExecutionActivity(a, g)
    \/ \E l \in leases : CompleteExecutionActivity(l)
    \/ \E l \in leases, s \in {"completed", "failed"} : FinishExecution(l, s)
    \/ \E l \in leases : ContinueExecution(l)
    \/ \E l \in leases : InterruptExecutionActivity(l)
    \/ \E a \in Activity, n \in 1..MaxAttempt : ResolveExecutionActivity(a, n)
    \/ \E l \in leases, a \in Activity, n \in 1..MaxAttempt :
         ResolveExecutionActivityFromActivity(l, a, n)

ControlNext ==
    \/ \E e \in Execution : PauseExecution(e)
    \/ \E e \in Execution : ResumeExecution(e)
    \/ \E l \in leases, e \in Execution : ResumeExecutionFromActivity(l, e)
    \/ Stop
    \/ PauseUnfinishedExecutions
    \/ \E e \in Child : RequestAgentRunCancellation(e)

Next == CreateNext \/ RunNext \/ ActivityNext \/ ControlNext

Spec == Init /\ [][Next]_vars

-----------------------------------------------------------------------------
(* Properties                                                               *)

\* Every row holds a state the schema knows, and no counter passes its limit:
\* startActivityAttempt and changeExecutionState refuse the step instead.
TypeOK ==
    /\ stopRevision \in 0..MaxStop
    /\ turnRevision \in [Execution -> -1..MaxStop]
    /\ execState \in [Execution -> ExecState]
    /\ controlRevision \in [Execution -> 0..MaxRevision]
    /\ runState \in [Execution -> RunState]
    /\ runOwner \in [Execution -> Generation \cup {NoGeneration}]
    /\ cancelRequested \subseteq Child
    /\ launcher \in [Execution -> Generation \cup {NoGeneration}]
    /\ actState \in [Activity -> ActState]
    /\ attempt \in [Activity -> 0..MaxAttempt]
    /\ actOwner \in [Activity -> Generation \cup {NoGeneration}]
    /\ output \in [Activity -> 0..MaxAttempt]
    /\ leases \subseteq Lease
    /\ granted \in [Activity -> SUBSET (1..MaxAttempt)]
    /\ held \subseteq Execution

\* A tool is never repeated silently.  Whatever workers crash, take over or
\* answer late, attempt n + 1 of a step that must be reconciled starts only
\* after somebody inspected attempt n and allowed another one
\* (claimExecutionActivity, InterruptExecutionActivity, resolution).
NoSilentReplay ==
    \A a \in Reconcile : 1..(attempt[a] - 1) \subseteq granted[a]

\* Every attempt has one holder: two generations are never both told to
\* execute the same attempt, however claims and takeovers interleave
\* (startActivityAttempt).
OneHolderPerAttempt ==
    \A l, m \in leases :
       l.activity = m.activity /\ l.attempt = m.attempt => l = m

\* The saved result of a completed step was produced, or accepted, for its
\* latest attempt: a late answer of a replaced attempt never becomes the
\* result (activityForLease, activityResolutionStatus).
ResultOfLastAttempt ==
    \A a \in Activity :
       actState[a] = "completed" => output[a] = attempt[a] /\ output[a] # 0

\* An execution that ended has nothing left in flight: no step of it is
\* running, waiting or uncertain, so no later call can act for it
\* (requireSettledExecutionActivities, cancelExecutionActivities).
TerminalSettled ==
    \A a \in Activity :
       LET s == execState[Owner[a]]
       IN  /\ s \in {"completed", "failed"} => actState[a] \in SettledFor(s)
           /\ s = "cancelled" =>
                actState[a] \in {"none", "completed", "cancelled"}

\* A session stop holds.  From the Stop until an explicit resume, nothing the
\* session had begun runs: not an execution that a late worker interrupts or
\* inspects, not one created after the Stop for a turn admitted before it, and
\* no child launched meanwhile (pauseSessionExecutions, inheritSessionStop,
\* inheritExecutionParent).
StopHolds ==
    \A e \in held :
       ~Exists(e) \/ execState[e] = "paused" \/ execState[e] \in Terminal

\* Reconciliation can always be left: an execution that waits for inspection
\* has an uncertain step to inspect (restoreReconciledExecution).
ReconcilingHasUncertain ==
    \A e \in Execution : execState[e] = "reconciling" =>
       \E a \in Activity : Owner[a] = e /\ actState[a] = "uncertain"

\* A cancelled child leaves nothing running below it, and nothing can be
\* created below it afterwards, even by a launch already under way
\* (cancelNativeChildTree, inheritExecutionParent).
CancellationCoversSubtree ==
    \A e \in Execution : execState[e] = "cancelled" =>
       \A d \in Subtree(e) : ~Open(d)

\* A child's execution and its agent run agree on how the work ended: a
\* finished execution has a run that ended the same way
\* (finishExecutionChild, cancelExecutionAgentRun).
OutcomesAgree ==
    \A e \in Child : execState[e] \in Terminal => runState[e] = execState[e]

\* An outcome is final.  No call changes an execution that ended, and no call
\* changes the saved result of a completed step (claimExecutionActivity,
\* completedExecutionActivity, shouldChangeExecutionState).
OutcomesStay ==
    [][/\ \A e \in Execution : execState[e] \in Terminal =>
             execState'[e] = execState[e]
       /\ \A a \in Activity : actState[a] = "completed" =>
             actState'[a] = "completed" /\ output'[a] = output[a]]_vars

\* A request to cancel a running child can always be carried out: "The
\* unfinished children it launched stop with it."  Everything it has to settle
\* still has a run that cancelExecutionAgentRun accepts.
CancellationSettles ==
    \A e \in Child : LiveRun(e) /\ Exists(e) =>
       \A d \in CancelledBy(e) : LiveRun(d)
=============================================================================
