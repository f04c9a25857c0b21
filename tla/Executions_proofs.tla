------------------------- MODULE Executions_proofs -------------------------
(***************************************************************************)
(* Proofs about Executions, for every tree of executions, every set of     *)
(* activities and generations, and every limit of the counters: first the  *)
(* steps and their attempts, then stopping, cancelling and ending.         *)
(***************************************************************************)
EXTENDS Executions, TLAPS

\* The subtree query returns executions, the queried one among them.
LEMMA SubtreeType ==
  ASSUME NEW e \in Execution
  PROVE  Subtree(e) \subseteq Execution /\ e \in Subtree(e)
  BY Zenon DEF Subtree, Subtrees

\* A child of a member is a member.
LEMMA SubtreeClosed ==
  ASSUME NEW e \in Execution, NEW c \in Execution, Parent[c] \in Subtree(e)
  PROVE  c \in Subtree(e)
  BY Zenon DEF Subtree, Subtrees

\* Any set that holds e and is closed under children holds the subtree.
LEMMA SubtreeLeast ==
  ASSUME NEW e \in Execution, NEW S \in SUBSET Execution, e \in S,
         \A c \in Execution : Parent[c] \in S => c \in S
  PROVE  Subtree(e) \subseteq S
  BY Zenon DEF Subtree, Subtrees

\* Every member but the top has its parent in the subtree.
LEMMA SubtreeParent ==
  ASSUME NEW e \in Execution, NEW d \in Subtree(e), d # e
  PROVE  Parent[d] \in Subtree(e)
<1> SUFFICES ASSUME Parent[d] \notin Subtree(e) PROVE FALSE
  BY Zenon
<1> DEFINE S == Subtree(e) \ {d}
<1>1. S \in SUBSET Execution /\ e \in S
  BY SubtreeType, Zenon
<1>2. \A c \in Execution : Parent[c] \in S => c \in S
  BY SubtreeClosed, Zenon
<1> QED
  BY <1>1, <1>2, SubtreeLeast, ZenonT(30)

\* Below a child there are only children.
LEMMA SubtreeOfChild ==
  ASSUME NEW e \in Child PROVE Subtree(e) \subseteq Child
<1>1. e \in Execution /\ Child \in SUBSET Execution
  BY Zenon DEF Child
<1>2. \A c \in Execution : Parent[c] \in Child => c \in Child
  BY ExecutionsAssumption, Zenon DEF Child, Root
<1> QED
  BY <1>1, <1>2, SubtreeLeast, Zenon

-----------------------------------------------------------------------------
(* Type correctness                                                         *)

\* Applying one control decision to a set of executions keeps the types of
\* the two columns it writes.
LEMMA ChangeType ==
  ASSUME TypeOK, NEW S \in SUBSET Execution, NEW state \in ExecState,
         Change(S, state)
  PROVE  /\ execState' \in [Execution -> ExecState]
         /\ controlRevision' \in [Execution -> 0..MaxRevision]
<1>1. \A e \in S : controlRevision[e] + 1 \in 0..MaxRevision
  BY ExecutionsAssumption DEF TypeOK, Change, RevisionsRemain
<1> QED
  BY <1>1, Zenon DEF TypeOK, Change

\* Creation and launch of executions keep every column's type.
LEMMA CreateType == TypeOK /\ CreateNext => TypeOK'
<1> SUFFICES ASSUME TypeOK, CreateNext PROVE TypeOK'
  BY Zenon
<1> USE ExecutionsAssumption
<1>1. CASE \E r \in Root : AdmitTurn(r)
  BY <1>1 DEF TypeOK, AdmitTurn, execVars, runVars, actVars, Root
<1>2. CASE \E r \in Root, c \in BOOLEAN : CreateRoot(r, c)
  BY <1>2 DEF TypeOK, CreateRoot, inheritSessionStop, ExecState, runVars,
              actVars, stopVars, Root
<1>3. CASE \E e \in Child, g \in Generation : LaunchChild(e, g)
  BY <1>3
     DEF TypeOK, LaunchChild, RunState, execVars, actVars, stopVars, Child
<1>4. CASE \E e \in Child : CreateChild(e)
  BY <1>4 DEF TypeOK, CreateChild, inheritExecutionParent, ExecState, runVars,
              actVars, Child
<1>5. CASE \E e \in Child : LaunchAnswered(e)
  BY <1>5 DEF TypeOK, LaunchAnswered, execVars, actVars, stopVars, Child
<1>6. CASE \E e \in Child, s \in {"failed", "cancelled"} : LaunchFailed(e, s)
  BY <1>6 DEF TypeOK, LaunchFailed, RunState, Terminal, execVars, actVars,
              stopVars, Child
<1> QED
  BY <1>1, <1>2, <1>3, <1>4, <1>5, <1>6, Zenon DEF CreateNext

\* Changes of ownership of agent runs keep every column's type.
LEMMA RunType == TypeOK /\ RunNext => TypeOK'
<1> SUFFICES ASSUME TypeOK, RunNext PROVE TypeOK'
  BY Zenon
<1>1. CASE \E e \in Child, g \in Generation : ClaimAgentRun(e, g)
  BY <1>1 DEF TypeOK, ClaimAgentRun, RunState, execVars, actVars, stopVars,
              Child
<1>2. ASSUME NEW g, InterruptRuns(g) PROVE TypeOK'
  BY <1>2, Zenon
     DEF TypeOK, InterruptRuns, RunState, execVars, actVars, stopVars
<1> QED
  BY <1>1, <1>2, Zenon DEF RunNext, PrepareAgentRunRecovery,
                    RecoverInterruptedAgentRuns

\* The operations on steps keep every column's type.
LEMMA ActivityType == TypeOK /\ ActivityNext => TypeOK'
<1> SUFFICES ASSUME TypeOK, ActivityNext PROVE TypeOK'
  BY Zenon
<1> USE ExecutionsAssumption
<1>1. ASSUME NEW a \in Activity, SchedulePaused(a) PROVE TypeOK'
  BY <1>1, Zenon
     DEF TypeOK, SchedulePaused, ActState, execVars, runVars, stopVars
<1>2. ASSUME NEW a \in Activity, NEW g \in Generation, FindUncertain(a, g)
      PROVE TypeOK'
  BY <1>2, Zenon
     DEF TypeOK, FindUncertain, markUncertain, ActState, ExecState,
              runVars, stopVars
<1>3. ASSUME NEW a \in Activity, NEW g \in Generation, StartAttempt(a, g)
      PROVE TypeOK'
  <2>1. Owner[a] \in Execution
    BY Zenon
  <2>2. NextAttempt(a) \in 1..MaxAttempt
    BY <1>3 DEF TypeOK, StartAttempt, AttemptsRemain, NextAttempt
  <2>3. leases' \subseteq Lease
    BY <1>3, <2>2 DEF TypeOK, StartAttempt, Lease
  <2>4. attempt' \in [Activity -> 0..MaxAttempt]
    BY <1>3, <2>2 DEF TypeOK, StartAttempt
  <2>5. execState' \in [Execution -> ExecState]
    BY <1>3, <2>1, Zenon DEF TypeOK, StartAttempt, ExecState
  <2>6. /\ runState' \in [Execution -> RunState]
        /\ runOwner' \in [Execution -> Generation \cup {NoGeneration}]
    BY <1>3, <2>1, Zenon DEF TypeOK, StartAttempt, RunState
  <2>7. /\ actState' \in [Activity -> ActState]
        /\ actOwner' \in [Activity -> Generation \cup {NoGeneration}]
    BY <1>3, Zenon DEF TypeOK, StartAttempt, ActState
  <2> QED
    BY <1>3, <2>3, <2>4, <2>5, <2>6, <2>7, Zenon
       DEF TypeOK, StartAttempt, stopVars
<1>4. ASSUME NEW a \in Activity, NEW n \in 1..MaxAttempt, SaveResult(a, n)
      PROVE /\ actState' \in [Activity -> ActState]
            /\ output' \in [Activity -> 0..MaxAttempt]
  BY <1>4 DEF TypeOK, SaveResult, ActState
<1>5. ASSUME NEW l \in leases
      PROVE  l.activity \in Activity /\ l.attempt \in 1..MaxAttempt
  BY <1>5, Zenon DEF TypeOK, Lease
<1>6. ASSUME NEW l \in leases, CompleteExecutionActivity(l) PROVE TypeOK'
  BY <1>4, <1>5, <1>6, Zenon DEF TypeOK, CompleteExecutionActivity, execVars,
                          runVars, stopVars
<1>7. ASSUME NEW l \in leases, NEW s \in {"completed", "failed"},
             FinishExecution(l, s)
      PROVE TypeOK'
  <2>1. Owner[l.activity] \in Execution
    BY <1>5, Zenon
  <2>2. /\ execState' \in [Execution -> ExecState]
        /\ runState' \in [Execution -> RunState]
    BY <1>7, <2>1, Zenon
       DEF TypeOK, FinishExecution, ExecState, RunState, Terminal
  <2>3. /\ actState' \in [Activity -> ActState]
        /\ output' \in [Activity -> 0..MaxAttempt]
    BY <1>4, <1>5, <1>7, Zenon DEF FinishExecution
  <2> QED
    BY <1>7, <2>2, <2>3, Zenon DEF TypeOK, FinishExecution, stopVars
<1>8. ASSUME NEW l \in leases, ContinueExecution(l) PROVE TypeOK'
  BY <1>4, <1>5, <1>8, Zenon DEF TypeOK, ContinueExecution, execVars, runVars,
                          stopVars
<1>9. ASSUME NEW l \in leases, InterruptExecutionActivity(l) PROVE TypeOK'
  <2>1. l.activity \in Activity /\ Owner[l.activity] \in Execution
    BY <1>5, Zenon
  <2>2. /\ execState' \in [Execution -> ExecState]
        /\ actState' \in [Activity -> ActState]
    BY <1>9, <2>1 DEF TypeOK, InterruptExecutionActivity, markUncertain,
                      ExecState, ActState
  <2> QED
    BY <1>9, <2>2, Zenon
       DEF TypeOK, InterruptExecutionActivity, runVars, stopVars
<1>10. ASSUME NEW a \in Activity, NEW n \in 1..MaxAttempt,
              ResolveExecutionActivity(a, n)
       PROVE TypeOK'
  <2>1. CASE AcceptActivity(a, n)
    BY <1>4, <2>1, Zenon
       DEF TypeOK, AcceptActivity, restoreReconciled, ExecState,
                      runVars, stopVars
  <2>2. CASE RetryActivity(a, n)
    BY <2>2, Zenon
       DEF TypeOK, RetryActivity, restoreReconciled, ExecState, ActState,
                runVars, stopVars
  <2> QED
    BY <1>10, <2>1, <2>2, Zenon DEF ResolveExecutionActivity
<1> QED
  BY <1>1, <1>2, <1>3, <1>6, <1>7, <1>8, <1>9, <1>10, Zenon
  DEF ActivityNext, BeginExecutionActivity,
      ResolveExecutionActivityFromActivity

\* Pause, resume, stop and cancellation keep every column's type.
LEMMA ControlType == TypeOK /\ ControlNext => TypeOK'
<1> SUFFICES ASSUME TypeOK, ControlNext PROVE TypeOK'
  BY Zenon
<1> USE ExecutionsAssumption
<1>1. {"paused", "running", "cancelled"} \subseteq ExecState
  BY Zenon DEF ExecState, Terminal
<1>2. ASSUME NEW e \in Execution, PauseExecution(e) PROVE TypeOK'
  <2>1. {d \in Subtree(e) : Pausable(d)} \in SUBSET Execution
    BY SubtreeType, Zenon
  <2> QED
    BY <1>1, <1>2, <2>1, ChangeType, Zenon
    DEF TypeOK, PauseExecution, runVars, actVars, stopVars
<1>3. ASSUME NEW e \in Execution, ResumeSubtree(e) PROVE TypeOK'
  <2>1. {d \in Subtree(e) : execState[d] = "paused"} \in SUBSET Execution
    BY SubtreeType, Zenon
  <2> QED
    BY <1>1, <1>3, <2>1, ChangeType, Zenon
       DEF TypeOK, ResumeSubtree, runVars, actVars
<1>4. CASE Stop
  <2>1. {e \in Execution : Pausable(e)} \in SUBSET Execution
    BY Zenon
  <2>2. /\ execState' \in [Execution -> ExecState]
        /\ controlRevision' \in [Execution -> 0..MaxRevision]
    BY <1>1, <1>4, <2>1, ChangeType, Zenon DEF Stop
  <2>3. stopRevision' \in 0..MaxStop /\ held' \subseteq Execution
    BY <1>4 DEF TypeOK, Stop
  <2> QED
    BY <1>4, <2>2, <2>3, Zenon DEF TypeOK, Stop, runVars, actVars
<1>5. CASE PauseUnfinishedExecutions
  <2>1. {d \in Execution :
           /\ Pausable(d)
           /\ \E e \in Execution :
                /\ execState[e] \in {"running", "reconciling"}
                /\ d \in Subtree(e)} \in SUBSET Execution
    BY Zenon
  <2> QED
    BY <1>1, <1>5, <2>1, ChangeType, Zenon
    DEF TypeOK, PauseUnfinishedExecutions, runVars, actVars, stopVars
<1>6. ASSUME NEW e \in Child, RequestAgentRunCancellation(e) PROVE TypeOK'
  <2> DEFINE D == IF Exists(e) THEN CancelledBy(e) ELSE {}
  <2>1. e \in Execution
    BY Zenon DEF Child
  <2>2. D \in SUBSET Execution
    BY <2>1, SubtreeType, Zenon DEF CancelledBy
  <2>3. /\ execState' \in [Execution -> ExecState]
        /\ controlRevision' \in [Execution -> 0..MaxRevision]
    BY <1>1, <1>6, <2>2, ChangeType, Zenon DEF RequestAgentRunCancellation
  <2>4. /\ runState' \in [Execution -> RunState]
        /\ actState' \in [Activity -> ActState]
    BY <1>6, Zenon
       DEF TypeOK, RequestAgentRunCancellation, RunState, ActState,
                Terminal
  <2>5. \A d \in D : d \in Child
    BY SubtreeOfChild, Zenon DEF CancelledBy
  <2> QED
    BY <1>6, <2>3, <2>4, <2>5, Zenon
    DEF TypeOK, RequestAgentRunCancellation, stopVars
<1> QED
  BY <1>2, <1>3, <1>4, <1>5, <1>6, Zenon
  DEF ControlNext, ResumeExecution, ResumeExecutionFromActivity

\* Every reachable state is well typed, and no counter exceeds its limit.
THEOREM TypeCorrect == Spec => []TypeOK
<1>1. Init => TypeOK
  BY ExecutionsAssumption
  DEF Init, TypeOK, ExecState, RunState, ActState
<1>2. TypeOK /\ [Next]_vars => TypeOK'
  <2>1. TypeOK /\ UNCHANGED vars => TypeOK'
    BY Zenon DEF TypeOK, vars, execVars, runVars, actVars, stopVars
  <2> QED
    BY <2>1, CreateType, RunType, ActivityType, ControlType, Zenon DEF Next
<1> QED
  BY <1>1, <1>2, PTL DEF Spec

-----------------------------------------------------------------------------
(* Outcomes                                                                 *)

\* A cancelled step belongs to a cancelled execution.
CancelledWithExecution ==
    \A a \in Activity : actState[a] = "cancelled" =>
       execState[Owner[a]] = "cancelled"

\* A step belongs to an execution that was created.
StepsHaveExecution ==
    \A a \in Activity : actState[a] # "none" => Exists(Owner[a])

\* The strengthening of TerminalSettled.
SettledInv == TerminalSettled /\ CancelledWithExecution /\ StepsHaveExecution

\* What every action but a finish and a cancellation does to outcomes: ended
\* executions and their steps stay as they are, and nothing ends.
Quiet ==
    /\ \A e \in Execution :
          \/ execState'[e] = execState[e]
          \/ /\ execState[e] \notin Terminal
             /\ execState'[e] \notin Terminal \cup {"none"}
    /\ \A a \in Activity :
          \/ actState'[a] = actState[a]
          \/ /\ Open(Owner[a])
             /\ actState'[a] # "cancelled"
             /\ actState[a] # "completed"

Finish == \E l \in leases, s \in {"completed", "failed"} : FinishExecution(l, s)
Cancel == \E e \in Child : RequestAgentRunCancellation(e)

\* Creation, launches and ownership of runs are quiet.
LEMMA CreateRunQuiet ==
  ASSUME TypeOK, CreateNext \/ RunNext PROVE Quiet
<1> USE DEF Quiet, Terminal
<1>1. CASE CreateNext
  BY <1>1 DEF TypeOK, CreateNext, AdmitTurn, CreateRoot, inheritSessionStop,
     LaunchChild, CreateChild, inheritExecutionParent, LaunchAnswered,
     LaunchFailed, Exists, execVars, actVars, Root, Child
<1>2. CASE RunNext
  BY <1>2, Zenon DEF RunNext, ClaimAgentRun, PrepareAgentRunRecovery,
     RecoverInterruptedAgentRuns, InterruptRuns, execVars, actVars
<1> QED
  BY <1>1, <1>2, Zenon

\* A step that runs or is uncertain belongs to an execution that goes on.
LEMMA LiveStepOpen ==
  ASSUME TypeOK, SettledInv, NEW a \in Activity,
         actState[a] \in {"running", "uncertain"}
  PROVE  Open(Owner[a])
  BY Zenon
     DEF SettledInv, TerminalSettled, StepsHaveExecution, SettledFor,
     Terminal,
         Open

\* The operations on steps are quiet, except for a finish.
LEMMA ActivityQuiet ==
  ASSUME TypeOK, SettledInv, ActivityNext, ~Finish PROVE Quiet
<1> USE ExecutionsAssumption
<1>1. ASSUME NEW a \in Activity, SchedulePaused(a) PROVE Quiet
  BY <1>1, Zenon
     DEF TypeOK, Quiet, SchedulePaused, execVars, Terminal, Open, Exists
<1>2. ASSUME NEW a \in Activity, NEW g \in Generation, FindUncertain(a, g)
      PROVE Quiet
  BY <1>2, Zenon
     DEF TypeOK, Quiet, FindUncertain, LeftUncertain, markUncertain,
              Open, Terminal
<1>3. ASSUME NEW a \in Activity, NEW g \in Generation, StartAttempt(a, g)
      PROVE Quiet
  <2>1. Owner[a] \in Execution /\ Open(Owner[a])
    BY <1>3, Zenon DEF StartAttempt
  <2>2. actState[a] # "completed"
    BY <1>3, Zenon DEF StartAttempt, Startable
  <2> QED
    BY <1>3, <2>1, <2>2, Zenon
       DEF TypeOK, Quiet, StartAttempt, Terminal, Open, Exists
<1>4. ASSUME NEW l \in leases PROVE l.activity \in Activity
  BY Zenon DEF TypeOK, Lease
<1>5. ASSUME NEW l \in leases, CompleteExecutionActivity(l) PROVE Quiet
  BY <1>4, <1>5, LiveStepOpen, Zenon
  DEF TypeOK, Quiet, CompleteExecutionActivity, SaveResult, execVars
<1>6. ASSUME NEW l \in leases, ContinueExecution(l) PROVE Quiet
  BY <1>4, <1>6, LiveStepOpen, Zenon
  DEF TypeOK, Quiet, ContinueExecution, SaveResult, execVars
<1>7. ASSUME NEW l \in leases, InterruptExecutionActivity(l) PROVE Quiet
  <2>1. /\ l.activity \in Activity /\ Owner[l.activity] \in Execution
        /\ actState[l.activity] = "running"
        /\ Open(Owner[l.activity])
    BY <1>4, <1>7, LiveStepOpen, Zenon DEF InterruptExecutionActivity
  <2> QED
    BY <1>7, <2>1 DEF TypeOK, Quiet, InterruptExecutionActivity,
                      markUncertain, Terminal, Open, Exists
<1>8. ASSUME NEW a \in Activity, NEW n \in 1..MaxAttempt,
             ResolveExecutionActivity(a, n)
      PROVE Quiet
  <2>1. /\ Owner[a] \in Execution /\ actState[a] = "uncertain"
        /\ Open(Owner[a])
    BY <1>8, LiveStepOpen, Zenon DEF ResolveExecutionActivity, AcceptActivity,
                              RetryActivity, activityResolutionStatus
  <2> QED
    BY <1>8, <2>1 DEF TypeOK, Quiet, ResolveExecutionActivity, AcceptActivity,
       RetryActivity, SaveResult, restoreReconciled, Terminal, Open, Exists
<1> QED
  BY <1>1, <1>2, <1>3, <1>5, <1>6, <1>7, <1>8, Zenon
  DEF ActivityNext, Finish, BeginExecutionActivity,
      ResolveExecutionActivityFromActivity

\* Pauses, resumes and stops are quiet.
LEMMA ControlQuiet ==
  ASSUME TypeOK, ControlNext, ~Cancel PROVE Quiet
<1>1. ASSUME NEW S \in SUBSET Execution, NEW state, Change(S, state),
             state \notin Terminal \cup {"none"},
             \A e \in S : execState[e] \notin Terminal,
             UNCHANGED actState
      PROVE Quiet
  BY <1>1, Zenon DEF Quiet, Change
<1>2. ASSUME NEW e \in Execution, PauseExecution(e) PROVE Quiet
  BY <1>1, <1>2, SubtreeType
  DEF PauseExecution, Pausable, Open, Terminal, actVars
<1>3. ASSUME NEW e \in Execution, ResumeSubtree(e) PROVE Quiet
  BY <1>1, <1>3, SubtreeType DEF ResumeSubtree, Terminal, actVars
<1>4. CASE Stop
  BY <1>1, <1>4 DEF Stop, Pausable, Open, Terminal, actVars
<1>5. CASE PauseUnfinishedExecutions
  BY <1>1, <1>5 DEF PauseUnfinishedExecutions, Pausable, Open, Terminal,
                    actVars
<1> QED
  BY <1>2, <1>3, <1>4, <1>5, Zenon
  DEF ControlNext, Cancel, ResumeExecution, ResumeExecutionFromActivity

\* Every step of the system is quiet, or it is a finish or a cancellation.
LEMMA QuietOrEnds ==
  ASSUME TypeOK, SettledInv, [Next]_vars PROVE Quiet \/ Finish \/ Cancel
<1>1. CASE UNCHANGED vars
  BY <1>1, Zenon DEF vars, execVars, actVars, Quiet
<1> QED
  BY <1>1, CreateRunQuiet, ActivityQuiet, ControlQuiet, Zenon DEF Next

\* What a finish does to the execution, its steps and its run.
LEMMA FinishEffect ==
  ASSUME TypeOK, NEW l \in leases, NEW s \in {"completed", "failed"},
         FinishExecution(l, s)
  PROVE  /\ l.activity \in Activity /\ Owner[l.activity] \in Execution
         /\ execState[Owner[l.activity]] \notin Terminal
         /\ actState[l.activity] = "running"
         /\ execState' = [execState EXCEPT ![Owner[l.activity]] = s]
         /\ actState' = [actState EXCEPT ![l.activity] = "completed"]
         /\ \A b \in Activity : Owner[b] = Owner[l.activity] =>
               actState'[b] \in SettledFor(s)
<1>1. l.activity \in Activity
  BY Zenon DEF TypeOK, Lease
<1>2. /\ execState' = [execState EXCEPT ![Owner[l.activity]] = s]
      /\ actState' = [actState EXCEPT ![l.activity] = "completed"]
      /\ actState[l.activity] = "running"
  BY Zenon DEF FinishExecution, SaveResult
<1>3. execState[Owner[l.activity]] \notin Terminal
  BY Zenon DEF FinishExecution, validateFinishClaim, Open
<1>4. \A b \in Activity : Owner[b] = Owner[l.activity] =>
         actState'[b] \in SettledFor(s)
  BY <1>1, <1>2 DEF TypeOK, FinishExecution, requireSettledActivities,
                    SettledFor
<1> QED
  BY <1>1, <1>2, <1>3, <1>4, ExecutionsAssumption, Zenon

\* What a cancellation does: it ends a set D of children with their steps.
LEMMA CancelEffect ==
  ASSUME TypeOK, NEW e \in Child, RequestAgentRunCancellation(e)
  PROVE  \E D \in SUBSET Child :
           /\ D = IF Exists(e) THEN CancelledBy(e) ELSE {}
           /\ \A d \in D : Open(d)
           /\ execState' = [d \in Execution |->
                IF d \in D THEN "cancelled" ELSE execState[d]]
           /\ runState' = [d \in Execution |->
                IF d \in D THEN "cancelled" ELSE runState[d]]
           /\ actState' = [a \in Activity |->
                IF Owner[a] \in D /\ actState[a] \notin {"none", "completed"}
                  THEN "cancelled" ELSE actState[a]]
<1> DEFINE D == IF Exists(e) THEN CancelledBy(e) ELSE {}
<1>1. D \in SUBSET Child /\ \A d \in D : Open(d)
  BY SubtreeOfChild, Zenon DEF CancelledBy
<1> QED
  BY <1>1, Zenon DEF RequestAgentRunCancellation, Change, CancelsStep

\* An ended execution stays settled, whatever is called afterwards.
LEMMA SettledStep ==
  ASSUME TypeOK, SettledInv, [Next]_vars PROVE SettledInv'
<1> USE ExecutionsAssumption
<1>1. CASE Quiet
  <2>1. TerminalSettled'
    BY <1>1 DEF SettledInv, TerminalSettled, Quiet, Terminal, SettledFor, Open
  <2>2. CancelledWithExecution'
    BY <1>1, Zenon
       DEF SettledInv, CancelledWithExecution, Quiet, Terminal, Open
  <2>3. StepsHaveExecution'
    BY <1>1, Zenon
       DEF SettledInv, StepsHaveExecution, Quiet, Exists, Open, Terminal
  <2> QED
    BY <2>1, <2>2, <2>3, Zenon DEF SettledInv
<1>2. ASSUME NEW l \in leases, NEW s \in {"completed", "failed"},
             FinishExecution(l, s)
      PROVE SettledInv'
  <2> DEFINE f == Owner[l.activity]
  <2>1. ASSUME NEW a \in Activity, Owner[a] = f
        PROVE  /\ execState'[Owner[a]] = s /\ actState'[a] \in SettledFor(s)
               /\ actState'[a] # "cancelled"
    BY <1>2, <2>1, FinishEffect DEF TypeOK, SettledFor
  <2>2. ASSUME NEW a \in Activity, Owner[a] # f
        PROVE  /\ execState'[Owner[a]] = execState[Owner[a]]
               /\ actState'[a] = actState[a]
    BY <1>2, <2>2, FinishEffect DEF TypeOK
  <2>3. TerminalSettled'
    BY <2>1, <2>2 DEF SettledInv, TerminalSettled, SettledFor
  <2>4. CancelledWithExecution'
    BY <2>1, <2>2 DEF SettledInv, CancelledWithExecution
  <2>5. StepsHaveExecution'
    BY <2>1, <2>2, Zenon DEF SettledInv, StepsHaveExecution, Exists
  <2> QED
    BY <2>3, <2>4, <2>5, Zenon DEF SettledInv
<1>3. ASSUME NEW e \in Child, RequestAgentRunCancellation(e)
      PROVE SettledInv'
  <2>1. PICK D \in SUBSET Child :
           /\ execState' = [d \in Execution |->
                IF d \in D THEN "cancelled" ELSE execState[d]]
           /\ actState' = [a \in Activity |->
                IF Owner[a] \in D /\ actState[a] \notin {"none", "completed"}
                  THEN "cancelled" ELSE actState[a]]
    BY <1>3, CancelEffect, Zenon
  <2>2. TerminalSettled'
    BY <2>1, Zenon DEF SettledInv, TerminalSettled, SettledFor
  <2>3. CancelledWithExecution'
    BY <2>1, Zenon DEF SettledInv, CancelledWithExecution
  <2>4. StepsHaveExecution'
    BY <2>1, Zenon DEF SettledInv, StepsHaveExecution, Exists
  <2> QED
    BY <2>2, <2>3, <2>4, Zenon DEF SettledInv
<1> QED
  BY <1>1, <1>2, <1>3, QuietOrEnds, Zenon DEF Finish, Cancel

\* SettledInv is an invariant, for the theorems that build on it.
LEMMA SettledAlways == Spec => []SettledInv
<1>1. Init => SettledInv
  BY ExecutionsAssumption
  DEF Init, SettledInv, TerminalSettled, CancelledWithExecution,
      StepsHaveExecution
<1>2. TypeOK /\ SettledInv /\ [Next]_vars => SettledInv'
  BY SettledStep, Zenon
<1> QED
  BY <1>1, <1>2, TypeCorrect, PTL DEF Spec

\* An execution that ended has nothing left in flight.
THEOREM EndedIsSettled == Spec => []TerminalSettled
<1>1. SettledInv => TerminalSettled
  BY Zenon DEF SettledInv
<1> QED
  BY <1>1, SettledAlways, PTL

-----------------------------------------------------------------------------
(* Attempts of a step                                                       *)

\* The strengthening of NoSilentReplay: a reconcile step that waits to be
\* started has an inspection behind its last attempt too, and it is never in
\* one of the states from which a retryable step starts again.
ReplayInv ==
    \A a \in Reconcile :
       /\ actState[a] \notin {"failed", "paused"}
       /\ 1..(attempt[a] - 1) \subseteq granted[a]
       /\ actState[a] \in {"none", "scheduled"} =>
            1..attempt[a] \subseteq granted[a]

\* A lease never names an attempt that has not begun, and no attempt has two
\* holders.
LeaseInv ==
    /\ OneHolderPerAttempt
    /\ \A l \in leases : l.attempt <= attempt[l.activity]

\* The three facts about attempts that are proved together.
AttemptInv == ReplayInv /\ LeaseInv /\ ResultOfLastAttempt

\* A step of the system that starts no attempt and records no decision can
\* break a fact about attempts only by changing the state of a step.
LEMMA AttemptUnchanged ==
  ASSUME TypeOK, AttemptInv, UNCHANGED <<attempt, granted, leases, output>>,
         \A a \in Activity :
            \/ actState'[a] = actState[a]
            \/ actState'[a] = "cancelled" /\ actState[a] # "none"
            \/ actState[a] = "running" /\ actState'[a] = "uncertain"
            \/ a \notin Reconcile /\ actState'[a] \in {"paused", "failed"}
            \/ actState[a] = "none" /\ actState'[a] = "scheduled"
  PROVE  AttemptInv'
<1>1. Reconcile \subseteq Activity
  BY ExecutionsAssumption, Zenon
<1>2. ReplayInv'
  BY <1>1, Zenon DEF AttemptInv, ReplayInv
<1>3. LeaseInv'
  BY Zenon DEF AttemptInv, LeaseInv, OneHolderPerAttempt
<1>4. ResultOfLastAttempt'
  BY Zenon DEF AttemptInv, ResultOfLastAttempt
<1> QED
  BY <1>2, <1>3, <1>4, Zenon DEF AttemptInv

\* Saving a result for the current attempt of a running or uncertain step.
LEMMA AttemptSaved ==
  ASSUME TypeOK, AttemptInv, UNCHANGED <<attempt, granted, leases>>,
         NEW a \in Activity, NEW n \in 1..MaxAttempt, attempt[a] = n,
         SaveResult(a, n)
  PROVE  AttemptInv'
<1>1. Reconcile \subseteq Activity
  BY ExecutionsAssumption, Zenon
<1>2. ReplayInv'
  BY <1>1, Zenon DEF TypeOK, AttemptInv, ReplayInv, SaveResult
<1>3. LeaseInv'
  BY Zenon DEF AttemptInv, LeaseInv, OneHolderPerAttempt
<1>4. ResultOfLastAttempt'
  BY DEF TypeOK, AttemptInv, ResultOfLastAttempt, SaveResult
<1> QED
  BY <1>2, <1>3, <1>4, Zenon DEF AttemptInv

\* Starting an attempt: the one action that advances the counter.
LEMMA AttemptStarted ==
  ASSUME TypeOK, SettledInv, AttemptInv, NEW a \in Activity, NEW g \in Generation,
         StartAttempt(a, g)
  PROVE  AttemptInv'
<1> USE ExecutionsAssumption
<1>1. /\ attempt' = [attempt EXCEPT ![a] = attempt[a] + 1]
      /\ actState' = [actState EXCEPT ![a] = "running"]
      /\ granted' = granted /\ output' = output
      /\ leases' = leases \cup {[activity |-> a, generation |-> g,
                                 attempt |-> attempt[a] + 1]}
  BY Zenon DEF StartAttempt, NextAttempt
<1>2. attempt[a] \in Nat
  BY DEF TypeOK
<1>3. ReplayInv'
  <2> SUFFICES ASSUME NEW b \in Reconcile
               PROVE /\ actState'[b] \notin {"failed", "paused"}
                     /\ 1..(attempt'[b] - 1) \subseteq granted'[b]
                     /\ actState'[b] \in {"none", "scheduled"} =>
                          1..attempt'[b] \subseteq granted'[b]
    BY Zenon DEF ReplayInv
  <2>1. CASE b # a
    BY <1>1, <2>1, Zenon DEF TypeOK, AttemptInv, ReplayInv
  <2>2. CASE b = a
    <3>1. actState[a] \in {"none", "scheduled", "cancelled"}
      BY <2>2, Zenon
         DEF TypeOK, StartAttempt, Startable, AttemptInv, ReplayInv,
                  ActState
    <3>2. actState[a] # "cancelled"
      BY Zenon
         DEF SettledInv, CancelledWithExecution, StartAttempt, Open, Terminal
    <3>3. 1..attempt[a] \subseteq granted[a]
      BY <2>2, <3>1, <3>2, Zenon DEF AttemptInv, ReplayInv
    <3> QED
      BY <1>1, <1>2, <2>2, <3>3 DEF TypeOK
  <2> QED
    BY <2>1, <2>2, Zenon
<1>4. LeaseInv'
  BY <1>1, <1>2 DEF TypeOK, Lease, AttemptInv, LeaseInv, OneHolderPerAttempt
<1>5. ResultOfLastAttempt'
  BY <1>1, Zenon DEF TypeOK, AttemptInv, ResultOfLastAttempt
<1> QED
  BY <1>3, <1>4, <1>5, Zenon DEF AttemptInv

\* Every step of the system keeps the facts about attempts.
LEMMA AttemptStep ==
  ASSUME TypeOK, SettledInv, AttemptInv, [Next]_vars PROVE AttemptInv'
<1> USE ExecutionsAssumption
<1>1. ASSUME UNCHANGED actVars PROVE AttemptInv'
  BY <1>1, AttemptUnchanged, Zenon DEF actVars
<1>2. CASE CreateNext \/ RunNext
  BY <1>1, <1>2, Zenon DEF CreateNext, AdmitTurn, CreateRoot, LaunchChild,
     CreateChild, LaunchAnswered, LaunchFailed, RunNext, ClaimAgentRun,
     PrepareAgentRunRecovery, RecoverInterruptedAgentRuns, InterruptRuns
<1>3. ASSUME NEW l \in leases
      PROVE  /\ l.activity \in Activity /\ l.attempt \in 1..MaxAttempt
             /\ activityForLease(l) => attempt[l.activity] = l.attempt
  BY Zenon DEF TypeOK, Lease, activityForLease
<1>4. ASSUME NEW a \in Activity, NEW g \in Generation,
             BeginExecutionActivity(a, g)
      PROVE AttemptInv'
  <2>1. CASE SchedulePaused(a)
    BY <2>1, AttemptUnchanged, Zenon DEF TypeOK, SchedulePaused
  <2>2. CASE FindUncertain(a, g)
    BY <2>2, AttemptUnchanged, Zenon DEF TypeOK, FindUncertain, LeftUncertain
  <2>3. CASE StartAttempt(a, g)
    BY <2>3, AttemptStarted, Zenon
  <2> QED
    BY <1>4, <2>1, <2>2, <2>3, Zenon DEF BeginExecutionActivity
<1>5. ASSUME NEW l \in leases, CompleteExecutionActivity(l) PROVE AttemptInv'
  BY <1>3, <1>5, AttemptSaved, Zenon DEF CompleteExecutionActivity
<1>6. ASSUME NEW l \in leases, NEW s \in {"completed", "failed"},
             FinishExecution(l, s)
      PROVE AttemptInv'
  BY <1>3, <1>6, AttemptSaved, Zenon DEF FinishExecution
<1>7. ASSUME NEW l \in leases, ContinueExecution(l) PROVE AttemptInv'
  BY <1>3, <1>7, AttemptSaved, Zenon DEF ContinueExecution
<1>8. ASSUME NEW l \in leases, InterruptExecutionActivity(l) PROVE AttemptInv'
  BY <1>3, <1>8, AttemptUnchanged DEF TypeOK, InterruptExecutionActivity
<1>9. ASSUME NEW a \in Activity, NEW n \in 1..MaxAttempt,
             ResolveExecutionActivity(a, n)
      PROVE AttemptInv'
  <2>1. CASE AcceptActivity(a, n)
    BY <2>1, AttemptSaved, Zenon DEF AcceptActivity, activityResolutionStatus
  <2>2. CASE RetryActivity(a, n)
    <3>1. /\ attempt[a] = n /\ attempt' = attempt /\ leases' = leases
          /\ actState' = [actState EXCEPT ![a] = "scheduled"]
          /\ granted' = [granted EXCEPT ![a] = granted[a] \cup {n}]
          /\ output' = output
      BY <2>2, Zenon DEF RetryActivity, activityResolutionStatus
    <3>2. ReplayInv'
      <4> SUFFICES ASSUME NEW b \in Reconcile
                   PROVE /\ actState'[b] \notin {"failed", "paused"}
                         /\ 1..(attempt'[b] - 1) \subseteq granted'[b]
                         /\ actState'[b] \in {"none", "scheduled"} =>
                              1..attempt'[b] \subseteq granted'[b]
        BY Zenon DEF ReplayInv
      <4>1. CASE b # a
        BY <3>1, <4>1, Zenon DEF TypeOK, AttemptInv, ReplayInv
      <4>2. CASE b = a
        <5>1. 1..(n - 1) \subseteq granted[a]
          BY <3>1, <4>2, Zenon DEF AttemptInv, ReplayInv
        <5>2. granted'[a] = granted[a] \cup {n} /\ actState'[a] = "scheduled"
          BY <3>1, Zenon DEF TypeOK
        <5>3. 1..n \subseteq granted'[a]
          BY <5>1, <5>2
        <5> QED
          BY <3>1, <4>2, <5>2, <5>3
      <4> QED
        BY <4>1, <4>2, Zenon
    <3>3. LeaseInv'
      BY <3>1, Zenon DEF AttemptInv, LeaseInv, OneHolderPerAttempt
    <3>4. ResultOfLastAttempt'
      BY <3>1, Zenon DEF TypeOK, AttemptInv, ResultOfLastAttempt
    <3> QED
      BY <3>2, <3>3, <3>4, Zenon DEF AttemptInv
  <2> QED
    BY <1>9, <2>1, <2>2, Zenon DEF ResolveExecutionActivity
<1>10. CASE ActivityNext
  BY <1>4, <1>5, <1>6, <1>7, <1>8, <1>9, <1>10, Zenon
  DEF ActivityNext, ResolveExecutionActivityFromActivity
<1>11. ASSUME NEW e \in Child, RequestAgentRunCancellation(e)
       PROVE AttemptInv'
  BY <1>11, AttemptUnchanged, Zenon
     DEF RequestAgentRunCancellation, CancelsStep
<1>12. CASE ControlNext
  BY <1>1, <1>11, <1>12, Zenon
     DEF ControlNext, PauseExecution, ResumeExecution,
     ResumeExecutionFromActivity, ResumeSubtree, Stop,
     PauseUnfinishedExecutions
<1>13. CASE UNCHANGED vars
  BY <1>1, <1>13, Zenon DEF vars
<1> QED
  BY <1>2, <1>10, <1>12, <1>13, Zenon DEF Next

\* The facts about attempts hold in every reachable state.
LEMMA AttemptAlways == Spec => []AttemptInv
<1>1. Init => AttemptInv
  BY ExecutionsAssumption
  DEF Init, AttemptInv, ReplayInv, LeaseInv, OneHolderPerAttempt,
      ResultOfLastAttempt
<1>2. TypeOK /\ SettledInv /\ AttemptInv /\ [Next]_vars => AttemptInv'
  BY AttemptStep, Zenon
<1> QED
  BY <1>1, <1>2, TypeCorrect, SettledAlways, PTL DEF Spec

\* A tool is never repeated without an inspection of its last attempt.
THEOREM ToolsNotReplayed == Spec => []NoSilentReplay
<1>1. AttemptInv => NoSilentReplay
  BY Zenon DEF AttemptInv, ReplayInv, NoSilentReplay
<1> QED
  BY <1>1, AttemptAlways, PTL

\* No attempt is ever given to two holders.
THEOREM AttemptsHaveOneHolder == Spec => []OneHolderPerAttempt
<1>1. AttemptInv => OneHolderPerAttempt
  BY Zenon DEF AttemptInv, LeaseInv
<1> QED
  BY <1>1, AttemptAlways, PTL

\* A late answer of a replaced attempt never becomes the result.
THEOREM ResultsAreCurrent == Spec => []ResultOfLastAttempt
<1>1. AttemptInv => ResultOfLastAttempt
  BY Zenon DEF AttemptInv
<1> QED
  BY <1>1, AttemptAlways, PTL

-----------------------------------------------------------------------------
(* A session stop holds                                                     *)

\* The strengthening of StopHolds: a held root that is still to be created
\* belongs to a turn the session stopped after, no turn is ahead of the
\* session, and turns belong to roots.
HeldInv ==
    /\ StopHolds
    /\ \A e \in Execution : turnRevision[e] <= stopRevision
    /\ \A e \in Child : turnRevision[e] = -1
    /\ \A e \in held : ~Exists(e) =>
          turnRevision[e] # -1 /\ turnRevision[e] < stopRevision

\* The executions that are held stay as they are, and so do the revisions.
HeldUntouched ==
    /\ UNCHANGED stopVars
    /\ \A e \in held : execState'[e] = execState[e]

\* A step that touches no held execution keeps the invariant.
LEMMA HeldUnchanged ==
  ASSUME TypeOK, HeldInv, HeldUntouched PROVE HeldInv'
  BY Zenon DEF TypeOK, HeldInv, HeldUntouched, StopHolds, Exists, stopVars

\* A held execution that exists is paused or has ended.
LEMMA HeldIsQuiet ==
  ASSUME TypeOK, HeldInv, NEW e \in held, Exists(e)
  PROVE  execState[e] = "paused" \/ execState[e] \in Terminal
  BY Zenon DEF HeldInv, StopHolds

\* Creation respects the stops since the turn began.
LEMMA HeldCreate ==
  ASSUME TypeOK, HeldInv, CreateNext PROVE HeldInv'
<1> USE ExecutionsAssumption
<1>1. ASSUME NEW r \in Root, AdmitTurn(r) PROVE HeldInv'
  <2>1. r \in Execution
    BY Zenon DEF Root
  <2>2. /\ \A e \in Execution : turnRevision'[e] <= stopRevision'
        /\ \A e \in Child : turnRevision'[e] = -1
    BY <1>1, <2>1 DEF TypeOK, HeldInv, AdmitTurn, Child
  <2>3. StopHolds'
    BY <1>1, Zenon DEF HeldInv, AdmitTurn, StopHolds, Exists, execVars
  <2>4. \A e \in held' : ~Exists(e)' =>
           turnRevision'[e] # -1 /\ turnRevision'[e] < stopRevision'
    BY <1>1, <2>1, Zenon DEF TypeOK, HeldInv, AdmitTurn, Exists, execVars
  <2> QED
    BY <2>2, <2>3, <2>4, Zenon DEF HeldInv
<1>2. ASSUME NEW r \in Root, NEW c \in BOOLEAN, CreateRoot(r, c)
      PROVE HeldInv'
  <2>1. r \in Execution /\ execState[r] = "none"
    BY <1>2, Zenon DEF Root, CreateRoot, Exists
  <2>2. r \in held => execState'[r] = "paused"
    BY <1>2, <2>1 DEF TypeOK, HeldInv, CreateRoot, inheritSessionStop, Exists
  <2>3. /\ \A e \in Execution \ {r} : execState'[e] = execState[e]
        /\ execState'[r] \in {"paused", "queued"}
        /\ UNCHANGED stopVars
    BY <1>2, <2>1, Zenon DEF TypeOK, CreateRoot, inheritSessionStop
  <2> QED
    BY <2>1, <2>2, <2>3, Zenon
       DEF TypeOK, HeldInv, StopHolds, Exists, stopVars
<1>3. ASSUME NEW e \in Child, CreateChild(e) PROVE HeldInv'
  <2> DEFINE p == Parent[e]
  <2>1. /\ e \in Execution /\ p \in Execution /\ execState[e] = "none"
        /\ execState[p] \notin Terminal /\ Exists(p)
    BY <1>3, Zenon DEF Child, Root, CreateChild, parentAdmits, Open, Exists
  <2>2. p \in held => execState'[e] = "paused"
    BY <1>3, <2>1, HeldIsQuiet, Zenon
       DEF TypeOK, CreateChild, inheritExecutionParent
  <2>3. /\ \A d \in Execution \ {e} : execState'[d] = execState[d]
        /\ held' = IF p \in held THEN held \cup {e} ELSE held
        /\ execState'[e] \in {"paused", "queued"}
        /\ UNCHANGED <<stopRevision, turnRevision>>
    BY <1>3, <2>1, Zenon DEF TypeOK, CreateChild, inheritExecutionParent
  <2>4. e \notin held
    BY <1>3, <2>1, Zenon DEF HeldInv, Exists
  <2> QED
    BY <2>1, <2>2, <2>3, <2>4 DEF TypeOK, HeldInv, StopHolds, Exists
<1>4. CASE \/ \E e \in Child, g \in Generation : LaunchChild(e, g)
           \/ \E e \in Child : LaunchAnswered(e)
           \/ \E e \in Child, s \in {"failed", "cancelled"} :
                LaunchFailed(e, s)
  BY <1>4, HeldUnchanged, Zenon
     DEF HeldUntouched, LaunchChild, LaunchAnswered,
                             LaunchFailed, execVars
<1> QED
  BY <1>1, <1>2, <1>3, <1>4, Zenon DEF CreateNext

\* Workers cannot wake a held execution.
LEMMA HeldActivity ==
  ASSUME TypeOK, SettledInv, HeldInv, ActivityNext PROVE HeldInv'
<1> USE ExecutionsAssumption
<1> SUFFICES HeldUntouched
  BY HeldUnchanged, Zenon
<1>1. ASSUME NEW f \in Execution, execState[f] \notin Terminal, Exists(f),
             execState[f] # "paused"
      PROVE  f \notin held
  BY <1>1, HeldIsQuiet, Zenon
<1>2. ASSUME NEW a \in Activity, NEW g \in Generation,
             BeginExecutionActivity(a, g)
      PROVE  HeldUntouched
  <2>1. CASE SchedulePaused(a)
    BY <2>1, Zenon DEF HeldUntouched, SchedulePaused, execVars
  <2>2. CASE FindUncertain(a, g)
    BY <1>1, <2>2, Zenon DEF TypeOK, HeldUntouched, FindUncertain, Open
  <2>3. CASE StartAttempt(a, g)
    BY <1>1, <2>3, Zenon DEF TypeOK, HeldUntouched, StartAttempt, Open
  <2> QED
    BY <1>2, <2>1, <2>2, <2>3, Zenon DEF BeginExecutionActivity
<1>3. ASSUME NEW l \in leases PROVE l.activity \in Activity
  BY Zenon DEF TypeOK, Lease
<1>4. ASSUME NEW l \in leases,
             CompleteExecutionActivity(l) \/ ContinueExecution(l)
      PROVE  HeldUntouched
  BY <1>4, Zenon
     DEF HeldUntouched, CompleteExecutionActivity, ContinueExecution,
              execVars
<1>5. ASSUME NEW l \in leases, NEW s \in {"completed", "failed"},
             FinishExecution(l, s)
      PROVE  HeldUntouched
  BY <1>1, <1>3, <1>5, Zenon
  DEF TypeOK, HeldUntouched, FinishExecution, validateFinishClaim, Open
<1>6. ASSUME NEW l \in leases, InterruptExecutionActivity(l)
      PROVE  HeldUntouched
  <2> DEFINE f == Owner[l.activity]
  <2>1. f \in Execution
    BY <1>3, Zenon
  <2>2. \/ execState' = execState
        \/ execState' = [execState EXCEPT ![f] = markUncertain(f)]
    BY <1>6, Zenon DEF InterruptExecutionActivity
  <2>3. f \in held /\ Exists(f) => markUncertain(f) = execState[f]
    BY <2>1, HeldIsQuiet, Zenon DEF markUncertain
  <2>4. Exists(f)
    BY <1>3, <1>6, LiveStepOpen, Zenon DEF InterruptExecutionActivity, Open
  <2> QED
    BY <1>6, <2>1, <2>2, <2>3, <2>4
    DEF TypeOK, HeldUntouched, InterruptExecutionActivity
<1>7. ASSUME NEW a \in Activity, NEW n \in 1..MaxAttempt,
             ResolveExecutionActivity(a, n)
      PROVE  HeldUntouched
  <2>1. execState' = [execState EXCEPT ![Owner[a]] =
                        restoreReconciled(Owner[a], a)]
    BY <1>7, Zenon DEF ResolveExecutionActivity, AcceptActivity, RetryActivity
  <2>2. Owner[a] \in held =>
          restoreReconciled(Owner[a], a) = execState[Owner[a]]
    BY HeldIsQuiet, Zenon DEF restoreReconciled, Exists, Terminal
  <2> QED
    BY <1>7, <2>1, <2>2, Zenon
       DEF TypeOK, HeldUntouched, ResolveExecutionActivity,
       AcceptActivity, RetryActivity
<1> QED
  BY <1>2, <1>4, <1>5, <1>6, <1>7, Zenon
  DEF ActivityNext, ResolveExecutionActivityFromActivity

\* Control decisions: a stop adds to the held executions, and only a resume
\* takes away from them.
LEMMA HeldControl ==
  ASSUME TypeOK, HeldInv, ControlNext PROVE HeldInv'
<1> USE ExecutionsAssumption
<1>1. ASSUME NEW S \in SUBSET Execution, NEW state, Change(S, state),
             state \in {"paused", "cancelled"},
             \A e \in S : Exists(e), UNCHANGED stopVars
      PROVE HeldInv'
  <2>1. execState' = [e \in Execution |->
                        IF e \in S THEN state ELSE execState[e]]
    BY <1>1, Zenon DEF Change
  <2> QED
    BY <1>1, <2>1, Zenon
       DEF TypeOK, HeldInv, StopHolds, Exists, stopVars, Terminal
<1>2. ASSUME NEW e \in Execution, PauseExecution(e) PROVE HeldInv'
  BY <1>1, <1>2, SubtreeType DEF PauseExecution, Pausable, Open
<1>3. ASSUME NEW e \in Execution, ResumeSubtree(e) PROVE HeldInv'
  <2>1. execState' = [d \in Execution |->
          IF d \in {c \in Subtree(e) : execState[c] = "paused"}
            THEN "running" ELSE execState[d]]
    BY <1>3, Zenon DEF ResumeSubtree, Change
  <2>2. /\ held' = held \ Subtree(e) /\ stopRevision' = stopRevision
        /\ turnRevision' = turnRevision
    BY <1>3, Zenon DEF ResumeSubtree
  <2> QED
    BY <2>1, <2>2, Zenon DEF TypeOK, HeldInv, StopHolds, Exists
<1>4. CASE Stop
  <2>1. /\ execState' = [e \in Execution |->
             IF e \in {d \in Execution : Pausable(d)}
               THEN "paused" ELSE execState[e]]
        /\ stopRevision' = stopRevision + 1 /\ turnRevision' = turnRevision
        /\ held' = held \cup {e \in Execution :
                     Open(e) \/ (~Exists(e) /\ turnRevision[e] # -1)}
    BY <1>4, Zenon DEF Stop, Change
  <2>2. \A e \in Execution :
          turnRevision[e] \in Int /\ stopRevision \in Int
    BY DEF TypeOK
  <2>3. StopHolds'
    BY <2>1, Zenon DEF TypeOK, HeldInv, StopHolds, Pausable, Open, Exists
  <2>4. \A e \in held' : ~Exists(e)' =>
           turnRevision'[e] # -1 /\ turnRevision'[e] < stopRevision'
    BY <2>1, <2>2 DEF TypeOK, HeldInv, Open, Exists
  <2>5. /\ \A e \in Execution : turnRevision'[e] <= stopRevision'
        /\ \A e \in Child : turnRevision'[e] = -1
    BY <2>1, <2>2 DEF HeldInv
  <2> QED
    BY <2>3, <2>4, <2>5, Zenon DEF HeldInv
<1>5. CASE PauseUnfinishedExecutions
  BY <1>1, <1>5 DEF PauseUnfinishedExecutions, Pausable, Open
<1>6. ASSUME NEW e \in Child, RequestAgentRunCancellation(e) PROVE HeldInv'
  <2> DEFINE D == IF Exists(e) THEN CancelledBy(e) ELSE {}
  <2>1. D \in SUBSET Execution /\ \A d \in D : Exists(d)
    BY SubtreeType, Zenon DEF CancelledBy, Open, Child
  <2> QED
    BY <1>1, <1>6, <2>1, Zenon DEF RequestAgentRunCancellation
<1> QED
  BY <1>2, <1>3, <1>4, <1>5, <1>6, Zenon
  DEF ControlNext, ResumeExecution, ResumeExecutionFromActivity

\* From a Stop until an explicit resume, nothing the session had begun runs.
THEOREM StopIsHeld == Spec => []StopHolds
<1>1. Init => HeldInv
  BY ExecutionsAssumption DEF Init, HeldInv, StopHolds, Exists, Child
<1>2. TypeOK /\ SettledInv /\ HeldInv /\ [Next]_vars => HeldInv'
  <2> SUFFICES ASSUME TypeOK, SettledInv, HeldInv, [Next]_vars PROVE HeldInv'
    BY Zenon
  <2>1. CASE RunNext
    BY <2>1, HeldUnchanged, Zenon DEF HeldUntouched, RunNext, ClaimAgentRun,
       PrepareAgentRunRecovery, RecoverInterruptedAgentRuns, InterruptRuns,
       execVars
  <2>2. CASE UNCHANGED vars
    BY <2>2, HeldUnchanged, Zenon DEF HeldUntouched, vars, execVars
  <2> QED
    BY <2>1, <2>2, HeldCreate, HeldActivity, HeldControl, Zenon DEF Next
<1>3. HeldInv => StopHolds
  BY Zenon DEF HeldInv
<1> QED
  BY <1>1, <1>2, <1>3, TypeCorrect, SettledAlways, PTL DEF Spec

-----------------------------------------------------------------------------
(* Executions and their agent runs end together                             *)

\* A run that ended keeps its outcome.
LEMMA RunsStay ==
  ASSUME TypeOK, [Next]_vars, NEW e \in Execution, runState[e] \in Terminal
  PROVE  runState'[e] = runState[e]
<1> USE ExecutionsAssumption DEF TypeOK, Terminal
<1>1. CASE CreateNext
  BY <1>1 DEF CreateNext, AdmitTurn, CreateRoot, LaunchChild, CreateChild,
     LaunchAnswered, LaunchFailed, Finalizes, runVars
<1>2. CASE RunNext
  BY <1>2 DEF RunNext, ClaimAgentRun, Recoverable, PrepareAgentRunRecovery,
     RecoverInterruptedAgentRuns, InterruptRuns
<1>3. ASSUME NEW a \in Activity, NEW g \in Generation, StartAttempt(a, g)
      PROVE  runState'[e] = runState[e]
  BY <1>3, Zenon DEF StartAttempt, MayClaimChild, Recoverable
<1>4. ASSUME NEW l \in leases, NEW s \in {"completed", "failed"},
             FinishExecution(l, s)
      PROVE  runState'[e] = runState[e]
  BY <1>4, Zenon DEF FinishExecution
<1>5. CASE ActivityNext
  BY <1>3, <1>4, <1>5 DEF ActivityNext, BeginExecutionActivity,
     SchedulePaused, FindUncertain, CompleteExecutionActivity,
     ContinueExecution, InterruptExecutionActivity, ResolveExecutionActivity,
     ResolveExecutionActivityFromActivity, AcceptActivity, RetryActivity,
     runVars
<1>6. ASSUME NEW c \in Child, RequestAgentRunCancellation(c)
      PROVE  runState'[e] = runState[e]
  BY <1>6, Zenon DEF RequestAgentRunCancellation, LiveRun
<1>7. CASE ControlNext
  BY <1>6, <1>7, Zenon DEF ControlNext, PauseExecution, ResumeExecution,
     ResumeExecutionFromActivity, ResumeSubtree, Stop,
     PauseUnfinishedExecutions, runVars
<1>8. CASE UNCHANGED vars
  BY <1>8, Zenon DEF vars, runVars
<1> QED
  BY <1>1, <1>2, <1>5, <1>7, <1>8, Zenon DEF Next

\* A finished or cancelled child has a run that ended the same way.
THEOREM RunsEndWithExecutions == Spec => []OutcomesAgree
<1>1. Init => OutcomesAgree
  BY Zenon DEF Init, OutcomesAgree, Child, Terminal
<1>2. TypeOK /\ SettledInv /\ OutcomesAgree /\ [Next]_vars => OutcomesAgree'
  <2> SUFFICES ASSUME TypeOK, SettledInv, OutcomesAgree, [Next]_vars,
                      NEW e \in Child, execState'[e] \in Terminal
               PROVE  runState'[e] = execState'[e]
    BY Zenon DEF OutcomesAgree
  <2>1. e \in Execution
    BY Zenon DEF Child
  <2>2. ASSUME execState'[e] = execState[e]
        PROVE  runState'[e] = execState'[e]
    BY <2>1, <2>2, RunsStay, Zenon DEF OutcomesAgree
  <2>3. CASE Quiet
    BY <2>1, <2>2, <2>3, Zenon DEF Quiet
  <2>4. ASSUME NEW l \in leases, NEW s \in {"completed", "failed"},
               FinishExecution(l, s)
        PROVE  runState'[e] = execState'[e]
    <3>1. CASE e = Owner[l.activity]
      BY <2>1, <2>4, <3>1, Zenon DEF TypeOK, FinishExecution
    <3>2. CASE e # Owner[l.activity]
      BY <2>1, <2>2, <2>4, <3>2, FinishEffect DEF TypeOK
    <3> QED
      BY <3>1, <3>2, Zenon
  <2>5. ASSUME NEW c \in Child, RequestAgentRunCancellation(c)
        PROVE  runState'[e] = execState'[e]
    <3>1. PICK D \in SUBSET Child :
             /\ execState' = [d \in Execution |->
                  IF d \in D THEN "cancelled" ELSE execState[d]]
             /\ runState' = [d \in Execution |->
                  IF d \in D THEN "cancelled" ELSE runState[d]]
      BY <2>5, CancelEffect, Zenon
    <3> QED
      BY <2>1, <2>2, <3>1, Zenon
  <2> QED
    BY <2>3, <2>4, <2>5, QuietOrEnds, Zenon DEF Finish, Cancel
<1> QED
  BY <1>1, <1>2, TypeCorrect, SettledAlways, PTL DEF Spec

-----------------------------------------------------------------------------
(* Outcomes are final                                                       *)

\* No call changes an execution that ended.
LEMMA EndedStays ==
  ASSUME TypeOK, SettledInv, [Next]_vars, NEW e \in Execution,
         execState[e] \in Terminal
  PROVE  execState'[e] = execState[e]
<1>1. CASE Quiet
  BY <1>1, Zenon DEF Quiet
<1>2. CASE Finish
  BY <1>2, FinishEffect DEF Finish, TypeOK
<1>3. CASE Cancel
  BY <1>3, CancelEffect DEF Cancel, Open
<1> QED
  BY <1>1, <1>2, <1>3, QuietOrEnds, Zenon

\* No call changes the result of a completed step.
LEMMA CompletedStays ==
  ASSUME TypeOK, SettledInv, [Next]_vars, NEW a \in Activity,
         actState[a] = "completed"
  PROVE  actState'[a] = "completed" /\ output'[a] = output[a]
<1>1. actState'[a] = "completed"
  <2>1. CASE Quiet
    BY <2>1, Zenon DEF Quiet
  <2>2. CASE Finish
    BY <2>2, FinishEffect DEF Finish, TypeOK
  <2>3. CASE Cancel
    BY <2>3, CancelEffect, Zenon DEF Cancel
  <2> QED
    BY <2>1, <2>2, <2>3, QuietOrEnds, Zenon
<1>2. output'[a] = output[a]
  <2> USE DEF TypeOK, SaveResult, actVars
  <2>1. CASE CreateNext \/ RunNext
    BY <2>1, Zenon
       DEF CreateNext, AdmitTurn, CreateRoot, LaunchChild, CreateChild,
       LaunchAnswered, LaunchFailed, RunNext, ClaimAgentRun,
       PrepareAgentRunRecovery, RecoverInterruptedAgentRuns, InterruptRuns
  <2>2. CASE ActivityNext
    BY <2>2, Zenon DEF ActivityNext, BeginExecutionActivity, SchedulePaused,
       FindUncertain, StartAttempt, CompleteExecutionActivity,
       FinishExecution, ContinueExecution, InterruptExecutionActivity,
       ResolveExecutionActivity, ResolveExecutionActivityFromActivity,
       AcceptActivity, RetryActivity, activityResolutionStatus
  <2>3. CASE ControlNext
    BY <2>3, Zenon DEF ControlNext, PauseExecution, ResumeExecution,
       ResumeExecutionFromActivity, ResumeSubtree, Stop,
       PauseUnfinishedExecutions, RequestAgentRunCancellation
  <2>4. CASE UNCHANGED vars
    BY <2>4, Zenon DEF vars
  <2> QED
    BY <2>1, <2>2, <2>3, <2>4 DEF Next
<1> QED
  BY <1>1, <1>2, Zenon

\* No call changes an execution that ended or the result of a completed step.
THEOREM OutcomesAreFinal == Spec => OutcomesStay
<1> DEFINE A == /\ \A e \in Execution : execState[e] \in Terminal =>
                      execState'[e] = execState[e]
                /\ \A a \in Activity : actState[a] = "completed" =>
                      actState'[a] = "completed" /\ output'[a] = output[a]
<1>1. TypeOK /\ SettledInv /\ [Next]_vars => [A]_vars
  <2> SUFFICES ASSUME TypeOK, SettledInv, Next PROVE A
    BY Zenon
  <2>1. ASSUME NEW e \in Execution, execState[e] \in Terminal
        PROVE  execState'[e] = execState[e]
    BY <2>1, EndedStays, Zenon
  <2>2. ASSUME NEW a \in Activity, actState[a] = "completed"
        PROVE  actState'[a] = "completed" /\ output'[a] = output[a]
    BY <2>2, CompletedStays, Zenon
  <2> QED
    BY <2>1, <2>2, Zenon
<1> QED
  BY <1>1, TypeCorrect, SettledAlways, PTL DEF Spec, OutcomesStay

-----------------------------------------------------------------------------
(* A cancellation covers the subtree                                        *)

\* Creation never adds to the subtree of a cancelled child.
LEMMA CoverCreate ==
  ASSUME TypeOK, CancellationCoversSubtree, CreateNext,
         NEW e \in Execution, execState[e] = "cancelled", NEW d \in Subtree(e)
  PROVE  ~Open(d)'
<1> USE ExecutionsAssumption
<1>1. /\ d \in Execution /\ ~Open(d)
      /\ d # e => Parent[d] \in Subtree(e) /\ Parent[d] \in Execution
  BY SubtreeType, SubtreeParent, Zenon DEF CancellationCoversSubtree
<1>2. ASSUME execState'[d] = execState[d] PROVE ~Open(d)'
  BY <1>1, <1>2, Zenon DEF Open, Exists
<1>3. ASSUME NEW r \in Root, NEW c \in BOOLEAN, CreateRoot(r, c)
      PROVE  ~Open(d)'
  <2>1. d # r
    BY <1>1, <1>3, Zenon DEF Root, CreateRoot, Exists
  <2> QED
    BY <1>1, <1>2, <1>3, <2>1, Zenon DEF TypeOK, CreateRoot
<1>4. ASSUME NEW c \in Child, CreateChild(c) PROVE ~Open(d)'
  <2>1. d # c
    BY <1>1, <1>4, Zenon
       DEF CreateChild, parentAdmits, CancellationCoversSubtree,
                      Exists
  <2> QED
    BY <1>1, <1>2, <1>4, <2>1, Zenon DEF TypeOK, CreateChild
<1> QED
  BY <1>2, <1>3, <1>4, Zenon
     DEF CreateNext, AdmitTurn, LaunchChild, LaunchAnswered,
                          LaunchFailed, execVars

\* Only a creation makes an execution that was not there before.
LEMMA NothingAppears ==
  ASSUME TypeOK, [Next]_vars, ~CreateNext, NEW d \in Execution, ~Exists(d),
         SettledInv
  PROVE  ~Exists(d)'
<1> USE ExecutionsAssumption DEF Exists
<1>1. CASE RunNext
  BY <1>1, Zenon DEF RunNext, ClaimAgentRun, PrepareAgentRunRecovery,
     RecoverInterruptedAgentRuns, InterruptRuns, execVars
<1>2. ASSUME NEW l \in leases PROVE l.activity \in Activity
  BY Zenon DEF TypeOK, Lease
<1>3. ASSUME NEW a \in Activity, actState[a] # "none" PROVE Owner[a] # d
  BY <1>3, Zenon DEF SettledInv, StepsHaveExecution
<1>4. CASE ActivityNext
  <2>1. ASSUME NEW a \in Activity, NEW g \in Generation,
               BeginExecutionActivity(a, g)
        PROVE  ~Exists(d)'
    BY <2>1 DEF TypeOK, BeginExecutionActivity, SchedulePaused, FindUncertain,
                StartAttempt, Open, execVars
  <2>2. ASSUME NEW l \in leases, NEW s \in {"completed", "failed"},
               \/ CompleteExecutionActivity(l) \/ ContinueExecution(l)
               \/ FinishExecution(l, s) \/ InterruptExecutionActivity(l)
        PROVE  ~Exists(d)'
    BY <1>2, <1>3, <2>2 DEF TypeOK, CompleteExecutionActivity,
       ContinueExecution, FinishExecution, InterruptExecutionActivity, execVars
  <2>3. ASSUME NEW a \in Activity, NEW n \in 1..MaxAttempt,
               ResolveExecutionActivity(a, n)
        PROVE  ~Exists(d)'
    BY <1>3, <2>3, Zenon DEF TypeOK, ResolveExecutionActivity, AcceptActivity,
       RetryActivity, activityResolutionStatus
  <2> QED
    BY <1>4, <2>1, <2>2, <2>3, Zenon
    DEF ActivityNext, ResolveExecutionActivityFromActivity
<1>5. CASE ControlNext
  BY <1>5, Zenon DEF ControlNext, PauseExecution, ResumeExecution,
     ResumeExecutionFromActivity, ResumeSubtree, Stop, Change,
     PauseUnfinishedExecutions, RequestAgentRunCancellation, CancelledBy,
     Pausable, Open
<1>6. CASE UNCHANGED vars
  BY <1>6, Zenon DEF vars, execVars
<1> QED
  BY <1>1, <1>4, <1>5, <1>6, Zenon DEF Next

\* A cancelled child leaves nothing running below it, now or later.
THEOREM CancellationIsComplete == Spec => []CancellationCoversSubtree
<1>1. Init => CancellationCoversSubtree
  BY Zenon DEF Init, CancellationCoversSubtree
<1>2. /\ TypeOK /\ SettledInv /\ CancellationCoversSubtree /\ [Next]_vars
      => CancellationCoversSubtree'
  <2> SUFFICES ASSUME TypeOK, SettledInv, CancellationCoversSubtree,
                      [Next]_vars, NEW e \in Execution,
                      execState'[e] = "cancelled", NEW d \in Subtree(e)
               PROVE  ~Open(d)'
    BY Zenon DEF CancellationCoversSubtree, Subtree
  <2>1. d \in Execution
    BY SubtreeType, Zenon
  <2>2. CASE execState[e] = "cancelled"
    <3>1. ~Open(d)
      BY <2>2, Zenon DEF CancellationCoversSubtree
    <3>2. CASE CreateNext
      BY <2>2, <3>2, CoverCreate, Zenon
    <3>3. CASE ~CreateNext
      BY <2>1, <3>1, <3>3, NothingAppears, EndedStays, Zenon DEF Open, Exists
    <3> QED
      BY <3>2, <3>3, Zenon
  <2>3. CASE execState[e] # "cancelled"
    <3>1. Cancel
      BY <2>3, QuietOrEnds, FinishEffect DEF Quiet, Finish, Terminal, TypeOK
    <3>2. PICK c \in Child : RequestAgentRunCancellation(c)
      BY <3>1, Zenon DEF Cancel
    <3>3. PICK D \in SUBSET Child :
             /\ D = IF Exists(c) THEN CancelledBy(c) ELSE {}
             /\ execState' = [x \in Execution |->
                  IF x \in D THEN "cancelled" ELSE execState[x]]
      BY <3>2, CancelEffect, Zenon
    <3>4. e \in Subtree(c) /\ Exists(c) /\ c \in Execution
      BY <2>3, <3>3, Zenon DEF CancelledBy, Child
    <3>5. d \in Subtree(c)
      BY <3>4, SubtreeType, SubtreeClosed, SubtreeLeast, Zenon
    <3> QED
      BY <2>1, <3>3, <3>4, <3>5, Zenon DEF CancelledBy, Open, Exists, Terminal
  <2> QED
    BY <2>2, <2>3, Zenon
<1> QED
  BY <1>1, <1>2, TypeCorrect, SettledAlways, PTL DEF Spec

-----------------------------------------------------------------------------
(* Reconciliation can be left                                               *)

\* A step of the system that settles no uncertain step and sends no further
\* execution to reconciliation.
LEMMA ReconcilingKept ==
  ASSUME ReconcilingHasUncertain,
         \A e \in Execution :
            execState'[e] = "reconciling" => execState[e] = "reconciling",
         \A a \in Activity :
            actState[a] = "uncertain" => actState'[a] = "uncertain"
  PROVE  ReconcilingHasUncertain'
  BY DEF ReconcilingHasUncertain

\* A step becomes uncertain and its execution waits for the inspection.
LEMMA ReconcilingEntered ==
  ASSUME TypeOK, ReconcilingHasUncertain, NEW a \in Activity,
         actState' = [actState EXCEPT ![a] = "uncertain"],
         execState' = [execState EXCEPT ![Owner[a]] = markUncertain(Owner[a])]
  PROVE  ReconcilingHasUncertain'
<1> SUFFICES ASSUME NEW e \in Execution, execState'[e] = "reconciling"
             PROVE  \E b \in Activity : Owner[b] = e /\ actState'[b] = "uncertain"
  BY Zenon DEF ReconcilingHasUncertain
<1>1. CASE e = Owner[a]
  BY <1>1, Zenon DEF TypeOK
<1>2. CASE e # Owner[a]
  <2>1. execState[e] = "reconciling"
    BY <1>2, ExecutionsAssumption, Zenon DEF TypeOK
  <2> QED
    BY <2>1, Zenon DEF TypeOK, ReconcilingHasUncertain
<1> QED
  BY <1>1, <1>2, Zenon

\* An execution that waits for an inspection has something to inspect.
THEOREM ReconciliationHasSubject == Spec => []ReconcilingHasUncertain
<1>1. Init => ReconcilingHasUncertain
  BY Zenon DEF Init, ReconcilingHasUncertain
<1>2. TypeOK /\ ReconcilingHasUncertain /\ [Next]_vars
      => ReconcilingHasUncertain'
  <2> SUFFICES ASSUME TypeOK, ReconcilingHasUncertain, [Next]_vars
               PROVE  ReconcilingHasUncertain'
    BY Zenon
  <2> USE ExecutionsAssumption
  <2>1. CASE CreateNext
    BY <2>1, ReconcilingKept DEF TypeOK, CreateNext, AdmitTurn, CreateRoot,
       inheritSessionStop, LaunchChild, CreateChild, inheritExecutionParent,
       LaunchAnswered, LaunchFailed, execVars, actVars
  <2>2. CASE RunNext
    BY <2>2, ReconcilingKept, Zenon DEF RunNext, ClaimAgentRun,
       PrepareAgentRunRecovery, RecoverInterruptedAgentRuns, InterruptRuns,
       execVars, actVars
  <2>3. ASSUME NEW a \in Activity, NEW g \in Generation,
               BeginExecutionActivity(a, g)
        PROVE  ReconcilingHasUncertain'
    <3>1. CASE SchedulePaused(a)
      BY <3>1, ReconcilingKept, Zenon DEF TypeOK, SchedulePaused, execVars
    <3>2. CASE FindUncertain(a, g)
      BY <3>2, ReconcilingEntered, Zenon DEF FindUncertain
    <3>3. CASE StartAttempt(a, g)
      BY <3>3, ReconcilingKept, Zenon DEF TypeOK, StartAttempt, Startable
    <3> QED
      BY <2>3, <3>1, <3>2, <3>3, Zenon DEF BeginExecutionActivity
  <2>4. ASSUME NEW l \in leases PROVE l.activity \in Activity
    BY Zenon DEF TypeOK, Lease
  <2>5. ASSUME NEW l \in leases, NEW s \in {"completed", "failed"},
               \/ CompleteExecutionActivity(l) \/ ContinueExecution(l)
               \/ FinishExecution(l, s)
        PROVE  ReconcilingHasUncertain'
    BY <2>4, <2>5, ReconcilingKept DEF TypeOK, CompleteExecutionActivity,
       ContinueExecution, FinishExecution, SaveResult, execVars
  <2>6. ASSUME NEW l \in leases, InterruptExecutionActivity(l)
        PROVE  ReconcilingHasUncertain'
    <3>1. CASE l.activity \in Reconcile
      BY <2>4, <2>6, <3>1, ReconcilingEntered, Zenon
         DEF InterruptExecutionActivity
    <3>2. CASE l.activity \notin Reconcile
      BY <2>4, <2>6, <3>2, ReconcilingKept, Zenon
      DEF TypeOK, InterruptExecutionActivity
    <3> QED
      BY <3>1, <3>2, Zenon
  <2>7. ASSUME NEW a \in Activity, NEW n \in 1..MaxAttempt,
               ResolveExecutionActivity(a, n)
        PROVE  ReconcilingHasUncertain'
    <3>1. /\ execState' = [execState EXCEPT ![Owner[a]] =
                             restoreReconciled(Owner[a], a)]
          /\ \A b \in Activity \ {a} : actState'[b] = actState[b]
      BY <2>7 DEF TypeOK, ResolveExecutionActivity, AcceptActivity,
                  RetryActivity, SaveResult
    <3> SUFFICES ASSUME NEW e \in Execution, execState'[e] = "reconciling"
                 PROVE  \E b \in Activity :
                           Owner[b] = e /\ actState'[b] = "uncertain"
      BY Zenon DEF ReconcilingHasUncertain
    <3>2. CASE e = Owner[a]
      BY <3>1, <3>2, Zenon DEF TypeOK, restoreReconciled
    <3>3. CASE e # Owner[a]
      BY <3>1, <3>3 DEF TypeOK, ReconcilingHasUncertain
    <3> QED
      BY <3>2, <3>3, Zenon
  <2>8. CASE ActivityNext
    BY <2>3, <2>5, <2>6, <2>7, <2>8, Zenon
    DEF ActivityNext, ResolveExecutionActivityFromActivity
  <2>9. ASSUME NEW c \in Child, RequestAgentRunCancellation(c)
        PROVE  ReconcilingHasUncertain'
    <3>1. PICK D \in SUBSET Child :
             /\ execState' = [d \in Execution |->
                  IF d \in D THEN "cancelled" ELSE execState[d]]
             /\ actState' = [a \in Activity |->
                  IF Owner[a] \in D /\ actState[a] \notin {"none", "completed"}
                    THEN "cancelled" ELSE actState[a]]
      BY <2>9, CancelEffect, Zenon
    <3> QED
      BY <3>1 DEF ReconcilingHasUncertain
  <2>10. CASE ControlNext
    BY <2>9, <2>10, ReconcilingKept, Zenon DEF ControlNext, PauseExecution,
       ResumeExecution, ResumeExecutionFromActivity, ResumeSubtree, Stop,
       Change, PauseUnfinishedExecutions, actVars
  <2>11. CASE UNCHANGED vars
    BY <2>11, ReconcilingKept, Zenon DEF vars, execVars, actVars
  <2> QED
    BY <2>1, <2>2, <2>8, <2>10, <2>11, Zenon DEF Next
<1> QED
  BY <1>1, <1>2, TypeCorrect, PTL DEF Spec
=============================================================================
