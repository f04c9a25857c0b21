------------------------- MODULE TurnLeases_proofs -------------------------
(***************************************************************************)
(* What follows from the invariant of the rows (TurnRows_proofs): a Stop   *)
(* holds the turns it found, a root and its turn end alike, ended turns    *)
(* stay ended, and running turns belong to the current worker generation.  *)
(*                                                                         *)
(* With it, the leases: the lease in the controller's memory and the       *)
(* durable holder of a turn are one, and no lease older than the           *)
(* transcript's last writer writes again.  A turn that is admitted has no  *)
(* root yet, hence no holder, so that only a restoration can meet one.     *)
(***************************************************************************)
EXTENDS TurnRows_proofs

-----------------------------------------------------------------------------
(* The rows                                                                 *)

\* While a Stop holds a turn, the turn's root is paused, ended or not created:
\* CreateExecution's inheritSessionStop pauses the root of a turn that was
\* stopped before it had one.
THEOREM StopIsKept == Spec => []StopHolds
<1>1. RowInv => StopHolds
  BY Zenon DEF RowInv, RowTypes, StopInv, StopHolds
<1> QED BY <1>1, RowsSound, PTL

\* A root is completed exactly when its turn is, and a failed root leaves a
\* failed turn, whichever of finishExecutionTurn, endRunningTurn, FinalizeTurn
\* and the recoveries ends them.
THEOREM EndsTogether == Spec => []RootAndTurnEndAlike
<1>1. RowInv => RootAndTurnEndAlike
  BY Zenon DEF RowInv, EndInv, RootAndTurnEndAlike
<1> QED BY <1>1, RowsSound, PTL

\* No running turn is left behind by RecoverWorkerTurns or RecoverInterrupted,
\* and none is admitted or restored for a generation that is gone.
THEOREM NoTurnLeftBehind == Spec => []RunningTurnIsOwned
<1>1. RowInv => RunningTurnIsOwned
  BY Zenon DEF RowInv, EndInv, RunningTurnIsOwned
<1> QED BY <1>1, RowsSound, PTL

\* The steps that write a turn's state.
WritesTurn ==
    \/ \E t \in Turn :
         \/ Admit(t) \/ AcquireDeferred(t) \/ FailOpening(t) \/ Bind(t)
         \/ RestoreExecutionTurn(t) \/ EndRunningTurn(t) \/ ResumeDeferred(t)
         \/ \E s \in {"completed", "failed"} : FinishExecution(t, s)
    \/ RecoverWorkerTurns
    \/ RestartController

\* No other step does.
LEMMA WhoWritesTurns ==
    ASSUME [Next]_vars
    PROVE  WritesTurn \/ UNCHANGED turnState
<1>1. CASE AdmissionNext
  BY <1>1, Zenon DEF AdmissionNext, WritesTurn, Accept, Ask, Reserve,
     AdmitRefused, Answered, rowVars
<1>2. CASE OpeningNext
  BY <1>2, Zenon DEF OpeningNext, WritesTurn, Open, CreateExecution,
     Scheduled, SubmissionFails, Nudge, ReleaseFinalized, RestoreAnswered,
     RestoreUnheard, rowVars
<1>3. CASE RunningNext
  BY <1>3, Zenon DEF RunningNext, WritesTurn, StartRoot, ProjectFinish,
     RunReturns, Interrupted, WorkflowFails, PauseUnfinished,
     ReleaseUnfinished, AppendCheckpoint, rowVars
<1>4. CASE ControlNext
  BY <1>4, Zenon DEF ControlNext, WritesTurn, Stop, ReadCancel,
     CancelFromWorker, PauseSessionWorkflows, PauseListed, RetirePaused,
     Disconnect, SettleDisconnected, StartWorker, ResumeExecution, rowVars
<1>5. CASE UNCHANGED vars
  BY <1>5, Zenon DEF vars, rowVars
<1> QED BY <1>1, <1>2, <1>3, <1>4, <1>5, Zenon DEF Next

\* What a step may do to the state of turn u.
TurnMoves(u) ==
    /\ u \in held /\ turnState[u] # "running" => turnState'[u] # "running"
    /\ turnState[u] = "completed" => turnState'[u] = "completed"
    /\ turnState[u] = "failed" =>
         turnState'[u] = "failed" \/ u \in Deferred \ forwarded

\* Each of them does only that.
LEMMA TurnMovesStep ==
    ASSUME RowInv, [Next]_vars, NEW u \in Turn
    PROVE  TurnMoves(u)
<1> USE DEF TurnMoves
<1>1. ASSUME NEW t \in Turn, Admit(t) PROVE TurnMoves(u)
  BY <1>1, Zenon DEF RowInv, RowTypes, AdmissionInv, StopInv, Admit, NewTurn
<1>2. ASSUME NEW t \in Turn, AcquireDeferred(t) PROVE TurnMoves(u)
  BY <1>2 DEF RowInv, RowTypes, AdmissionInv, StopInv, AcquireDeferred,
     DeferredAdmissible, NewTurn
<1>3. ASSUME NEW t \in Turn, FailOpening(t) PROVE TurnMoves(u)
  BY <1>3, Zenon DEF RowInv, RowTypes, FailOpening, FailedStates
<1>4. ASSUME NEW t \in Turn, Bind(t) PROVE TurnMoves(u)
  BY <1>4, Zenon DEF RowInv, RowTypes, StopInv, Bind, MayRestore, Restored
<1>5. ASSUME NEW t \in Turn, RestoreExecutionTurn(t) PROVE TurnMoves(u)
  BY <1>5, Zenon DEF RowInv, RowTypes, StopInv, RestoreExecutionTurn,
     MayRestore, Restored
<1>6. ASSUME NEW t \in Turn, EndRunningTurn(t) PROVE TurnMoves(u)
  BY <1>6, Zenon DEF RowInv, RowTypes, EndRunningTurn, EndedState
<1>7. ASSUME NEW t \in Turn, ResumeDeferred(t) PROVE TurnMoves(u)
  BY <1>7, Zenon DEF RowInv, RowTypes, ResumeDeferred
<1>8. ASSUME NEW t \in Turn, NEW s \in {"completed", "failed"},
             FinishExecution(t, s)
      PROVE  TurnMoves(u)
  BY <1>8, Zenon DEF RowInv, RowTypes, FinishExecution, FinishesTurn
<1>9. CASE RecoverWorkerTurns \/ RestartController
  BY <1>9, Zenon DEF RowInv, RowTypes, RecoverWorkerTurns, RestartController,
     Interrupt, LostTurns
<1>10. CASE UNCHANGED turnState
  BY <1>10, Zenon
<1> QED
  BY <1>1, <1>2, <1>3, <1>4, <1>5, <1>6, <1>7, <1>8, <1>9, <1>10,
     WhoWritesTurns, Zenon DEF WritesTurn

\* While a Stop holds a turn that is not running, neither a restoration nor an
\* admission sets it running again.
THEOREM StoppedStayDown == Spec => StoppedTurnsStayDown
<1>1. RowInv /\ [Next]_vars =>
        [\A t \in held :
            turnState[t] # "running" => turnState'[t] # "running"]_vars
  BY TurnMovesStep, Zenon DEF RowInv, RowTypes, TurnMoves
<1> QED BY <1>1, RowsSound, PTL DEF Spec, StoppedTurnsStayDown

\* A completed turn stays completed, and a failed one stays failed unless its
\* deferred input, which no root has taken, is resumed.
THEOREM EndedStay == Spec => EndedTurnsStay
<1>1. RowInv /\ [Next]_vars =>
        [\A t \in Turn :
            /\ turnState[t] = "completed" => turnState'[t] = "completed"
            /\ turnState[t] = "failed" =>
                  turnState'[t] = "failed" \/ t \in Deferred \ forwarded]_vars
  BY TurnMovesStep, Zenon DEF TurnMoves
<1> QED BY <1>1, RowsSound, PTL DEF Spec, EndedTurnsStay

-----------------------------------------------------------------------------
(* The invariant of the leases                                              *)

\* The types the argument needs; TypeOK has the tight bounds.
LeaseTypes ==
    /\ created \in Nat
    /\ active \in [turn : Turn \cup {NoTurn}, lease : Nat]
    /\ transcript \in [Turn -> Nat]
    /\ DOMAIN holder = Turn
    /\ \A t \in Turn : holder[t].lease \in Nat

\* A turn without a row has no transcript, one without a root no holder.  The
\* leases a turn has in memory and in its row are one, at least as new as the
\* transcript's.
OrderInv(t) ==
    /\ turnState[t] = "none" => transcript[t] = 0
    /\ execState[t] = "none" => holder[t] = NoHolder
    /\ transcript[t] <= created
    /\ holder[t].lease <= created
    /\ active.turn = t => transcript[t] <= active.lease
    /\ holder[t] # NoHolder => transcript[t] <= holder[t].lease
    /\ active.turn = t /\ holder[t] # NoHolder =>
         active.lease = holder[t].lease

LeaseInv ==
    /\ LeaseTypes
    /\ active.lease <= created
    /\ \A t \in Turn : OrderInv(t)

-----------------------------------------------------------------------------
(* Steps that write no lease                                                *)

\* A turn that has a row, or a root, keeps it.
NothingLost ==
    \A u \in Turn : /\ turnState[u] # "none" => turnState'[u] # "none"
                    /\ execState[u] # "none" => execState'[u] # "none"

\* Leases are at most dropped from memory.
LeasesKept ==
    /\ UNCHANGED <<created, holder, transcript>>
    /\ active' \in {active, Free}

\* The steps that write a lease.
WritesLease ==
    \E t \in Turn :
       \/ Reserve(t) \/ Admit(t) \/ AcquireDeferred(t) \/ FailOpening(t)
       \/ Bind(t) \/ RestoreExecutionTurn(t)
       \/ \E l \in Lease : AppendCheckpoint(t, l)
       \/ \E s \in {"completed", "failed"} : FinishExecution(t, s)

\* No other step does.
LEMMA WhoWritesLeases ==
    ASSUME [Next]_vars
    PROVE  WritesLease \/ LeasesKept
<1>1. CASE AdmissionNext
  BY <1>1, Zenon DEF AdmissionNext, WritesLease, LeasesKept, Accept, Ask,
     AdmitRefused, Answered, rowVars, memVars
<1>2. CASE OpeningNext
  BY <1>2, Zenon DEF OpeningNext, WritesLease, LeasesKept, Open,
     CreateExecution, Scheduled, SubmissionFails, WorkerRelease, Nudge,
     ReleaseFinalized, RestoreAnswered, RestoreUnheard, rowVars, memVars
<1>3. CASE RunningNext
  BY <1>3, Zenon DEF RunningNext, WritesLease, LeasesKept, StartRoot,
     ProjectFinish, WorkerRelease, RunReturns, Interrupted, WorkflowFails,
     PauseUnfinished, EndRunningTurn, ReleaseUnfinished, rowVars, memVars
<1>4. CASE ControlNext
  BY <1>4, Zenon DEF ControlNext, LeasesKept, Stop, ReadCancel,
     CancelFromWorker, PauseSessionWorkflows, PauseListed, RetirePaused,
     WorkerRelease, Disconnect,
     RecoverWorkerTurns, SettleDisconnected, StartWorker, RestartController,
     ResumeExecution, ResumeDeferred, rowVars, memVars
<1>5. CASE UNCHANGED vars
  BY <1>5, Zenon DEF vars, rowVars, memVars, LeasesKept
<1> QED BY <1>1, <1>2, <1>3, <1>4, <1>5, Zenon DEF Next

\* Rows are never deleted.
LEMMA RowsStay ==
    ASSUME RowInv, [Next]_vars
    PROVE  NothingLost
<1>1. \A u \in Turn : turnState[u] # "none" => turnState'[u] # "none"
  <2> SUFFICES ASSUME NEW u \in Turn, turnState[u] # "none"
               PROVE  turnState'[u] # "none"
    OBVIOUS
  <2>1. ASSUME NEW t \in Turn, Admit(t) \/ AcquireDeferred(t)
        PROVE  turnState'[u] # "none"
    BY <2>1, Zenon DEF RowInv, RowTypes, Admit, AcquireDeferred, NewTurn
  <2>2. ASSUME NEW t \in Turn, FailOpening(t)
        PROVE  turnState'[u] # "none"
    BY <2>2, Zenon DEF RowInv, RowTypes, FailOpening, FailedStates
  <2>3. ASSUME NEW t \in Turn, Bind(t) \/ RestoreExecutionTurn(t)
        PROVE  turnState'[u] # "none"
    BY <2>3, Zenon DEF RowInv, RowTypes, Bind, RestoreExecutionTurn, Restored
  <2>4. ASSUME NEW t \in Turn, EndRunningTurn(t) \/ ResumeDeferred(t)
        PROVE  turnState'[u] # "none"
    BY <2>4 DEF RowInv, RowTypes, EndRunningTurn, EndedState, ResumeDeferred
  <2>5. ASSUME NEW t \in Turn, NEW s \in {"completed", "failed"},
               FinishExecution(t, s)
        PROVE  turnState'[u] # "none"
    BY <2>5, Zenon DEF RowInv, RowTypes, FinishExecution
  <2>6. CASE RecoverWorkerTurns \/ RestartController
    BY <2>6, Zenon DEF RecoverWorkerTurns, RestartController, Interrupt
  <2> QED
    BY <2>1, <2>2, <2>3, <2>4, <2>5, <2>6, WhoWritesTurns, Zenon
    DEF WritesTurn
<1>2. \A u \in Turn : execState[u] # "none" => execState'[u] # "none"
  <2> SUFFICES ASSUME NEW u \in Turn, execState[u] # "none"
               PROVE  execState'[u] # "none"
    OBVIOUS
  <2>1. CASE AdmissionNext
    BY <2>1, Zenon DEF AdmissionNext, Accept, Ask, Reserve, Admit,
       AdmitRefused, AcquireDeferred, Answered, rowVars
  <2>2. CASE OpeningNext
    BY <2>2 DEF OpeningNext, RowInv, RowTypes, Open, CreateExecution,
       FailOpening, Bind, Scheduled, SubmissionFails, Nudge,
       RestoreExecutionTurn, ReleaseFinalized, RestoreAnswered,
       RestoreUnheard, rowVars
  <2>3. CASE RunningNext
    BY <2>3 DEF RunningNext, RowInv, RowTypes, StartRoot, ProjectFinish,
       RunReturns, Interrupted, WorkflowFails, PauseUnfinished, Paused,
       EndRunningTurn, ReleaseUnfinished, AppendCheckpoint, FinishExecution,
       rowVars
  <2>4. CASE ControlNext
    BY <2>4, Zenon DEF ControlNext, RowInv, RowTypes, Stop, ReadCancel,
       CancelFromWorker, Cancel, PauseSessionWorkflows, PauseListed,
       RetirePaused, Paused, Disconnect,
       RecoverWorkerTurns, SettleDisconnected, CrashPaused, StartWorker,
       RestartController, ResumeExecution, ResumeDeferred, rowVars
  <2>5. CASE UNCHANGED vars
    BY <2>5, Zenon DEF vars, rowVars
  <2> QED BY <2>1, <2>2, <2>3, <2>4, <2>5, Zenon DEF Next
<1> QED BY <1>1, <1>2, Zenon DEF NothingLost

\* The invariant is kept by a step that at most drops the lease in memory.
LEMMA LeasesKeptStep ==
    ASSUME LeaseInv, LeasesKept, NothingLost
    PROVE  LeaseInv'
BY TurnLeasesAssumption
DEF LeaseInv, LeaseTypes, OrderInv, LeasesKept, NothingLost, Free

-----------------------------------------------------------------------------
(* Steps that write one                                                     *)

\* A reservation's fresh lease meets no holder: its turn has no root.
LEMMA ReserveLease ==
    ASSUME RowInv, LeaseInv, NEW t \in Turn, Reserve(t), NothingLost
    PROVE  LeaseInv'
<1>1. UNCHANGED <<holder, transcript>>
  BY Zenon DEF Reserve, rowVars
<1>2. CASE SessionFree
  <2>1. created' = created + 1 /\ active' = [turn |-> t, lease |-> created + 1]
    BY <1>2, Zenon DEF Reserve
  <2>2. holder[t] = NoHolder
    BY Zenon DEF RowInv, AdmissionInv, LeaseInv, OrderInv, Reserve
  <2> QED BY <1>1, <2>1, <2>2
    DEF LeaseInv, LeaseTypes, OrderInv, NothingLost
<1>3. CASE ~SessionFree
  BY <1>1, <1>3, LeasesKeptStep, Zenon DEF Reserve, LeasesKept
<1> QED BY <1>2, <1>3, Zenon

\* The transaction writes a transcript of a turn that had none.
LEMMA AdmitLease ==
    ASSUME RowInv, LeaseInv, NEW t \in Turn, Admit(t), NothingLost
    PROVE  LeaseInv' /\ \A u \in Turn : transcript'[u] >= transcript[u]
<1>1. /\ UNCHANGED <<created, active, holder>>
      /\ transcript' = [transcript EXCEPT ![t] = active.lease]
      /\ turnState' = [turnState EXCEPT ![t] = "running"]
  BY Zenon DEF Admit, NewTurn
<1>2. holder[t] = NoHolder /\ transcript[t] = 0
  BY Zenon DEF RowInv, AdmissionInv, LeaseInv, OrderInv, Admit
<1> QED BY <1>1, <1>2
  DEF RowInv, RowTypes, LeaseInv, LeaseTypes, OrderInv, NothingLost

\* A deferred admission keeps the turn's lease, or gives it a fresh one; its
\* turn has no root, and no transcript unless it has a row.
LEMMA AcquireDeferredLease ==
    ASSUME RowInv, LeaseInv, NEW t \in Turn, AcquireDeferred(t), NothingLost
    PROVE  LeaseInv' /\ \A u \in Turn : transcript'[u] >= transcript[u]
<1>1. UNCHANGED holder
  BY Zenon DEF AcquireDeferred
<1>2. CASE DeferredAdmissible(t)
  <2> DEFINE l == IF active.turn = t THEN active.lease ELSE created + 1
  <2>1. /\ created' = (IF active.turn = t THEN created ELSE l)
        /\ active' = [turn |-> t, lease |-> l]
        /\ turnState' = [turnState EXCEPT ![t] = "running"]
        /\ \/ /\ turnState[t] = "none"
              /\ transcript' = [transcript EXCEPT ![t] = l]
           \/ UNCHANGED transcript
    BY <1>2, Zenon DEF AcquireDeferred, NewTurn
  <2>2. holder[t] = NoHolder
    BY <1>2, Zenon DEF RowInv, AdmissionInv, LeaseInv, OrderInv,
       AcquireDeferred, DeferredAdmissible
  <2> QED BY <1>1, <2>1, <2>2
    DEF RowInv, RowTypes, LeaseInv, LeaseTypes, OrderInv, NothingLost
<1>3. CASE ~DeferredAdmissible(t)
  <2>1. LeasesKept
    BY <1>1, <1>3, Zenon DEF AcquireDeferred, LeasesKept
  <2> QED BY <2>1, LeasesKeptStep DEF LeaseInv, LeaseTypes, LeasesKept
<1> QED BY <1>2, <1>3, Zenon

\* A writer of a running turn's transcript holds the lease in memory.
LEMMA HolderWrites ==
    ASSUME LeaseInv, NEW t \in Turn, NEW l, HoldsLease(t, l), NothingLost,
           turnState[t] # "none", UNCHANGED <<created, holder>>,
           active' \in {active, Free},
           transcript' = [transcript EXCEPT ![t] = l]
    PROVE  LeaseInv' /\ \A u \in Turn : transcript'[u] >= transcript[u]
BY TurnLeasesAssumption
DEF LeaseInv, LeaseTypes, OrderInv, NothingLost, HoldsLease, Free

\* An opening that failed writes with the lease it was given.
LEMMA FailOpeningLease ==
    ASSUME LeaseInv, NEW t \in Turn, FailOpening(t), NothingLost
    PROVE  LeaseInv' /\ \A u \in Turn : transcript'[u] >= transcript[u]
<1>1. UNCHANGED <<created, holder, active>>
  BY Zenon DEF FailOpening
<1>2. CASE HoldsLease(t, runLease[t]) /\ turnState[t] = "running"
  <2>1. transcript' = [transcript EXCEPT ![t] = runLease[t]]
    BY <1>2, Zenon DEF FailOpening
  <2> QED BY <1>1, <1>2, <2>1, HolderWrites, Zenon
<1>3. CASE ~(HoldsLease(t, runLease[t]) /\ turnState[t] = "running")
  <2>1. LeasesKept
    BY <1>1, <1>3, Zenon DEF FailOpening, LeasesKept
  <2> QED BY <2>1, LeasesKeptStep DEF LeaseInv, LeaseTypes, LeasesKept
<1> QED BY <1>2, <1>3, Zenon

\* A checkpoint is appended with the lease in memory.
LEMMA AppendCheckpointLease ==
    ASSUME LeaseInv, NEW t \in Turn, NEW l, AppendCheckpoint(t, l), NothingLost
    PROVE  LeaseInv' /\ \A u \in Turn : transcript'[u] >= transcript[u]
<1>1. /\ UNCHANGED <<created, holder, active>> /\ HoldsLease(t, l)
      /\ turnState[t] # "none" /\ transcript' = [transcript EXCEPT ![t] = l]
  BY Zenon DEF AppendCheckpoint, memVars
<1> QED BY <1>1, HolderWrites, Zenon

\* The root's finish writes with it too, and drops it.
LEMMA FinishExecutionLease ==
    ASSUME LeaseInv, NEW t \in Turn, NEW s, FinishExecution(t, s), NothingLost
    PROVE  LeaseInv' /\ \A u \in Turn : transcript'[u] >= transcript[u]
<1>1. /\ UNCHANGED <<created, holder>> /\ active' = Free
      /\ HoldsLease(t, local.lease) /\ turnState[t] # "none"
      /\ transcript' = [transcript EXCEPT ![t] = local.lease]
  BY Zenon DEF FinishExecution, FinishesTurn
<1> QED BY <1>1, HolderWrites, Zenon

\* A restoration reuses the stored holder's lease, adopts the one in memory,
\* or creates a fresh one, and leaves memory and holder with the same.
LEMMA RestoredLease ==
    ASSUME RowInv, LeaseInv, NEW t \in Turn, NEW rev, NEW prev, NEW l,
           Startable(t), l \in ChosenLease(t, rev, prev), Restored(t, rev, l),
           NothingLost, UNCHANGED <<transcript, execState>>
    PROVE  LeaseInv'
<1>1. /\ l \in Nat /\ transcript[t] <= l /\ l <= created + 1
      /\ l # created + 1 => l <= created
  BY DEF LeaseInv, LeaseTypes, OrderInv, ChosenLease, mayReuse, mayAdopt
<1>2. /\ created' = (IF l > created THEN l ELSE created)
      /\ active' = [turn |-> t, lease |-> l]
  BY Zenon DEF Restored
<1>3. /\ DOMAIN holder' = Turn /\ holder'[t].lease = l
      /\ \A u \in Turn : u # t => holder'[u] = holder[u]
  BY DEF Restored, savedHolder, LeaseInv, LeaseTypes
<1> QED BY <1>1, <1>2, <1>3
  DEF LeaseInv, LeaseTypes, OrderInv, NothingLost, Startable

\* The submitted root's restoration.
LEMMA BindLease ==
    ASSUME RowInv, LeaseInv, NEW t \in Turn, Bind(t), NothingLost
    PROVE  LeaseInv' /\ UNCHANGED transcript
<1>1. /\ Startable(t) /\ runLease[t] \in ChosenLease(t, 0, 0)
      /\ Restored(t, 0, runLease[t]) /\ UNCHANGED <<transcript, execState>>
  BY Zenon DEF Bind, MayRestore
<1> QED BY <1>1, RestoredLease, Zenon

\* A root callback's restoration.
LEMMA RestoreLease ==
    ASSUME RowInv, LeaseInv, NEW t \in Turn, RestoreExecutionTurn(t),
           NothingLost
    PROVE  LeaseInv' /\ UNCHANGED transcript
<1>1. Startable(t) /\ UNCHANGED <<transcript, execState>>
  BY Zenon DEF RestoreExecutionTurn, MayRestore
<1>2. PICK l \in ChosenLease(t, controlRevision[t], holder[t].lease) :
        Restored(t, controlRevision[t], l)
  BY Zenon DEF RestoreExecutionTurn
<1> QED BY <1>1, <1>2, RestoredLease, Zenon

-----------------------------------------------------------------------------
(* Every step                                                               *)

\* Every step keeps the invariant, and no transcript is written by a lease
\* older than its last.
LEMMA LeaseNextStep ==
    ASSUME RowInv, LeaseInv, [Next]_vars
    PROVE  LeaseInv' /\ \A t \in Turn : transcript'[t] >= transcript[t]
<1>1. NothingLost
  BY RowsStay, Zenon
<1>2. CASE LeasesKept
  BY <1>1, <1>2, LeasesKeptStep DEF LeaseInv, LeaseTypes, LeasesKept
<1>3. ASSUME NEW t \in Turn, Reserve(t) \/ Bind(t) \/ RestoreExecutionTurn(t)
      PROVE  LeaseInv' /\ UNCHANGED transcript
  BY <1>1, <1>3, ReserveLease, BindLease, RestoreLease, Zenon DEF Reserve,
     rowVars
<1>4. ASSUME NEW t \in Turn, Reserve(t) \/ Bind(t) \/ RestoreExecutionTurn(t)
      PROVE  LeaseInv' /\ \A u \in Turn : transcript'[u] >= transcript[u]
  BY <1>3, <1>4 DEF LeaseInv, LeaseTypes
<1> QED
  BY <1>1, <1>2, <1>4, AdmitLease, AcquireDeferredLease, FailOpeningLease,
     AppendCheckpointLease, FinishExecutionLease, WhoWritesLeases, Zenon
  DEF WritesLease

\* The invariant always holds.
LEMMA LeasesSound == Spec => []LeaseInv
<1>1. Init => LeaseInv
  BY TurnLeasesAssumption
  DEF Init, LeaseInv, LeaseTypes, OrderInv, Free, NoHolder
<1> QED BY <1>1, LeaseNextStep, RowsSound, PTL DEF Spec

\* The lease in the controller's memory and the stored holder of the same turn
\* are one lease: RestoreExecutionTurn saves the row and replaces the lease
\* together, and no AcquireTurn reopens a turn that has a holder.
THEOREM MemoryMatchesHolder == Spec => []ActiveIsStoredHolder
<1>1. LeaseInv => ActiveIsStoredHolder
  BY Zenon DEF LeaseInv, OrderInv, ActiveIsStoredHolder
<1> QED BY <1>1, LeasesSound, PTL

\* Once a newer lease has written to a turn's transcript, an older one never
\* does again: AppendCheckpoint, FinalizeTurn and finishExecutionTurn compare
\* the caller's lease with the one in memory.
THEOREM WritesOrdered == Spec => WritesInLeaseOrder
<1>1. RowInv /\ LeaseInv /\ [Next]_vars =>
        [\A t \in Turn : transcript'[t] >= transcript[t]]_vars
  BY LeaseNextStep, Zenon
<1> QED BY <1>1, RowsSound, LeasesSound, PTL DEF Spec, WritesInLeaseOrder
=============================================================================
