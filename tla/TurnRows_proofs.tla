-------------------------- MODULE TurnRows_proofs --------------------------
(***************************************************************************)
(* The invariant of the turn and execution rows of a session, which holds  *)
(* whatever the leases do, and why every step keeps it.                    *)
(*                                                                         *)
(* It says, of each turn, how far its admission is: what its message, its  *)
(* request and its goroutine allow its two rows to be, and what a Stop and *)
(* the link to the worker add to that.                                     *)
(***************************************************************************)
EXTENDS TurnLeases, TLAPS

\* The types the argument needs; TypeOK has the tight bounds.
RowTypes ==
    /\ stopRevision \in Nat
    /\ held \subseteq Turn
    /\ DOMAIN accepted = Turn
    /\ DOMAIN turnState = Turn
    /\ DOMAIN turnRevision = Turn
    /\ DOMAIN turnWorker = Turn
    /\ DOMAIN execState = Turn
    /\ DOMAIN run = Turn
    /\ DOMAIN runLease = Turn

\* A turn whose message is not accepted, or whose plain message is still to
\* be admitted, has no row and no root; a deferred root has taken its input.
AdmissionInv(t) ==
    /\ accepted[t] = -1 =>
         run[t] = "idle" /\ turnState[t] = "none" /\ execState[t] = "none"
    /\ t \in inflight \cup {admitting} /\ t \notin Deferred =>
         run[t] \in {"asking", "done"}
    /\ t \in inflight /\ t \notin Deferred => admitting # t
    /\ t \notin Deferred
       /\ (t \in inflight \cup {admitting} \/ run[t] = "idle") =>
         turnState[t] = "none" /\ execState[t] = "none" /\ runLease[t] = 0
    /\ t \in Deferred =>
         admitting # t /\ (t \notin forwarded => execState[t] = "none")

\* A turn under a Stop cannot run, and neither can the root it may still get:
\* its rows were written, and its deferred input accepted, before the Stop.
StopInv(t) ==
    /\ turnRevision[t] \in 0..stopRevision
    /\ accepted[t] \in -1..stopRevision
    /\ t \in held =>
         /\ ~Startable(t)
         /\ turnState[t] = "none" => t \in Deferred
         /\ execState[t] = "none" => turnRevision[t] < stopRevision
         /\ execState[t] = "none" /\ t \in Deferred =>
              accepted[t] # -1 /\ accepted[t] < stopRevision

\* RootAndTurnEndAlike and RunningTurnIsOwned, of one turn.
EndInv(t) ==
    /\ execState[t] = "completed" <=> turnState[t] = "completed"
    /\ execState[t] = "failed" => turnState[t] = "failed"
    /\ turnState[t] = "running" =>
          turnWorker[t] = generation /\ link \in {"up", "down"}

\* No request outlives its connection.
LinkInv == inflight # {} => Up

RowInv ==
    /\ RowTypes
    /\ LinkInv
    /\ \A t \in Turn : AdmissionInv(t) /\ StopInv(t) /\ EndInv(t)

-----------------------------------------------------------------------------
(* Steps that leave the rows alone                                          *)

RowsKept ==
    UNCHANGED <<stopRevision, accepted, forwarded, turnState, turnRevision,
                turnWorker, execState, generation, link, held>>

\* Goroutines may give up, or go on once their turn is theirs.
RunMoves ==
    /\ DOMAIN run' = Turn
    /\ \A u \in Turn :
         \/ run'[u] = run[u]
         \/ run[u] # "idle" /\ run'[u] = "done"
         \/ run[u] \notin {"idle", "asking", "done"} /\ run'[u] # "idle"

\* The invariant is kept by a step that writes no row, admits nothing and
\* only moves goroutines whose turn is theirs, or that give up.
LEMMA RunStep ==
    ASSUME RowInv, RowsKept, RunMoves, UNCHANGED runLease,
           inflight' \subseteq inflight, admitting' \in {admitting, NoTurn}
    PROVE  RowInv'
<1>1. RowTypes' /\ LinkInv'
  BY Zenon DEF RowInv, RowsKept, RunMoves, RowTypes, LinkInv, Up
<1> SUFFICES ASSUME NEW t \in Turn
             PROVE  AdmissionInv(t)' /\ StopInv(t)' /\ EndInv(t)'
  BY <1>1, Zenon DEF RowInv
<1>2. AdmissionInv(t)'
  BY TurnLeasesAssumption, Zenon DEF RowInv, RowTypes, RowsKept, RunMoves,
     AdmissionInv
<1>3. StopInv(t)' /\ EndInv(t)'
  BY Zenon DEF RowInv, RowsKept, StopInv, EndInv, Startable
<1> QED BY <1>2, <1>3, Zenon

\* A reservation moves the request on, or is told that the session is busy.
LEMMA ReserveStep ==
    ASSUME RowInv, NEW t \in Turn, Reserve(t)
    PROVE  RowInv'
<1>1. RowsKept /\ UNCHANGED runLease /\ inflight' = inflight \ {t}
  BY Zenon DEF Reserve, rowVars, RowsKept
<1>2. CASE SessionFree
  <2>1. admitting = NoTurn /\ admitting' = t /\ UNCHANGED run
        /\ t \in inflight /\ t \notin Deferred
    BY <1>2, Zenon DEF Reserve
  <2>2. RowTypes' /\ LinkInv'
    BY <1>1, <2>1, Zenon DEF RowInv, RowsKept, RowTypes, LinkInv, Up
  <2> SUFFICES ASSUME NEW u \in Turn
               PROVE  AdmissionInv(u)' /\ StopInv(u)' /\ EndInv(u)'
    BY <2>2, Zenon DEF RowInv
  <2>3. AdmissionInv(u)'
    BY <1>1, <2>1, TurnLeasesAssumption, Zenon DEF RowInv, RowsKept,
       AdmissionInv
  <2>4. StopInv(u)' /\ EndInv(u)'
    BY <1>1, Zenon DEF RowInv, RowsKept, StopInv, EndInv, Startable
  <2> QED BY <2>3, <2>4, Zenon
<1>3. CASE ~SessionFree
  <2>1. admitting' = admitting /\ run' = Refused(t)
    BY <1>3, Zenon DEF Reserve
  <2>2. RunMoves
    BY <2>1, Zenon DEF RowInv, RowTypes, Refused, RunMoves
  <2> QED BY <1>1, <2>1, <2>2, RunStep, Zenon
<1> QED BY <1>2, <1>3, Zenon

\* A refused admission has written no row.
LEMMA AdmitRefusedStep ==
    ASSUME RowInv, NEW t \in Turn, AdmitRefused(t)
    PROVE  RowInv'
<1>1. RowsKept /\ UNCHANGED <<runLease, inflight>> /\ admitting' = NoTurn
  BY Zenon DEF AdmitRefused, rowVars, linkVars, RowsKept
<1>2. RunMoves
  BY Zenon DEF RowInv, RowTypes, AdmitRefused, Refused, RunMoves
<1> QED BY <1>1, <1>2, RunStep, Zenon

\* The opening registers its context.
LEMMA OpenStep ==
    ASSUME RowInv, NEW t \in Turn, Open(t)
    PROVE  RowInv'
<1>1. RowsKept /\ UNCHANGED <<runLease, inflight, admitting>>
  BY Zenon DEF Open, RowsKept, rowVars, memVars, linkVars, workVars
<1>2. RunMoves
  BY Zenon DEF RowInv, RowTypes, Open, RunMoves
<1> QED BY <1>1, <1>2, RunStep, Zenon

\* A finalisation gives its lease back.
LEMMA ReleaseFinalizedStep ==
    ASSUME RowInv, NEW l, ReleaseFinalized(l)
    PROVE  RowInv'
<1>1. RowsKept /\ UNCHANGED <<runLease, inflight, admitting>>
  BY Zenon DEF ReleaseFinalized, RowsKept, rowVars, memVars, linkVars,
     workVars
<1>2. RunMoves
  BY Zenon DEF RowInv, RowTypes, ReleaseFinalized, RunMoves
<1> QED BY <1>1, <1>2, RunStep, Zenon

\* The workflow is scheduled.
LEMMA ScheduledStep ==
    ASSUME RowInv, NEW t \in Turn, Scheduled(t)
    PROVE  RowInv'
<1>1. RowsKept /\ UNCHANGED <<runLease, inflight, admitting>>
  BY Zenon DEF Scheduled, RowsKept, rowVars, memVars, linkVars, workVars
<1>2. RunMoves
  BY Zenon DEF RowInv, RowTypes, Scheduled, RunMoves
<1> QED BY <1>1, <1>2, RunStep, Zenon

\* A failed submission is cleaned up.
LEMMA SubmissionFailsStep ==
    ASSUME RowInv, NEW t \in Turn, SubmissionFails(t)
    PROVE  RowInv'
<1>1. RowsKept /\ UNCHANGED <<runLease, inflight, admitting>>
  BY Zenon DEF SubmissionFails, RowsKept, rowVars, memVars, linkVars, workVars
<1>2. RunMoves
  BY Zenon DEF RowInv, RowTypes, SubmissionFails, BindRefused, WorkerRelease,
     RunMoves
<1> QED BY <1>1, <1>2, RunStep, Zenon

\* A root without a workflow is submitted again.
LEMMA NudgeStep ==
    ASSUME RowInv, NEW t \in Turn, Nudge(t)
    PROVE  RowInv'
<1>1. RowsKept /\ UNCHANGED <<runLease, inflight, admitting>>
  BY Zenon DEF Nudge, RowsKept, rowVars, memVars, linkVars, workVars
<1>2. RunMoves
  BY Zenon DEF RowInv, RowTypes, Nudge, workVars, RunMoves
<1> QED BY <1>1, <1>2, RunStep, Zenon

\* A restored lease reaches the worker.
LEMMA RestoreAnsweredStep ==
    ASSUME RowInv, RestoreAnswered
    PROVE  RowInv'
<1>1. RowsKept /\ UNCHANGED <<runLease, inflight, admitting>>
  BY Zenon DEF RestoreAnswered, RowsKept, rowVars, memVars, linkVars, workVars
<1>2. RunMoves
  BY Zenon DEF RowInv, RowTypes, RestoreAnswered, RunMoves
<1> QED BY <1>1, <1>2, RunStep, Zenon

\* A restored lease is not waited for.
LEMMA RestoreUnheardStep ==
    ASSUME RowInv, RestoreUnheard
    PROVE  RowInv'
<1>1. RowsKept /\ UNCHANGED <<runLease, inflight, admitting>>
  BY Zenon DEF RestoreUnheard, RowsKept, rowVars, memVars, linkVars, workVars
<1>2. RunMoves
  BY Zenon DEF RowInv, RowTypes, RestoreUnheard, workVars, RunMoves
<1> QED BY <1>1, <1>2, RunStep, Zenon

\* A checkpoint is appended.
LEMMA AppendCheckpointStep ==
    ASSUME RowInv, NEW t \in Turn, NEW l, AppendCheckpoint(t, l)
    PROVE  RowInv'
<1>1. RowsKept /\ UNCHANGED <<runLease, inflight, admitting>>
  BY Zenon DEF AppendCheckpoint, RowsKept, rowVars, memVars, linkVars,
     workVars
<1>2. RunMoves
  BY Zenon DEF RowInv, RowTypes, AppendCheckpoint, workVars, RunMoves
<1> QED BY <1>1, <1>2, RunStep, Zenon

\* A committed finish is projected.
LEMMA ProjectFinishStep ==
    ASSUME RowInv, NEW t \in Turn, ProjectFinish(t)
    PROVE  RowInv'
<1>1. RowsKept /\ UNCHANGED <<runLease, inflight, admitting>>
  BY Zenon DEF ProjectFinish, RowsKept, rowVars, memVars, linkVars, workVars
<1>2. RunMoves
  BY Zenon DEF RowInv, RowTypes, ProjectFinish, RunMoves
<1> QED BY <1>1, <1>2, RunStep, Zenon

\* The goroutine that waits reads its result.
LEMMA RunReturnsStep ==
    ASSUME RowInv, NEW t \in Turn, RunReturns(t)
    PROVE  RowInv'
<1>1. RowsKept /\ UNCHANGED <<runLease, inflight, admitting>>
  BY Zenon DEF RunReturns, RowsKept, rowVars, memVars, linkVars, workVars
<1>2. RunMoves
  BY Zenon DEF RowInv, RowTypes, RunReturns, RunMoves
<1> QED BY <1>1, <1>2, RunStep, Zenon

\* The wait ends because the context was cancelled.
LEMMA InterruptedStep ==
    ASSUME RowInv, NEW t \in Turn, Interrupted(t)
    PROVE  RowInv'
<1>1. RowsKept /\ UNCHANGED <<runLease, inflight, admitting>>
  BY Zenon DEF Interrupted, RowsKept, rowVars, memVars, linkVars, workVars
<1>2. RunMoves
  BY Zenon DEF RowInv, RowTypes, Interrupted, RunMoves
<1> QED BY <1>1, <1>2, RunStep, Zenon

\* The wait ends because the workflow failed.
LEMMA WorkflowFailsStep ==
    ASSUME RowInv, NEW t \in Turn, WorkflowFails(t)
    PROVE  RowInv'
<1>1. RowsKept /\ UNCHANGED <<runLease, inflight, admitting>>
  BY Zenon DEF WorkflowFails, RowsKept, rowVars, memVars, linkVars, workVars
<1>2. RunMoves
  BY Zenon DEF RowInv, RowTypes, WorkflowFails, RunMoves
<1> QED BY <1>1, <1>2, RunStep, Zenon

\* An unfinished turn releases its lease.
LEMMA ReleaseUnfinishedStep ==
    ASSUME RowInv, NEW t \in Turn, ReleaseUnfinished(t)
    PROVE  RowInv'
<1>1. RowsKept /\ UNCHANGED <<runLease, inflight, admitting>>
  BY Zenon DEF ReleaseUnfinished, RowsKept, rowVars, memVars, linkVars,
     workVars
<1>2. RunMoves
  BY Zenon DEF RowInv, RowTypes, ReleaseUnfinished, WorkerRelease, RunMoves
<1> QED BY <1>1, <1>2, RunStep, Zenon

\* The worker reads the cancel command.
LEMMA ReadCancelStep ==
    ASSUME RowInv, ReadCancel
    PROVE  RowInv'
<1>1. RowsKept /\ UNCHANGED <<runLease, inflight, admitting>>
  BY Zenon DEF ReadCancel, RowsKept, rowVars, memVars, linkVars, workVars
<1>2. RunMoves
  BY Zenon DEF RowInv, RowTypes, ReadCancel, RunMoves
<1> QED BY <1>1, <1>2, RunStep, Zenon

-----------------------------------------------------------------------------
(* Admission                                                                *)

\* A message is accepted under the current StopRevision.
LEMMA AcceptStep ==
    ASSUME RowInv, NEW t \in Turn, Accept(t)
    PROVE  RowInv'
<1>1. /\ accepted[t] = -1 /\ accepted' = [accepted EXCEPT ![t] = stopRevision]
      /\ UNCHANGED <<stopRevision, forwarded, turnState, turnRevision,
                     turnWorker, execState, generation, link, held, run,
                     runLease, inflight, admitting>>
  BY Zenon DEF Accept, memVars, linkVars, workVars
<1>2. RowTypes' /\ LinkInv'
  BY <1>1, Zenon DEF RowInv, RowTypes, LinkInv, Up
<1> SUFFICES ASSUME NEW u \in Turn
             PROVE  AdmissionInv(u)' /\ StopInv(u)' /\ EndInv(u)'
  BY <1>2, Zenon DEF RowInv
<1>3. AdmissionInv(u)'
  BY <1>1, Zenon DEF RowInv, RowTypes, AdmissionInv
<1>4. StopInv(u)'
  BY <1>1 DEF RowInv, RowTypes, AdmissionInv, StopInv, Startable
<1>5. EndInv(u)'
  BY <1>1, Zenon DEF RowInv, EndInv
<1> QED BY <1>3, <1>4, <1>5, Zenon

\* A plain message asks once; deferred input asks until a root has taken it.
LEMMA AskStep ==
    ASSUME RowInv, NEW t \in Turn, Ask(t)
    PROVE  RowInv'
<1>1. RowsKept /\ UNCHANGED admitting
  BY Zenon DEF Ask, RowsKept, rowVars, memVars
<1>2. /\ Up /\ accepted[t] # -1
      /\ run[t] = "idle" \/ t \in Deferred
      /\ inflight' = inflight \cup {t}
      /\ run' = [run EXCEPT ![t] = "asking"]
      /\ runLease' = [runLease EXCEPT ![t] = 0]
  BY Zenon DEF Ask
<1>3. RowTypes' /\ LinkInv'
  BY <1>1, <1>2, Zenon DEF RowInv, RowsKept, RowTypes, LinkInv, Up
<1> SUFFICES ASSUME NEW u \in Turn
             PROVE  AdmissionInv(u)' /\ StopInv(u)' /\ EndInv(u)'
  BY <1>3, Zenon DEF RowInv
<1>4. AdmissionInv(u)'
  BY <1>1, <1>2, Zenon DEF RowInv, RowTypes, RowsKept, AdmissionInv
<1>5. StopInv(u)' /\ EndInv(u)'
  BY <1>1, Zenon DEF RowInv, RowsKept, StopInv, EndInv, Startable
<1> QED BY <1>4, <1>5, Zenon

\* The transaction writes the row of a turn that has none.
LEMMA AdmitStep ==
    ASSUME RowInv, NEW t \in Turn, Admit(t)
    PROVE  RowInv'
<1>1. /\ UNCHANGED <<stopRevision, accepted, forwarded, execState, run,
                     generation, link, inflight, held>>
      /\ admitting = t /\ admitting' = NoTurn /\ link \in {"up", "down"}
      /\ accepted[t] = stopRevision
      /\ runLease' = Given(t, active.lease)
      /\ turnState' = [turnState EXCEPT ![t] = "running"]
      /\ turnRevision' = [turnRevision EXCEPT ![t] = stopRevision]
      /\ turnWorker' = [turnWorker EXCEPT ![t] = generation]
  BY Zenon DEF Admit, NewTurn, linkVars
<1>2. RowTypes' /\ LinkInv'
  BY <1>1, Zenon DEF RowInv, RowTypes, LinkInv, Up, Given
<1> SUFFICES ASSUME NEW u \in Turn
             PROVE  AdmissionInv(u)' /\ StopInv(u)' /\ EndInv(u)'
  BY <1>2, Zenon DEF RowInv
<1>3. AdmissionInv(u)'
  BY <1>1, TurnLeasesAssumption, Zenon DEF RowInv, RowTypes, AdmissionInv,
     Given
<1>4. StopInv(u)'
  BY <1>1 DEF RowInv, RowTypes, AdmissionInv, StopInv, Startable
<1>5. EndInv(u)'
  BY <1>1, Zenon DEF RowInv, RowTypes, AdmissionInv, EndInv
<1> QED BY <1>3, <1>4, <1>5, Zenon

\* The answer moves the goroutine of a turn that is admitted.
LEMMA AnsweredStep ==
    ASSUME RowInv, NEW t \in Turn, Answered(t)
    PROVE  RowInv'
<1>1. RowsKept /\ UNCHANGED <<runLease, inflight, admitting>>
  BY Zenon DEF Answered, RowsKept, rowVars, memVars, linkVars
<1>2. /\ run[t] = "asking" /\ runLease[t] # 0
      /\ run' = [run EXCEPT ![t] = "opening"]
  BY Zenon DEF Answered
<1>3. RowTypes' /\ LinkInv'
  BY <1>1, <1>2, Zenon DEF RowInv, RowsKept, RowTypes, LinkInv, Up
<1> SUFFICES ASSUME NEW u \in Turn
             PROVE  AdmissionInv(u)' /\ StopInv(u)' /\ EndInv(u)'
  BY <1>3, Zenon DEF RowInv
<1>4. AdmissionInv(u)'
  BY <1>1, <1>2, Zenon DEF RowInv, RowTypes, RowsKept, AdmissionInv
<1>5. StopInv(u)' /\ EndInv(u)'
  BY <1>1, Zenon DEF RowInv, RowsKept, StopInv, EndInv, Startable
<1> QED BY <1>4, <1>5, Zenon

\* Deferred input that no Stop holds gets a turn, or its turn again.
LEMMA AcquireDeferredStep ==
    ASSUME RowInv, NEW t \in Turn, AcquireDeferred(t)
    PROVE  RowInv'
<1>1. /\ UNCHANGED <<stopRevision, accepted, forwarded, execState, admitting,
                     generation, link, held>>
      /\ t \in inflight /\ t \in Deferred /\ inflight' = inflight \ {t}
  BY Zenon DEF AcquireDeferred
<1>2. CASE DeferredAdmissible(t)
  <2>1. PICK l : runLease' = Given(t, l)
    BY <1>2, Zenon DEF AcquireDeferred
  <2>2. /\ UNCHANGED run /\ accepted[t] = stopRevision /\ t \notin forwarded
        /\ turnState[t] \in {"none", "running", "interrupted"}
        /\ turnState' = [turnState EXCEPT ![t] = "running"]
        /\ turnWorker' = [turnWorker EXCEPT ![t] = generation]
        /\ \/ turnRevision' = [turnRevision EXCEPT ![t] = stopRevision]
           \/ UNCHANGED turnRevision
    BY <1>2, Zenon DEF AcquireDeferred, DeferredAdmissible, NewTurn
  <2>3. RowTypes' /\ LinkInv'
    BY <1>1, <2>1, <2>2, Zenon DEF RowInv, RowTypes, LinkInv, Up, Given
  <2> SUFFICES ASSUME NEW u \in Turn
               PROVE  AdmissionInv(u)' /\ StopInv(u)' /\ EndInv(u)'
    BY <2>3, Zenon DEF RowInv
  <2>4. AdmissionInv(u)'
    BY <1>1, <2>1, <2>2 DEF RowInv, RowTypes, AdmissionInv, StopInv, Given
  <2>5. StopInv(u)'
    BY <1>1, <2>2 DEF RowInv, RowTypes, AdmissionInv, StopInv, Startable
  <2>6. EndInv(u)'
    BY <1>1, <2>2, Zenon DEF RowInv, RowTypes, AdmissionInv, EndInv, LinkInv,
       Up
  <2> QED BY <2>4, <2>5, <2>6, Zenon
<1>3. CASE ~DeferredAdmissible(t)
  <2>1. RowsKept /\ UNCHANGED runLease /\ run' = Refused(t)
    BY <1>1, <1>3, Zenon DEF AcquireDeferred, RowsKept
  <2>2. RunMoves
    BY <2>1, Zenon DEF RowInv, RowTypes, Refused, RunMoves
  <2> QED BY <1>1, <2>1, <2>2, RunStep, Zenon
<1> QED BY <1>2, <1>3, Zenon

-----------------------------------------------------------------------------
(* A turn that its message owns                                             *)

\* Turn u's rows stay, the root starts or is paused, a running turn ends, a
\* turn whose root may run is restored, or both end together.
RowMoves(u) ==
    \/ /\ turnState'[u] = turnState[u] /\ turnRevision'[u] = turnRevision[u]
       /\ turnWorker'[u] = turnWorker[u]
       /\ \/ execState'[u] = execState[u]
          \/ Startable(u) /\ execState'[u] \in {"running", "paused"}
    \/ /\ turnState[u] = "running" /\ turnState'[u] \in {"failed", "cancelled"}
       /\ turnRevision'[u] = turnRevision[u] /\ turnWorker'[u] = turnWorker[u]
       /\ execState'[u] = execState[u]
    \/ /\ Startable(u) /\ Up /\ turnState[u] \notin {"completed", "failed"}
       /\ turnState'[u] = "running" /\ turnRevision'[u] = stopRevision
       /\ turnWorker'[u] = generation /\ execState'[u] = execState[u]
    \/ /\ Startable(u) /\ turnState[u] = "running"
       /\ turnState'[u] \in {"completed", "failed"}
       /\ turnRevision'[u] = turnRevision[u] /\ turnWorker'[u] = turnWorker[u]
       /\ execState'[u] = turnState'[u]

RowDomains ==
    /\ DOMAIN turnState' = Turn /\ DOMAIN turnRevision' = Turn
    /\ DOMAIN turnWorker' = Turn /\ DOMAIN execState' = Turn

\* What the steps of this section leave alone.
RestKept ==
    UNCHANGED <<stopRevision, accepted, forwarded, generation, link, held,
                runLease, inflight, admitting>>

\* The invariant is kept by such a step.
LEMMA RowStep ==
    ASSUME RowInv, RestKept, RowDomains, RunMoves, \A u \in Turn : RowMoves(u)
    PROVE  RowInv'
<1>1. RowTypes' /\ LinkInv'
  BY Zenon DEF RowInv, RestKept, RowDomains, RunMoves, RowTypes, LinkInv, Up
<1> SUFFICES ASSUME NEW u \in Turn
             PROVE  AdmissionInv(u)' /\ StopInv(u)' /\ EndInv(u)'
  BY <1>1, Zenon DEF RowInv
<1>2. AdmissionInv(u)'
  BY DEF RowInv, RestKept, RunMoves, RowMoves, AdmissionInv, Startable
<1>3. StopInv(u)'
  BY DEF RowInv, RowTypes, RestKept, RowMoves, StopInv, Startable
<1>4. EndInv(u)'
  BY Zenon DEF RowInv, RestKept, RowMoves, EndInv, Startable, Up
<1> QED BY <1>2, <1>3, <1>4, Zenon

\* An opening that failed ends its turn.
LEMMA FailOpeningStep ==
    ASSUME RowInv, NEW t \in Turn, FailOpening(t)
    PROVE  RowInv'
<1>1. RestKept /\ UNCHANGED <<execState, turnRevision, turnWorker>>
  BY Zenon DEF FailOpening, RestKept, linkVars
<1>2. RunMoves
  BY Zenon DEF RowInv, RowTypes, FailOpening, RunMoves
<1>3. \/ UNCHANGED turnState
      \/ /\ turnState[t] = "running"
         /\ \E s \in {"failed", "cancelled"} :
               turnState' = [turnState EXCEPT ![t] = s]
  BY Zenon DEF FailOpening, FailedStates
<1>4. RowDomains /\ \A u \in Turn : RowMoves(u)
  BY <1>1, <1>3, Zenon DEF RowInv, RowTypes, RowDomains, RowMoves
<1> QED BY <1>1, <1>2, <1>4, RowStep, Zenon

\* An activity of the root begins.
LEMMA StartRootStep ==
    ASSUME RowInv, NEW t \in Turn, StartRoot(t)
    PROVE  RowInv'
<1>1. RestKept /\ UNCHANGED <<run, turnState, turnRevision, turnWorker>>
  BY Zenon DEF StartRoot, RestKept, memVars, linkVars, workVars
<1>2. /\ execState[t] = "queued"
      /\ execState' = [execState EXCEPT ![t] = "running"]
  BY Zenon DEF StartRoot
<1>3. RowDomains /\ \A u \in Turn : RowMoves(u)
  BY <1>1, <1>2, Zenon DEF RowInv, RowTypes, RowDomains, RowMoves, Startable
<1>4. RunMoves
  BY <1>1, Zenon DEF RowInv, RowTypes, RunMoves
<1> QED BY <1>1, <1>3, <1>4, RowStep, Zenon

\* The root and its turn end together.
LEMMA FinishExecutionStep ==
    ASSUME RowInv, NEW t \in Turn, NEW s \in {"completed", "failed"},
           FinishExecution(t, s)
    PROVE  RowInv'
<1>1. RestKept /\ UNCHANGED <<run, turnRevision, turnWorker>>
  BY Zenon DEF FinishExecution, RestKept, linkVars, workVars
<1>2. /\ execState[t] = "running" /\ turnState[t] = "running"
      /\ execState' = [execState EXCEPT ![t] = s]
      /\ turnState' = [turnState EXCEPT ![t] = s]
  BY Zenon DEF FinishExecution, FinishesTurn
<1>3. RowDomains /\ \A u \in Turn : RowMoves(u)
  BY <1>1, <1>2, Zenon DEF RowInv, RowTypes, RowDomains, RowMoves, Startable
<1>4. RunMoves
  BY <1>1, Zenon DEF RowInv, RowTypes, RunMoves
<1> QED BY <1>1, <1>3, <1>4, RowStep, Zenon

\* Pauses move the roots that are not paused yet.
LEMMA PausedMoves ==
    ASSUME RowInv, NEW S, Paused(S),
           UNCHANGED <<turnState, turnRevision, turnWorker>>
    PROVE  RowDomains /\ \A u \in Turn : RowMoves(u)
BY Zenon DEF RowInv, RowTypes, Paused, RowDomains, RowMoves

\* An unfinished turn pauses its root.
LEMMA PauseUnfinishedStep ==
    ASSUME RowInv, NEW t \in Turn, PauseUnfinished(t)
    PROVE  RowInv'
<1>1. RestKept /\ UNCHANGED <<turnState, turnRevision, turnWorker>>
  BY Zenon DEF PauseUnfinished, RestKept, memVars, linkVars
<1>2. Paused({t})
  BY Zenon DEF PauseUnfinished
<1>3. RunMoves
  BY Zenon DEF RowInv, RowTypes, RunMoves, PauseUnfinished
<1> QED BY <1>1, <1>2, <1>3, PausedMoves, RowStep, Zenon

\* The worker lists the roots and, one by one, pauses and retires them.
LEMMA PauseSessionWorkflowsStep ==
    ASSUME RowInv,
           \/ PauseSessionWorkflows
           \/ \E t \in Turn : PauseListed(t) \/ RetirePaused(t)
    PROVE  RowInv'
<1> USE DEF rowVars, memVars, workVars
<1>1. RestKept /\ UNCHANGED <<run, turnState, turnRevision, turnWorker>>
  BY Zenon DEF PauseSessionWorkflows, PauseListed, RetirePaused, RestKept
<1>2. RunMoves
  BY <1>1, Zenon DEF RowInv, RowTypes, RunMoves
<1>3. CASE \E S : Paused(S)
  BY <1>1, <1>2, <1>3, PausedMoves, RowStep, Zenon
<1>4. CASE UNCHANGED execState
  BY <1>1, <1>2, <1>4, RunStep, Zenon DEF RestKept, RowsKept
<1> QED BY <1>3, <1>4, Zenon
        DEF PauseSessionWorkflows, PauseListed, RetirePaused

\* An unfinished turn ends.
LEMMA EndRunningTurnStep ==
    ASSUME RowInv, NEW t \in Turn, EndRunningTurn(t)
    PROVE  RowInv'
<1>1. RestKept /\ UNCHANGED <<execState, turnRevision, turnWorker>>
  BY Zenon DEF EndRunningTurn, RestKept, memVars, linkVars
<1>2. RunMoves
  BY Zenon DEF RowInv, RowTypes, EndRunningTurn, RunMoves
<1>3. \E s \in {"failed", "cancelled"} :
        turnState' = [turnState EXCEPT
          ![t] = IF turnState[t] = "running" THEN s ELSE turnState[t]]
  BY Zenon DEF EndRunningTurn, EndedState
<1>4. RowDomains /\ \A u \in Turn : RowMoves(u)
  BY <1>1, <1>3, Zenon DEF RowInv, RowTypes, RowDomains, RowMoves
<1> QED BY <1>1, <1>2, <1>4, RowStep, Zenon

\* A restoration sets a turn running whose root may run.
LEMMA RestoredMoves ==
    ASSUME RowInv, NEW t \in Turn, NEW rev, NEW l, MayRestore(t, rev),
           Restored(t, rev, l), UNCHANGED execState
    PROVE  RowDomains /\ \A u \in Turn : RowMoves(u)
<1>1. Up /\ Startable(t) /\ turnState[t] \notin {"completed", "failed"}
  BY Zenon DEF MayRestore
<1>2. \/ UNCHANGED <<turnState, turnRevision, turnWorker>>
      \/ /\ turnState' = [turnState EXCEPT ![t] = "running"]
         /\ turnRevision' = [turnRevision EXCEPT ![t] = stopRevision]
         /\ turnWorker' = [turnWorker EXCEPT ![t] = generation]
  BY Zenon DEF Restored
<1> QED BY <1>1, <1>2, Zenon DEF RowInv, RowTypes, RowDomains, RowMoves

\* The submitted root adopts its turn's lease.
LEMMA BindStep ==
    ASSUME RowInv, NEW t \in Turn, Bind(t)
    PROVE  RowInv'
<1>1. RestKept /\ UNCHANGED execState
  BY Zenon DEF Bind, RestKept, linkVars
<1>2. MayRestore(t, 0) /\ Restored(t, 0, runLease[t])
  BY Zenon DEF Bind
<1>3. RunMoves
  BY Zenon DEF RowInv, RowTypes, Bind, RunMoves
<1> QED BY <1>1, <1>2, <1>3, RestoredMoves, RowStep, Zenon

\* A root callback restores the turn.
LEMMA RestoreExecutionTurnStep ==
    ASSUME RowInv, NEW t \in Turn, RestoreExecutionTurn(t)
    PROVE  RowInv'
<1>1. RestKept /\ UNCHANGED <<execState, run>>
  BY Zenon DEF RestoreExecutionTurn, RestKept, workVars
<1>2. PICK l : /\ MayRestore(t, controlRevision[t])
               /\ Restored(t, controlRevision[t], l)
  BY Zenon DEF RestoreExecutionTurn
<1>3. RunMoves
  BY <1>1, Zenon DEF RowInv, RowTypes, RunMoves
<1> QED BY <1>1, <1>2, <1>3, RestoredMoves, RowStep, Zenon

\* A root is created, paused if its turn was stopped.
LEMMA CreateExecutionStep ==
    ASSUME RowInv, NEW t \in Turn, CreateExecution(t)
    PROVE  RowInv'
<1>1. /\ UNCHANGED <<stopRevision, accepted, turnState, turnRevision,
                     turnWorker, generation, link, held, runLease, inflight,
                     admitting>>
      /\ run[t] = "submitting" /\ run' = [run EXCEPT ![t] = "binding"]
      /\ execState[t] = "none"
      /\ forwarded' = forwarded \cup ({t} \cap Deferred)
  BY Zenon DEF CreateExecution, memVars, linkVars
<1>2. /\ execState' = [execState EXCEPT ![t] = InitialExecState(t)]
      /\ InitialExecState(t) \in {"queued", "paused"}
      /\ turnRevision[t] # stopRevision => InitialExecState(t) = "paused"
  BY Zenon DEF CreateExecution, InitialExecState
<1>3. RowTypes' /\ LinkInv'
  BY <1>1, <1>2, Zenon DEF RowInv, RowTypes, LinkInv, Up
<1> SUFFICES ASSUME NEW u \in Turn
             PROVE  AdmissionInv(u)' /\ StopInv(u)' /\ EndInv(u)'
  BY <1>3, Zenon DEF RowInv
<1>4. AdmissionInv(u)'
  BY <1>1, <1>2, Zenon DEF RowInv, RowTypes, AdmissionInv
<1>5. StopInv(u)'
  BY <1>1, <1>2 DEF RowInv, RowTypes, StopInv, Startable
<1>6. EndInv(u)'
  BY <1>1, <1>2, Zenon DEF RowInv, RowTypes, EndInv
<1> QED BY <1>4, <1>5, <1>6, Zenon

-----------------------------------------------------------------------------
(* Stop and resume                                                          *)

\* Store.Cancel pauses every root and holds the turns it finds.
LEMMA CancelKeeps ==
    ASSUME RowInv, Cancel,
           UNCHANGED <<accepted, forwarded, turnState, turnRevision,
                       turnWorker, generation, link, run, runLease, inflight,
                       admitting>>
    PROVE  RowInv'
<1>1. /\ stopRevision' = stopRevision + 1
      /\ held' = held \cup Stoppable
      /\ execState' = [t \in Turn |-> IF Startable(t) THEN "paused"
                                                      ELSE execState[t]]
  BY Zenon DEF Cancel, Paused, OpenExec, Startable
<1>2. RowTypes' /\ LinkInv'
  BY <1>1 DEF RowInv, RowTypes, LinkInv, Up, Stoppable
<1> SUFFICES ASSUME NEW u \in Turn
             PROVE  AdmissionInv(u)' /\ StopInv(u)' /\ EndInv(u)'
  BY <1>2, Zenon DEF RowInv
<1>3. AdmissionInv(u)'
  BY <1>1, Zenon DEF RowInv, AdmissionInv, Startable
<1>4. StopInv(u)'
  BY <1>1 DEF RowInv, RowTypes, AdmissionInv, StopInv, Startable, Stoppable
<1>5. EndInv(u)'
  BY <1>1, Zenon DEF RowInv, EndInv, Startable
<1> QED BY <1>3, <1>4, <1>5, Zenon

\* The Stop endpoint records a stop.
LEMMA StopStep ==
    ASSUME RowInv, Stop
    PROVE  RowInv'
BY CancelKeeps, Zenon DEF Stop, memVars, workVars

\* The worker records it once more.
LEMMA CancelFromWorkerStep ==
    ASSUME RowInv, CancelFromWorker
    PROVE  RowInv'
BY CancelKeeps, Zenon DEF CancelFromWorker, memVars

\* A resumed root is no longer held.
LEMMA ResumeExecutionStep ==
    ASSUME RowInv, NEW t \in Turn, ResumeExecution(t)
    PROVE  RowInv'
<1>1. /\ UNCHANGED <<stopRevision, accepted, forwarded, turnState,
                     turnRevision, turnWorker, generation, link, run,
                     runLease, inflight, admitting>>
      /\ execState[t] = "paused" /\ held' = held \ {t}
      /\ execState' = [execState EXCEPT ![t] = "running"]
  BY Zenon DEF ResumeExecution, memVars, linkVars, workVars
<1>2. RowTypes' /\ LinkInv'
  BY <1>1, Zenon DEF RowInv, RowTypes, LinkInv, Up
<1> SUFFICES ASSUME NEW u \in Turn
             PROVE  AdmissionInv(u)' /\ StopInv(u)' /\ EndInv(u)'
  BY <1>2, Zenon DEF RowInv
<1>3. AdmissionInv(u)' /\ EndInv(u)'
  BY <1>1, Zenon DEF RowInv, RowTypes, AdmissionInv, EndInv
<1>4. StopInv(u)'
  BY <1>1, Zenon DEF RowInv, RowTypes, StopInv, Startable
<1> QED BY <1>3, <1>4, Zenon

\* Resumed deferred input is no longer held, and its turn is reopened.
LEMMA ResumeDeferredStep ==
    ASSUME RowInv, NEW t \in Turn, ResumeDeferred(t)
    PROVE  RowInv'
<1>1. /\ UNCHANGED <<stopRevision, forwarded, turnWorker, execState,
                     generation, link, run, runLease, inflight, admitting>>
      /\ t \in Deferred \ forwarded /\ accepted[t] # -1
      /\ held' = held \ {t}
      /\ accepted' = [accepted EXCEPT ![t] = stopRevision]
  BY Zenon DEF ResumeDeferred, memVars, linkVars, workVars
<1>2. \/ UNCHANGED <<turnState, turnRevision>>
      \/ /\ turnState[t] # "completed"
         /\ turnState' = [turnState EXCEPT ![t] = "interrupted"]
         /\ turnRevision' = [turnRevision EXCEPT ![t] = stopRevision]
  BY Zenon DEF ResumeDeferred
<1>3. RowTypes' /\ LinkInv'
  BY <1>1, <1>2, Zenon DEF RowInv, RowTypes, LinkInv, Up
<1> SUFFICES ASSUME NEW u \in Turn
             PROVE  AdmissionInv(u)' /\ StopInv(u)' /\ EndInv(u)'
  BY <1>3, Zenon DEF RowInv
<1>4. AdmissionInv(u)'
  BY <1>1, <1>2 DEF RowInv, RowTypes, AdmissionInv, StopInv
<1>5. StopInv(u)'
  BY <1>1, <1>2 DEF RowInv, RowTypes, StopInv, Startable
<1>6. EndInv(u)'
  BY <1>1, <1>2 DEF RowInv, RowTypes, AdmissionInv, EndInv
<1> QED BY <1>4, <1>5, <1>6, Zenon

-----------------------------------------------------------------------------
(* Lost workers and restarts                                                *)

\* What a lost worker or a restart may do to turn u: its goroutine is gone,
\* its request with it, a running turn is interrupted, and a root is paused.
CrashMoves(u) ==
    /\ \/ run'[u] = run[u]
       \/ run[u] # "idle" /\ run'[u] = "done"
    /\ runLease'[u] \in {runLease[u], 0}
    /\ \/ turnState'[u] = turnState[u]
       \/ turnState[u] = "running" /\ turnState'[u] = "interrupted"
    /\ \/ execState'[u] = execState[u]
       \/ Startable(u) /\ execState'[u] = "paused"
    /\ turnState'[u] = "running" =>
         generation' = generation /\ link' \in {"up", "down"}

CrashDomains ==
    /\ DOMAIN run' = Turn /\ DOMAIN runLease' = Turn
    /\ DOMAIN turnState' = Turn /\ DOMAIN execState' = Turn

\* The invariant is kept by such a step.
LEMMA CrashStep ==
    ASSUME RowInv, CrashDomains, \A u \in Turn : CrashMoves(u),
           UNCHANGED <<stopRevision, accepted, forwarded, turnRevision,
                       turnWorker, held>>,
           inflight' = {}, admitting' \in {admitting, NoTurn}
    PROVE  RowInv'
<1>1. RowTypes' /\ LinkInv'
  BY Zenon DEF RowInv, RowTypes, CrashDomains, LinkInv
<1> SUFFICES ASSUME NEW u \in Turn
             PROVE  AdmissionInv(u)' /\ StopInv(u)' /\ EndInv(u)'
  BY <1>1, Zenon DEF RowInv
<1>2. AdmissionInv(u)'
  BY TurnLeasesAssumption DEF RowInv, CrashMoves, AdmissionInv, Startable
<1>3. StopInv(u)'
  BY Zenon DEF RowInv, CrashMoves, StopInv, Startable
<1>4. EndInv(u)'
  BY Zenon DEF RowInv, CrashMoves, EndInv, Startable
<1> QED BY <1>2, <1>3, <1>4, Zenon

\* The worker is lost.
LEMMA DisconnectStep ==
    ASSUME RowInv, Disconnect
    PROVE  RowInv'
<1>1. /\ UNCHANGED <<stopRevision, accepted, forwarded, turnState, execState,
                     turnRevision, turnWorker, held, admitting, generation>>
      /\ inflight' = {} /\ link' = "down"
  BY Zenon DEF Disconnect, WorkerGone, rowVars, memVars
<1>2. CrashDomains /\ \A u \in Turn : CrashMoves(u)
  BY <1>1, Zenon DEF RowInv, RowTypes, Disconnect, WorkerGone, CrashDomains,
     CrashMoves
<1> QED BY <1>1, <1>2, CrashStep, Zenon

\* The lost worker's turns are interrupted: every running one is its own.
LEMMA RecoverWorkerTurnsStep ==
    ASSUME RowInv, RecoverWorkerTurns
    PROVE  RowInv'
<1>1. /\ UNCHANGED <<stopRevision, accepted, forwarded, execState, inflight,
                     turnRevision, turnWorker, held, admitting, generation,
                     run, runLease>>
      /\ link = "down" /\ link' = "recovered"
  BY Zenon DEF RecoverWorkerTurns, workVars
<1>2. inflight' = {}
  BY <1>1, Zenon DEF RowInv, LinkInv, Up
<1>3. CrashDomains /\ \A u \in Turn : CrashMoves(u)
  BY <1>1, Zenon DEF RowInv, RowTypes, RecoverWorkerTurns, Interrupt,
     LostTurns, EndInv, CrashDomains, CrashMoves
<1> QED BY <1>1, <1>2, <1>3, CrashStep, Zenon

\* Either way of settling moves no root but those it pauses.
LEMMA CrashPausedMoves ==
    ASSUME RowInv, CrashPaused
    PROVE  /\ DOMAIN execState' = Turn
           /\ \A u \in Turn : \/ execState'[u] = execState[u]
                              \/ Startable(u) /\ execState'[u] = "paused"
BY Zenon DEF RowInv, RowTypes, CrashPaused, Paused

\* The lost worker is settled: none of its turns is running any more.
LEMMA SettleDisconnectedStep ==
    ASSUME RowInv, SettleDisconnected
    PROVE  RowInv'
<1>1. /\ UNCHANGED <<stopRevision, accepted, forwarded, turnState, inflight,
                     turnRevision, turnWorker, held, admitting, generation,
                     run, runLease>>
      /\ link = "recovered" /\ CrashPaused
  BY Zenon DEF SettleDisconnected, memVars, workVars
<1>2. inflight' = {}
  BY <1>1, Zenon DEF RowInv, LinkInv, Up
<1>3. CrashDomains /\ \A u \in Turn : CrashMoves(u)
  BY <1>1, CrashPausedMoves, Zenon DEF RowInv, RowTypes, EndInv, CrashDomains,
     CrashMoves
<1> QED BY <1>1, <1>2, <1>3, CrashStep, Zenon

\* A new worker generation finds no running turn.
LEMMA StartWorkerStep ==
    ASSUME RowInv, StartWorker
    PROVE  RowInv'
<1>1. /\ UNCHANGED <<stopRevision, accepted, forwarded, turnState, execState,
                     turnRevision, turnWorker, held, admitting, inflight, run,
                     runLease>>
      /\ link = "settled"
  BY Zenon DEF StartWorker, rowVars, memVars, workVars
<1>2. inflight' = {}
  BY <1>1, Zenon DEF RowInv, LinkInv, Up
<1>3. CrashDomains /\ \A u \in Turn : CrashMoves(u)
  BY <1>1, Zenon DEF RowInv, RowTypes, EndInv, CrashDomains, CrashMoves
<1> QED BY <1>1, <1>2, <1>3, CrashStep, Zenon

\* A restarted controller has interrupted every running turn.
LEMMA RestartControllerStep ==
    ASSUME RowInv, RestartController
    PROVE  RowInv'
<1>1. /\ UNCHANGED <<stopRevision, accepted, forwarded, turnRevision,
                     turnWorker, held, generation>>
      /\ inflight' = {} /\ admitting' = NoTurn /\ CrashPaused
  BY Zenon DEF RestartController, WorkerGone
<1>2. CrashDomains /\ \A u \in Turn : CrashMoves(u)
  BY <1>1, CrashPausedMoves, Zenon DEF RowInv, RowTypes, RestartController,
     WorkerGone, Interrupt, CrashDomains, CrashMoves
<1> QED BY <1>1, <1>2, CrashStep, Zenon

-----------------------------------------------------------------------------
(* Every step                                                               *)

\* Every step keeps the invariant.
LEMMA NextStep ==
    ASSUME RowInv, [Next]_vars
    PROVE  RowInv'
<1>1. CASE AdmissionNext
  BY <1>1, AcceptStep, AskStep, ReserveStep, AdmitStep, AdmitRefusedStep,
     AcquireDeferredStep, AnsweredStep, Zenon DEF AdmissionNext
<1>2. CASE OpeningNext
  BY <1>2, OpenStep, CreateExecutionStep, FailOpeningStep, BindStep,
     ScheduledStep, SubmissionFailsStep, NudgeStep, RestoreExecutionTurnStep,
     ReleaseFinalizedStep, RestoreAnsweredStep, RestoreUnheardStep, Zenon
  DEF OpeningNext
<1>3. CASE RunningNext
  BY <1>3, StartRootStep, ProjectFinishStep, RunReturnsStep, InterruptedStep,
     WorkflowFailsStep, PauseUnfinishedStep, EndRunningTurnStep,
     ReleaseUnfinishedStep, AppendCheckpointStep, FinishExecutionStep, Zenon
  DEF RunningNext
<1>4. CASE ControlNext
  BY <1>4, StopStep, ReadCancelStep, CancelFromWorkerStep,
     PauseSessionWorkflowsStep, DisconnectStep, RecoverWorkerTurnsStep,
     SettleDisconnectedStep, StartWorkerStep, RestartControllerStep,
     ResumeExecutionStep, ResumeDeferredStep, Zenon DEF ControlNext
<1>5. CASE UNCHANGED vars
  <2>1. RowsKept /\ UNCHANGED <<run, runLease, inflight, admitting>>
    BY <1>5, Zenon DEF vars, rowVars, memVars, linkVars, workVars, RowsKept
  <2>2. RunMoves
    BY <2>1, Zenon DEF RowInv, RowTypes, RunMoves
  <2> QED BY <2>1, <2>2, RunStep, Zenon
<1> QED BY <1>1, <1>2, <1>3, <1>4, <1>5, Zenon DEF Next

\* The invariant always holds.
LEMMA RowsSound == Spec => []RowInv
<1>1. Init => RowInv
  BY TurnLeasesAssumption
  DEF Init, RowInv, RowTypes, LinkInv, AdmissionInv, StopInv, EndInv, Up,
      Startable, TurnState, ExecState
<1> QED BY <1>1, NextStep, PTL DEF Spec
=============================================================================
