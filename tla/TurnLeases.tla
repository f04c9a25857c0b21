----------------------------- MODULE TurnLeases -----------------------------
(***************************************************************************)
(* The turn lease of one session: who may run the session's turn, from the *)
(* message's admission to the turn's end.                                  *)
(*                                                                         *)
(* The controller keeps the lease twice.  active is in its memory and says *)
(* which turn owns the session; the execution turn lease row (holder) is   *)
(* durable and says which worker generation runs the turn's root           *)
(* execution, under which control revision.  The worker that runs the turn *)
(* keeps a third copy (local), so that a cancellation can reach the        *)
(* running code.  The worker calls the controller over one connection.     *)
(* A call's request, its transaction and its answer are separate steps     *)
(* wherever a Stop, a lost worker or another call can come between.        *)
(*                                                                         *)
(* A turn here is a plain message or a deferred one (accepted too late for *)
(* the running root and kept for a turn of its own).  Each turn has at     *)
(* most one root execution, reduced to its state and control revision;     *)
(* module Executions has the rest of it.  Leases are numbered in the order *)
(* they are created; in the code they are fresh UUIDs.                     *)
(***************************************************************************)
EXTENDS Integers, FiniteSets

CONSTANTS
    Turn,             \* turns that may be admitted
    Deferred,         \* those that come from deferred input
    NoTurn,           \* no turn
    MaxGeneration,    \* worker generations the session may use
    MaxLease,         \* leases that may be created
    MaxStop,          \* math.MaxInt64 for the StopRevision column
    MaxRevision       \* math.MaxInt64 for the ControlRevision column

ASSUME TurnLeasesAssumption ==
    /\ Deferred \subseteq Turn
    /\ NoTurn \notin Turn
    /\ MaxGeneration \in Nat \ {0}
    /\ MaxLease \in Nat
    /\ MaxStop \in Nat
    /\ MaxRevision \in Nat

VARIABLES
    \* rows
    stopRevision,    \* the session's StopRevision
    accepted,        \* the StopRevision a message was accepted under, or -1
    forwarded,       \* deferred messages that were handed to a root
    turnState,       \* State of each turn row, "none" before admission
    turnCancel,      \* turns with CancelRequested
    turnRevision,    \* StopRevision of each turn row
    turnWorker,      \* WorkerGenerationID of each turn row
    execState,       \* State of each turn's root execution
    controlRevision, \* ControlRevision of that execution
    holder,          \* the execution turn lease row, NoHolder before it exists
    transcript,      \* the lease that last wrote each turn's transcript
    scheduled,       \* roots whose workflow instance exists
    \* the controller's memory
    active,          \* Store.active for the session
    admitting,       \* the AcquireTurn call between reserving and its row
    finalizing,      \* leases whose FinalizeTurn has yet to release them
    \* the connection
    link,            \* what the supervisor knows of the current generation
    generation,      \* the current worker generation
    inflight,        \* admission requests the controller has not read
    answer,          \* a restored lease whose answer is on its way
    stopping,        \* progress of the cancel command, see StopAt
    \* the worker's memory
    run,             \* where the goroutine that serves each message is
    runLease,        \* its prepared.lease, 0 before it has one
    fired,           \* messages whose context is cancelled
    local,           \* the worker's own copy of the active lease
    \* history
    created,         \* leases created so far
    held             \* turns under a Stop nobody has lifted

rowVars  == <<stopRevision, accepted, forwarded, turnState, turnCancel,
              turnRevision, turnWorker, execState, controlRevision, holder,
              transcript, scheduled>>
memVars  == <<active, admitting, finalizing>>
linkVars == <<link, generation, inflight, answer, stopping>>
workVars == <<run, runLease, fired, local>>
vars     == <<rowVars, memVars, linkVars, workVars, created, held>>

-----------------------------------------------------------------------------
Lease == 1..MaxLease

Free     == [turn |-> NoTurn, lease |-> 0]
NoHolder == [lease |-> 0, owner |-> 0, revision |-> 0]
Unheld   == [lease |-> 0, registered |-> FALSE, cancelled |-> FALSE]

TurnState == {"none", "running", "completed", "failed", "cancelled",
              "interrupted"}
ExecState == {"none", "queued", "running", "paused", "completed", "failed"}

\* A message's goroutine: asking for its turn, opening it (the queue and the
\* cancellation are not registered yet), submitting its root, binding the
\* root's callbacks, scheduling its workflow, waiting for the result, then
\* ending a turn that did not finish: pausing the root, ending the turn,
\* releasing the lease.
RunState == {"idle", "asking", "opening", "submitting", "binding",
             "scheduling", "waiting", "cancelling", "failing",
             "endCancelled", "endFailed", "releasing", "finalizing", "done"}

\* Before the message's ticket leaves the admission gate.
Preparing == {"asking", "opening", "submitting", "binding", "scheduling"}

\* The cancel command: its step, the roots it has still to pause, and the one
\* it has paused and not retired yet.
StopAt(step) == [at |-> step, left |-> {}, root |-> NoTurn]
Pausing(S)   == IF S = {} THEN StopAt("no")
                ELSE [StopAt("pausing") EXCEPT !.left = S]

OpenExec(t)  == execState[t] \in {"queued", "running", "paused"}
Startable(t) == execState[t] \in {"queued", "running"}
Up           == link = "up"

Init ==
    /\ stopRevision = 0
    /\ accepted = [t \in Turn |-> -1]
    /\ forwarded = {}
    /\ turnState = [t \in Turn |-> "none"]
    /\ turnCancel = {}
    /\ turnRevision = [t \in Turn |-> 0]
    /\ turnWorker = [t \in Turn |-> 0]
    /\ execState = [t \in Turn |-> "none"]
    /\ controlRevision = [t \in Turn |-> 0]
    /\ holder = [t \in Turn |-> NoHolder]
    /\ transcript = [t \in Turn |-> 0]
    /\ scheduled = {}
    /\ active = Free
    /\ admitting = NoTurn
    /\ finalizing = {}
    /\ link = "up"
    /\ generation = 1
    /\ inflight = {}
    /\ answer = Free
    /\ stopping = StopAt("no")
    /\ run = [t \in Turn |-> "idle"]
    /\ runLease = [t \in Turn |-> 0]
    /\ fired = {}
    /\ local = Unheld
    /\ created = 0
    /\ held = {}

-----------------------------------------------------------------------------
(* The worker's copy of the lease                                           *)

\* rememberTurnLease: a different lease replaces the old one and cancels the
\* context registered with it.
Remember(l) ==
    /\ local' = IF local.lease = l THEN local ELSE [Unheld EXCEPT !.lease = l]
    /\ fired' = fired \cup
         {t \in Turn : /\ local.registered
                       /\ local.lease # l
                       /\ runLease[t] = local.lease}

\* Turns whose context a cancellation of the local lease ends.
Registered == {t \in Turn : /\ local.registered
                            /\ runLease[t] = local.lease}

\* ReleaseTurn in the worker: the controller is asked only when the lease is
\* the one recorded locally, and drops it only when it is still registered.
WorkerRelease(l) ==
    /\ local' = IF local.lease = l THEN Unheld ELSE local
    /\ active' = IF local.lease = l /\ active.lease = l THEN Free ELSE active

-----------------------------------------------------------------------------
(* Admission                                                                *)

\* A message is accepted under the StopRevision of that moment.
Accept(t) ==
    /\ accepted[t] = -1
    /\ accepted' = [accepted EXCEPT ![t] = stopRevision]
    /\ UNCHANGED <<scheduled, stopRevision, forwarded, turnState, turnCancel,
                   turnRevision, turnWorker, execState, controlRevision,
                   holder, transcript, memVars, linkVars, workVars, created,
                   held>>

\* The worker asks for a turn.  One message at a time is being prepared.
\* Deferred input is tried again as long as no root has taken it.
Ask(t) ==
    /\ Up
    /\ accepted[t] # -1
    /\ \/ run[t] = "idle" /\ t \notin Deferred /\ accepted[t] = stopRevision
       \/ /\ run[t] \in {"idle", "done"}
          /\ t \in Deferred \ forwarded
          /\ local = Unheld
    /\ \A u \in Turn : run[u] \notin Preparing
    /\ run' = [run EXCEPT ![t] = "asking"]
    /\ runLease' = [runLease EXCEPT ![t] = 0]
    /\ fired' = fired \ {t}
    /\ inflight' = inflight \cup {t}
    /\ UNCHANGED <<rowVars, memVars, link, generation, answer, stopping,
                   local, created, held>>

\* The message's goroutine is told that its call failed, if it still waits.
Refused(t) == [run EXCEPT ![t] = IF @ = "asking" THEN "done" ELSE @]

\* The message's goroutine is given lease l, if it still waits.
Given(t, l) == [runLease EXCEPT ![t] = IF run[t] = "asking" THEN l ELSE @]

\* A reservation that does not look whether another turn owns the session.
SessionFreeUnchecked == TRUE

\* reserveLease: no turn owns the session.
SessionFree == active = Free

\* AcquireTurn, first half: the lease is reserved in memory.
Reserve(t) ==
    /\ t \in inflight \ Deferred
    /\ inflight' = inflight \ {t}
    /\ IF SessionFree
       THEN /\ admitting = NoTurn
            /\ created < MaxLease
            /\ created' = created + 1
            /\ active' = [turn |-> t, lease |-> created + 1]
            /\ admitting' = t
            /\ UNCHANGED run
       ELSE /\ run' = Refused(t)
            /\ UNCHANGED <<created, active, admitting>>
    /\ UNCHANGED <<rowVars, finalizing, link, generation, answer, stopping,
                   runLease, fired, local, held>>

\* The row of an admitted turn, written by the current generation.
NewTurn(t, l) ==
    /\ turnState' = [turnState EXCEPT ![t] = "running"]
    /\ turnRevision' = [turnRevision EXCEPT ![t] = stopRevision]
    /\ turnWorker' = [turnWorker EXCEPT ![t] = generation]
    /\ transcript' = [transcript EXCEPT ![t] = l]

\* AcquireTurn, second half: the transaction.  A request accepted before a
\* later Stop is refused, and so is one whose connection is gone by the time
\* the lost worker's turns are recovered.
Admit(t) ==
    /\ admitting = t
    /\ link \in {"up", "down"}
    /\ accepted[t] = stopRevision
    /\ NewTurn(t, active.lease)
    /\ admitting' = NoTurn
    /\ runLease' = Given(t, active.lease)
    /\ UNCHANGED <<scheduled, stopRevision, accepted, forwarded, turnCancel, execState,
                   controlRevision, holder, active, finalizing, linkVars, run,
                   fired, local, created, held>>

AdmitRefused(t) ==
    /\ admitting = t
    /\ accepted[t] # stopRevision \/ ~Up
    /\ admitting' = NoTurn
    /\ active' = IF active.turn = t THEN Free ELSE active
    /\ run' = Refused(t)
    /\ UNCHANGED <<rowVars, finalizing, linkVars, runLease, fired, local,
                   created, held>>

\* A deferred admission that forgets the Stop its input was accepted before.
DeferredAdmissibleStopped(t) ==
    /\ active.turn \in {t, NoTurn}
    /\ t \notin forwarded
    /\ \/ turnState[t] = "none"
       \/ /\ t \notin turnCancel
          /\ turnState[t] \in {"running", "interrupted"}
          /\ active.turn = t => turnWorker[t] = generation

\* admitDeferredTurn's checks: the input is unclaimed and not stopped, and a
\* turn it already has is neither stopped nor held by another worker.
DeferredAdmissible(t) ==
    /\ active.turn \in {t, NoTurn}
    /\ t \notin forwarded
    /\ accepted[t] = stopRevision
    /\ \/ turnState[t] = "none"
       \/ /\ t \notin turnCancel
          /\ turnState[t] \in {"running", "interrupted"}
          /\ active.turn = t => turnWorker[t] = generation

\* AcquireDeferredExecutionTurn, under the controller's lock throughout.
AcquireDeferred(t) ==
    /\ t \in inflight \cap Deferred
    /\ inflight' = inflight \ {t}
    /\ IF DeferredAdmissible(t)
       THEN LET l == IF active.turn = t THEN active.lease ELSE created + 1
            IN  /\ l <= MaxLease
                /\ created' = IF active.turn = t THEN created ELSE l
                /\ active' = [turn |-> t, lease |-> l]
                /\ IF turnState[t] = "none"
                   THEN NewTurn(t, l)
                   ELSE /\ turnState' = [turnState EXCEPT ![t] = "running"]
                        /\ turnWorker' = [turnWorker EXCEPT ![t] = generation]
                        /\ UNCHANGED <<turnRevision, transcript>>
                /\ runLease' = Given(t, l)
                /\ UNCHANGED run
       ELSE /\ run' = Refused(t)
            /\ UNCHANGED <<created, active, turnState, turnWorker,
                           turnRevision, transcript, runLease>>
    /\ UNCHANGED <<scheduled, stopRevision, accepted, forwarded, turnCancel, execState,
                   controlRevision, holder, admitting, finalizing, link,
                   generation, answer, stopping, fired, local, held>>

\* The answer reaches the worker, which records the lease.
Answered(t) ==
    /\ run[t] = "asking"
    /\ runLease[t] # 0
    /\ run' = [run EXCEPT ![t] = "opening"]
    /\ Remember(runLease[t])
    /\ UNCHANGED <<rowVars, memVars, linkVars, runLease, created, held>>

-----------------------------------------------------------------------------
(* Opening a turn and starting its root                                     *)

\* A registration that misses a cancellation that arrived before it.
FiresOnRegisterLate(t) == FALSE

\* RegisterCancellation runs the context's cancellation at once when the
\* lease was cancelled before.
FiresOnRegister(t) == local.lease = runLease[t] /\ local.cancelled

\* The opening registers the context's cancellation.  A deferred root has no
\* goroutine that waits for it and registers none.
Open(t) ==
    /\ run[t] = "opening"
    /\ run' = [run EXCEPT ![t] = "submitting"]
    /\ IF t \in Deferred
       THEN UNCHANGED <<local, fired>>
       ELSE /\ local' = [local EXCEPT
                           !.registered = @ \/ local.lease = runLease[t]]
            /\ fired' = IF FiresOnRegister(t) THEN fired \cup {t} ELSE fired
    /\ UNCHANGED <<rowVars, memVars, linkVars, runLease, created, held>>

\* A root created without regard to the stops since its turn was admitted.
InitialExecStateRunning(t) == "queued"

\* inheritSessionStop: a root of a stopped turn is created paused.
InitialExecState(t) ==
    IF \/ turnRevision[t] # stopRevision
       \/ t \in turnCancel
       \/ turnState[t] = "cancelled"
    THEN "paused"
    ELSE "queued"

\* CreateExecution.  A deferred root that would be created paused is refused
\* as a whole, and its input stays unclaimed.
CreateExecution(t) ==
    /\ Up
    /\ run[t] = "submitting"
    /\ execState[t] = "none"
    /\ t \in Deferred => InitialExecState(t) = "queued"
    /\ execState' = [execState EXCEPT ![t] = InitialExecState(t)]
    /\ forwarded' = forwarded \cup ({t} \cap Deferred)
    /\ run' = [run EXCEPT ![t] = "binding"]
    /\ UNCHANGED <<scheduled, stopRevision, accepted, turnState, turnCancel,
                   turnRevision, turnWorker, controlRevision, holder,
                   transcript, memVars, linkVars, runLease, fired, local,
                   created, held>>

\* States a failed opening records: a cancelled context may be the reason.
FailedStates(t) == {"failed"} \cup (IF t \in fired THEN {"cancelled"} ELSE {})

\* A finalisation that compares only the turn.
HoldsLeaseOfTurn(t, l) == active.turn = t

\* holdLease: the controller knows exactly this lease.
HoldsLease(t, l) == active = [turn |-> t, lease |-> l]

\* finalizeFailedTurn after an opening that failed, or whose CreateExecution
\* was not heard because the context was cancelled: FinalizeTurn ends the turn
\* if it still runs.  It gives the lease back after it let go of the lock, in
\* ReleaseFinalized.
FailOpening(t) ==
    /\ Up
    /\ \/ run[t] \in {"opening", "submitting"}
       \/ run[t] = "binding" /\ t \in fired
    /\ IF HoldsLease(t, runLease[t])
       THEN /\ run' = [run EXCEPT ![t] = "finalizing"]
            /\ finalizing' = finalizing \cup {runLease[t]}
            /\ UNCHANGED local
            /\ IF turnState[t] = "running"
               THEN \E s \in FailedStates(t) :
                      /\ turnState' = [turnState EXCEPT ![t] = s]
                      /\ transcript' = [transcript EXCEPT ![t] = runLease[t]]
               ELSE UNCHANGED <<turnState, transcript>>
       ELSE /\ run' = [run EXCEPT ![t] = "done"]
            /\ local' = IF local.lease = runLease[t] THEN Unheld ELSE local
            /\ UNCHANGED <<finalizing, turnState, transcript>>
    /\ UNCHANGED <<scheduled, stopRevision, accepted, forwarded, turnCancel,
                   turnRevision, turnWorker, execState, controlRevision,
                   holder, active, admitting, linkVars, runLease, fired,
                   created, held>>

\* FinalizeTurn's deferred ReleaseTurn, and the answer to the worker.
ReleaseFinalized(l) ==
    /\ l \in finalizing
    /\ finalizing' = finalizing \ {l}
    /\ active' = IF active.lease = l THEN Free ELSE active
    /\ local' = IF local.lease = l THEN Unheld ELSE local
    /\ run' = [t \in Turn |-> IF run[t] = "finalizing" /\ runLease[t] = l
                              THEN "done" ELSE run[t]]
    /\ UNCHANGED <<rowVars, admitting, linkVars, runLease, fired, created,
                   held>>

-----------------------------------------------------------------------------
(* Restoring a turn for its root's callbacks                                *)

\* mayReuseExecutionTurnHolder: the same owner under the same control
\* revision keeps its lease, unless the turn was stopped.
mayReuse(t, rev) ==
    /\ holder[t].owner = generation
    /\ holder[t].revision = rev
    /\ t \notin turnCancel
    /\ turnState[t] # "cancelled"

\* mayAdoptInitialTurnHolder: the worker that opened the turn keeps the lease
\* it was admitted with.
mayAdopt(t) ==
    /\ active.turn = t
    /\ t \notin turnCancel
    /\ turnWorker[t] = generation

\* chooseExecutionTurnLease: the leases a restoration may end up with.  prev
\* is the holder the caller read before; 0 when it read none.
ChosenLease(t, rev, prev) ==
    IF holder[t] # NoHolder
    THEN IF mayReuse(t, rev) THEN {holder[t].lease}
         ELSE IF prev = holder[t].lease THEN {created + 1} ELSE {}
    ELSE IF mayAdopt(t) THEN {active.lease} ELSE {created + 1}

\* RestoreExecutionTurn's checks, all made under the controller's lock.
MayRestore(t, rev) ==
    /\ Up
    /\ Startable(t)
    /\ controlRevision[t] = rev
    /\ turnState[t] \notin {"completed", "failed"}
    /\ active.turn \in {t, NoTurn}

\* A restoration that leaves the stored holder as it was.
savedHolderKept(t, l, rev) ==
    IF holder[t] = NoHolder
    THEN [holder EXCEPT ![t] = [lease |-> l, owner |-> generation,
                                revision |-> rev]]
    ELSE holder

\* saveExecutionTurnLease
savedHolder(t, l, rev) ==
    [holder EXCEPT ![t] = [lease |-> l, owner |-> generation,
                           revision |-> rev]]

\* The rows and the memory after turn t was restored with lease l.
Restored(t, rev, l) ==
    /\ l <= MaxLease
    /\ created' = IF l > created THEN l ELSE created
    /\ active' = [turn |-> t, lease |-> l]
    /\ IF holder[t].lease = l /\ turnState[t] = "running" /\ active.lease = l
       THEN UNCHANGED <<holder, turnState, turnRevision, turnCancel,
                        turnWorker>>
       ELSE /\ holder' = savedHolder(t, l, rev)
            /\ turnState' = [turnState EXCEPT ![t] = "running"]
            /\ turnRevision' = [turnRevision EXCEPT ![t] = stopRevision]
            /\ turnCancel' = turnCancel \ {t}
            /\ turnWorker' = [turnWorker EXCEPT ![t] = generation]

\* bindSubmittedRoot adopts the lease the turn was opened with.
Bind(t) ==
    /\ run[t] = "binding"
    /\ MayRestore(t, 0)
    /\ runLease[t] \in ChosenLease(t, 0, 0)
    /\ Restored(t, 0, runLease[t])
    /\ Remember(runLease[t])
    /\ run' = [run EXCEPT ![t] = "scheduling"]
    /\ UNCHANGED <<scheduled, stopRevision, accepted, forwarded, execState,
                   controlRevision, transcript, admitting, finalizing,
                   linkVars, runLease, held>>

\* The restoration is refused.
BindRefused(t) ==
    /\ run[t] = "binding"
    /\ ~MayRestore(t, 0) \/ ChosenLease(t, 0, 0) = {}

\* The workflow is scheduled.  Only a plain message has a goroutine that waits
\* for the result, unless its context was cancelled while it scheduled.
Scheduled(t) ==
    /\ Up
    /\ run[t] = "scheduling"
    /\ t \notin scheduled
    /\ scheduled' = scheduled \cup {t}
    /\ \E next \in {"waiting", "done"} :
         /\ next = "waiting" => t \notin Deferred
         /\ next = "done" => t \in Deferred \cup fired
         /\ run' = [run EXCEPT ![t] = next]
    /\ UNCHANGED <<stopRevision, accepted, forwarded, turnState, turnCancel,
                   turnRevision, turnWorker, execState, controlRevision,
                   holder, transcript, memVars, linkVars, runLease, fired,
                   local, created, held>>

\* cleanupFailedSubmission: the holder could not be adopted or the workflow
\* could not be scheduled.  The lease the turn was opened with is released,
\* unless the workflow exists all the same.
SubmissionFails(t) ==
    /\ Up
    /\ \/ BindRefused(t)
       \/ run[t] = "binding" /\ t \in fired
       \/ run[t] = "scheduling"
    /\ IF t \in scheduled THEN UNCHANGED <<local, active>>
                         ELSE WorkerRelease(runLease[t])
    /\ run' = [run EXCEPT ![t] = "done"]
    /\ UNCHANGED <<rowVars, admitting, finalizing, linkVars, runLease, fired,
                   created, held>>

\* nudgeExecution: a root that may run but has no workflow is submitted again,
\* unless its own message is about to (waitingForRootBinding: the session is
\* active in this worker and the root's callbacks are not bound).
Nudge(t) ==
    /\ Up
    /\ Startable(t)
    /\ t \notin scheduled
    /\ local = Unheld \/ run[t] = "scheduling"
    /\ scheduled' = scheduled \cup {t}
    /\ UNCHANGED <<stopRevision, accepted, forwarded, turnState, turnCancel,
                   turnRevision, turnWorker, execState, controlRevision,
                   holder, transcript, memVars, linkVars, workVars, created,
                   held>>

\* The scope the worker's callbacks hold is still good.
ScopeCurrent(t) ==
    /\ local.lease = holder[t].lease
    /\ holder[t].owner = generation
    /\ holder[t].revision = controlRevision[t]

\* A root callback of the current worker restores the turn: after a resume,
\* on a replacement worker, or because its scope is out of date.  It passes
\* on the holder it read, and a stale one is refused.
RestoreExecutionTurn(t) ==
    /\ t \in scheduled
    /\ MayRestore(t, controlRevision[t])
    /\ ~ScopeCurrent(t)
    /\ answer = Free
    /\ \E l \in ChosenLease(t, controlRevision[t], holder[t].lease) :
         /\ Restored(t, controlRevision[t], l)
         /\ answer' = [turn |-> t, lease |-> l]
    /\ UNCHANGED <<scheduled, stopRevision, accepted, forwarded, execState,
                   controlRevision, transcript, admitting, finalizing, link,
                   generation, inflight, stopping, workVars, held>>

RestoreAnswered ==
    /\ answer # Free
    /\ answer' = Free
    /\ Remember(answer.lease)
    /\ UNCHANGED <<rowVars, memVars, link, generation, inflight, stopping,
                   run, runLease, created, held>>

\* A pause cancels the callback that waits for the answer.
RestoreUnheard ==
    /\ answer # Free
    /\ ~Startable(answer.turn)
    /\ answer' = Free
    /\ UNCHANGED <<rowVars, memVars, link, generation, inflight, stopping,
                   workVars, created, held>>

-----------------------------------------------------------------------------
(* Running, finishing and ending a turn                                     *)

\* An activity of the root begins.
StartRoot(t) ==
    /\ Up
    /\ t \in scheduled
    /\ execState[t] = "queued"
    /\ execState' = [execState EXCEPT ![t] = "running"]
    /\ UNCHANGED <<scheduled, stopRevision, accepted, forwarded, turnState, turnCancel,
                   turnRevision, turnWorker, controlRevision, holder,
                   transcript, memVars, linkVars, workVars, created, held>>

\* AppendCheckpoint with a lease the worker was given, possibly an old one.
AppendCheckpoint(t, l) ==
    /\ Up
    /\ l \in {runLease[t], local.lease} \ {0}
    /\ HoldsLease(t, l)
    /\ turnState[t] = "running"
    /\ transcript' = [transcript EXCEPT ![t] = l]
    /\ UNCHANGED <<scheduled, stopRevision, accepted, forwarded, turnState, turnCancel,
                   turnRevision, turnWorker, execState, controlRevision,
                   holder, memVars, linkVars, workVars, created, held>>

\* A finish that does not look at the turn.
FinishesTurnUnchecked(t) == TRUE

\* finishTurn: the turn must still be running.
FinishesTurn(t) == turnState[t] = "running"

\* The root's final activity: checkExecutionFinishHolder compares the stored
\* holder with the caller's, finishExecutionTurn the lease in memory; the
\* execution, the turn and the lease end together.
FinishExecution(t, s) ==
    /\ Up
    /\ execState[t] = "running"
    /\ local.lease # 0
    /\ ScopeCurrent(t)
    /\ HoldsLease(t, local.lease)
    /\ FinishesTurn(t)
    /\ execState' = [execState EXCEPT ![t] = s]
    /\ turnState' = [turnState EXCEPT
                       ![t] = IF @ = "running" THEN s ELSE @]
    /\ transcript' = [transcript EXCEPT ![t] = local.lease]
    /\ active' = Free
    /\ UNCHANGED <<scheduled, stopRevision, accepted, forwarded, turnCancel,
                   turnRevision, turnWorker, controlRevision, holder,
                   admitting, finalizing, linkVars, workVars, created, held>>

\* The worker projects the committed finish and releases its copy.
ProjectFinish(t) ==
    /\ execState[t] \in {"completed", "failed"}
    /\ local.lease # 0
    /\ holder[t].lease = local.lease
    /\ WorkerRelease(local.lease)
    /\ UNCHANGED <<rowVars, admitting, finalizing, linkVars, run, runLease,
                   fired, created, held>>

\* The goroutine that waits for the root reads its result.
RunReturns(t) ==
    /\ run[t] = "waiting"
    /\ execState[t] \in {"completed", "failed"}
    /\ run' = [run EXCEPT ![t] = "done"]
    /\ UNCHANGED <<rowVars, memVars, linkVars, runLease, fired, local,
                   created, held>>

\* interrupted: the wait ended because the context was cancelled.  The turn
\* is ended only when the turn row says a Stop asked for it.
Interrupted(t) ==
    /\ Up
    /\ run[t] = "waiting"
    /\ t \in fired
    /\ run' = [run EXCEPT
         ![t] = IF t \in turnCancel /\ turnState[t] \notin {"completed", "failed"}
                THEN "cancelling" ELSE "done"]
    /\ UNCHANGED <<rowVars, memVars, linkVars, runLease, fired, local,
                   created, held>>

\* failed: the root's workflow ended with an error.
WorkflowFails(t) ==
    /\ run[t] = "waiting"
    /\ t \notin fired
    /\ OpenExec(t)
    /\ run' = [run EXCEPT ![t] = "failing"]
    /\ UNCHANGED <<rowVars, memVars, linkVars, runLease, fired, local,
                   created, held>>

\* Pauses that count on past the last control revision.
RevisionsRemainUnchecked(S) == TRUE

\* changeExecutionState refuses the last control revision, and the transaction
\* fails as a whole.
RevisionsRemain(S) == \A t \in S : controlRevision[t] < MaxRevision

\* The executions of S that are not paused yet are paused.
Paused(S) ==
    LET changed == {t \in S : Startable(t)}
    IN  /\ RevisionsRemain(changed)
        /\ execState' = [t \in Turn |-> IF t \in changed THEN "paused"
                                        ELSE execState[t]]
        /\ controlRevision' = [t \in Turn |-> IF t \in changed
                                              THEN controlRevision[t] + 1
                                              ELSE controlRevision[t]]

\* Both pause the root before they end the turn.
PauseUnfinished(t) ==
    /\ Up
    /\ run[t] \in {"cancelling", "failing"}
    /\ Paused({t})
    /\ run' = [run EXCEPT ![t] = IF @ = "cancelling" THEN "endCancelled"
                                 ELSE "endFailed"]
    /\ UNCHANGED <<scheduled, stopRevision, accepted, forwarded, turnState, turnCancel,
                   turnRevision, turnWorker, holder, transcript, memVars,
                   linkVars, runLease, fired, local, created, held>>

\* An end that overwrites a turn that has ended already.
EndedStateAlways(t, s) == s

\* endRunningTurn changes only a running turn.
EndedState(t, s) == IF turnState[t] = "running" THEN s ELSE turnState[t]

\* endUnfinishedTurn, first call: EndRunningTurn, which takes no lease.
EndRunningTurn(t) ==
    /\ Up
    /\ run[t] \in {"endCancelled", "endFailed"}
    /\ turnState' = [turnState EXCEPT
         ![t] = EndedState(t, IF run[t] = "endFailed" THEN "failed"
                              ELSE "cancelled")]
    /\ run' = [run EXCEPT ![t] = "releasing"]
    /\ UNCHANGED <<scheduled, stopRevision, accepted, forwarded, turnCancel,
                   turnRevision, turnWorker, execState, controlRevision,
                   holder, transcript, memVars, linkVars, runLease, fired,
                   local, created, held>>

\* endUnfinishedTurn, second call: ReleaseTurn.
ReleaseUnfinished(t) ==
    /\ Up
    /\ run[t] = "releasing"
    /\ WorkerRelease(runLease[t])
    /\ run' = [run EXCEPT ![t] = "done"]
    /\ UNCHANGED <<rowVars, admitting, finalizing, linkVars, runLease, fired,
                   created, held>>

-----------------------------------------------------------------------------
(* Stop, resume, and the cancel command                                     *)

\* The turn a Stop finds running in the session.
StoppedTurns == {t \in Turn : active.turn = t /\ turnState[t] = "running"}

\* Turns that a Stop ought to keep down until somebody resumes them.
Stoppable ==
    {t \in Turn : \/ turnState[t] \in {"running", "interrupted", "cancelled"}
                  \/ t \in Deferred \ forwarded /\ accepted[t] # -1}

\* Store.Cancel, one transaction under the controller's lock.
Cancel ==
    /\ stopRevision < MaxStop
    /\ stopRevision' = stopRevision + 1
    /\ Paused({t \in Turn : OpenExec(t)})
    /\ turnCancel' = turnCancel \cup StoppedTurns
    /\ held' = held \cup Stoppable

\* The Stop endpoint records the stop and then sends the cancel command.
Stop ==
    /\ stopping.at = "no"
    /\ Cancel
    /\ stopping' = IF Up THEN StopAt("sent") ELSE stopping
    /\ UNCHANGED <<scheduled, accepted, forwarded, turnState, turnRevision, turnWorker,
                   holder, transcript, memVars, link, generation, inflight,
                   answer, workVars, created>>

\* Contexts the cancel command ends: those of the messages being prepared
\* (AdmissionGate.CancelPending) and the one registered with the lease.
CancelledContexts ==
    Registered \cup {t \in Turn : run[t] \in Preparing}

\* The worker reads the command: RequestLocalCancellation and CancelPending.
\* A message that waits for the answer to its admission stops waiting.
ReadCancel ==
    /\ stopping.at = "sent"
    /\ stopping' = StopAt("cancel")
    /\ fired' = fired \cup CancelledContexts
    /\ local' = [local EXCEPT !.cancelled = @ \/ local.lease # 0]
    /\ run' = [t \in Turn |-> IF run[t] = "asking" THEN "done" ELSE run[t]]
    /\ UNCHANGED <<rowVars, memVars, link, generation, inflight, answer,
                   runLease, created, held>>

\* The worker's runtime records the stop once more through its own store,
\* which cancels the local lease again.
CancelFromWorker ==
    /\ stopping.at = "cancel"
    /\ Cancel
    /\ stopping' = StopAt("pause")
    /\ fired' = fired \cup Registered
    /\ local' = [local EXCEPT !.cancelled = @ \/ local.lease # 0]
    /\ UNCHANGED <<scheduled, accepted, forwarded, turnState, turnRevision, turnWorker,
                   holder, transcript, memVars, link, generation, inflight,
                   answer, run, runLease, created>>

\* PauseSessionWorkflows lists the unfinished roots and goes on to each.
PauseSessionWorkflows ==
    /\ stopping.at = "pause"
    /\ stopping' = Pausing({t \in Turn : OpenExec(t)})
    /\ UNCHANGED <<rowVars, memVars, link, generation, inflight, answer,
                   workVars, created, held>>

\* pauseExecution: a root that ended since is refused and passed over.
PauseListed(t) ==
    /\ stopping.at = "pausing" /\ t \in stopping.left
    /\ IF OpenExec(t)
          THEN Paused({t}) /\ stopping' = [stopping EXCEPT !.at = "retiring",
                                                        !.root = t]
          ELSE /\ stopping' = Pausing(stopping.left \ {t})
               /\ UNCHANGED <<execState, controlRevision>>
    /\ UNCHANGED <<scheduled, stopRevision, accepted, forwarded, turnState,
                   turnCancel, turnRevision, turnWorker, holder, transcript,
                   memVars, link, generation, inflight, answer, workVars,
                   created, held>>

\* retirePaused: the lease that this worker's callbacks hold is released,
\* unless the root was resumed since.
RetirePaused(t) ==
    /\ stopping.at = "retiring" /\ t = stopping.root
    /\ stopping' = Pausing(stopping.left \ {t})
    /\ IF execState[t] = "paused" /\ holder[t].owner = generation
          THEN WorkerRelease(holder[t].lease)
          ELSE UNCHANGED <<local, active>>
    /\ UNCHANGED <<rowVars, admitting, finalizing, link, generation, inflight,
                   answer, run, runLease, fired, created, held>>

\* Somebody resumes a paused root.
ResumeExecution(t) ==
    /\ execState[t] = "paused"
    /\ RevisionsRemain({t})
    /\ execState' = [execState EXCEPT ![t] = "running"]
    /\ controlRevision' = [controlRevision EXCEPT ![t] = @ + 1]
    /\ held' = held \ {t}
    /\ UNCHANGED <<scheduled, stopRevision, accepted, forwarded, turnState, turnCancel,
                   turnRevision, turnWorker, holder, transcript, memVars,
                   linkVars, workVars, created>>

\* Somebody resumes deferred input that a Stop holds back: the message gets
\* the current StopRevision, and a turn it already has is reopened.
ResumeDeferred(t) ==
    /\ t \in Deferred \ forwarded
    /\ accepted[t] # -1
    /\ turnState[t] # "completed"
    /\ accepted' = [accepted EXCEPT ![t] = stopRevision]
    /\ IF turnState[t] = "none"
       THEN UNCHANGED <<turnState, turnCancel, turnRevision>>
       ELSE /\ turnState' = [turnState EXCEPT ![t] = "interrupted"]
            /\ turnCancel' = turnCancel \ {t}
            /\ turnRevision' = [turnRevision EXCEPT ![t] = stopRevision]
    /\ held' = held \ {t}
    /\ UNCHANGED <<scheduled, stopRevision, forwarded, turnWorker, execState,
                   controlRevision, holder, transcript, memVars, linkVars,
                   workVars, created>>

-----------------------------------------------------------------------------
(* Lost workers and controller restarts                                     *)

\* The worker's memory and everything on its connection is gone.
WorkerGone ==
    /\ run' = [t \in Turn |-> IF run[t] = "idle" THEN "idle" ELSE "done"]
    /\ runLease' = [t \in Turn |-> 0]
    /\ fired' = {}
    /\ local' = Unheld
    /\ inflight' = {}
    /\ answer' = Free
    /\ stopping' = StopAt("no")

Disconnect ==
    /\ Up
    /\ link' = "down"
    /\ WorkerGone
    /\ UNCHANGED <<rowVars, memVars, generation, created, held>>

\* A recovery that ends the turns of every generation but this one.
LostTurnsOfOthers ==
    {t \in Turn : turnState[t] = "running" /\ turnWorker[t] # generation}

\* The turns RecoverWorkerTurns ends.
LostTurns ==
    {t \in Turn : turnState[t] = "running" /\ turnWorker[t] = generation}

Interrupt(S) ==
    turnState' = [t \in Turn |-> IF t \in S THEN "interrupted"
                                 ELSE turnState[t]]

\* RecoverWorkerTurns: the lost worker's running turns are interrupted and
\* the lease is dropped when it belongs to one of them.
RecoverWorkerTurns ==
    /\ link = "down"
    /\ link' = "recovered"
    /\ Interrupt(LostTurns)
    /\ active' = IF active.turn \in LostTurns THEN Free ELSE active
    /\ UNCHANGED <<scheduled, stopRevision, accepted, forwarded, turnCancel,
                   turnRevision, turnWorker, execState, controlRevision,
                   holder, transcript, admitting, finalizing, generation,
                   inflight, answer, stopping, workVars, created, held>>

\* PauseUnfinishedExecutions, unless work resumes after a crash.  The option
\* ResumeAfterCrash decides, which the model leaves open.
CrashPaused ==
    \/ UNCHANGED <<execState, controlRevision>>
    \/ Paused({t \in Turn : execState[t] = "running"})

\* The disconnected worker is settled and its generation recorded as failed.
SettleDisconnected ==
    /\ link = "recovered"
    /\ link' = "settled"
    /\ CrashPaused
    /\ UNCHANGED <<scheduled, stopRevision, accepted, forwarded, turnState, turnCancel,
                   turnRevision, turnWorker, holder, transcript, memVars,
                   generation, inflight, answer, stopping, workVars, created,
                   held>>

\* The next message starts a new worker generation.
StartWorker ==
    /\ link = "settled"
    /\ generation < MaxGeneration
    /\ generation' = generation + 1
    /\ link' = "up"
    /\ UNCHANGED <<rowVars, memVars, inflight, answer, stopping, workVars,
                   created, held>>

\* The controller process dies and starts again: its memory is gone, its
\* workers are reaped, RecoverInterrupted ends every running turn.
RestartController ==
    /\ link' = "settled"
    /\ active' = Free
    /\ admitting' = NoTurn
    /\ finalizing' = {}
    /\ WorkerGone
    /\ Interrupt({t \in Turn : turnState[t] = "running"})
    /\ CrashPaused
    /\ UNCHANGED <<scheduled, stopRevision, accepted, forwarded, turnCancel,
                   turnRevision, turnWorker, holder, transcript, generation,
                   created, held>>

-----------------------------------------------------------------------------
AdmissionNext ==
    \E t \in Turn :
       \/ Accept(t) \/ Ask(t) \/ Reserve(t) \/ Admit(t) \/ AdmitRefused(t)
       \/ AcquireDeferred(t) \/ Answered(t)

OpeningNext ==
    \/ \E t \in Turn :
         \/ Open(t) \/ CreateExecution(t) \/ FailOpening(t) \/ Bind(t)
         \/ Scheduled(t) \/ SubmissionFails(t) \/ Nudge(t)
         \/ RestoreExecutionTurn(t)
    \/ \E l \in Lease : ReleaseFinalized(l)
    \/ RestoreAnswered
    \/ RestoreUnheard

RunningNext ==
    \E t \in Turn :
       \/ StartRoot(t) \/ ProjectFinish(t) \/ RunReturns(t) \/ Interrupted(t)
       \/ WorkflowFails(t) \/ PauseUnfinished(t) \/ EndRunningTurn(t)
       \/ ReleaseUnfinished(t)
       \/ \E l \in Lease : AppendCheckpoint(t, l)
       \/ \E s \in {"completed", "failed"} : FinishExecution(t, s)

ControlNext ==
    \/ Stop \/ ReadCancel \/ CancelFromWorker \/ PauseSessionWorkflows
    \/ Disconnect \/ RecoverWorkerTurns \/ SettleDisconnected \/ StartWorker
    \/ RestartController
    \/ \E t \in Turn : \/ PauseListed(t) \/ RetirePaused(t)
                       \/ ResumeExecution(t) \/ ResumeDeferred(t)

Next == AdmissionNext \/ OpeningNext \/ RunningNext \/ ControlNext

Spec == Init /\ [][Next]_vars

-----------------------------------------------------------------------------
(* Properties                                                               *)

TypeOK ==
    /\ stopRevision \in 0..MaxStop
    /\ accepted \in [Turn -> -1..MaxStop]
    /\ forwarded \subseteq Deferred
    /\ turnState \in [Turn -> TurnState]
    /\ turnCancel \subseteq Turn
    /\ turnRevision \in [Turn -> 0..MaxStop]
    /\ turnWorker \in [Turn -> 0..MaxGeneration]
    /\ execState \in [Turn -> ExecState]
    /\ controlRevision \in [Turn -> 0..MaxRevision]
    /\ holder \in [Turn -> [lease : 0..MaxLease, owner : 0..MaxGeneration,
                            revision : 0..MaxRevision]]
    /\ transcript \in [Turn -> 0..MaxLease]
    /\ scheduled \subseteq Turn
    /\ active \in [turn : Turn \cup {NoTurn}, lease : 0..MaxLease]
    /\ active.turn = NoTurn <=> active.lease = 0
    /\ admitting \in Turn \cup {NoTurn}
    /\ finalizing \subseteq Lease
    /\ link \in {"up", "down", "recovered", "settled"}
    /\ generation \in 1..MaxGeneration
    /\ inflight \subseteq Turn
    /\ answer \in [turn : Turn \cup {NoTurn}, lease : 0..MaxLease]
    /\ stopping \in [at : {"no", "sent", "cancel", "pause", "pausing",
                           "retiring"},
                     left : SUBSET Turn, root : Turn \cup {NoTurn}]
    /\ run \in [Turn -> RunState]
    /\ runLease \in [Turn -> 0..MaxLease]
    /\ fired \subseteq Turn
    /\ local \in [lease : 0..MaxLease, registered : BOOLEAN,
                  cancelled : BOOLEAN]
    /\ created \in 0..MaxLease
    /\ held \subseteq Turn

\* The lease in the controller's memory and the durable holder of the same
\* turn are the same lease: a restoration saves the row before it replaces the
\* lease in memory, and no admission reopens a turn that has a holder.
ActiveIsStoredHolder ==
    \A t \in Turn :
       active.turn = t /\ holder[t] # NoHolder => active.lease = holder[t].lease

\* A message that binds the root it just created is always given back the
\* lease it opened its turn with: the "submitted root lease changed" error of
\* bindSubmittedRoot cannot happen, whatever Stop, resume or recovery does
\* between the two calls.
BindAdoptsOwnLease ==
    \A t \in Turn :
       run[t] = "binding" /\ MayRestore(t, 0)
          => ChosenLease(t, 0, 0) = {runLease[t]}

\* While a Stop holds a turn, the turn's root cannot run: it is paused, ended,
\* or not created, even if it is created after the Stop.
StopHolds == \A t \in held : ~Startable(t)

\* While a Stop holds a turn that is not running, nothing sets it running
\* again: neither a root callback's restoration nor a deferred admission.
StoppedTurnsStayDown ==
    [][\A t \in held : turnState[t] # "running" => turnState'[t] # "running"]_vars

\* A cancellation of the lease a worker holds reaches the goroutine that was
\* given that lease, whether it came before RegisterCancellation or after, and
\* whether the message or the Stop was first.
CancelReachesHolder ==
    \A t \in Turn \ Deferred :
       /\ run[t] \in {"submitting", "binding", "scheduling", "waiting"}
       /\ local.lease = runLease[t]
       /\ local.cancelled
       => t \in fired

\* Transcripts are written in lease order: once a newer lease has written to
\* a turn, an older one, which its worker may still hold, never does again.
WritesInLeaseOrder ==
    [][\A t \in Turn : transcript'[t] >= transcript[t]]_vars

\* A root and its turn end alike: a root is completed exactly when its turn
\* is, and a failed root leaves a failed turn, although Stop, an unfinished
\* turn's end and a lost worker end turns without the root's finish.
RootAndTurnEndAlike ==
    \A t \in Turn :
       /\ execState[t] = "completed" <=> turnState[t] = "completed"
       /\ execState[t] = "failed" => turnState[t] = "failed"

\* A running turn belongs to the current worker generation: none is left
\* behind when a lost worker's turns have been recovered, or when the
\* controller has restarted.
RunningTurnIsOwned ==
    \A t \in Turn :
       turnState[t] = "running" =>
          turnWorker[t] = generation /\ link \in {"up", "down"}

\* A completed turn stays completed, and a failed one stays failed unless
\* deferred input that no root has taken is resumed.
EndedTurnsStay ==
    [][\A t \in Turn :
          /\ turnState[t] = "completed" => turnState'[t] = "completed"
          /\ turnState[t] = "failed" =>
                turnState'[t] = "failed" \/ t \in Deferred \ forwarded]_vars

\* Nobody works for the session: its worker is connected, no call or command
\* is in flight, no message is being served and no root can take a step.
Quiet ==
    /\ Up
    /\ stopping.at = "no"
    /\ inflight = {}
    /\ admitting = NoTurn
    /\ finalizing = {}
    /\ answer = Free
    /\ \A t \in Turn : run[t] \in {"idle", "done"} /\ ~Startable(t)

\* A Stop releases the session's turn, so that another request can start new
\* work: when nobody works for the session any more, no turn owns it.
StopFreesSession == Quiet => active = Free

\* The turns a lost worker held are over once it is settled, and with them
\* its lease.
LostWorkerFreesSession ==
    link = "settled" /\ admitting = NoTurn /\ finalizing = {} => active = Free
=============================================================================
