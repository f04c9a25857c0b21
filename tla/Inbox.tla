------------------------------- MODULE Inbox -------------------------------
(***************************************************************************)
(* Messages sent to a root turn that is already running: the admission of  *)
(* the caller, the durable inbox of the root's execution, the live queue   *)
(* the session's worker keeps over it, and the workflow loop that reads    *)
(* the inbox before each model round and may complete only when it is      *)
(* empty.  Pauses, Stops, resumes and worker crashes come at any point.    *)
(*                                                                         *)
(* A live queue is named by the turn lease it was built with.  The turn a  *)
(* message starts by itself, after this one ended, is outside the model.   *)
(***************************************************************************)
EXTENDS Naturals, FiniteSets, Sequences, SequencesExt, Functions

CONSTANTS
    Request,      \* the messages, named by their request IDs
    Slots,        \* Slots[r]: the message and the skill parts that follow it
    Capacity,     \* MaxQueuedUserMessages
    MaxRounds,    \* the round budget of the execution
    MaxSends,     \* bound: calls made by clients
    MaxPauses,    \* bound: pauses, Stops included
    MaxCrashes    \* bound: worker crashes

ASSUME InboxAssumption ==
    /\ Slots \in [Request -> Nat \ {0}]
    /\ MaxRounds \in Nat \ {0}

VARIABLES
    \* the session database
    exec,         \* state of the execution
    rev,          \* its control revision
    stops,        \* stop revision of the session
    inbox,        \* the rows, in sequence order
    by,           \* by[r]: the round whose model step delivered r, or Queued
    said,         \* the queued messages in the transcript, in order
    loop,         \* the workflow: its round and the step it is at
    ids,          \* inboxIds of the saved model input
    holder,       \* the stored turn holder: its lease and revision
    \* the controller's memory
    active,       \* the turn lease it honours, NoLease for none
    \* the worker's memory
    scope,        \* the shared root callback scope: its lease and revision
    queue,        \* queue[l]: the live queue bound under lease l
    registered,   \* the queue in userMessageQueues, NoLease for none
    attempt,      \* what the running activity attempt has done so far
    retiring,     \* a Stop command has yet to release the paused root
    call,         \* the client call that holds the admission gate
    \* clients
    sent,         \* sent[r]: what the client of r was told
    sends, pauses, crashes    \* counters for the bounds

rowVars == <<inbox, by, said>>
loopVars == <<loop, ids>>
controlVars == <<exec, rev, stops>>
leaseVars == <<holder, active>>
workerVars == <<scope, queue, registered, attempt, retiring>>
clientVars == <<call, sent, sends>>
boundVars == <<pauses, crashes>>
vars == <<rowVars, loopVars, controlVars, leaseVars, workerVars, clientVars,
          boundVars>>

Queued == MaxRounds
NoLease == 0
NoScope == [lease |-> NoLease, rev |-> 0]
NoCall == [at |-> "none"]
Leases == 1 .. 1 + MaxPauses + MaxCrashes
NoQueue == [pending |-> {}, closed |-> TRUE, retired |-> TRUE, stops |-> 0]

QueuedRows == SelectSeq(inbox, LAMBDA r : by[r] = Queued)
IsQueued(r) == r \in Range(inbox) /\ by[r] = Queued

\* QueuedSlots: the room the undelivered messages take.
QueuedSlots == FoldSeq(LAMBDA r, n : Slots[r] + n, 0, QueuedRows)

\* readPendingWorkflowInbox and newActiveUserMessageQueue: the queue of a
\* restored turn knows the rows that wait and the Stop it was built after.
BoundQueue ==
    [pending |-> Range(QueuedRows), closed |-> FALSE, retired |-> FALSE,
     stops |-> stops]

Init ==
    /\ exec = "running" /\ rev = 0 /\ stops = 0
    /\ inbox = <<>> /\ by = [r \in Request |-> Queued] /\ said = <<>>
    /\ loop = [round |-> 0, at |-> "prepare"] /\ ids = <<>>
    /\ holder = [lease |-> 1, rev |-> 0, mine |-> TRUE] /\ active = 1
    /\ scope = [lease |-> 1, rev |-> 0]
    /\ queue = [l \in Leases |-> IF l = 1 THEN BoundQueue ELSE NoQueue]
    /\ registered = 1
    /\ attempt = "none" /\ retiring = FALSE
    /\ call = NoCall /\ sent = [r \in Request |-> "new"]
    /\ sends = 0 /\ pauses = 0 /\ crashes = 0

-----------------------------------------------------------------------------
(* A client sends a message: RunTurn up to its answer                       *)

Answer(r, what) ==
    /\ call' = NoCall
    /\ sent' = [sent EXCEPT ![r] = what]
    /\ UNCHANGED sends

\* admitRequest: the call reads the stop revision and holds the session's
\* admission gate until it is answered.  A client that never heard the answer
\* may repeat the request.
Send(r) ==
    /\ call = NoCall
    /\ sent[r] \in {"new", "unheard"}
    /\ sends < MaxSends
    /\ sends' = sends + 1
    /\ call' = [at |-> "lookup", req |-> r, q |-> NoLease, stops |-> stops,
                cancelled |-> FALSE]
    /\ sent' = [sent EXCEPT ![r] = "calling"]
    /\ UNCHANGED <<rowVars, loopVars, controlVars, leaseVars, workerVars,
                   boundVars>>

\* The caller goes away, which cancels its context.
CancelCall ==
    /\ call # NoCall /\ ~call.cancelled
    /\ call' = [call EXCEPT !.cancelled = TRUE]
    /\ UNCHANGED <<rowVars, loopVars, controlVars, leaseVars, workerVars,
                   sent, sends, boundVars>>

\* A queue built before or after the Stop the call knows of is not joined.
MayJoin == queue[registered].stops = call.stops

\* admitUserMessageQueue, and the attempt to start a turn of its own when no
\* queue is registered: the session must be free and the Stop not newer.
Lookup ==
    /\ call.at = "lookup"
    /\ \/ /\ call.cancelled
          /\ Answer(call.req, "refused")
       \/ /\ ~call.cancelled /\ registered = NoLease
          /\ Answer(call.req, IF active = NoLease /\ call.stops = stops
                              THEN "ownTurn" ELSE "refused")
       \/ /\ ~call.cancelled /\ registered # NoLease
          /\ call' = [call EXCEPT !.q = registered,
                        !.at = IF MayJoin THEN "enqueue" ELSE "await"]
          /\ UNCHANGED <<sent, sends>>
    /\ UNCHANGED <<rowVars, loopVars, controlVars, leaseVars, workerVars,
                   boundVars>>

\* The wait for the queue's retirement, and the next lookup.
AwaitRetired ==
    /\ call.at = "await"
    /\ \/ /\ call.cancelled
          /\ Answer(call.req, "refused")
       \/ /\ queue[call.q].retired
          /\ call' = [call EXCEPT !.at = "lookup"]
          /\ UNCHANGED <<sent, sends>>
    /\ UNCHANGED <<rowVars, loopVars, controlVars, leaseVars, workerVars,
                   boundVars>>

\* holdLease and the checks of AcceptExecutionMessage for a new request.
MayInsert(r) ==
    /\ active = call.q
    /\ exec = "running"
    /\ call.stops = stops
    /\ QueuedSlots + Slots[r] <= Capacity

\* The insertion of the row: the next sequence number.
Insert(r) ==
    /\ inbox' = Append(inbox, r)
    /\ UNCHANGED <<by, said>>

\* acceptWorkflowMessage refused because its turn is over: the queue is
\* closed, or the controller no longer honours the queue's lease.
TurnEnded == queue[call.q].closed \/ active # call.q

\* acceptWorkflowMessage, under the queue's lock.  A repeated request finds
\* its row, and its receipt has no events.
Enqueue ==
    /\ call.at = "enqueue"
    /\ LET r == call.req
       IN  \/ /\ TurnEnded
              /\ call' = [call EXCEPT !.at = "await"]
              /\ UNCHANGED <<rowVars, queue, sent, sends>>
           \/ /\ ~TurnEnded /\ r \in Range(inbox)
              /\ call' = [call EXCEPT !.at = "project"]
              /\ UNCHANGED <<rowVars, queue, sent, sends>>
           \/ /\ ~TurnEnded /\ r \notin Range(inbox) /\ MayInsert(r)
              /\ Insert(r)
              /\ queue' = [queue EXCEPT ![call.q].pending = @ \cup {r}]
              /\ call' = [call EXCEPT !.at = "project"]
              /\ UNCHANGED <<sent, sends>>
           \/ /\ ~TurnEnded /\ r \notin Range(inbox) /\ ~MayInsert(r)
              /\ Answer(r, "refused")
              /\ UNCHANGED <<rowVars, queue>>
    /\ UNCHANGED <<loopVars, controlVars, leaseVars, scope, registered,
                   attempt, retiring, boundVars>>

\* The same call cancelled while the controller works on it: the row may be
\* there, and neither the queue nor the client learns of it.
EnqueueUnheard ==
    /\ call.at = "enqueue" /\ call.cancelled
    /\ IF ~TurnEnded /\ call.req \notin Range(inbox) /\ MayInsert(call.req)
       THEN Insert(call.req)
       ELSE UNCHANGED rowVars
    /\ Answer(call.req, "unheard")
    /\ UNCHANGED <<loopVars, controlVars, leaseVars, workerVars, boundVars>>

\* projectStoredInbox: a transcript that waits to be saved is saved under the
\* queue's lease, then the sinks hear of the message.  An error counts as the
\* end of the turn when the lease was the reason or the queue is closed.
Project ==
    /\ call.at = "project"
    /\ \/ Answer(call.req, "queued")
       \/ /\ active # call.q \/ queue[call.q].closed
          /\ call' = [call EXCEPT !.at = "await"]
          /\ UNCHANGED <<sent, sends>>
       \/ /\ ~queue[call.q].closed
          /\ Answer(call.req, "unheard")
    /\ UNCHANGED <<rowVars, loopVars, controlVars, leaseVars, workerVars,
                   boundVars>>

-----------------------------------------------------------------------------
(* The shared callback scope and its queue                                  *)

\* reusable, and the checks acquire repeats: the scope holds the stored lease
\* under the current control revision.
ScopeIsCurrent ==
    /\ scope.lease = holder.lease
    /\ scope.rev = holder.rev
    /\ scope.rev = rev

\* A callback may start: no other one of the execution runs.
MayStart == exec = "running" /\ attempt = "none" /\ ScopeIsCurrent

\* RestoreExecutionTurn keeps the lease of its own holder under the same
\* revision.  The restored turn gets a queue nobody can find yet.
RestoreTurn ==
    /\ exec = "running" /\ attempt = "none" /\ ~ScopeIsCurrent
    /\ loop.at # "inspect"
    /\ LET l == IF holder.mine /\ holder.rev = rev
                THEN holder.lease ELSE holder.lease + 1
       IN  /\ holder' = [lease |-> l, rev |-> rev, mine |-> TRUE]
           /\ active' = l
           /\ queue' = [queue EXCEPT ![l] =
                [pending |-> {}, closed |-> FALSE, retired |-> FALSE,
                 stops |-> stops]]
    /\ attempt' = "restoring"
    /\ UNCHANGED <<rowVars, loopVars, controlVars, scope, registered,
                   retiring, clientVars, boundVars>>

\* readPendingWorkflowInbox: every row that waits.
Hydrated == Range(QueuedRows)

\* previous.close() and previous.retire()
Gone(q) == [q EXCEPT !.closed = TRUE, !.retired = TRUE]

\* bindRootWorkflowInbox: the queue learns what waits, takes the place of the
\* previous one and retires it.
Bind ==
    /\ attempt = "restoring"
    /\ queue' = [l \in Leases |->
         IF l = holder.lease THEN [queue[l] EXCEPT !.pending = Hydrated]
         ELSE IF l = registered THEN Gone(queue[l])
         ELSE queue[l]]
    /\ registered' = holder.lease
    /\ scope' = [lease |-> holder.lease, rev |-> holder.rev]
    /\ attempt' = "none"
    /\ UNCHANGED <<rowVars, loopVars, controlVars, leaseVars, retiring,
                   clientVars, boundVars>>

\* A pause cancels the restoration: the lease is stored, the scope is not.
RestoreCut ==
    /\ attempt = "restoring" /\ exec = "paused"
    /\ attempt' = "none"
    /\ UNCHANGED <<rowVars, loopVars, controlVars, leaseVars, scope, queue,
                   registered, retiring, clientVars, boundVars>>

\* closeActiveUserMessageQueue leaving the waiters alone.
ClosedUnretired ==
    [queue EXCEPT ![scope.lease].closed = TRUE]

\* closeActiveUserMessageQueue on the scope's queue.
Closed == [queue EXCEPT ![scope.lease] = Gone(@)]

CloseQueue ==
    /\ queue' = Closed
    /\ registered' = IF registered = scope.lease THEN NoLease ELSE registered
    /\ scope' = NoScope

\* retirePaused, once no callback runs: the lease is released and the queue
\* closed, unless the root runs again or a newer holder was stored.
RetirePaused ==
    /\ retiring /\ attempt = "none"
    /\ retiring' = FALSE
    /\ \/ /\ exec = "paused" /\ scope # NoScope
          /\ scope.lease = holder.lease
          /\ active' = IF active = holder.lease THEN NoLease ELSE active
          /\ CloseQueue
       \/ /\ exec = "paused" /\ scope = NoScope
          /\ active' = IF holder.mine /\ active = holder.lease
                       THEN NoLease ELSE active
          /\ UNCHANGED <<scope, queue, registered>>
       \/ /\ exec # "paused" \/ (scope # NoScope /\ scope.lease # holder.lease)
          /\ UNCHANGED <<active, scope, queue, registered>>
    /\ UNCHANGED <<rowVars, loopVars, controlVars, holder, attempt,
                   clientVars, boundVars>>

-----------------------------------------------------------------------------
(* The workflow loop                                                        *)

\* What arrival() counts in the queue of the running callbacks.
Arrived == queue[scope.lease].pending # {}

\* The loop never runs out of rounds.
NextRoundUnbounded == [round |-> loop.round + 1, at |-> "prepare"]

\* The loop goes on with its next round, or fails when none is left.
NextRound ==
    IF loop.round + 1 < MaxRounds
    THEN [round |-> loop.round + 1, at |-> "prepare"]
    ELSE [loop EXCEPT !.at = "fail"]

\* prepareRootWorkflowInbox: the rows that wait, in sequence order.
Prepared == QueuedRows

\* refreshQueue: a callback that reads the context again also reads which
\* rows wait.
Refreshed == [queue EXCEPT ![scope.lease].pending = Hydrated]

\* The preparation of a round, saved as the input of its model step.
PrepareRound ==
    /\ loop.at = "prepare" /\ MayStart
    /\ ids' = Prepared
    /\ queue' = Refreshed
    /\ loop' = [loop EXCEPT !.at = "model"]
    /\ UNCHANGED <<rowVars, controlVars, leaseVars, scope, registered,
                   attempt, retiring, clientVars, boundVars>>

StartModel ==
    /\ loop.at = "model" /\ MayStart
    /\ attempt' = "model"
    /\ queue' = Refreshed
    /\ UNCHANGED <<rowVars, loopVars, controlVars, leaseVars, scope,
                   registered, retiring, clientVars, boundVars>>

\* deliverInboxRow that does not look at the row's state.
NewlyDeliveredAll == ids

\* deliverInboxRow: a row this step has delivered before is skipped.
NewlyDelivered == SelectSeq(ids, LAMBDA r : by[r] = Queued)

\* deliverInboxRow refuses a row that another step has delivered.
DeliveryConflicts == \E r \in Range(ids) : by[r] \notin {Queued, loop.round}

\* markWorkflowInboxDelivered
Marked == Range(ids)

\* deliverRootWorkflowInbox: rows and transcript change in one transaction,
\* then the queue forgets the messages.
DeliverMessages ==
    /\ attempt = "model"
    /\ ids # <<>> => exec = "running" /\ active = scope.lease
    /\ ~DeliveryConflicts
    /\ by' = [r \in Request |->
         IF r \in Range(ids) THEN loop.round ELSE by[r]]
    /\ said' = said \o NewlyDelivered
    /\ queue' = [queue EXCEPT ![scope.lease].pending = @ \ Marked]
    /\ attempt' = "delivered"
    /\ UNCHANGED <<inbox, loopVars, controlVars, leaseVars, scope,
                   registered, retiring, clientVars, boundVars>>

\* The model answers, and the result says whether messages have arrived.  A
\* result is saved even when a pause came first.
ModelAnswers(calls) ==
    /\ attempt = "delivered"
    /\ loop' = IF ~calls /\ ~Arrived THEN [loop EXCEPT !.at = "hooks"]
               ELSE IF loop.round = MaxRounds - 1
               THEN [loop EXCEPT !.at = "fail"]
               ELSE [loop EXCEPT !.at = "tools"]
    /\ attempt' = "none"
    /\ UNCHANGED <<rowVars, ids, controlVars, leaseVars, scope, queue,
                   registered, retiring, clientVars, boundVars>>

\* A model step that failed, its retries used up, fails the workflow; one
\* that a pause interrupted is claimed again after the resume.
ModelFails ==
    /\ attempt \in {"model", "delivered"}
    /\ attempt' = "none"
    /\ loop' = IF exec = "running" THEN [loop EXCEPT !.at = "fail"] ELSE loop
    /\ UNCHANGED <<rowVars, ids, controlVars, leaseVars, scope, queue,
                   registered, retiring, clientVars, boundVars>>

\* The tools of the round, if it called any, and its end.
RunTools ==
    /\ loop.at = "tools" /\ MayStart
    /\ loop' \in {NextRound, [loop EXCEPT !.at = "fail"]}
    /\ UNCHANGED <<rowVars, ids, controlVars, leaseVars, workerVars,
                   clientVars, boundVars>>

\* terminalHooks: messages that wait come first.
StartHooks ==
    /\ loop.at = "hooks" /\ MayStart
    /\ queue' = Refreshed
    /\ IF Hydrated # {}
       THEN loop' = NextRound /\ UNCHANGED attempt
       ELSE attempt' = "hook" /\ UNCHANGED loop
    /\ UNCHANGED <<rowVars, ids, controlVars, leaseVars, scope, registered,
                   retiring, clientVars, boundVars>>

\* The hooks ran, or failed and are settled as failed; interrupted by a pause
\* nobody knows what they did.
EndHooks ==
    /\ attempt = "hook"
    /\ attempt' = "none"
    /\ \/ loop' = [loop EXCEPT !.at = "finish"]
       \/ exec = "paused" /\ loop' = [loop EXCEPT !.at = "inspect"]
    /\ UNCHANGED <<rowVars, ids, controlVars, leaseVars, scope, queue,
                   registered, retiring, clientVars, boundVars>>

\* ResolveExecutionActivity: an inspection accepts the step or repeats it.
InspectHooks ==
    /\ loop.at = "inspect"
    /\ \E next \in {"hooks", "finish"} : loop' = [loop EXCEPT !.at = next]
    /\ UNCHANGED <<rowVars, ids, controlVars, leaseVars, workerVars,
                   clientVars, boundVars>>

\* A completion that trusts the queue instead of the table.
InboxSettledInQueue == ~Arrived

\* requireSettledExecutionInbox
InboxSettled == ~\E r \in Request : IsQueued(r)

\* The final step: the turn completes if no row waits and gives its lease
\* back in the same breath, and goes on otherwise.
FinishExecution ==
    /\ loop.at = "finish" /\ MayStart
    /\ IF InboxSettled
       THEN /\ exec' = "completed"
            /\ active' = NoLease
            /\ loop' = [loop EXCEPT !.at = "ended"]
       ELSE /\ loop' = NextRound
            /\ UNCHANGED <<exec, active>>
    /\ UNCHANGED <<rowVars, ids, rev, stops, holder, workerVars, clientVars,
                   boundVars>>

\* finishFailedWorkflow: what waits stays in the table.
FinishFailed ==
    /\ loop.at = "fail" /\ MayStart
    /\ exec' = "failed"
    /\ active' = NoLease
    /\ loop' = [loop EXCEPT !.at = "ended"]
    /\ UNCHANGED <<rowVars, ids, rev, stops, holder, workerVars, clientVars,
                   boundVars>>

\* afterFinish: retireFinishedScope
AfterFinish ==
    /\ loop.at = "ended" /\ scope # NoScope
    /\ CloseQueue
    /\ UNCHANGED <<rowVars, loopVars, controlVars, leaseVars, attempt,
                   retiring, clientVars, boundVars>>

-----------------------------------------------------------------------------
(* Control and faults                                                       *)

Pause ==
    IF exec = "running"
    THEN exec' = "paused" /\ rev' = rev + 1
    ELSE UNCHANGED <<exec, rev>>

\* Stop: the session's revision and its executions change in one transaction,
\* admissions are cancelled and the worker is told to release the root.
Stop ==
    /\ pauses < MaxPauses
    /\ pauses' = pauses + 1
    /\ stops' = stops + 1
    /\ Pause
    /\ call' = IF call = NoCall THEN call ELSE [call EXCEPT !.cancelled = TRUE]
    /\ retiring' = (exec \notin {"completed", "failed"})
    /\ UNCHANGED <<rowVars, loopVars, leaseVars, scope, queue, registered,
                   attempt, sent, sends, crashes>>

\* pauseForCapacity: the tools of the round could not start a child agent.
\* The lease and the queue stay.
PauseForCapacity ==
    /\ pauses < MaxPauses
    /\ loop.at = "tools" /\ MayStart
    /\ pauses' = pauses + 1
    /\ Pause
    /\ UNCHANGED <<rowVars, loopVars, stops, leaseVars, workerVars,
                   clientVars, crashes>>

Resume ==
    /\ exec = "paused"
    /\ exec' = "running"
    /\ rev' = rev + 1
    /\ UNCHANGED <<rowVars, loopVars, stops, leaseVars, workerVars,
                   clientVars, boundVars>>

\* The worker dies and another takes its place.  The controller forgets the
\* lease and leaves running work running or pauses it, as configured.
Crash ==
    /\ crashes < MaxCrashes
    /\ crashes' = crashes + 1
    /\ Pause \/ UNCHANGED <<exec, rev>>
    /\ active' = NoLease
    /\ holder' = [holder EXCEPT !.mine = FALSE]
    /\ scope' = NoScope
    /\ queue' = [l \in Leases |-> NoQueue]
    /\ registered' = NoLease
    /\ attempt' = "none"
    /\ retiring' = FALSE
    /\ loop' = IF attempt = "hook" THEN [loop EXCEPT !.at = "inspect"]
               ELSE loop
    /\ call' = NoCall
    /\ sent' = IF call = NoCall THEN sent
               ELSE [sent EXCEPT ![call.req] = "unheard"]
    /\ UNCHANGED <<rowVars, ids, stops, sends, pauses>>

-----------------------------------------------------------------------------
Calls == Lookup \/ AwaitRetired \/ Enqueue \/ Project
Scopes == RestoreTurn \/ Bind \/ RestoreCut \/ RetirePaused \/ AfterFinish
Loop ==
    \/ PrepareRound \/ StartModel \/ DeliverMessages
    \/ (\E calls \in BOOLEAN : ModelAnswers(calls))
    \/ RunTools \/ StartHooks \/ EndHooks \/ FinishExecution \/ FinishFailed
Faults ==
    \/ CancelCall \/ EnqueueUnheard \/ ModelFails
    \/ Stop \/ PauseForCapacity \/ Crash

Next ==
    \/ \E r \in Request : Send(r)
    \/ Calls \/ Scopes \/ Loop \/ Faults
    \/ InspectHooks \/ Resume

\* The worker's goroutines and the workflow engine go on while they can.
\* Sending, resuming and inspecting are for people to do, and faults need not
\* happen.
Fairness == WF_vars(Calls) /\ WF_vars(Scopes) /\ WF_vars(Loop)

Spec == Init /\ [][Next]_vars /\ Fairness

-----------------------------------------------------------------------------
(* Properties                                                               *)

\* Every variable has its type.
TypeOK ==
    /\ exec \in {"running", "paused", "completed", "failed"}
    /\ rev \in Nat /\ stops \in Nat
    /\ inbox \in Seq(Request) /\ said \in Seq(Request) /\ ids \in Seq(Request)
    /\ by \in [Request -> 0 .. MaxRounds]
    /\ loop \in [round : 0 .. MaxRounds - 1,
                 at : {"prepare", "model", "tools", "hooks", "inspect",
                       "finish", "fail", "ended"}]
    /\ holder \in [lease : Leases, rev : Nat, mine : BOOLEAN]
    /\ active \in {NoLease} \cup Leases
    /\ scope \in [lease : {NoLease} \cup Leases, rev : Nat]
    /\ queue \in [Leases -> [pending : SUBSET Request, closed : BOOLEAN,
                             retired : BOOLEAN, stops : Nat]]
    /\ registered \in {NoLease} \cup Leases
    /\ attempt \in {"none", "restoring", "model", "delivered", "hook"}
    /\ retiring \in BOOLEAN
    /\ call \in {NoCall} \cup
         [at : {"lookup", "enqueue", "project", "await"}, req : Request,
          q : {NoLease} \cup Leases, stops : Nat, cancelled : BOOLEAN]
    /\ sent \in [Request -> {"new", "calling", "queued", "ownTurn",
                             "refused", "unheard"}]

\* The inbox implements the mailbox: a message that AcceptExecutionMessage
\* committed is read by the model exactly once and in sequence order, across
\* pauses, crashes and repeated attempts, and the turn completes only with an
\* empty inbox.
M == INSTANCE Mailbox WITH
       box <- QueuedRows,
       read <- said,
       turn <- IF exec \in {"running", "paused"} THEN "open" ELSE exec
MailboxSpec == M!Spec

\* The execution goes on only when somebody resumes or inspects it.
Parked == exec = "paused" \/ loop.at = "inspect"

\* A message in the inbox of a turn is read, unless the turn fails or waits
\* for somebody; also one whose acceptance the live queue never heard of.
AcceptedIsRead ==
    \A r \in Request :
        IsQueued(r) ~> (~IsQueued(r) \/ exec = "failed" \/ Parked)

\* A caller that waits for an old queue to go holds the session's admission
\* gate.  It gets on, unless the execution waits for somebody itself.
WaitingCallersGoOn ==
    call.at = "await" ~> (call.at # "await" \/ Parked)
=============================================================================
