# A verification of peen

peen is a coding-agent server.  One controller process owns a SQLite database,
the HTTP and WebSocket API and a supervisor; every session has one worker
process at a time (a *generation*), which runs turns and nested child agents and
reaches the database through the controller.  What the workers do is durable:
a turn is an *execution*, a child agent is a child execution with an agent run,
and every external step either takes is an *activity* checkpoint.

This directory holds TLA+ models of the parts whose correctness depends on the
order in which processes, requests and crashes meet, the TLC runs that check
small instances of them, and TLAPS proofs of the main properties for instances
of every size.

## The parts and their models

| Part | Code (`internal/pkg/`) | Module | What is hard |
|---|---|---|---|
| Admission gate | `session/admission*.go` | `AdmissionGate` | a Stop removes tickets from the middle of a line whose members wait on each other |
| Executions, activities, agent runs | `session/execution*.go`, `session/agentrun*.go`, `agent/childsubmission.go`, `agent/launchagent.go` | `Executions` | late and repeated answers of replaced workers; crashes inside a tool; a run and an execution that must end alike |
| Turn leases, stop revision | `session/store.go`, `stoprevision.go`, `executionturn*.go`, `turnend.go` | `TurnLeases` | a holder restored by a replacement while the old one ends |
| Inbox and live queue | `session/executioninbox*.go`, `agent/userqueue*.go`, `agent/workflowinbox*.go` | `Inbox`, `Mailbox` | a message accepted while the execution finishes, pauses or changes workers |
| Notices and wakes | `session/*notice*.go`, `session/wakeadmission.go`, `agent/wake.go`, `agent/idlewake.go` | `Wakes` | two runtimes decide about one session while its turns end |
| Jobs | `tools/job.go`, `tools/command.go`, `tools/jobtools.go`, `session/jobs.go` | `Jobs` | a call that stops waiting while the process ends |
| Feed | `session/feed.go`, `control/feedpump.go`, `control/client/attach.go` | `Feed` | overlap of replay and tail; signals out of order |
| Worker supervisor | `worker/supervisor`, `worker/protocol/listener.go`, `worker/run` | `Workers` | replacement during start, stop or loss, on one socket path |

They meet as follows.  A message takes a ticket of the gate, finds or starts the
session's worker (`Workers`), joins the queue of a running turn (`Inbox`) or opens
a turn (`TurnLeases`), whose work is an execution (`Executions`).  What happens
meanwhile is told to clients by the feed (`Feed`) and to the model by notices,
which may start a turn themselves (`Wakes`, composed with `Jobs`, whose ends are
the notices it is mostly about).

`PROJECT.json` lists every part, including those with no concurrent state of
their own, and the hazards of each at the line where it bites.

## AdmissionGate

Tickets are numbered in the order of `Reserve`, so the order of reception is the
order of the numbers.  `line` is `gate.lines`; `closes` counts the closings of a
ticket's `admitted` channel; `firing` holds the cancel functions `CancelPending`
collected under the mutex and calls after it.  A ticket's caller binds, waits
and releases, as `TurnRouter.RunReservedSessionMessage` does; its own context
may end at any time.

Run `admission_gate`: three messages to two sessions.  Three are needed for a
Stop to take a ticket from between two others, two sessions so that lines are
independent.  It shows order, no double close, no lost wakeup, cancellation of
preparation, and under fairness that every ticket leaves.

Fairness: weak fairness of a caller's own next step.  A goroutine that can run
does run in Go, `Wait` returns once one of its channels is ready, and a message
inside the gate is released by a deferred call.  No fairness is assumed of Stop,
of new messages or of clients going away.

## Executions

Each action is one SQLite transaction of the store; a refused call changes
nothing and is no step.  Constants fix the identities the code refuses to
change: the tree of executions, the owner and replay policy of each activity.

| Model | Code |
|---|---|
| `execState`, `controlRevision` | `executions` rows |
| `runState`, `runOwner`, `cancelRequested` | `agent_runs` rows |
| `launcher` | a worker inside `launchChild` whose `CreateExecution` is unanswered |
| `actState`, `attempt`, `actOwner`, `output` | `execution_activities` rows |
| `leases` | every `ActivityLease` handed to a worker; never withdrawn, so any may be used late or twice |
| `stopRevision`, `turnRevision` | `StopRevision` of the session and of each turn |
| `granted`, `held` | history: inspected attempts allowed again; executions under a Stop nobody lifted |

Abstractions, all of which only add behaviours.  The inbox and the root turn's
holder may refuse or postpone a finish; here a finish may also not happen.  The
revision an agent must quote in `ResumeExecutionFromActivity` is not compared.
A message that resumes a child is `ResumeExecution`.  Projections, event rows
and payloads are left out.  One thing is narrower than the store: it accepts the
finish of a child that says nothing of its agent run, and `FinishExecution` always
ends the run, because `agent/childfinish.go`, the only caller, always sends its
outcome.

Runs:

- `executions` explores three boxes of one instance, by a state constraint.  One
  root with a tool, a model call and a final step, two generations and two
  attempts of each step.  A root whose tool call inspects and resumes the child, so
  that decisions come from agents as well as from people.  A chain of three, so
  that a cancellation or pause has a member below the one that is named and a
  launch under way below that; there, one generation and one attempt.  Two
  attempts are what a late result or a late decision about the first needs to
  meet the second; two generations are a worker and its replacement, and they
  are symmetric.  The proofs below cover every bound.
- `executions_lost_answer` (a violation, see below).

Deadlock is not checked: counters are bounded and a session may be finished.

The finding.  `worker/protocol/conn.go` returns from `Call` when its context
ends, although the controller may commit the request.  A child launch that is
cut off this way (a worker that shuts down signals every run while the
connection is open) finds no execution and ends the agent run; the execution
stays open.  `cancelExecutionAgentRun` refuses such a member, so every later
cancellation of an ancestor is rolled back, against `docs/http-api.md:333`.

## TurnLeases

Who may run the session's turn.  Three copies of the answer have to agree: the
controller's memory, the durable holder row of the root, and the worker's own
copy.  A call of the worker is split into its request, its transaction and its
answer wherever a Stop, a lost worker or another call can come between.

| Model | Code |
|---|---|
| `active`, `admitting`, `finalizing` | `Store.active`; `AcquireTurn` between reservation and transaction; `FinalizeTurn` between its unlock and its deferred `ReleaseTurn` |
| `turnState`, `turnCancel`, `turnRevision`, `turnWorker` | `turns` rows: state, `CancelRequested`, `StopRevision`, `WorkerGenerationID` |
| `holder` | the execution turn lease row: lease, owner generation, control revision |
| `execState`, `controlRevision`, `scheduled` | the root's row, and whether its workflow instance exists (the workflow library is external) |
| `accepted`, `forwarded` | the `StopRevision` a message came with; deferred input a root has taken |
| `link`, `generation`, `inflight`, `answer`, `stopping` | the connection, and the requests, answers and cancel command on it |
| `run`, `runLease`, `fired` | the goroutine that serves a message, its `prepared.lease`, whether its context is cancelled |
| `local` | the lease in the worker's `protocol.Store`, its registered cancellation and its mark |
| `transcript`, `created`, `held` | history: the last lease to write a turn; leases created; turns under a Stop nobody lifted |

A lost worker loses `run`, `local` and what is on the connection; a restarted
controller loses `active` as well.  Leases are UUIDs in the code and are
numbered here in the order of their creation, which is what
`WritesInLeaseOrder` compares.  A callback of a root may be started whenever its
workflow exists, and a nudge may create a workflow that is missing.  That only
one root is nudged at a time is not modelled: the list the code decides this by
may be out of date when it acts.  The last part of a Stop, `PauseSessionWorkflows`,
lists the open roots and then pauses and retires them one by one; a root may end
or be resumed in between (`PauseListed`, `RetirePaused`).  That the admission of a
lost worker does not commit after the recovery of its turns is an assumption
(`Admit`): the request's context ends with its connection.

Runs:

- `turn_leases` explores two boxes.  One message with three generations, four
  leases and four stop revisions: a Stop takes two revisions (the endpoint and the
  worker each record it), so two whole Stops fit, and a third generation can meet
  the holder left by the first.  A message and deferred input, which is retried
  and has no goroutine that waits for it: two turns are what it takes for one to
  meet the lease of the other.  Work resumes by itself after a crash, or waits.
- `turn_leases_stop_race` and `turn_leases_lost_worker` (violations).

Deadlock is not checked: every counter is bounded, and a session may be idle.

The findings.  `StopFreesSession`: the worker reads a Stop while its
`AcquireTurn` is pending.  The call returns, the worker has no lease to release,
and the controller has admitted the turn.  The turn has no root that
`PauseSessionWorkflows` could retire, so the session refuses new messages until
that worker is gone, against `agent/workflownativestop.go:14`.
`LostWorkerFreesSession`: `endUnfinishedTurn` ends the turn and then releases its
lease.  A worker lost between the two leaves no running turn for
`RecoverWorkerTurns` to find, and the lease stays until the controller restarts,
against `worker/supervisor/recovery.go:92`.

## Feed

`session/feed.go`, `control/feedpump.go`, the broadcast and replay of
`http/server/feed.go`, and the attached client of `control/client/attach.go`,
for one session.  Sessions share no feed state.

A row is its sequence number.  `Commit` adds the rows of one transaction and
leaves a signal to be given later, as `feedTransaction` does after it returned
from the transaction; `Signal` takes them in any order.  A page is three reads
(`PumpReads`, `ClientReads`), one per table, since `ListFeed` reads them outside a
transaction; merging, cutting to the limit and `NextCursor` are operators of the
rows found.  The session row that `ListFeed` reads first only feeds `head`, which
neither reader uses.  `Deliver`, `Broadcast` and `Advance` are the rest of
`runOnce`; the page is broadcast frame by frame, so a client may be registered
in the middle of it.  The hub is external: it drops a frame when a client's buffer
is full.  The client's replay, dial, live frames, backoff and end are actions of
their own.  `api` is false from a restart of the controller until the sink is set
and requests are served.  `pump.failed`, `client.start`,
`published`, `applied`, `torn` and the `late` field of a page are history.  A
row is `late` for a page when it is committed to a table the page has read
already, and `torn` for a reader when a page that it was late for passes it.

- `feed`: three rows of two tables, pages of one row, one fault (a failed read or
  call, a dropped frame, a lost connection or a restart).  No wake-up is lost,
  nothing is delivered twice or out of order, admissions are reported, and the
  only rows a reader leaves out are `torn`.  What is torn depends on the order of
  commits and reads alone, so a page that drops a row it could have read, by its
  merge, its limit or its cursor, breaks `PagesJoinUp`.
- `feed_torn_page` (a violation).

Three rows suffice for a row before, in and after a page, and two tables for a
commit that one read sees and the other does not.  Deadlock is not checked: a
session may fall silent.  No fairness is assumed; `PumpCatchesUp` is the safety
half of the pump's progress.

The finding.  `AppliedWithoutGap`: an event and then a notice are committed after a
page has read the events, the page ends at the notice, and the cursor has passed
the event; `docs/http-api.md:241` promises no gap.

Three behaviours the model has and no property is about: the first two commits
under a controller may signal in the other order (see *Disagreements*), a row broadcast between
the end of a replay and the registration of the new socket reaches the client
with the next live frame only, and a replay that fails after the backoff, because
the API is not back yet, ends `Attach` with an error.

## Inbox and Mailbox

Messages sent to a turn that already runs.  `Inbox` has three places such a
message is known: the rows of the execution's inbox (`inbox`, `by`), the live
queue of the worker (`queue`, one for each turn lease it was bound under, and
`registered`), and the model input and transcript (`ids`, `said`).  `loop` is the
workflow: the round and the step it is at; `attempt` is what the running
activity attempt has done, which a crash forgets.  `call` is the client call that
holds the session's admission gate.

`Mailbox` is what those who send rely on: a message taken in is read once, in
order, and a turn completes only with an empty box.  `MailboxSpec` is the
refinement, with the undelivered rows as the box, the transcript as what was
read, and a pause as a turn that is still open.

Run `inbox`: two messages, one with a skill part (two slots of a capacity of
three), two rounds, two calls, one pause or Stop, one crash.  Two messages are
needed for order, and one pause beside one crash for a turn to be restored by
another worker after it was paused.  Two calls let a client repeat a request
whose answer it never heard.

Fairness: weak fairness of the calls, of the scopes a worker restores and of the
workflow loop.  The first two are goroutines, and the workflow engine hands out
an activity that is due.  Nothing is assumed of clients, of people who resume or
inspect, or of faults.  `AcceptedIsRead` and `WaitingCallersGoOn` exempt an
execution that waits for somebody (`Parked`): one that is paused, or has a hook
to inspect.  A restore that is cut off beside a stale scope ends there too.

Left out: the turn a message starts by itself, messages that report the end of
a child, compaction, the validation of requests.  Tools are atomic and the
retries of one call are one step.  With these slots a refusal for lack of room
never meets two queued messages.  A pause for lack of capacity leaves lease and
queue as they are, as in the code.

## Workers

One session, its supervisor, its socket and its processes.  Calls are of three
kinds: `Ensure` (`Ensurer`), `Stop` (`Stopper`) and `WorkerDisconnected`, which is
named by the generation whose connection ended.  All pass through the lifecycle
gate (`line`); `at[c]` is the step a call has reached, and every step that can fail
or be overtaken is one action.

| Model | Code |
|---|---|
| `row` | `session_workers` rows |
| `held`, `ready`, `target` | the supervisor's map, the channel of a registration, the generation a call found |
| `listener`, `path`, `link` | listeners, the file they share, and the worker each has connected |
| `proc`, `stuck` | processes and containers; a container whose first stop failed, which `process.Stop` remembers |
| `reg`, `via` | a worker's dial, hello, acknowledgement and service, and the listener it reached |
| `work` | turns the worker holds that are recorded as running |
| `dismissed` | history: generations given up by a launch or ended by a Stop |

Run `workers` explores three boxes: two calls of `Ensure` beside a Stop with a
context that ends early, two calls and two faults, and three launches after
crashes.  The constraint only limits what clients and faults do: it never cuts
off a step of a call under way, so `CallsReturn` is checked on whole behaviours.
`Ensure` calls are alike and are made in one order.

Fairness: weak fairness of the step of a call.  A goroutine at the gate goes on,
and its waits (for a registration, for a process to end, for a row) have time
limits in the code.  Nothing is assumed of workers.

Two properties exempt *strays*: containers whose stop failed and whose final row
could not be written either.  Such a container may still register, in place of
the worker that replaced it.  `LostWorkIsKept` is about workers that are lost by
themselves: until their turns are released they stay in the map and their row
stays open, so the next call settles them.  It says nothing of `dismissed`
generations: a worker that is ended on purpose is expected to end its own turns,
and `stopHeld` and `abandon` do not recover them.

What keeps a late cleanup from deleting the socket of a replacement, when a lost
worker is settled, is that a listener closes once; the gate is what matters for
`Stop`.

## Jobs and Wakes

`Jobs` is a `runCommand` call, the job it starts, and the monitor of the process.
How a command ended is told once the call answers, or by a notice after the
call stopped waiting; `awaited` is the flag by which the two agree.  `call`,
`monitor` and `proc` advance independently; the database may refuse the start, the
output, a signal or the end of a job (`faults`).  A launch that fails before
there is a process leaves nothing behind and is not a step.

`Wakes` EXTENDS `Jobs` with the notices of the session (`log`, `delivered`) and
the turns they start.  Two runtimes decide: the controller sees the lease
(`lease`) and is called when a turn ends; the worker, where jobs publish, has a
copy (`copy`) and is not.  `claim[r]` is the single wake a limiter lets through,
`scan` what a re-check has yet to look at.  A wake is a message (`msg`) that takes
a ticket, waits at the gate, is refused while a turn's queue is registered, peeks
at the pending notices and opens a turn in the transaction that marks them
delivered.  The end of a turn is several steps (`todo`): the order in which
copy, lease and queue go differs between a turn that commits, one whose
opening fails and one that is interrupted.  `woken` and `fate` are history.

Run `wakes`: one job and two notices from elsewhere, all of which ask for a wake
(a decision may drop any of them, as it drops one without a handler); two turns, one Stop, one
failed write, one wake per limiter and window (which may be forgotten again).  It
explores three boxes: a command through everything that can happen to it while
one turn runs; a background job's notice over all turns and the Stop; and two
notices without a job, published in one order since they are alike.  Two turns
are what a notice needs to be left to one and read by another, two notices what a
re-check needs to be busy with the wrong one.

`QuietMeansServed` is the safety half of "a pending notice is looked at again".
`fate[n]` follows a notice: the runtime whose claim it was refused behind, the
turn it was left to, or the end it met with.  Whenever somebody else takes it over
(a wake opens a turn, a turn ends, a scan reads it) `fate` says so, from what each
step did and for the notices it was about.  When nothing of the session is on
its way any more, the waking notices still pending met with one of seven ends:

| End | What happened | |
|---|---|---|
| `limit` | its own decision found the session idle and started no turn | excused |
| `stopped` | the turn it was left to was stopped, or its wake refused after a Stop or for a held source | excused |
| `claim` | refused behind a decision or a wake that got no turn | forgotten |
| `recheck` | its re-check was deferred to such a decision | forgotten |
| `lease` | it saw the lease of an admission that was then refused | forgotten |
| `failed` | the workflow of the turn it was left to broke | forgotten |
| `late` | it was left to a turn that was over | forgotten |

In every other order of events a re-check follows.  The run `wakes` reaches all
seven.  The last five are not what the documentation says: `BusyEventsAreRechecked`
allows the first two only, and the run `wakes_left_behind` shows it violated (see
*Disagreements*).  Deadlock is not checked, since a session may fall silent, and
no fairness is assumed.

Left out: notices about the end of a turn, which never wake a session; questions
kept for a paused agent (`workflowquestionwake.go`); the lineage checks of an
agent's notice; reads of the pending notices that fail; a finalisation whose
transaction fails; shutdown of the runtime; the job host's crash and
`RecoverInterruptedJobs`.

## Proofs

All from the named assumptions on the constants alone, for every set of
executions, activities, calls, generations, tickets, commands, notices and turns
and every bound.  Each safety property is proved from an inductive invariant, with
one lemma per action or group of actions.

`Executions_proofs` (from `ExecutionsAssumption`) proves each property the run
`executions` checks.

- `TypeCorrect`: by induction, one lemma per group of actions.
- `EndedIsSettled`: `SettledInv` adds that a cancelled step belongs to a
  cancelled execution and that a step with a row belongs to an execution with a
  row; without the first, a cancelled step could be started again.
- `ToolsNotReplayed`, `AttemptsHaveOneHolder`, `ResultsAreCurrent`: `AttemptInv`
  says which attempts have been granted in each state of a step and that no
  lease names an attempt not yet started.
- `StopIsHeld`: `HeldInv` adds that a root held before its row exists was
  admitted under an older revision, which is what `inheritSessionStop` compares.
- `CancellationIsComplete`: uses that a subtree is closed under children and
  that a new child has an open parent.
- `RunsEndWithExecutions`, `OutcomesAreFinal`, `ReconciliationHasSubject`.

`Workers_proofs` (from `WorkersAssumption`) proves the four safety properties of
the run `workers`: `SocketStaysReachable`, `StopHasListener`,
`ReplacementsAreAlone` and `LostWorkIsFound`.  None is inductive.  A step of one
call can break it only if another call is in the middle of its own, so the
invariant `Inv` of `WorkersCalls_proofs` says first that the line of the gate
holds each call once and only its head has gone further (`GateInv`), and then
what that call has done by the place it has reached (`TargetInv`, `StepInv`), what
the generation in the map is (`HeldInv`), what exists of a generation and in which
order it came (`GenerationInv`) and where the path leads (`SocketInv`).  Without
strays more holds (`CalmInv`): every worker registered with its own listener, a
container that failed to stop is in the map or given up, a launch begins with an
empty map.  That part is needed as a whole: that a replacement is alone rests on
the path leading to its own listener, and this on the map being empty when it was
launched.  `WorkersCalls_proofs` has the invariant and the steps of `Stop`, of the
gate and of `Ensure` up to the launch, `Workers_proofs` those of the processes, and
the theorems.

`AdmissionGate_proofs` (from `GateAssumption`) proves the three invariants of
the run `admission_gate`.  `AdmissionIsFIFO` and `NoDoubleClose` rest on each line
holding the unreleased tickets of its session in ascending order (`LineInv`) and
on only the first ticket's channel being closed, once (`CloseInv`).
`StopReachesPreparation` needs to know where a ticket goes when a Stop takes it
out of the middle of its line (`PlaceInv`, `CallerInv`): out of its line and
never prepared, or with a context that is cancelled or about to be.
`FrontIsNeverStuck` is the safety half of "every ticket leaves": the channel the
first ticket waits for is closed.  What the filter of `CancelPending` keeps is
`Kept` of `Subsequences`, an increasing choice of positions instead of a
recursion; `OrderExists` and `OrderIsOnto` show that the positions exist and are
all taken.

`WakesTurns_proofs` and `Wakes_proofs` (from the assumptions of `Jobs` and `Wakes`)
prove the four properties of the run `wakes`.  `CommandsReport` and
`CancelledCommandsDie` rest on `JobInv`: by the places of call and monitor it is
settled who will tell the end of a command, and a cancelled call has signalled
its process.  `WakesOpenWithTheirNotice` uses that a message about to open a
turn is alone with it (`LeaseInv`).  `NothingLeftBehind` is the hardest.  Its
invariant `OwedInv` says why a pending notice is not lost: it met with an end; or
it is undecided, and its publisher, a claim or a scan has yet to look at it
(`Watched`); or the decision or wake it was left to is under way (`Carried`); or so
is the turn it was left to, or the re-check that turn asked for (`Rechecked`).
Each step that ends one of these hands the notice on.  It needs `FlightInv` (a
claim is kept exactly as long as its wake is on its way) and `HolderType` (what a
decision takes for a busy session is a turn).

`TurnRows_proofs` and `TurnLeases_proofs` (from `TurnLeasesAssumption`) prove
seven of the nine properties of the run `turn_leases`.  The invariant `RowInv` of
the first is about each turn's rows and knows nothing of leases.  `AdmissionInv`:
while a plain message is still to be admitted, wherever its request is, its turn
has no row and no root, and a deferred root has taken its input; without it an
admission could reopen a turn that has ended.  `StopInv`: a held turn's rows were
written, and its deferred input accepted, under an older revision than the
session's, so a root created later is paused and an admission is refused.  From
these, `StopIsKept`, `StoppedStayDown`, `EndsTogether` and `EndedStay`; from
`LinkInv` (no request outlives its connection), `NoTurnLeftBehind`.  `LeaseInv`
of the second adds the leases: a turn without a root has no holder, and the
leases in memory and in the holder are at least as new as the transcript's.  It
gives `MemoryMatchesHolder` and `WritesOrdered`.

Only model-checked: `CancelReachesHolder` and `BindAdoptsOwnLease`, whose
invariants follow each lease through every place it can be; `Feed`, and `Inbox`
with its refinement of `Mailbox`, which have no proof; and all liveness (`EveryTicketLeaves`,
`AcceptedIsRead`, `WaitingCallersGoOn`, `CallsReturn`), which is out of the
prover's reach.

## Disagreements

Five violations have a run: `executions_lost_answer`, `turn_leases_stop_race`,
`turn_leases_lost_worker`, `feed_torn_page`, `wakes_left_behind`.  Modelling met
others, which the models contain and exempt, or which lie outside them.

Feed.  `control/feedpump.go:18` says the sink is called "never with a row skipped".
The first signal under a controller places the cursor before its own row
(`feedpump.go:164`), and writers signal after they left the transaction.  If the
second commit signals first, the row of the first is never delivered by this
controller, and a watch for its message is never told.  The properties of the pump
begin at the row its cursor was placed at.

Wakes.  `docs/events.md:112` says a notice that finds the session busy is looked at
again "once that turn ends on its own, completed or failed", and
`agent/wake.go:243` of one whose claim is refused that "the claiming turn delivers
it".  The run shows the shortest way to the contrary: an event without a handler
holds the claim while a waking event is refused behind it, and its decision
starts no turn.  The ends called forgotten above are all such ways:

- the worker's publisher sees the copy of a turn that has already ended, its wake
  is refused by the queue of one, or the claim is taken by a wake of the worker
  whose turn has ended, which nobody re-checks (`late`);
- the claim of its runtime is taken, or the re-check is deferred, by a decision
  that then starts no turn: `considerWake` releases the claim and ignores the flag
  `deferRecheck` has set (`claim`, `recheck`);
- the lease it saw was reserved by an admission that then failed (`lease`);
- the turn ended because its workflow failed, which calls no idle callback
  (`failed`).

A re-check deferred to a wake whose turn is then stopped still runs, although a
stopped session is not to be woken again.

Jobs.  `docs/events.md` says a command that finishes inside its call publishes no
event; one does when a `waitJob` for the same job timed out, or when it ends
between the call's release and its snapshot.  A call cancelled after its release
kills a job whose notice is then published, against `docs/configuration.md:349`.

Workers.

- `control/turns.go:171` reads the session's agent space before the wait for
  a worker; a change of the space in between is followed by a launch in the old
  one (outside the model).
- A container whose stop failed cannot be reaped until the controller restarts.
- The turns of a worker killed by `stopHeld` or `abandon` are not recovered.
- A hello whose acknowledgement fails leaves the listener marked as connected.
- A stray container can register in place of its replacement.

Inbox.  `agent/userqueue.go:576` says of a turn that ended during the enqueue that
"nothing was accepted".  When saving the transcript fails after the row is
committed, the message is in the inbox and is also tried as a turn of its own.

Stop.  The last step of a Stop can pause the root of a message that came after
it; the goroutine that waits for that root goes on waiting until it is resumed.

## Not modelled

- The completion seal, forwarding and deferral of messages: the store and the
  protocol offer these, and the agent calls neither the reservation nor the
  deferral.
- Transcripts, compaction, model audit: append-only records whose content no
  property tells apart.
- Event bus, service manager: observers within one process, and the ordered
  start and stop of services; a restart of the controller is one step here.
- Registry of agent runs and shutdown in the agent runtime.
- File tools, harness and hooks, MCP tools, configuration, command line, metrics
  and logs: input and output, parsing and observation.
- The calls to the container daemon other than stopping, the agent spaces, the
  framing of the worker protocol.
- Database schema and blobs.  A SQLite transaction is one atomic step.

These are most of the repository's lines; what is modelled is where processes,
requests and crashes meet.
