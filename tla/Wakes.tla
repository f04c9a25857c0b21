------------------------------- MODULE Wakes -------------------------------
(***************************************************************************)
(* The notices of one session and the turns they start.                    *)
(*                                                                         *)
(* A notice is stored first.  The runtime that published it then decides   *)
(* whether it starts a turn (considerWake): not while a turn runs, because *)
(* that turn reads the notice at its next tool boundary, or the store      *)
(* re-checks what is left when the turn ends.  Two runtimes decide for the *)
(* same session.  The controller sees the lease itself and is told when a  *)
(* turn ends; the worker, where jobs and child agents publish, sees a copy *)
(* of the lease and is told nothing.  Each has a limiter of its own that   *)
(* lets one wake through at a time.                                        *)
(*                                                                         *)
(* A wake is a message like any other: it waits at the admission gate, is  *)
(* refused while a turn has its message queue registered, reads the        *)
(* pending notices and opens a turn with them in one transaction.          *)
(* Module Jobs has the commands whose ends are published here.  A notice   *)
(* that a turn ended without completing (recordTurnEndNotice) never wakes  *)
(* a session and is left out.                                              *)
(***************************************************************************)
EXTENDS Jobs, Functions

CONSTANTS
    Other,        \* notices that do not come from a job
    Waking,       \* notices whose type has a handler that asks for a wake
    MaxTurn,      \* bound: turns of the session
    MaxStop,      \* bound: stops of the session
    WakeLimit     \* wakes one limiter lets through in its window

Notice  == Job \cup Other
Turn    == 1..MaxTurn
Runtime == {"controller", "worker"}
Message == {"user"} \cup Runtime      \* one wake message for each limiter

ASSUME WakesAssumption ==
    /\ Job \cap Other = {} /\ Waking \subseteq Notice
    /\ MaxTurn \in Nat /\ MaxStop \in Nat /\ WakeLimit \in Nat \ {0}

VARIABLES
    \* rows
    log,        \* the notices in the order of their sequence numbers
    delivered,  \* delivered[n]: the turn that read the notice, 0 before
    source,     \* source[j]: the turn that started the job
    stopRev,    \* the stop revision of the session
    held,       \* turns that Stop, or a failed workflow, left paused
    \* leases and queues
    lease,      \* the turn that holds the controller's lease, 0 for none
    copy,       \* the worker's copy of it
    queue,      \* the turn whose message queue is registered
    gate,       \* the message that holds the admission gate
    turn,       \* turn[t]: where the turn is, what is left to clean up, its
                \* stop revision
    msg,        \* msg[m]: where the message is
    \* decisions
    publisher,  \* publisher[n]: the runtime about to consider the notice
    claim,      \* claim[r]: the wake the limiter has in flight
    seen,       \* seen[r]: wakes the limiter counted in its window
    scan,       \* scan[s]: the notices a re-check still has to consider
    rereading,  \* a released wake is about to read the pending notices
    \* history
    woken,      \* woken[t]: the notice that started the turn
    fate        \* fate[n]: whom the last decision on the notice left it to, or
                \* why nobody looks at it again

rowVars  == <<log, delivered, source, stopRev, held>>
turnVars == <<lease, copy, queue, gate, turn, msg, woken>>
decisionVars == <<publisher, claim, seen, scan, rereading>>
wakeVars == <<decisionVars, fate>>
vars     == <<jobsVars, rowVars, turnVars, wakeVars>>

\* A scan belongs to the turn whose end started it; 0 is the one that follows
\* the release of a wake.  Publisher and Nobody are no scan.
Scanner   == 0..MaxTurn
Publisher == MaxTurn + 1
Nobody    == MaxTurn + 2

Nothing == "nothing"
Idle    == [at |-> "idle", notice |-> Nothing, rev |-> 0, batch |-> {},
            turn |-> 0]
Free    == [at |-> "free", by |-> Nobody, notice |-> Nothing,
            recheck |-> FALSE]
Unborn  == [at |-> "none", todo |-> <<>>, rev |-> 0]

\* Left to the claim of a runtime, or to the end of a turn; "open" before any
\* decision and while a re-check goes over the notice.
At(place) == [at |-> place, turn |-> 0]
AtTurn(t) == [at |-> "turn", turn |-> t]
Open      == At("open")

\* pendingSessionNotices, peekOpeningEvents.
Pending == {n \in Range(log) : delivered[n] = 0}

\* The one of these notices with the lowest sequence number.
First(n, ns) ==
    \E i \in DOMAIN log :
        n \in ns /\ log[i] = n /\ \A k \in 1..(i - 1) : log[k] \notin ns

Init ==
    /\ JobsInit
    /\ log = <<>> /\ delivered = [n \in Notice |-> 0]
    /\ source = [j \in Job |-> 0] /\ stopRev = 0 /\ held = {}
    /\ lease = 0 /\ copy = 0 /\ queue = 0 /\ gate = Nothing
    /\ turn = [t \in Turn |-> Unborn] /\ msg = [m \in Message |-> Idle]
    /\ publisher = [n \in Notice |-> Nothing]
    /\ claim = [r \in Runtime |-> Free] /\ seen = [r \in Runtime |-> 0]
    /\ scan = [s \in Scanner |-> {}] /\ rereading = FALSE
    /\ woken = [t \in Turn |-> Nothing] /\ fate = [n \in Waking |-> Open]

\* A turn that has yet to re-check the session when it ends.
WillRecheck(t) ==
    turn[t].at \in {"reserved", "opened", "remembered", "running", "ended",
                    "checked"}

\* Stop came after the turn's message and found the turn.
Stopped(t) == t \in held /\ turn[t].rev # stopRev

\* What becomes of a notice that is left to turn t.
LeftTo(t) ==
    IF WillRecheck(t) THEN AtTurn(t)
    ELSE IF Stopped(t) THEN At("stopped") ELSE At("late")

\* What became of some notices; the others keep their fate.
Fate(ns, what) == [n \in Waking |-> IF n \in ns THEN what ELSE fate[n]]
Behind(r)      == {n \in Waking : fate[n].at = r}
LeftToTurn(t)  == {n \in Waking : fate[n].at = "turn" /\ fate[n].turn = t}

-----------------------------------------------------------------------------
(* Publishing and deciding                                                  *)

\* PublishEvent stores the notice and goes on to consider a wake.
Store(n, r) ==
    /\ n \notin Range(log)
    /\ log' = Append(log, n)
    /\ publisher' = [publisher EXCEPT ![n] = r]
    /\ fate' = Fate({n}, Open)
    /\ UNCHANGED <<delivered, source, stopRev, held, turnVars, claim, seen,
                   scan, rereading>>

PublishOther(n, r) == n \in Other /\ Store(n, r) /\ UNCHANGED jobsVars

\* The job's monitor publishes in the worker and goes on once the wake is
\* considered.
PublishJob(j) == Announce(j) /\ Store(j, "worker")
JobPublished(j) ==
    /\ publisher[j] = Nothing
    /\ Announced(j)
    /\ UNCHANGED <<rowVars, turnVars, wakeVars>>

\* A notice whose claim is refused waits for the wake in flight, for the turn
\* of that wake, or, when the wake is refused already, for nothing.
BehindClaim(r) ==
    CASE msg[r].at = "refused" -> At("claim")
      [] msg[r].at = "opened"  -> LeftTo(msg[r].turn)
      [] OTHER                 -> At(r)

\* considerWake takes the claim or leaves the notice to its holder.
Claim(r, by, n) ==
    IF claim[r].at = "free"
       THEN /\ claim' = [claim EXCEPT ![r] = [Free EXCEPT !.at = "deciding",
                                                !.by = by, !.notice = n]]
            /\ fate' = Fate({n}, Open)
       ELSE fate' = Fate({n}, BehindClaim(r)) /\ UNCHANGED claim

ClaimPublished(n) ==
    LET r == publisher[n] IN
    /\ r \in Runtime
    /\ Claim(r, Publisher, n)
    /\ publisher' = [publisher EXCEPT
                       ![n] = IF claim[r].at = "free" THEN "deciding"
                                                      ELSE Nothing]
    /\ UNCHANGED <<jobsVars, rowVars, turnVars, seen, scan, rereading>>

\* wakeFirstPending takes the notices in their order, and goes on to the next
\* one when its claim is refused.
ClaimScanned(s) ==
    /\ claim["controller"].by # s
    /\ \E n \in scan[s] :
          /\ First(n, scan[s])
          /\ Claim("controller", s, n)
          /\ scan' = IF claim["controller"].at = "free"
                        THEN scan ELSE [scan EXCEPT ![s] = @ \ {n}]
    /\ UNCHANGED <<jobsVars, rowVars, turnVars, publisher, seen, rereading>>

\* IsActive: the controller looks at its lease, the worker at its copy.
Holder(r) == IF r = "controller" THEN lease ELSE copy
Active(r) == Holder(r) # 0

\* The notice of the claim starts a turn: wakeHandlerFor and allow.
MayStart(r) ==
    ~Active(r) /\ claim[r].notice \in Waking /\ seen[r] < WakeLimit

\* startWakeTurn: the claim stays until the runner returns.  A scan ends here:
\* the turn it starts reads the rest of it.
StartWake(r) ==
    LET by   == claim[r].by
        rest == IF by \in Scanner THEN scan[by] ELSE {}
    IN
    /\ claim[r].at = "deciding" /\ MayStart(r)
    /\ claim' = [claim EXCEPT ![r].at = "waking", ![r].by = Nobody]
    /\ fate' = Fate({claim[r].notice} \cup rest, At(r))
    /\ seen' = [seen EXCEPT ![r] = @ + 1]
    /\ msg' = [msg EXCEPT ![r] = [Idle EXCEPT !.at = "sent",
                                    !.notice = claim[r].notice]]
    /\ publisher' = IF by = Publisher
                       THEN [publisher EXCEPT ![claim[r].notice] = Nothing]
                       ELSE publisher
    /\ scan' = IF by \in Scanner THEN [scan EXCEPT ![by] = {}] ELSE scan
    /\ UNCHANGED <<jobsVars, rowVars, lease, copy, queue, gate, turn, woken,
                   rereading>>

\* Notices left to a turn whose re-check was deferred to the controller's
\* claim.
DeferredTo(r) ==
    IF claim[r].recheck
       THEN {n \in Waking : fate[n].at = "turn" /\ ~WillRecheck(fate[n].turn)}
       ELSE {}

\* What becomes of the notices a decision without a turn was about: its own,
\* the ones refused behind it, and those a deferred re-check would have seen.
FateOfDropped(r) ==
    LET own == claim[r].notice IN
    IF Active(r)
       THEN Fate({own} \cup Behind(r) \cup DeferredTo(r), LeftTo(Holder(r)))
       ELSE [n \in Waking |-> CASE n = own            -> At("limit")
                               [] n \in Behind(r)     -> At("claim")
                               [] n \in DeferredTo(r) -> At("recheck")
                               [] OTHER               -> fate[n]]

\* A decision that starts no turn, because it may not or because the handler
\* could not be looked up, releases the claim, a deferred re-check included.
DropWake(r) ==
    /\ claim[r].at = "deciding"
    /\ claim' = [claim EXCEPT ![r] = Free]
    /\ publisher' = IF claim[r].by = Publisher
                       THEN [publisher EXCEPT ![claim[r].notice] = Nothing]
                       ELSE publisher
    /\ scan' = IF claim[r].by \in Scanner
                  THEN [scan EXCEPT ![claim[r].by] = @ \ {claim[r].notice}]
                  ELSE scan
    /\ fate' = FateOfDropped(r)
    /\ UNCHANGED <<jobsVars, rowVars, turnVars, seen, rereading>>

\* The window of the limiter moves on.
ForgetWake(r) ==
    /\ seen[r] > 0
    /\ seen' = [seen EXCEPT ![r] = @ - 1]
    /\ UNCHANGED <<jobsVars, rowVars, turnVars, publisher, claim, scan,
                   rereading, fate>>

\* The runner of a wake returned: its claim is released, and a re-check that
\* was deferred to it follows.
ReleaseWake(m) ==
    IF m \in Runtime
       THEN /\ claim' = [claim EXCEPT ![m] = Free]
            /\ rereading' = (rereading \/ claim[m].recheck)
       ELSE UNCHANGED <<claim, rereading>>

\* recheckIdleWake.  One such scan at a time: a second one waits here.
Reread ==
    /\ rereading /\ scan[0] = {}
    /\ rereading' = FALSE
    /\ scan' = [scan EXCEPT ![0] = Pending]
    /\ fate' = Fate(Waking, Open)
    /\ UNCHANGED <<jobsVars, rowVars, turnVars, publisher, claim, seen>>

-----------------------------------------------------------------------------
(* Messages: from the admission gate to a turn of their own                 *)

\* The message leaves the gate without a turn of its own.  The runner of a
\* wake still has to return.
Refuse(m) ==
    /\ msg' = [msg EXCEPT ![m] = IF m = "user" THEN Idle
                                 ELSE [@ EXCEPT !.at = "refused", !.batch = {}]]
    /\ gate' = IF gate = m THEN Nothing ELSE gate

\* admitRequest takes a ticket and captures the stop revision: a client's
\* message, or the wake that StartWake sent.
TakeTicket(m) ==
    /\ msg[m].at = (IF m = "user" THEN "idle" ELSE "sent")
    /\ msg' = [msg EXCEPT ![m].at = "waiting", ![m].rev = stopRev]
    /\ UNCHANGED <<jobsVars, rowVars, lease, copy, queue, gate, turn, woken,
                   wakeVars>>

\* Its turn at the gate.  Module AdmissionGate has the order of the tickets.
EnterGate(m) ==
    /\ msg[m].at = "waiting" /\ gate = Nothing
    /\ gate' = m
    /\ msg' = [msg EXCEPT ![m].at = "entered"]
    /\ UNCHANGED <<jobsVars, rowVars, lease, copy, queue, turn, woken, wakeVars>>

\* queueActiveUserMessage.  A wake is refused as busy, a client's message
\* joins the queue of a running turn.  The queue of an ended turn, or one of
\* an earlier stop revision, is waited out inside the gate.
FindQueue(m) ==
    /\ msg[m].at = "entered"
    /\ queue # 0 /\ turn[queue].rev = msg[m].rev
    /\ m = "user" => turn[queue].at = "running"
    /\ Refuse(m)
    /\ fate' = Fate(Behind(m), LeftTo(queue))
    /\ UNCHANGED <<jobsVars, rowVars, lease, copy, queue, turn, woken,
                   decisionVars>>

\* A stop since the message came in cancels it at any point before its turn is
\* asked for.
CancelMessage(m) ==
    /\ msg[m].at \in {"waiting", "entered", "peeked"}
    /\ msg[m].rev # stopRev
    /\ Refuse(m)
    /\ fate' = Fate(Behind(m), At("stopped"))
    /\ UNCHANGED <<jobsVars, rowVars, lease, copy, queue, turn, woken,
                   decisionVars>>

\* With no queue in its way, the message prepares a turn of its own:
\* openPromptWithEvents reads the batch before it asks for the lease.
Peek(m) ==
    /\ msg[m].at = "entered" /\ queue = 0
    /\ msg' = [msg EXCEPT ![m].at = "peeked", ![m].batch = Pending]
    /\ UNCHANGED <<jobsVars, rowVars, lease, copy, queue, gate, turn, woken,
                   wakeVars>>

\* AcquireTurn reserves the lease before its transaction.  The lease is free:
\* every turn's queue outlives its lease, and Peek found no queue.
Reserve(m) ==
    /\ msg[m].at = "peeked" /\ lease = 0
    /\ \E t \in Turn :
          /\ turn[t].at = "none" /\ \A u \in 1..(t - 1) : turn[u].at # "none"
          /\ lease' = t
          /\ turn' = [turn EXCEPT ![t].at = "reserved", ![t].rev = msg[m].rev]
          /\ msg' = [msg EXCEPT ![m].at = "reserved", ![m].turn = t]
    /\ UNCHANGED <<jobsVars, rowVars, copy, queue, gate, woken, wakeVars>>

\* validateWakeSource: a job whose turn is stopped, or whose root is paused,
\* wakes nobody.
SourceHeld(n) == n \in Job /\ source[n] \in held

\* A wake that does not look for its notice in the batch.
WakeAdmissibleAnyway(m) ==
    m \in Runtime => ~SourceHeld(msg[m].notice)

\* validateWakeAdmission: the wake's own notice is in the batch it opens with.
WakeAdmissible(m) ==
    m \in Runtime =>
        msg[m].notice \in msg[m].batch /\ ~SourceHeld(msg[m].notice)

\* admitTurn and deliverOpeningNotices.
Admissible(m) ==
    msg[m].rev = stopRev /\ msg[m].batch \subseteq Pending /\ WakeAdmissible(m)

Delivered(ns, t) == [n \in Notice |-> IF n \in ns THEN t ELSE delivered[n]]

Admit(m) ==
    LET t == msg[m].turn IN
    /\ msg[m].at = "reserved" /\ Admissible(m)
    /\ delivered' = Delivered(msg[m].batch, t)
    /\ turn' = [turn EXCEPT ![t].at = "opened"]
    /\ msg' = [msg EXCEPT ![m].at = "opened", ![m].batch = {}]
    /\ woken' = [woken EXCEPT ![t] = msg[m].notice]
    /\ fate' = Fate(Behind(m), AtTurn(t))
    /\ UNCHANGED <<jobsVars, log, source, stopRev, held, lease, copy, queue,
                   gate, decisionVars>>

\* What becomes of the notices that waited for a turn that was not admitted:
\* those behind its wake and those that saw its lease.
FateOfRefused(m) ==
    LET seenBusy == LeftToTurn(msg[m].turn) IN
    IF msg[m].rev # stopRev THEN Fate(Behind(m) \cup seenBusy, At("stopped"))
    ELSE [n \in Waking |->
            CASE n = msg[m].notice /\ SourceHeld(n) -> At("stopped")
              [] n \in Behind(m)                    -> At("claim")
              [] n \in seenBusy                     -> At("lease")
              [] OTHER                              -> fate[n]]

\* A failed admission drops the lease again, and no re-check follows.
AdmitRefused(m) ==
    LET t == msg[m].turn IN
    /\ msg[m].at = "reserved" /\ ~Admissible(m)
    /\ lease' = 0
    /\ turn' = [turn EXCEPT ![t] = Unborn]
    /\ Refuse(m)
    /\ fate' = FateOfRefused(m)
    /\ UNCHANGED <<jobsVars, rowVars, copy, queue, woken, decisionVars>>

\* rememberTurnLease, once the worker has the controller's answer.
Remember(m) ==
    LET t == msg[m].turn IN
    /\ msg[m].at = "opened" /\ turn[t].at = "opened"
    /\ copy' = t
    /\ turn' = [turn EXCEPT ![t].at = "remembered"]
    /\ UNCHANGED <<jobsVars, rowVars, lease, queue, gate, msg, woken, wakeVars>>

\* The queue is registered and the root submitted; then the gate lets the next
\* message in.
Submit(m) ==
    LET t == msg[m].turn IN
    /\ msg[m].at = "opened" /\ turn[t].at = "remembered" /\ queue = 0
    /\ queue' = t
    /\ turn' = [turn EXCEPT ![t].at = "running"]
    /\ gate' = Nothing
    /\ UNCHANGED <<jobsVars, rowVars, lease, copy, msg, woken, wakeVars>>

\* The message is answered once it is refused or its turn is over.
Return(m) ==
    /\ \/ msg[m].at = "refused"
       \/ msg[m].at = "opened" /\ turn[msg[m].turn].at = "done"
    /\ msg' = [msg EXCEPT ![m] = Idle]
    /\ gate' = IF gate = m THEN Nothing ELSE gate
    /\ ReleaseWake(m)
    /\ UNCHANGED <<jobsVars, rowVars, lease, copy, queue, turn, woken,
                   publisher, seen, scan, fate>>

-----------------------------------------------------------------------------
(* A running turn                                                           *)

\* Calls of the turn that have not answered.
Calls(t) == {j \in Job : source[j] = t /\ InCall(j)}

StartCommand(t, j) ==
    /\ turn[t].at = "running" /\ t \notin held
    /\ RunCommand(j)
    /\ source' = [source EXCEPT ![j] = t]
    /\ UNCHANGED <<log, delivered, stopRev, held, turnVars, wakeVars>>

\* The job tools of the turn.
UseJob(t, j) ==
    /\ turn[t].at = "running" /\ t \notin held
    /\ WaitJob(j) \/ SignalJob(j)
    /\ UNCHANGED <<rowVars, turnVars, wakeVars>>

\* drainPendingEvents, at a tool boundary.
Drain(t) ==
    /\ turn[t].at = "running" /\ t \notin held /\ Pending # {}
    /\ delivered' = Delivered(Pending, t)
    /\ UNCHANGED <<jobsVars, log, source, stopRev, held, turnVars, wakeVars>>

-----------------------------------------------------------------------------
(* The end of a turn                                                        *)

\* The turn goes on with these clean-up steps ahead of it.
MoveTurn(t, at, todo) ==
    turn' = [turn EXCEPT ![t].at = at, ![t].todo = todo]

\* The activity that finishes the root releases the lease with its receipt,
\* and the idle callback follows before the worker is answered.
Commit(t) ==
    /\ turn[t].at = "running" /\ t \notin held /\ Calls(t) = {}
    /\ lease' = 0
    /\ MoveTurn(t, "ended", <<"queue", "copy">>)
    /\ UNCHANGED <<jobsVars, rowVars, copy, queue, gate, msg, woken, wakeVars>>

\* failOpening: FinalizeTurn releases the lease; the callback ignores a turn
\* that was cancelled.
FailOpening(t) ==
    /\ turn[t].at = "remembered"
    /\ lease' = 0
    /\ \/ /\ MoveTurn(t, "ended", <<"copy", "queue">>)
          /\ UNCHANGED fate
       \/ /\ t \in held
          /\ MoveTurn(t, "answered", <<"copy", "queue">>)
          /\ fate' = Fate(LeftToTurn(t), At("stopped"))
    /\ UNCHANGED <<jobsVars, rowVars, copy, queue, gate, msg, woken,
                   decisionVars>>

\* deferRecheck finds a wake in flight and forgets to leave it a re-check.
DeferredNever == claim

\* deferRecheck leaves the re-check to the wake in flight.
Deferred == [claim EXCEPT !["controller"].recheck = TRUE]

\* handleSessionIdle: a wake in flight takes the re-check over, otherwise the
\* pending notices are read before the worker is answered.
IdleCheck(t) ==
    /\ turn[t].at = "ended"
    /\ IF claim["controller"].at = "free"
          THEN MoveTurn(t, "checked", turn[t].todo) /\ UNCHANGED claim
          ELSE MoveTurn(t, "answered", turn[t].todo) /\ claim' = Deferred
    /\ UNCHANGED <<jobsVars, rowVars, lease, copy, queue, gate, msg, woken,
                   publisher, seen, scan, rereading, fate>>

IdleRead(t) ==
    /\ turn[t].at = "checked"
    /\ scan' = [scan EXCEPT ![t] = Pending]
    /\ fate' = Fate(Waking, Open)
    /\ MoveTurn(t, "answered", turn[t].todo)
    /\ UNCHANGED <<jobsVars, rowVars, lease, copy, queue, gate, msg, woken,
                   publisher, claim, seen, rereading>>

\* interrupted after a stop, or failed when the workflow broke: the root is
\* paused and its activities cancelled, and EndRunningTurn tells nobody that
\* the session is idle.
Interrupt(t) ==
    /\ turn[t].at = "running"
    /\ held' = held \cup {t}
    /\ cancelled' = cancelled \cup Calls(t)
    /\ MoveTurn(t, "answered", <<"copy", "lease", "queue">>)
    /\ fate' = Fate(LeftToTurn(t),
                    IF Stopped(t) THEN At("stopped") ELSE At("failed"))
    /\ UNCHANGED <<jobVars, call, wait, told, faults, log, delivered, source,
                   stopRev, lease, copy, queue, gate, msg, woken, decisionVars>>

\* The next of the clean-up steps left: the worker's copy of the lease, the
\* lease itself where no transaction released it, the message queue.
CleanUp(t) ==
    LET step == Head(turn[t].todo) IN
    /\ turn[t].at = "answered"
    /\ copy'  = IF step = "copy"  /\ copy = t  THEN 0 ELSE copy
    /\ lease' = IF step = "lease" /\ lease = t THEN 0 ELSE lease
    /\ queue' = IF step = "queue" /\ queue = t THEN 0 ELSE queue
    /\ turn' = [turn EXCEPT ![t].todo = Tail(@),
                            ![t].at = IF Len(turn[t].todo) = 1 THEN "done" ELSE @]
    /\ UNCHANGED <<jobsVars, rowVars, gate, msg, woken, wakeVars>>

-----------------------------------------------------------------------------
\* CancelSession: the stop revision advances, and the turn that holds the
\* lease is asked to stop once its row exists.
Stop ==
    /\ stopRev < MaxStop
    /\ stopRev' = stopRev + 1
    /\ held' = held \cup {t \in Turn :
                  /\ lease = t
                  /\ turn[t].at \in {"opened", "remembered", "running"}}
    /\ UNCHANGED <<jobsVars, log, delivered, source, turnVars, wakeVars>>

-----------------------------------------------------------------------------
NoticeStep ==
    \/ \E n \in Notice : \/ \E r \in Runtime : PublishOther(n, r)
                         \/ ClaimPublished(n)
    \/ \E s \in Scanner : ClaimScanned(s)
    \/ \E r \in Runtime : StartWake(r) \/ DropWake(r) \/ ForgetWake(r)
    \/ Reread

MessageStep(m) ==
    \/ TakeTicket(m) \/ EnterGate(m) \/ FindQueue(m)
    \/ CancelMessage(m) \/ Peek(m) \/ Reserve(m)
    \/ Admit(m) \/ AdmitRefused(m) \/ Remember(m)
    \/ Submit(m) \/ Return(m)

TurnStep(t) ==
    \/ \E j \in Job : StartCommand(t, j) \/ UseJob(t, j)
    \/ Drain(t) \/ Commit(t) \/ FailOpening(t) \/ IdleCheck(t) \/ IdleRead(t)
    \/ Interrupt(t) \/ CleanUp(t)

Next ==
    \/ NoticeStep
    \/ \E m \in Message : MessageStep(m)
    \/ \E t \in Turn : TurnStep(t)
    \/ \E j \in Job : \/ JobStep(j) /\ UNCHANGED <<rowVars, turnVars, wakeVars>>
                      \/ PublishJob(j) \/ JobPublished(j)
    \/ Stop

Spec == Init /\ [][Next]_vars

-----------------------------------------------------------------------------
(* Properties                                                               *)

\* Nothing of the session is on its way: no message, no decision, no re-check,
\* no turn.
Quiet ==
    /\ \A m \in Message : msg[m].at = "idle"
    /\ \A r \in Runtime : claim[r].at = "free"
    /\ \A n \in Notice : publisher[n] = Nothing
    /\ \A s \in Scanner : scan[s] = {}
    /\ ~rereading
    /\ \A t \in Turn : turn[t].at \in {"none", "done"}

\* Why a notice may stay pending: its own decision found the session idle and
\* started no turn, since the limiter was full or the handler was not found
\* ("limit"); or the turn it was left to was stopped, or its wake was refused
\* after a stop or for a source that is held ("stopped").
Excused == {"limit", "stopped"}

\* How else the code comes to leave it: its claim was refused behind a decision
\* or a wake that got no turn ("claim"); the re-check it was left to had been
\* deferred to such a decision ("recheck"); the turn it was left to was not
\* admitted ("lease"), ended with a broken workflow ("failed"), or was over, and
\* only the worker's copy of the lease or the message queue still showed it
\* ("late").
Forgotten == {"claim", "recheck", "lease", "failed", "late"}

\* A notice that asks for a wake is not left behind.  In a quiet session each
\* pending one met with one of these ends after it was last considered: it was
\* not lost between publishers, ending turns, wakes in flight and re-checks.
QuietMeansServed ==
    Quiet => \A n \in Pending \cap Waking :
                fate[n].at \in Excused \cup Forgotten

\* docs/events.md on waking: an event that finds the session busy is considered
\* again once the turn ends on its own; and considerWake: a turn delivers what
\* is refused behind its claim.  So every pending notice is an excused one.
BusyEventsAreRechecked ==
    Quiet => \A n \in Pending \cap Waking : fate[n].at \in Excused

\* A wake starts a turn only for a notice that is still due: the turn opened
\* with that notice, so no other turn had read it, however long the wake
\* waited behind other messages.
WakesAreDue ==
    \A t \in Turn :
        woken[t] # Nothing =>
            delivered[woken[t]] = t /\ woken[t] \in Waking
=============================================================================
