---------------------------- MODULE WakesTurns_proofs --------------------------
(***************************************************************************)
(* For any number of commands, notices, turns, stops and failed writes: a  *)
(* command never ends in silence nor outlives the cancelled call that      *)
(* waited for it, a wake opens a turn with the notice it was sent for, and *)
(* a notice is pending in a quiet session only if it met with one of the   *)
(* ends that Excused and Forgotten name.                                   *)
(***************************************************************************)
EXTENDS Wakes, TLAPS

-----------------------------------------------------------------------------
(* The invariant of the commands                                            *)

\* Where a command can be, by the places of its call and of its monitor.
JobType ==
    /\ proc \in [Job -> {"none", "alive", "exited"}]
    /\ state \in [Job -> {"none", "running", "ended", "failed"}]
    /\ monitor \in [Job -> {"none", "waiting", "quiet", "loud", "publishing",
                            "considering", "closing", "gone"}]
    /\ call \in [Job -> {"none", "starting", "waiting", "returned",
                         "answering", "cancelling", "killing", "answered"}]
    /\ told \in [Job -> {"nothing", "handle", "result", "error"}]
    /\ signal \subseteq Job /\ awaited \subseteq Job /\ unsaved \subseteq Job
    /\ done \subseteq Job /\ reported \subseteq Job /\ cancelled \subseteq Job
    /\ faults \subseteq Job

\* The registry and the monitor agree on whether the job runs, and a job that
\* has ended has no process.
RegistryInv ==
    \A j \in Job :
        /\ state[j] = "none" <=> monitor[j] = "none"
        /\ state[j] = "running" <=> monitor[j] = "waiting"
        /\ state[j] \in {"ended", "failed"} => proc[j] = "exited"
        /\ call[j] \in {"none", "starting"} => state[j] = "none"
        /\ state[j] = "none" => call[j] \in {"none", "starting", "answered"}
        /\ j \in done => monitor[j] = "gone"

\* A call that leaves a running job to its handle has released it, and the
\* monitor of such a job reports its end.
ReportInv ==
    \A j \in Job :
        /\ call[j] = "returned" /\ state[j] = "running" =>
             j \in cancelled \/ j \notin awaited
        /\ call[j] = "answering" /\ state[j] = "running" => j \notin awaited
        /\ told[j] # "nothing" => call[j] = "answered"
        /\ told[j] = "handle" =>
             /\ monitor[j] \notin {"none", "quiet"}
             /\ monitor[j] = "waiting" => j \notin awaited
             /\ monitor[j] \in {"considering", "closing", "gone"} =>
                  j \in reported \cup faults

\* A call that was cancelled has seen to the kill of its process.
KillInv ==
    /\ \A j \in Job :
         call[j] = "killing" /\ proc[j] = "alive" => j \in signal
    /\ CancelledIsKilled

JobInv == JobType /\ RegistryInv /\ ReportInv /\ KillInv

-----------------------------------------------------------------------------
(* The invariant of the notices and turns                                   *)

Found == Notice \cup {Nothing}

Chore == {"queue", "copy", "lease"}

TurnRecord ==
    [at : {"none", "reserved", "opened", "remembered", "running", "ended",
           "checked", "answered", "done"},
     todo : Seq(Chore), rev : Nat]

MessageRecord ==
    [at : {"idle", "sent", "waiting", "entered", "peeked", "reserved",
           "opened", "refused"},
     notice : Found, rev : Nat, batch : SUBSET Notice, turn : Scanner]

ClaimRecord ==
    [at : {"free", "deciding", "waking"}, by : Nat, notice : Found,
     recheck : BOOLEAN]

RowType ==
    /\ log \in Seq(Notice) /\ delivered \in [Notice -> Scanner]
    /\ woken \in [Turn -> Found] /\ stopRev \in Nat
TurnType    == turn \in [Turn -> TurnRecord]
MessageType == msg \in [Message -> MessageRecord]
ClaimType   ==
    /\ claim \in [Runtime -> ClaimRecord] /\ scan \in [Scanner -> SUBSET Notice]
    /\ publisher \in [Notice -> Runtime \cup {Nothing, "deciding"}]

\* A wake carries a notice that asked for it.
NoticeInv ==
    /\ msg["user"].notice = Nothing
    /\ \A r \in Runtime : msg[r].at # "idle" => msg[r].notice \in Waking

\* A message whose turn is opened or about to be has that turn, and no two
\* messages are about to open the same one.
LeaseInv ==
    /\ \A m \in Message :
         /\ msg[m].at \in {"reserved", "opened"} => msg[m].turn \in Turn
         /\ msg[m].at = "reserved" => turn[msg[m].turn].at = "reserved"
    /\ \A m, k \in Message :
         /\ msg[m].at = "reserved" /\ msg[k].at = "reserved"
         /\ msg[m].turn = msg[k].turn
         => m = k

\* A turn that cleans up after itself has something left to do.
TodoInv ==
    \A t \in Turn :
        turn[t].at \in {"ended", "checked", "answered"} => Len(turn[t].todo) # 0

\* A claim that is free holds nothing, and a decision made for a scan is about
\* a notice of it.
ClaimInv ==
    \A r \in Runtime :
        /\ claim[r].at = "free" => claim[r] = Free
        /\ claim[r].by \in Scanner =>
             /\ r = "controller" /\ claim[r].at = "deciding"
             /\ claim[r].notice \in scan[claim[r].by]

\* A turn starts its scan once.
ScanInv ==
    \A t \in Turn : turn[t].at \notin {"answered", "done"} => scan[t] = {}

\* A wake is in flight exactly while its claim is held for it.
FlightInv ==
    \A r \in Runtime : claim[r].at = "waking" <=> msg[r].at # "idle"

\* Why a notice is not lost: it met with one of the ends the model names; its
\* publisher, a claim or a scan has yet to look at it; the decision or the wake
\* it was left to is still under way; or so is the turn it was left to, or the
\* re-check that turn asked for.
Sending == {"sent", "waiting", "entered", "peeked", "reserved"}

Ended(n) == fate[n].at \in Excused \cup Forgotten
Claimed(n) ==
    \E r \in Runtime : claim[r].at = "deciding" /\ claim[r].notice = n
Scanned(n) == \E s \in Scanner : n \in scan[s]
Watched(n) ==
    fate[n].at = "open" /\ (publisher[n] \in Runtime \/ Claimed(n) \/ Scanned(n))
Carried(n) ==
    \E r \in Runtime :
        /\ fate[n].at = r
        /\ claim[r].at = "deciding" \/ msg[r].at \in Sending
WaitsFor(n, t) == fate[n].at = "turn" /\ fate[n].turn = t
Rechecked(n) ==
    \E t \in Turn :
        /\ WaitsFor(n, t)
        /\ rereading \/ claim["controller"].recheck \/ WillRecheck(t)
Owed(n) == Ended(n) \/ Watched(n) \/ Carried(n) \/ Rechecked(n)

OwedInv == \A n \in Pending \cap Waking : Owed(n)

\* The lease, its copy and the queue belong to turns.
HolderType == lease \in Scanner /\ copy \in Scanner /\ queue \in Scanner

WakeInv ==
    /\ RowType /\ TurnType /\ MessageType /\ ClaimType
    /\ NoticeInv /\ LeaseInv /\ TodoInv /\ ClaimInv /\ ScanInv /\ FlightInv
    /\ OwedInv /\ WakesAreDue

-----------------------------------------------------------------------------
(* Commands                                                                 *)

\* Every step of the runCommand call keeps the invariant of the commands.
LEMMA CallKeepsJobs ==
    ASSUME JobInv, NEW j \in Job,
           RunCommand(j) \/ RecordStart(j) \/ StartUnrecorded(j)
              \/ WaitForJob(j) \/ WaitReturned(j) \/ Answer(j)
              \/ StopForeground(j) \/ StopReturned(j)
    PROVE  JobInv'
<1> USE DEF JobInv, JobType, RegistryInv, ReportInv, KillInv,
            CancelledIsKilled, jobVars, callVars
<1>1. CASE RunCommand(j)
  BY <1>1 DEF RunCommand
<1>2. CASE RecordStart(j)
  BY <1>2 DEF RecordStart
<1>3. CASE StartUnrecorded(j)
  BY <1>3 DEF StartUnrecorded, Fault
<1>4. CASE WaitForJob(j)
  BY <1>4 DEF WaitForJob, Released
<1>5. CASE WaitReturned(j)
  BY <1>5 DEF WaitReturned
<1>6. CASE Answer(j)
  BY <1>6 DEF Answer
<1>7. CASE StopForeground(j)
  BY <1>7 DEF StopForeground, Killed, Fault
<1>8. CASE StopReturned(j)
  BY <1>8 DEF StopReturned
<1> QED BY <1>1, <1>2, <1>3, <1>4, <1>5, <1>6, <1>7, <1>8, Zenon

\* Every step of the process and its monitor keeps it.
LEMMA MonitorKeepsJobs ==
    ASSUME JobInv, NEW j \in Job,
           Exit(j) \/ DeliverSignal(j) \/ LoseOutput(j) \/ Finalize(j)
              \/ RecordFinish(j) \/ FinishUnrecorded(j) \/ Announce(j)
              \/ Announced(j) \/ AnnounceFails(j) \/ CloseDone(j)
    PROVE  JobInv'
<1> USE DEF JobInv, JobType, RegistryInv, ReportInv, KillInv,
            CancelledIsKilled, jobVars, callVars
<1>1. CASE Exit(j)
  BY <1>1, Zenon DEF Exit
<1>2. CASE DeliverSignal(j)
  BY <1>2 DEF DeliverSignal
<1>3. CASE LoseOutput(j)
  BY <1>3, Zenon DEF LoseOutput, Fault
<1>4. CASE Finalize(j)
  BY <1>4 DEF Finalize
<1>5. CASE RecordFinish(j)
  BY <1>5 DEF RecordFinish
<1>6. CASE FinishUnrecorded(j)
  BY <1>6 DEF FinishUnrecorded, Fault
<1>7. CASE Announce(j)
  BY <1>7 DEF Announce
<1>8. CASE Announced(j)
  BY <1>8 DEF Announced
<1>9. CASE AnnounceFails(j)
  BY <1>9 DEF AnnounceFails, Fault
<1>10. CASE CloseDone(j)
  BY <1>10 DEF CloseDone
<1> QED BY <1>1, <1>2, <1>3, <1>4, <1>5, <1>6, <1>7, <1>8, <1>9, <1>10, Zenon

\* The other calls for a job keep it.
LEMMA OthersKeepJobs ==
    ASSUME JobInv, NEW j \in Job,
           WaitJob(j) \/ WaitJobReturns(j) \/ SignalJob(j)
    PROVE  JobInv'
<1> USE DEF JobInv, JobType, RegistryInv, ReportInv, KillInv,
            CancelledIsKilled, jobVars, callVars
<1>1. CASE WaitJob(j)
  BY <1>1, Zenon DEF WaitJob
<1>2. CASE WaitJobReturns(j)
  BY <1>2, Zenon DEF WaitJobReturns, Released
<1>3. CASE SignalJob(j)
  BY <1>3, Zenon DEF SignalJob
<1> QED BY <1>1, <1>2, <1>3, Zenon

\* A stop cancels calls and touches no job.
LEMMA InterruptKeepsJobs ==
    ASSUME JobInv, NEW t \in Turn, Interrupt(t)
    PROVE  JobInv'
<1>1. cancelled' = cancelled \cup Calls(t) /\ Calls(t) \subseteq Job
      /\ UNCHANGED <<proc, signal, state, awaited, unsaved, monitor, done,
                     reported, call, told, faults>>
  BY Zenon DEF Interrupt, jobVars, Calls
<1> QED BY <1>1, Zenon DEF JobInv, JobType, RegistryInv, ReportInv, KillInv,
                    CancelledIsKilled

\* A step that touches no command keeps their invariant.
LEMMA JobsUntouched == JobInv /\ UNCHANGED jobsVars => JobInv'
BY DEF JobInv, JobType, RegistryInv, ReportInv, KillInv, CancelledIsKilled,
       jobsVars, jobVars, callVars

-----------------------------------------------------------------------------
(* What a step leaves as it is                                              *)

\* The numbers of scans, publishers and nobody, and what the constants are.
LEMMA Constants ==
    /\ Turn \subseteq Scanner /\ 0 \in Scanner /\ 0 \notin Turn
    /\ \A s \in Scanner : s # 0 => s \in Turn
    /\ Scanner \subseteq Nat /\ Publisher \in Nat /\ Nobody \in Nat
    /\ Publisher \notin Scanner /\ Nobody \notin Scanner /\ Publisher # Nobody
    /\ Waking \subseteq Notice /\ Job \subseteq Notice /\ Other \subseteq Notice
BY WakesAssumption DEF Turn, Scanner, Publisher, Nobody, Notice

\* The records of a message, a claim and a turn that do nothing.
LEMMA IdleRecords ==
    Idle \in MessageRecord /\ Free \in ClaimRecord /\ Unborn \in TurnRecord
<1>1. 0 \in Nat /\ <<>> \in Seq(Chore)
  OBVIOUS
<1> QED BY <1>1, Constants, Zenon
        DEF Idle, Free, Unborn, MessageRecord, ClaimRecord, TurnRecord, Found

\* A step that leaves claims and scans alone keeps what is owed, if it hands on
\* the notices of a wake that is over and of a turn that will not re-check.
LEMMA OwedKept ==
    ASSUME OwedInv, Pending' \subseteq Pending,
           UNCHANGED <<publisher, claim, scan, rereading>>,
           \A n \in Pending' \cap Waking : fate'[n] = fate[n] \/ Owed(n)',
           \A r \in Runtime :
              \/ msg[r].at \in Sending => msg'[r].at \in Sending
              \/ \A n \in Pending' \cap Waking : fate'[n].at # r,
           \A t \in Turn :
              \/ WillRecheck(t) => WillRecheck(t)'
              \/ \A n \in Pending' \cap Waking : ~WaitsFor(n, t)'
    PROVE  OwedInv'
<1> SUFFICES ASSUME NEW n \in Pending' \cap Waking, fate'[n] = fate[n]
             PROVE  Owed(n)'
  BY Zenon DEF OwedInv
<1>1. Owed(n)
  BY Zenon DEF OwedInv
<1>2. Ended(n) => Ended(n)'
  BY Zenon DEF Ended
<1>3. Watched(n) => Watched(n)'
  BY Zenon DEF Watched, Claimed, Scanned
<1>4. Carried(n) => Carried(n)'
  BY Zenon DEF Carried
<1>5. Rechecked(n) => Rechecked(n)'
  BY Zenon DEF Rechecked, WaitsFor
<1> QED BY <1>1, <1>2, <1>3, <1>4, <1>5, Zenon DEF Owed

\* The same, for a step that changes no fate, no message and no turn.
LEMMA OwedUntouched ==
    ASSUME OwedInv, Pending' \subseteq Pending,
           UNCHANGED <<publisher, claim, scan, rereading, fate, msg, turn>>
    PROVE  OwedInv'
<1>1. \A t \in Turn : WillRecheck(t)' = WillRecheck(t)
  BY Zenon DEF WillRecheck
<1> QED BY <1>1, OwedKept, Zenon

\* A notice left to a turn waits for it, or for nothing if it is over.
LEMMA LeftToTurns ==
    ASSUME NEW t \in Turn, NEW n, fate'[n] = LeftTo(t), UNCHANGED turn
    PROVE  Owed(n)' /\ fate'[n].at \notin Runtime
<1>1. CASE WillRecheck(t)
  <2>1. fate'[n].at = "turn" /\ fate'[n].turn = t
    BY <1>1 DEF LeftTo, AtTurn
  <2>2. WillRecheck(t)'
    BY <1>1, Zenon DEF WillRecheck
  <2> QED BY <2>1, <2>2 DEF Owed, Rechecked, WaitsFor, Runtime
<1>2. CASE ~WillRecheck(t)
  <2>1. fate'[n].at \in {"stopped", "late"}
    BY <1>2 DEF LeftTo, At
  <2> QED BY <2>1 DEF Owed, Ended, Excused, Forgotten, Runtime
<1> QED BY <1>1, <1>2, Zenon

\* What a decision on other notices leaves to a notice.
LEMMA OthersOwed ==
    ASSUME NEW n, Owed(n), fate'[n] = fate[n], publisher'[n] = publisher[n],
           Claimed(n) => Claimed(n)', Scanned(n) => Scanned(n)',
           \A r \in Runtime :
              fate[n].at = r /\ (claim[r].at = "deciding" \/ msg[r].at \in Sending)
                => claim'[r].at = "deciding" \/ msg'[r].at \in Sending,
           \A t \in Turn :
              WaitsFor(n, t) /\ (rereading \/ claim["controller"].recheck)
                => rereading' \/ claim'["controller"].recheck \/ WillRecheck(t)',
           UNCHANGED turn
    PROVE  Owed(n)'
<1>1. Ended(n) => Ended(n)'
  BY Zenon DEF Ended
<1>2. Watched(n) => Watched(n)'
  BY Zenon DEF Watched
<1>3. Carried(n) => Carried(n)'
  BY Zenon DEF Carried
<1>4. \A t \in Turn : WillRecheck(t)' = WillRecheck(t)
  BY Zenon DEF WillRecheck
<1>5. Rechecked(n) => Rechecked(n)'
  BY <1>4, Zenon DEF Rechecked, WaitsFor
<1> QED BY <1>1, <1>2, <1>3, <1>5, Zenon DEF Owed

\* A notice that met with an end is left to nobody.
LEMMA AtAnEnd ==
    ASSUME NEW n, NEW a \in Excused \cup Forgotten, fate'[n] = At(a)
    PROVE  Owed(n)' /\ fate'[n].at \notin Runtime /\ fate'[n].at # "turn"
<1>1. fate'[n].at = a
  BY DEF At
<1> QED BY <1>1 DEF Owed, Ended, Excused, Forgotten, Runtime

\* What is pending depends on the log and the deliveries only.
LEMMA PendingKept == UNCHANGED <<log, delivered>> => Pending' = Pending
BY Zenon DEF Pending, Range

\* What is pending are notices.
LEMMA PendingNotices == RowType => Pending \subseteq Notice
BY DEF RowType, Pending, Range

\* A step that moves one turn, and not back from its end, keeps the scans of
\* the turns that have not ended.
LEMMA ScanKept ==
    ASSUME ScanInv, NEW t \in Turn, UNCHANGED scan,
           \A u \in Turn : u # t => turn'[u].at = turn[u].at,
           turn[t].at \notin {"answered", "done"}
              \/ turn'[t].at \in {"answered", "done"}
    PROVE  ScanInv'
BY Zenon DEF ScanInv

\* A turn that is to re-check keeps its promise while it moves on.
LEMMA RecheckKept ==
    ASSUME NEW t \in Turn, \A u \in Turn : u # t => turn'[u].at = turn[u].at,
           WillRecheck(t) => WillRecheck(t)'
    PROVE  \A u \in Turn : WillRecheck(u) => WillRecheck(u)'
BY Zenon DEF WillRecheck

\* Claims and scans alone decide ClaimInv.
LEMMA ClaimKept ==
    ASSUME ClaimType, ClaimInv, UNCHANGED <<claim, scan, publisher>>
    PROVE  ClaimType' /\ ClaimInv'
BY Zenon DEF ClaimType, ClaimInv

\* A step that touches none of it keeps the invariant.
LEMMA WakeUntouched ==
    ASSUME WakeInv,
           UNCHANGED <<log, delivered, stopRev, turn, msg, woken, publisher,
                       claim, scan, rereading, fate>>
    PROVE  WakeInv'
<1>1. OwedInv'
  BY PendingKept, OwedUntouched, Zenon DEF WakeInv
<1>2. RowType' /\ TurnType' /\ MessageType' /\ NoticeInv' /\ LeaseInv'
  BY Zenon DEF WakeInv, RowType, TurnType, MessageType, NoticeInv, LeaseInv
<1>3. TodoInv' /\ ScanInv' /\ FlightInv' /\ WakesAreDue'
  BY Zenon DEF WakeInv, TodoInv, ScanInv, FlightInv, WakesAreDue
<1> QED BY <1>1, <1>2, <1>3, ClaimKept, Zenon DEF WakeInv

\* A message that moves without a turn of its own: at the gate, before it asks
\* for one, or refused, once the notices behind it are handed on.
LEMMA MessageMoves ==
    ASSUME WakeInv, NEW m \in Message, msg' \in [Message -> MessageRecord],
           \A k \in Message : k # m => msg'[k] = msg[k],
           msg'[m].at \notin {"reserved", "opened"},
           msg'[m].notice = msg[m].notice \/ msg'[m] = Idle,
           m \in Runtime =>
              msg[m].at # "idle" /\ msg'[m].at # "idle"
                /\ msg'[m].notice = msg[m].notice,
           \A n \in Pending \cap Waking : fate'[n] = fate[n] \/ Owed(n)',
           m \in Runtime =>
              \/ msg[m].at \in Sending => msg'[m].at \in Sending
              \/ \A n \in Pending \cap Waking : fate'[n].at # m,
           UNCHANGED <<log, delivered, stopRev, turn, woken, publisher, claim,
                       scan, rereading>>
    PROVE  WakeInv'
<1>1. OwedInv'
  <2>1. \A t \in Turn : WillRecheck(t)' = WillRecheck(t)
    BY Zenon DEF WillRecheck
  <2>2. \A r \in Runtime : r \in Message
    BY Zenon DEF Message
  <2> QED BY <2>1, <2>2, PendingKept, OwedKept, Zenon DEF WakeInv
<1>2. RowType' /\ TurnType' /\ MessageType' /\ TodoInv' /\ ScanInv'
  BY Zenon DEF WakeInv, RowType, TurnType, MessageType, TodoInv, ScanInv
<1>3. WakesAreDue'
  BY Zenon DEF WakeInv, WakesAreDue
<1>4. NoticeInv'
  BY DEF WakeInv, NoticeInv, Message, Runtime, Idle
<1>5. LeaseInv'
  BY DEF WakeInv, LeaseInv
<1>6. FlightInv'
  BY Zenon DEF WakeInv, FlightInv, Message
<1> QED BY <1>1, <1>2, <1>3, <1>4, <1>5, <1>6, ClaimKept, Zenon DEF WakeInv

\* A turn that moves on once its message has opened it.
LEMMA TurnMoves ==
    ASSUME WakeInv, NEW t \in Turn, turn' \in [Turn -> TurnRecord],
           \A u \in Turn : u # t => turn'[u] = turn[u],
           turn[t].at # "reserved",
           turn[t].at \notin {"answered", "done"}
              \/ turn'[t].at \in {"answered", "done"},
           turn'[t].at \in {"ended", "checked", "answered"} =>
              Len(turn'[t].todo) # 0,
           \A n \in Pending \cap Waking : fate'[n] = fate[n] \/ Owed(n)',
           \/ WillRecheck(t) => WillRecheck(t)'
           \/ \A n \in Pending \cap Waking : ~WaitsFor(n, t)',
           UNCHANGED <<log, delivered, stopRev, msg, woken, publisher, claim,
                       scan, rereading>>
    PROVE  WakeInv'
<1>1. OwedInv'
  <2>1. \A u \in Turn : u # t => WillRecheck(u)' = WillRecheck(u)
    BY Zenon DEF WillRecheck
  <2> QED BY <2>1, PendingKept, OwedKept, Zenon DEF WakeInv
<1>2. RowType' /\ TurnType' /\ MessageType' /\ NoticeInv' /\ WakesAreDue'
      /\ FlightInv'
  BY Zenon DEF WakeInv, RowType, TurnType, MessageType, NoticeInv, WakesAreDue,
               FlightInv
<1>3. TodoInv' /\ ScanInv'
  BY ScanKept, Zenon DEF WakeInv, TodoInv
<1>4. LeaseInv'
  BY Zenon DEF WakeInv, LeaseInv
<1> QED BY <1>1, <1>2, <1>3, <1>4, ClaimKept, Zenon DEF WakeInv

-----------------------------------------------------------------------------
(* Messages                                                                 *)

\* A refused message of a client is done with, a wake waits for its runner.
LEMMA Refused ==
    ASSUME MessageType, NEW m \in Message, Refuse(m)
    PROVE  /\ msg' \in [Message -> MessageRecord]
           /\ \A k \in Message : k # m => msg'[k] = msg[k]
           /\ \/ m = "user" /\ msg'[m] = Idle
              \/ msg'[m].at = "refused" /\ msg'[m].notice = msg[m].notice
<1>1. msg[m] \in MessageRecord
  BY Zenon DEF MessageType
<1>2. [msg[m] EXCEPT !.at = "refused", !.batch = {}] \in MessageRecord
  BY <1>1, Zenon DEF MessageRecord
<1>3. CASE m = "user"
  BY <1>3, IdleRecords, Zenon DEF MessageType, Refuse
<1>4. CASE m # "user"
  <2>1. msg' = [msg EXCEPT ![m] = [@ EXCEPT !.at = "refused", !.batch = {}]]
    BY <1>4, Zenon DEF Refuse
  <2>2. /\ msg' \in [Message -> MessageRecord]
        /\ \A k \in Message : k # m => msg'[k] = msg[k]
        /\ msg'[m] = [msg[m] EXCEPT !.at = "refused", !.batch = {}]
    BY <2>1, <1>2, Zenon DEF MessageType
  <2> QED BY <1>1, <2>2, Zenon DEF MessageRecord
<1> QED BY <1>3, <1>4, Zenon

\* The notices behind a refused wake are left to a turn or to nobody.
LEMMA HandedOn ==
    ASSUME NEW m \in Message, NEW f, fate' = Fate(Behind(m), f),
           \A n \in Waking : fate'[n] = f => Owed(n)' /\ fate'[n].at \notin Runtime
    PROVE  \A n \in Pending \cap Waking :
              /\ fate'[n] = fate[n] \/ Owed(n)'
              /\ m \in Runtime => fate'[n].at # m
<1> SUFFICES ASSUME NEW n \in Waking
             PROVE  /\ fate'[n] = fate[n] \/ Owed(n)'
                    /\ m \in Runtime => fate'[n].at # m
  BY Zenon
<1>1. CASE n \in Behind(m)
  BY <1>1, Zenon DEF Fate
<1>2. CASE n \notin Behind(m)
  BY <1>2, Zenon DEF Fate, Behind
<1> QED BY <1>1, <1>2, Zenon

\* The invariant is kept when a message takes its ticket or enters the gate, or
\* reads the pending notices.
LEMMA GateStep ==
    ASSUME WakeInv, NEW m \in Message, TakeTicket(m) \/ EnterGate(m) \/ Peek(m)
    PROVE  WakeInv'
<1>1. /\ msg \in [Message -> MessageRecord] /\ stopRev \in Nat
      /\ Pending \subseteq Notice
  BY PendingNotices, Zenon DEF WakeInv, MessageType, RowType
<1>2. UNCHANGED <<log, delivered, stopRev, turn, woken, publisher, claim, scan,
                  rereading, fate>>
  BY Zenon DEF TakeTicket, EnterGate, Peek, wakeVars, decisionVars, rowVars
<1>3. ASSUME msg' \in [Message -> MessageRecord],
             \A k \in Message : k # m => msg'[k] = msg[k],
             msg'[m].at \in Sending \ {"reserved"}, m \in Runtime => msg[m].at # "idle",
             msg'[m].notice = msg[m].notice
      PROVE  WakeInv'
  BY <1>2, <1>3, MessageMoves DEF Sending
<1>4. CASE TakeTicket(m)
  <2>1. msg' \in [Message -> MessageRecord]
    BY <1>1, <1>4, Zenon DEF TakeTicket, MessageRecord
  <2>2. /\ \A k \in Message : k # m => msg'[k] = msg[k]
        /\ msg'[m].at = "waiting" /\ msg'[m].notice = msg[m].notice
    BY <1>1, <1>4, Zenon DEF TakeTicket, MessageRecord
  <2>3. m \in Runtime => msg[m].at # "idle"
    BY <1>4 DEF TakeTicket, Runtime
  <2> QED BY <1>3, <2>1, <2>2, <2>3 DEF Sending
<1>5. CASE EnterGate(m)
  <2>1. msg' \in [Message -> MessageRecord]
    BY <1>1, <1>5, Zenon DEF EnterGate, MessageRecord
  <2>2. /\ \A k \in Message : k # m => msg'[k] = msg[k]
        /\ msg'[m].at = "entered" /\ msg'[m].notice = msg[m].notice
        /\ msg[m].at = "waiting"
    BY <1>1, <1>5, Zenon DEF EnterGate, MessageRecord
  <2> QED BY <1>3, <2>1, <2>2 DEF Sending
<1>6. CASE Peek(m)
  <2>1. msg' \in [Message -> MessageRecord]
    BY <1>1, <1>6, ZenonT(30) DEF Peek, MessageRecord
  <2>2. /\ \A k \in Message : k # m => msg'[k] = msg[k]
        /\ msg'[m].at = "peeked" /\ msg'[m].notice = msg[m].notice
        /\ msg[m].at = "entered"
    BY <1>1, <1>6 DEF Peek, MessageRecord
  <2> QED BY <1>3, <2>1, <2>2 DEF Sending
<1> QED BY <1>4, <1>5, <1>6, Zenon

\* The invariant is kept when a message leaves without a turn: what was behind
\* it is left to the turn in its way, or stopped with it.
LEMMA GateRefused ==
    ASSUME WakeInv, HolderType, NEW m \in Message,
           FindQueue(m) \/ CancelMessage(m)
    PROVE  WakeInv'
<1>1. /\ Refuse(m) /\ msg[m].at # "idle"
      /\ UNCHANGED <<log, delivered, stopRev, turn, woken, publisher, claim,
                     scan, rereading>>
  BY Zenon DEF FindQueue, CancelMessage, decisionVars, rowVars
<1>2. \A n \in Pending \cap Waking :
        /\ fate'[n] = fate[n] \/ Owed(n)'
        /\ m \in Runtime => fate'[n].at # m
  <2>1. CASE FindQueue(m)
    <3>1. queue \in Turn /\ fate' = Fate(Behind(m), LeftTo(queue))
      BY <2>1, Constants, Zenon DEF FindQueue, HolderType
    <3>2. \A n \in Waking : fate'[n] = LeftTo(queue) =>
             Owed(n)' /\ fate'[n].at \notin Runtime
      BY <1>1, <3>1, LeftToTurns, Zenon
    <3> QED BY <3>1, <3>2, HandedOn, Zenon
  <2>2. CASE CancelMessage(m)
    <3>1. fate' = Fate(Behind(m), At("stopped"))
      BY <2>2, Zenon DEF CancelMessage
    <3>2. \A n \in Waking : fate'[n] = At("stopped") =>
             Owed(n)' /\ fate'[n].at \notin Runtime
      BY AtAnEnd, Zenon DEF Excused
    <3> QED BY <3>1, <3>2, HandedOn, Zenon
  <2> QED BY <2>1, <2>2, Zenon
<1>3. /\ msg' \in [Message -> MessageRecord]
      /\ \A k \in Message : k # m => msg'[k] = msg[k]
      /\ \/ m = "user" /\ msg'[m] = Idle
         \/ msg'[m].at = "refused" /\ msg'[m].notice = msg[m].notice
  BY <1>1, Refused, Zenon DEF WakeInv
<1>4. /\ msg'[m].at \notin {"reserved", "opened"}
      /\ m \in Runtime => msg'[m].at # "idle" /\ msg'[m].notice = msg[m].notice
  BY <1>3 DEF Idle, Runtime
<1> QED BY <1>1, <1>2, <1>3, <1>4, MessageMoves, Zenon

\* The invariant is kept when a message reserves the lease for a fresh turn.
LEMMA ReserveStep ==
    ASSUME WakeInv, NEW m \in Message, Reserve(m)
    PROVE  WakeInv'
<1> USE DEF wakeVars, decisionVars, rowVars
<1>1. PICK t \in Turn :
        /\ turn[t].at = "none"
        /\ turn' = [turn EXCEPT ![t].at = "reserved", ![t].rev = msg[m].rev]
        /\ msg' = [msg EXCEPT ![m].at = "reserved", ![m].turn = t]
  BY Zenon DEF Reserve
<1>2. /\ msg[m].at = "peeked" /\ msg[m].rev \in Nat
      /\ UNCHANGED <<log, delivered, stopRev, woken, publisher, claim, scan,
                     rereading, fate>>
  BY Zenon DEF Reserve, WakeInv, MessageType, MessageRecord
<1>3. turn' \in [Turn -> TurnRecord]
  BY <1>1, <1>2, Zenon DEF WakeInv, TurnType, TurnRecord
<1>4. msg' \in [Message -> MessageRecord]
  <2>1. t \in Scanner /\ msg \in [Message -> MessageRecord]
    BY Constants, Zenon DEF WakeInv, MessageType
  <2> QED BY <1>1, <2>1, Zenon DEF MessageRecord
<1>5. /\ \A u \in Turn : u # t => turn'[u] = turn[u]
      /\ turn'[t].at = "reserved"
  BY <1>1, Zenon DEF WakeInv, TurnType, TurnRecord
<1>6. /\ \A k \in Message : k # m => msg'[k] = msg[k]
      /\ msg'[m].at = "reserved" /\ msg'[m].turn = t
      /\ msg'[m].notice = msg[m].notice
  BY <1>1 DEF WakeInv, MessageType, MessageRecord
<1>7. OwedInv' /\ FlightInv'
  <2>1. WillRecheck(t)'
    BY <1>5, Zenon DEF WillRecheck
  <2>2. \A k \in Message : msg[k].at \in Sending => msg'[k].at \in Sending
    BY <1>6, Zenon DEF Sending
  <2>3. \A u \in Turn : WillRecheck(u) => WillRecheck(u)'
    BY <1>5, <2>1, RecheckKept, Zenon
  <2>4. FlightInv'
    BY <1>2, <1>6 DEF WakeInv, FlightInv, Message
  <2> QED BY <1>2, <2>2, <2>3, <2>4, PendingKept, OwedKept, Zenon
          DEF WakeInv, Message
<1>8. LeaseInv'
  <2>1. ASSUME NEW k \in Message, k # m, msg[k].at = "reserved"
        PROVE  /\ msg[k].turn \in Turn /\ msg[k].turn # t
               /\ turn'[msg[k].turn].at = "reserved"
    BY <1>1, <1>5, <2>1, Zenon DEF WakeInv, LeaseInv
  <2>2. ASSUME NEW k \in Message
        PROVE  /\ msg'[k].at \in {"reserved", "opened"} => msg'[k].turn \in Turn
               /\ msg'[k].at = "reserved" => turn'[msg'[k].turn].at = "reserved"
    BY <1>5, <1>6, <2>1, Zenon DEF WakeInv, LeaseInv
  <2>3. ASSUME NEW k \in Message, NEW l \in Message, msg'[k].at = "reserved",
               msg'[l].at = "reserved", msg'[k].turn = msg'[l].turn
        PROVE  k = l
    BY <1>6, <2>1, <2>3 DEF WakeInv, LeaseInv
  <2> QED BY <2>2, <2>3, Zenon DEF LeaseInv
<1>9. NoticeInv'
  BY <1>2, <1>6, Zenon DEF WakeInv, NoticeInv, Message, Runtime
<1>10. TodoInv' /\ ScanInv'
  BY <1>1, <1>2, <1>5, ScanKept, Zenon DEF WakeInv, TodoInv
<1>11. RowType' /\ TurnType' /\ MessageType' /\ WakesAreDue'
  BY <1>2, <1>3, <1>4, Zenon
     DEF WakeInv, RowType, TurnType, MessageType, WakesAreDue
<1> QED BY <1>2, <1>7, <1>8, <1>9, <1>10, <1>11, ClaimKept, Zenon DEF WakeInv

\* The invariant is kept when the turn opens with the notices of the message:
\* none of them was read before, so what woke earlier turns stays theirs.
LEMMA AdmitStep ==
    ASSUME WakeInv, NEW m \in Message, Admit(m)
    PROVE  WakeInv'
<1> USE DEF decisionVars
<1>1. PICK t \in Turn :
      /\ t = msg[m].turn /\ msg[m].at = "reserved" /\ turn[t].at = "reserved"
      /\ msg[m].batch \subseteq Pending /\ WakeAdmissible(m)
      /\ delivered' = Delivered(msg[m].batch, t)
      /\ turn' = [turn EXCEPT ![t].at = "opened"]
      /\ msg' = [msg EXCEPT ![m].at = "opened", ![m].batch = {}]
      /\ woken' = [woken EXCEPT ![t] = msg[m].notice]
      /\ fate' = Fate(Behind(m), AtTurn(t))
      /\ UNCHANGED <<log, stopRev, publisher, claim, scan, rereading>>
  BY Zenon DEF Admit, Admissible, WakeInv, LeaseInv
<1>2. turn' \in [Turn -> TurnRecord]
  BY <1>1, Zenon DEF WakeInv, TurnType, TurnRecord
<1>3. msg' \in [Message -> MessageRecord]
  BY <1>1, Zenon DEF WakeInv, MessageType, MessageRecord
<1>4. /\ \A u \in Turn : u # t => turn'[u] = turn[u]
      /\ turn'[t].at = "opened"
  BY <1>1, Zenon DEF WakeInv, TurnType, TurnRecord
<1>5. /\ \A k \in Message : k # m => msg'[k] = msg[k]
      /\ msg'[m].at = "opened" /\ msg'[m].turn = msg[m].turn
      /\ msg'[m].notice = msg[m].notice /\ msg[m].notice \in Found
  BY <1>1, Zenon DEF WakeInv, MessageType, MessageRecord
<1>6. /\ delivered' \in [Notice -> Scanner]
      /\ \A n \in Notice : delivered'[n] =
            IF n \in msg[m].batch THEN t ELSE delivered[n]
  BY <1>1, Constants, Zenon DEF Delivered, WakeInv, RowType
<1>7. Pending' \subseteq Pending /\ Pending \subseteq Notice
  BY <1>1, <1>6, Constants DEF Pending, Range, WakeInv, RowType
<1>8. OwedInv' /\ FlightInv'
  <2>1. WillRecheck(t)'
    BY <1>4, Zenon DEF WillRecheck
  <2>2. \A u \in Turn : WillRecheck(u) => WillRecheck(u)'
    BY <1>1, <1>4, <2>1, RecheckKept, Zenon
  <2>3. \A n \in Waking : fate'[n] = AtTurn(t) =>
           Owed(n)' /\ fate'[n].at \notin Runtime
    BY <1>1, <2>1 DEF AtTurn, Owed, Rechecked, WaitsFor, Runtime
  <2>4. \A n \in Pending \cap Waking :
           /\ fate'[n] = fate[n] \/ Owed(n)'
           /\ m \in Runtime => fate'[n].at # m
    BY <1>1, <2>3, HandedOn, Zenon
  <2>5. \A k \in Message : k # m => msg'[k].at = msg[k].at
    BY <1>5, Zenon
  <2>6. FlightInv'
    BY <1>1, <1>5 DEF WakeInv, FlightInv, Message
  <2> QED BY <1>1, <1>7, <2>2, <2>4, <2>5, <2>6, OwedKept, Zenon
          DEF WakeInv, Message
<1>9. LeaseInv'
  <2>1. ASSUME NEW k \in Message, k # m, msg[k].at = "reserved"
        PROVE  /\ msg[k].turn \in Turn /\ msg[k].turn # t
               /\ turn'[msg[k].turn].at = "reserved"
    BY <1>1, <1>4, <2>1, Zenon DEF WakeInv, LeaseInv
  <2>2. ASSUME NEW k \in Message
        PROVE  /\ msg'[k].at \in {"reserved", "opened"} => msg'[k].turn \in Turn
               /\ msg'[k].at = "reserved" => turn'[msg'[k].turn].at = "reserved"
    BY <1>1, <1>5, <2>1 DEF WakeInv, LeaseInv
  <2>3. ASSUME NEW k \in Message, NEW l \in Message, msg'[k].at = "reserved",
               msg'[l].at = "reserved", msg'[k].turn = msg'[l].turn
        PROVE  k = l
    BY <1>5, <2>3 DEF WakeInv, LeaseInv
  <2> QED BY <2>2, <2>3, Zenon DEF LeaseInv
<1>10. NoticeInv'
  BY <1>1, <1>5, Zenon DEF WakeInv, NoticeInv, Message, Runtime
<1>11. TodoInv' /\ ScanInv'
  BY <1>1, <1>4, ScanKept, Zenon DEF WakeInv, TodoInv
<1>12. WakesAreDue'
  <2>1. ASSUME m \in Runtime
        PROVE  msg[m].notice \in Waking /\ delivered'[msg[m].notice] = t
    BY <1>1, <1>6, <2>1, Constants, Zenon
       DEF WakeInv, NoticeInv, WakeAdmissible
  <2>2. m \notin Runtime => msg[m].notice = Nothing
    BY Zenon DEF WakeInv, NoticeInv, Message
  <2>3. \A n \in Notice : delivered[n] # 0 => delivered'[n] = delivered[n]
    BY <1>1, <1>6, Zenon DEF Pending
  <2>4. ASSUME NEW u \in Turn, woken'[u] # Nothing
        PROVE  delivered'[woken'[u]] = u /\ woken'[u] \in Waking
    <3>1. CASE u = t
      BY <1>1, <2>1, <2>2, <2>4, <3>1, Zenon DEF WakeInv, RowType
    <3>2. CASE u # t
      <4>1. woken'[u] = woken[u]
        BY <1>1, <3>2, Zenon DEF WakeInv, RowType
      <4> QED BY <2>3, <2>4, <4>1, Constants DEF WakeInv, WakesAreDue
    <3> QED BY <3>1, <3>2, Zenon
  <2> QED BY <2>4, Zenon DEF WakesAreDue
<1>13. RowType' /\ TurnType' /\ MessageType'
  BY <1>1, <1>2, <1>3, <1>5, <1>6, Constants, Zenon
     DEF WakeInv, RowType, TurnType, MessageType
<1> QED BY <1>1, <1>8, <1>9, <1>10, <1>11, <1>12, <1>13, ClaimKept, Zenon
           DEF WakeInv

\* The invariant is kept when the admission fails: the turn never was, and
\* what was left to it or to its wake meets with an end.
LEMMA AdmitRefusedStep ==
    ASSUME WakeInv, NEW m \in Message, AdmitRefused(m)
    PROVE  WakeInv'
<1> USE DEF rowVars, decisionVars
<1>1. PICK t \in Turn :
      /\ t = msg[m].turn /\ msg[m].at = "reserved" /\ turn[t].at = "reserved"
      /\ turn' = [turn EXCEPT ![t] = Unborn]
      /\ Refuse(m) /\ fate' = FateOfRefused(m)
      /\ UNCHANGED <<log, delivered, stopRev, woken, publisher, claim, scan,
                     rereading>>
  BY Zenon DEF AdmitRefused, WakeInv, LeaseInv
<1>2. turn' \in [Turn -> TurnRecord]
  BY <1>1, IdleRecords, Zenon DEF WakeInv, TurnType
<1>3. /\ \A u \in Turn : u # t => turn'[u] = turn[u]
      /\ turn'[t].at = "none"
  BY <1>1, Zenon DEF WakeInv, TurnType, Unborn
<1>4. /\ msg' \in [Message -> MessageRecord]
      /\ \A k \in Message : k # m => msg'[k] = msg[k]
      /\ \/ m = "user" /\ msg'[m] = Idle
         \/ msg'[m].at = "refused" /\ msg'[m].notice = msg[m].notice
  BY <1>1, Refused, Zenon DEF WakeInv
<1>5. OwedInv' /\ FlightInv'
  <2>1. \A n \in Waking :
          \/ \E a \in Excused \cup Forgotten : fate'[n] = At(a)
          \/ fate'[n] = fate[n] /\ n \notin Behind(m) /\ n \notin LeftToTurn(t)
    <3>1. CASE msg[m].rev # stopRev
      BY <1>1, <3>1, Zenon DEF FateOfRefused, Fate, Excused
    <3>2. CASE msg[m].rev = stopRev
      <4> SUFFICES ASSUME NEW n \in Waking
                   PROVE  \/ \E a \in Excused \cup Forgotten : fate'[n] = At(a)
                          \/ /\ fate'[n] = fate[n]
                             /\ n \notin Behind(m) /\ n \notin LeftToTurn(t)
        BY Zenon
      <4>1. fate'[n] =
              CASE n = msg[m].notice /\ SourceHeld(n) -> At("stopped")
                [] n \in Behind(m)                    -> At("claim")
                [] n \in LeftToTurn(t)                -> At("lease")
                [] OTHER                              -> fate[n]
        BY <1>1, <3>2, Zenon DEF FateOfRefused
      <4>2. {"stopped", "claim", "lease"} \subseteq Excused \cup Forgotten
        BY Zenon DEF Excused, Forgotten
      <4> QED BY <4>1, <4>2
    <3> QED BY <3>1, <3>2, Zenon
  <2>2. ASSUME NEW n \in Waking
        PROVE  /\ fate'[n] = fate[n] \/ Owed(n)'
               /\ m \in Runtime => fate'[n].at # m
               /\ ~WaitsFor(n, t)'
    <3>1. CASE \E a \in Excused \cup Forgotten : fate'[n] = At(a)
      BY <3>1, AtAnEnd, Zenon DEF WaitsFor
    <3>2. CASE fate'[n] = fate[n] /\ n \notin Behind(m) /\ n \notin LeftToTurn(t)
      BY <1>1, <3>2, Zenon DEF WaitsFor, Behind, LeftToTurn
    <3> QED BY <2>1, <3>1, <3>2, Zenon
  <2>3. \A u \in Turn : u # t => WillRecheck(u)' = WillRecheck(u)
    BY <1>3, Zenon DEF WillRecheck
  <2>4. FlightInv'
    BY <1>1, <1>4 DEF WakeInv, FlightInv, Message, Runtime
  <2> QED BY <1>1, <1>4, <2>2, <2>3, <2>4, PendingKept, OwedKept, Zenon
          DEF WakeInv, Message
<1>6. LeaseInv'
  <2>1. msg'[m].at \notin {"reserved", "opened"}
    BY <1>4 DEF Idle
  <2>2. ASSUME NEW k \in Message, k # m, msg[k].at = "reserved"
        PROVE  /\ msg[k].turn \in Turn /\ msg[k].turn # t
               /\ turn'[msg[k].turn].at = "reserved"
    BY <1>1, <1>3, <2>2, Zenon DEF WakeInv, LeaseInv
  <2>3. ASSUME NEW k \in Message
        PROVE  /\ msg'[k].at \in {"reserved", "opened"} => msg'[k].turn \in Turn
               /\ msg'[k].at = "reserved" => turn'[msg'[k].turn].at = "reserved"
    BY <1>4, <2>1, <2>2, Zenon DEF WakeInv, LeaseInv
  <2>4. ASSUME NEW k \in Message, NEW l \in Message, msg'[k].at = "reserved",
               msg'[l].at = "reserved", msg'[k].turn = msg'[l].turn
        PROVE  k = l
    BY <1>4, <2>1, <2>4 DEF WakeInv, LeaseInv
  <2> QED BY <2>3, <2>4, Zenon DEF LeaseInv
<1>7. NoticeInv'
  <2>1. "user" \in Message /\ \A r \in Runtime : r \in Message
    BY Zenon DEF Message
  <2>2. msg'["user"].notice = Nothing
    BY <1>4, <2>1 DEF WakeInv, NoticeInv, Idle
  <2>3. ASSUME NEW r \in Runtime, msg'[r].at # "idle"
        PROVE  msg'[r].notice \in Waking
    BY <1>1, <1>4, <2>1, <2>3 DEF WakeInv, NoticeInv, Idle
  <2> QED BY <2>2, <2>3, Zenon DEF NoticeInv
<1>8. TodoInv' /\ ScanInv'
  BY <1>1, <1>3, ScanKept, Zenon DEF WakeInv, TodoInv
<1>9. RowType' /\ TurnType' /\ MessageType' /\ WakesAreDue'
  BY <1>1, <1>2, <1>4, Zenon
     DEF WakeInv, RowType, TurnType, MessageType, WakesAreDue
<1> QED BY <1>1, <1>5, <1>6, <1>7, <1>8, <1>9, ClaimKept, Zenon DEF WakeInv

\* The invariant is kept when the worker remembers the lease and the turn
\* begins to run.
LEMMA OpenStep ==
    ASSUME WakeInv, NEW m \in Message, Remember(m) \/ Submit(m)
    PROVE  WakeInv'
<1>1. PICK a \in {"remembered", "running"}, t \in Turn :
        /\ turn[t].at \in {"opened", "remembered"}
        /\ turn' = [turn EXCEPT ![t].at = a]
        /\ UNCHANGED <<log, delivered, stopRev, msg, woken, publisher, claim,
                       scan, rereading, fate>>
  BY Zenon DEF Remember, Submit, WakeInv, LeaseInv, wakeVars, decisionVars,
               rowVars
<1>2. turn' \in [Turn -> TurnRecord]
  BY <1>1, Zenon DEF WakeInv, TurnType, TurnRecord
<1>3. /\ \A u \in Turn : u # t => turn'[u] = turn[u]
      /\ turn'[t].at = a
  BY <1>1, Zenon DEF WakeInv, TurnType, TurnRecord
<1>4. WillRecheck(t)'
  BY <1>3, Zenon DEF WillRecheck
<1> QED BY <1>1, <1>2, <1>3, <1>4, TurnMoves, Zenon

\* The invariant is kept when a message is answered.  A wake releases its
\* claim, which nothing is left to by now, and a re-check deferred to it follows.
LEMMA ReturnStep ==
    ASSUME WakeInv, NEW m \in Message, Return(m)
    PROVE  WakeInv'
<1> USE DEF rowVars
<1>1. /\ msg' = [msg EXCEPT ![m] = Idle] /\ ReleaseWake(m)
      /\ msg[m].at \notin Sending /\ msg[m].at # "idle"
      /\ UNCHANGED <<log, delivered, stopRev, turn, woken, publisher, scan,
                     fate>>
  BY Zenon DEF Return, Sending
<1>2. /\ msg' \in [Message -> MessageRecord]
      /\ \A k \in Message : k # m => msg'[k] = msg[k]
      /\ msg'[m] = Idle
  BY <1>1, IdleRecords, Zenon DEF WakeInv, MessageType
<1>3. RowType' /\ TurnType' /\ MessageType' /\ TodoInv' /\ ScanInv'
      /\ WakesAreDue'
  BY <1>1, <1>2, Zenon
     DEF WakeInv, RowType, TurnType, MessageType, TodoInv, ScanInv,
                    WakesAreDue
<1>4. NoticeInv'
  BY <1>2 DEF WakeInv, NoticeInv, Message, Runtime, Idle
<1>5. LeaseInv'
  BY <1>1, <1>2, Zenon DEF WakeInv, LeaseInv, Idle
<1>6. CASE m \notin Runtime
  <2>1. UNCHANGED <<claim, rereading>>
    BY <1>6 , <1>1, Zenon DEF ReleaseWake
  <2>2. \A x \in Runtime : msg'[x] = msg[x]
    BY <1>2, <1>6, Zenon DEF Message
  <2>3. \A u \in Turn : WillRecheck(u)' = WillRecheck(u)
    BY <1>1, Zenon DEF WillRecheck
  <2>4. OwedInv' /\ FlightInv'
    BY <1>1, <2>1, <2>2, <2>3, PendingKept, OwedKept, Zenon
       DEF WakeInv, FlightInv
  <2> QED BY <1>1, <1>3, <1>4, <1>5, <2>1, <2>4, ClaimKept, Zenon DEF WakeInv
<1>7. CASE m \in Runtime
  <2>1. /\ claim' = [claim EXCEPT ![m] = Free]
        /\ rereading' = (rereading \/ claim[m].recheck)
    BY <1>1, <1>7, Zenon DEF ReleaseWake
  <2>2. /\ claim' \in [Runtime -> ClaimRecord] /\ claim'[m] = Free
        /\ \A r \in Runtime : r # m => claim'[r] = claim[r]
    BY <1>7, <2>1, IdleRecords, Zenon DEF WakeInv, ClaimType
  <2>3. ClaimType' /\ ClaimInv'
    BY <1>1, <2>2, Constants DEF WakeInv, ClaimType, ClaimInv, Free
  <2>4. claim[m].at = "waking"
    BY <1>1, <1>7, Zenon DEF WakeInv, FlightInv
  <2>5. FlightInv'
    <3> SUFFICES ASSUME NEW x \in Runtime
                 PROVE  claim'[x].at = "waking" <=> msg'[x].at # "idle"
      BY Zenon DEF FlightInv
    <3>1. CASE x = m
      BY <1>2, <2>2, <3>1 DEF Free, Idle
    <3>2. CASE x # m
      BY <1>2, <2>2, <3>2, Zenon DEF WakeInv, FlightInv, Message
    <3> QED BY <3>1, <3>2, Zenon
  <2>6. OwedInv'
    <3>1. SUFFICES ASSUME NEW n \in Pending \cap Waking
                   PROVE  Owed(n)'
      BY <1>1, PendingKept, Zenon DEF OwedInv
    <3>2. Owed(n)
      BY Zenon DEF WakeInv, OwedInv
    <3>3. (Claimed(n) => Claimed(n)') /\ (Scanned(n) => Scanned(n)')
      BY <1>1, <2>2, <2>4, Zenon DEF Claimed, Scanned
    <3>4. \A r \in Runtime :
            claim[r].at = "deciding" \/ msg[r].at \in Sending
              => claim'[r].at = "deciding" \/ msg'[r].at \in Sending
      BY <1>1, <1>2, <2>2, <2>4, Zenon DEF Message
    <3>5. rereading \/ claim["controller"].recheck =>
            rereading' \/ claim'["controller"].recheck
      BY <2>1, <2>2, Zenon DEF Runtime
    <3> QED BY <1>1, <3>2, <3>3, <3>4, <3>5, OthersOwed, Zenon
  <2> QED BY <1>3, <1>4, <1>5, <2>3, <2>5, <2>6, Zenon DEF WakeInv
<1> QED BY <1>6, <1>7, Zenon

-----------------------------------------------------------------------------
(* Turns                                                                    *)

\* The invariant is kept when a turn reads what is pending: nothing is left.
LEMMA DrainStep ==
    ASSUME WakeInv, NEW t \in Turn, Drain(t)
    PROVE  WakeInv'
<1>1. /\ delivered' = Delivered(Pending, t)
      /\ UNCHANGED <<log, stopRev, turn, msg, woken, publisher, claim, scan,
                     rereading>>
  BY Zenon DEF Drain, turnVars, wakeVars, decisionVars
<1>2. t \in Scanner /\ t # 0
  BY Constants, Zenon
<1>3. /\ delivered' \in [Notice -> Scanner]
      /\ \A n \in Notice :
           delivered'[n] = IF n \in Pending THEN t ELSE delivered[n]
  BY <1>1, <1>2, Zenon DEF WakeInv, RowType, Delivered
<1>4. \A n \in Notice : delivered[n] # 0 => delivered'[n] = delivered[n]
  BY <1>3, Zenon DEF Pending
<1>5. Range(log) \subseteq Notice
  BY DEF WakeInv, RowType, Range
<1>6. Pending' = {}
  BY <1>1, <1>2, <1>3, <1>5, Zenon DEF Pending, Range
<1>7. OwedInv'
  BY <1>6, Zenon DEF OwedInv
<1>8. WakesAreDue'
  <2> SUFFICES ASSUME NEW u \in Turn, woken[u] # Nothing
               PROVE  delivered'[woken[u]] = u /\ woken[u] \in Waking
    BY <1>1, Zenon DEF WakesAreDue
  <2>1. delivered[woken[u]] = u /\ woken[u] \in Waking /\ u # 0
    BY Constants, Zenon DEF WakeInv, WakesAreDue
  <2> QED BY <1>4, <2>1, Constants, Zenon
<1>9. RowType' /\ TurnType' /\ MessageType' /\ NoticeInv' /\ LeaseInv'
  BY <1>1, <1>3, Zenon
     DEF WakeInv, RowType, TurnType, MessageType, NoticeInv, LeaseInv
<1>10. TodoInv' /\ ScanInv' /\ FlightInv'
  BY <1>1, Zenon DEF WakeInv, TodoInv, ScanInv, FlightInv
<1> QED BY <1>1, <1>7, <1>8, <1>9, <1>10, ClaimKept, Zenon DEF WakeInv

\* What MoveTurn leaves behind.
LEMMA Moved ==
    ASSUME TurnType, NEW t \in Turn,
           NEW a \in {"ended", "checked", "answered"}, NEW s \in Seq(Chore),
           MoveTurn(t, a, s)
    PROVE  /\ turn' \in [Turn -> TurnRecord]
           /\ \A u \in Turn : u # t => turn'[u] = turn[u]
           /\ turn'[t].at = a /\ turn'[t].todo = s
<1>1. turn' = [turn EXCEPT ![t].at = a, ![t].todo = s]
  BY Zenon DEF MoveTurn
<1>2. turn' \in [Turn -> TurnRecord]
  BY <1>1, Zenon DEF TurnType, TurnRecord
<1> QED BY <1>1, <1>2 DEF TurnType, TurnRecord

\* The invariant is kept when a turn ends: committed, failed as it opened, or
\* interrupted.  Only the first two tell that the session is idle; what was
\* left to a turn that does not has met with an end.
LEMMA EndStep ==
    ASSUME WakeInv, NEW t \in Turn, Commit(t) \/ FailOpening(t) \/ Interrupt(t)
    PROVE  WakeInv'
<1> USE DEF rowVars, wakeVars, decisionVars
<1>1. PICK a \in {"ended", "answered"}, s \in Seq(Chore),
           e \in {"stopped", "failed"} :
        /\ turn[t].at \in {"running", "remembered"}
        /\ MoveTurn(t, a, s) /\ Len(s) # 0
        /\ \/ a = "ended" /\ UNCHANGED fate
           \/ fate' = Fate(LeftToTurn(t), At(e))
        /\ UNCHANGED <<log, delivered, stopRev, msg, woken, publisher, claim,
                       scan, rereading>>
  <2>1. /\ <<"queue", "copy">> \in Seq(Chore) /\ Len(<<"queue", "copy">>) # 0
        /\ <<"copy", "queue">> \in Seq(Chore) /\ Len(<<"copy", "queue">>) # 0
        /\ <<"copy", "lease", "queue">> \in Seq(Chore)
        /\ Len(<<"copy", "lease", "queue">>) # 0
    BY DEF Chore
  <2>2. CASE Commit(t)
    BY <2>1, <2>2, Zenon DEF Commit
  <2>3. CASE FailOpening(t)
    <3>1. CASE MoveTurn(t, "ended", <<"copy", "queue">>) /\ UNCHANGED fate
      BY <2>1, <2>3, <3>1, Zenon DEF FailOpening
    <3>2. CASE MoveTurn(t, "answered", <<"copy", "queue">>)
               /\ fate' = Fate(LeftToTurn(t), At("stopped"))
      BY <2>1, <2>3, <3>2, Zenon DEF FailOpening
    <3> QED BY <2>3, <3>1, <3>2, Zenon DEF FailOpening
  <2>4. CASE Interrupt(t)
    <3>1. \E e \in {"stopped", "failed"} : fate' = Fate(LeftToTurn(t), At(e))
      BY <2>4, Zenon DEF Interrupt
    <3> QED BY <2>1, <2>4, <3>1, Zenon DEF Interrupt
  <2> QED BY <2>2, <2>3, <2>4, Zenon
<1>2. /\ turn' \in [Turn -> TurnRecord]
      /\ \A u \in Turn : u # t => turn'[u] = turn[u]
      /\ turn'[t].at = a /\ turn'[t].todo = s
  BY <1>1, Moved, Zenon DEF WakeInv
<1>3. CASE a = "ended" /\ UNCHANGED fate
  <2>1. WillRecheck(t)'
    BY <1>2, <1>3, Zenon DEF WillRecheck
  <2> QED BY <1>1, <1>2, <1>3, <2>1, TurnMoves, Zenon
<1>4. CASE fate' = Fate(LeftToTurn(t), At(e))
  <2>1. ASSUME NEW n \in Waking
        PROVE  /\ fate'[n] = fate[n] \/ Owed(n)'
               /\ ~WaitsFor(n, t)'
    <3>1. CASE n \in LeftToTurn(t)
      <4>1. fate'[n] = At(e) /\ e \in Excused \cup Forgotten
        BY <1>4, <3>1, Zenon DEF Fate, Excused, Forgotten
      <4> QED BY <4>1, AtAnEnd, Zenon DEF WaitsFor
    <3>2. CASE n \notin LeftToTurn(t)
      BY <1>4, <3>2, Zenon DEF Fate, LeftToTurn, WaitsFor
    <3> QED BY <3>1, <3>2, Zenon
  <2> QED BY <1>1, <1>2, <2>1, TurnMoves, Zenon
<1> QED BY <1>1, <1>3, <1>4, Zenon

\* The invariant is kept by each clean-up step of a turn that was answered.
LEMMA CleanedUp ==
    ASSUME WakeInv, NEW t \in Turn, CleanUp(t)
    PROVE  WakeInv'
<1> DEFINE s == turn[t].todo
           a == IF Len(s) = 1 THEN "done" ELSE "answered"
<1>1. /\ turn[t].at = "answered"
      /\ turn' = [turn EXCEPT ![t].todo = Tail(@),
                              ![t].at = IF Len(turn[t].todo) = 1 THEN "done"
                                        ELSE @]
      /\ UNCHANGED <<log, delivered, stopRev, msg, woken, publisher, claim,
                     scan, rereading, fate>>
  BY Zenon DEF CleanUp, rowVars, wakeVars, decisionVars
<1>2. turn[t] \in TurnRecord
  BY Zenon DEF WakeInv, TurnType
<1>3. s \in Seq(Chore) /\ Len(s) # 0
  BY <1>1, <1>2, Zenon DEF WakeInv, TodoInv, TurnRecord
<1>4. Tail(s) \in Seq(Chore) /\ (Len(s) # 1 => Len(Tail(s)) # 0)
  BY <1>3
<1>5. a \in {"done", "answered"}
  BY Zenon
<1>6. turn' = [turn EXCEPT ![t].todo = Tail(s), ![t].at = a]
  <2>1. CASE Len(s) = 1
    BY <1>1, <2>1, Zenon
  <2>2. CASE Len(s) # 1
    <3>1. turn' = [turn EXCEPT ![t].todo = Tail(@), ![t].at = @]
      BY <1>1, <2>2, Zenon
    <3> QED BY <3>1, <1>1, <1>2, <2>2, Zenon DEF WakeInv, TurnType, TurnRecord
  <2> QED BY <2>1, <2>2, Zenon
<1> HIDE DEF s
<1>7. turn' \in [Turn -> TurnRecord]
  <2> HIDE DEF a
  <2> QED BY <1>4, <1>5, <1>6, Zenon DEF WakeInv, TurnType, TurnRecord
<1>8. /\ \A u \in Turn : u # t => turn'[u] = turn[u]
      /\ turn'[t].at = a /\ turn'[t].todo = Tail(s)
  BY <1>6, <1>2, Zenon DEF WakeInv, TurnType, TurnRecord
<1>9. a = "done" \/ Len(Tail(s)) # 0
  BY <1>4, Zenon
<1> HIDE DEF a
<1>10. ~WillRecheck(t)
  BY <1>1, Zenon DEF WillRecheck
<1> QED BY <1>1, <1>5, <1>7, <1>8, <1>9, <1>10, TurnMoves, Zenon

=============================================================================
