------------------------------ MODULE Workers ------------------------------
(***************************************************************************)
(* The worker processes of one session: the supervisor that launches,      *)
(* replaces and stops them, the socket they register on, and the calls     *)
(* that ask for a worker, stop it, or report that its connection ended.    *)
(* The calls pass one at a time through the lifecycle gate; workers boot,  *)
(* register, crash and leave at any moment.                                *)
(*                                                                         *)
(* Every generation listens on the same socket path, and every listener    *)
(* that closes removes that path.                                          *)
(***************************************************************************)
EXTENDS Naturals, FiniteSets, Sequences

CONSTANTS
    Ensurer,          \* calls of Ensure, by messages, wakes and recovery
    Stopper,          \* calls of Stop, by a changed agent space or shutdown
    MaxGeneration,    \* bound: worker generations, one for each Ensure
    MaxFaults,        \* bound: failed writes, launches and container stops
    MaxCancels,       \* bound: calls whose context ends early
    MaxCrashes        \* bound: workers that die or leave by themselves

ASSUME WorkersAssumption ==
    /\ MaxGeneration \in Nat \ {0}
    /\ Ensurer \cap Stopper = {}
    /\ (Ensurer \cup Stopper) \cap Nat = {}

VARIABLES
    row,          \* row[g]: the state of generation g in the database
    held,         \* the generation in the supervisor's map, or None
    target,       \* target[c]: the generation call c found in the map
    listener,     \* listener[g]: the socket opened for generation g
    path,         \* the generation whose listener the path leads to, or None
    link,         \* link[g]: the worker registered with listener g, or None
    ready,        \* the generations whose ready channel is closed
    proc,         \* proc[g]: the process or container of generation g
    stuck,        \* containers whose first stop failed
    reg,          \* reg[g]: how far the registration of worker g has come
    via,          \* via[g]: the listener worker g dialled
    work,         \* workers with a turn that is recorded as running
    line,         \* the calls at the lifecycle gate
    at,           \* at[c]: where call c is
    cancelled,    \* calls whose context has ended
    dismissed,    \* generations given up by a launch or ended by Stop
    faults, crashes

memVars == <<held, ready, dismissed>>
socketVars == <<listener, path, link, reg, via>>
procVars == <<proc, stuck>>
gateVars == <<line, at, target>>
vars == <<row, memVars, socketVars, procVars, work, gateVars, cancelled,
          faults, crashes>>

None == 0
Generation == 1 .. MaxGeneration
\* WorkerDisconnected of generation g is the call named g.
Call == Ensurer \cup Stopper \cup Generation
Terminal == {"stopped", "failed"}
\* Where a call can be: waiting in line, or at a step of its work.
Place == {"idle", "line", "settle", "reap", "release", "mark", "record",
          "listen", "launch", "await", "abandon", "kill", "close", "end",
          "done"}

Init ==
    /\ row = [g \in Generation |-> "none"]
    /\ held = None /\ target = [c \in Call |-> None]
    /\ listener = [g \in Generation |-> "none"] /\ path = None
    /\ link = [g \in Generation |-> None] /\ ready = {}
    /\ proc = [g \in Generation |-> "none"] /\ stuck = {}
    /\ reg = [g \in Generation |-> "none"]
    /\ via = [g \in Generation |-> None]
    /\ work = {} /\ line = <<>> /\ at = [c \in Call |-> "idle"]
    /\ cancelled = {} /\ dismissed = {} /\ faults = 0 /\ crashes = 0

-----------------------------------------------------------------------------
(* The lifecycle gate                                                       *)

\* Acquire joins the line; the caller at its head goes on.
Enter(c) ==
    /\ at[c] = "idle"
    /\ at' = [at EXCEPT ![c] = "line"]
    /\ line' = Append(line, c)
    /\ UNCHANGED target

Ask(c) ==
    /\ c \notin Generation
    /\ Enter(c)
    /\ UNCHANGED <<row, memVars, socketVars, procVars, work, cancelled,
                   faults, crashes>>

\* The context of a call ends: its client left, a Stop cancelled it, or the
\* time WorkerDisconnected allows itself is over.
Cancel(c) ==
    /\ at[c] \notin {"idle", "done"}
    /\ c \notin cancelled /\ Cardinality(cancelled) < MaxCancels
    /\ cancelled' = cancelled \cup {c}
    /\ UNCHANGED <<row, memVars, socketVars, procVars, work, gateVars,
                   faults, crashes>>

\* Stop that does not wait for its turn.
AtGateOrStop(c, step) ==
    at[c] = step /\ line # <<>> /\ (c \in Stopper \/ Head(line) = c)

AtGate(c, step) == at[c] = step /\ line # <<>> /\ Head(line) = c

\* The next step of the call, which keeps the gate and the generation g.
GoTo(c, step, g) ==
    /\ at' = [at EXCEPT ![c] = step]
    /\ target' = [target EXCEPT ![c] = g]
    /\ UNCHANGED line

\* The line without the call at place i.
Without(i) ==
    [j \in 1 .. Len(line) - 1 |-> IF j < i THEN line[j] ELSE line[j + 1]]

\* A release that is skipped when the context has ended.
LeaveUncancelled(c) ==
    /\ at' = [at EXCEPT ![c] = "done"]
    /\ target' = [target EXCEPT ![c] = None]
    /\ \E i \in 1 .. Len(line) :
         /\ line[i] = c
         /\ line' = IF c \in cancelled THEN line ELSE Without(i)

\* The deferred release: the call returns, from wherever it stands in line.
Leave(c) ==
    /\ at' = [at EXCEPT ![c] = "done"]
    /\ target' = [target EXCEPT ![c] = None]
    /\ \E i \in 1 .. Len(line) : line[i] = c /\ line' = Without(i)

\* Acquire gives up with the context.
GiveUp(c) ==
    /\ at[c] = "line" /\ c \in cancelled
    /\ Leave(c)
    /\ UNCHANGED <<row, memVars, socketVars, procVars, work, cancelled,
                   faults, crashes>>

\* A store or launch operation of call c succeeds or fails.  A cancelled
\* context may make it fail; anything else is a fault.
Succeeds == UNCHANGED faults
Fails(c) ==
    \/ c \in cancelled /\ UNCHANGED faults
    \/ faults < MaxFaults /\ faults' = faults + 1

-----------------------------------------------------------------------------
(* Sockets and processes                                                    *)

\* A registered worker whose connection has not ended.  The place is also
\* taken by a worker that died before it was told of its registration.
Connected(l) ==
    link[l] # None /\ reg[link[l]] \in {"served", "unacked"}

\* Listener.Close: the connection is cut and the path removed, whoever the
\* path leads to.
Close(l) ==
    IF l = None \/ listener[l] # "open"
    THEN UNCHANGED <<listener, path, link, reg, via>>
    ELSE /\ listener' = [listener EXCEPT ![l] = "closed"]
         /\ path' = None
         /\ reg' = IF Connected(l) THEN [reg EXCEPT ![link[l]] = "over"]
                   ELSE reg
         /\ UNCHANGED <<link, via>>

\* Process.Stop that ends the process, and one that fails.  A container
\* remembers that its first stop failed; it may be gone all the same.
Stopped(g) ==
    /\ g \notin stuck
    /\ proc' = [proc EXCEPT ![g] = IF @ = "none" THEN @ ELSE "gone"]
    /\ UNCHANGED stuck
StopFails(g, c) ==
    /\ proc[g] # "none"
    /\ IF g \in stuck THEN Succeeds ELSE Fails(c)
    /\ stuck' = stuck \cup {g}
    /\ \/ UNCHANGED proc
       \/ g \notin stuck /\ proc' = [proc EXCEPT ![g] = "gone"]

-----------------------------------------------------------------------------
(* Ensure and WorkerDisconnected: settle the worker that was lost           *)

\* Ensure finds a live worker and returns it.
Begin(c) ==
    /\ c \notin Stopper /\ AtGate(c, "line") /\ c \notin cancelled
    /\ IF c \in Ensurer /\ held # None /\ Connected(held)
       THEN Leave(c)
       ELSE GoTo(c, "settle", None)
    /\ UNCHANGED <<row, memVars, socketVars, procVars, work, cancelled,
                   faults, crashes>>

\* What follows a settlement that has nothing left to do.
Settled(c) == IF c \in Ensurer THEN GoTo(c, "record", None) ELSE Leave(c)

\* Ensure leaves the lost worker to WorkerDisconnected.
ToSettleLost(c) == c \in Generation /\ held = c /\ ~Connected(held)

\* settleDisconnectedWorker goes on only for a generation that is held, that
\* the caller means, and that is not connected.
ToSettle(c) ==
    /\ held # None
    /\ c \in Generation => held = c
    /\ ~Connected(held)

Settle(c) ==
    /\ AtGate(c, "settle")
    /\ IF ToSettle(c) THEN GoTo(c, "reap", held) ELSE Settled(c)
    /\ UNCHANGED <<row, memVars, socketVars, procVars, work, cancelled,
                   faults, crashes>>

\* reapDisconnectedWorker: the process and then the socket.  An error leaves
\* the worker in the map for the next call.
Reap(c) ==
    /\ AtGate(c, "reap")
    /\ \/ /\ Stopped(target[c]) /\ Succeeds
          /\ Close(target[c])
          /\ GoTo(c, "release", target[c])
       \/ /\ StopFails(target[c], c)
          /\ Leave(c)
          /\ UNCHANGED socketVars
    /\ UNCHANGED <<row, memVars, work, cancelled, crashes>>

\* A release that failed is logged, and the settlement goes on.
UnreleasedGoesOn(c) == GoTo(c, "mark", target[c])

\* A release that failed ends the settlement, and the worker stays in the map.
Unreleased(c) == Leave(c)

\* releaseDisconnectedWork: RecoverWorkerTurns ends the generation's turns, and
\* PauseUnfinishedExecutions may fail after it.
Release(c) ==
    /\ AtGate(c, "release")
    /\ \/ /\ Succeeds
          /\ work' = work \ {target[c]}
          /\ GoTo(c, "mark", target[c])
       \/ /\ Fails(c) /\ Unreleased(c)
          /\ work' \in {work, work \ {target[c]}}
    /\ UNCHANGED <<row, memVars, socketVars, procVars, cancelled, crashes>>

\* The generation has failed and leaves the map.
Mark(c) ==
    /\ AtGate(c, "mark")
    /\ \/ /\ Succeeds
          /\ row' = [row EXCEPT ![target[c]] = "failed"]
          /\ held' = IF held = target[c] THEN None ELSE held
          /\ Settled(c)
       \/ Fails(c) /\ Leave(c) /\ UNCHANGED <<row, held>>
    /\ UNCHANGED <<ready, dismissed, socketVars, procVars, work, cancelled,
                   crashes>>

-----------------------------------------------------------------------------
(* Ensure: launch a generation                                              *)

\* uuid.New: a generation no row has named.
Unused == {g \in Generation : row[g] = "none"}
NextGeneration == CHOOSE g \in Unused : TRUE

\* recordGeneration, and the entry in the map.
RecordGeneration(c) ==
    /\ AtGate(c, "record")
    /\ \/ /\ Unused # {} /\ Succeeds
          /\ row' = [row EXCEPT ![NextGeneration] = "requested"]
          /\ held' = NextGeneration
          /\ GoTo(c, "listen", NextGeneration)
       \/ Fails(c) /\ Leave(c) /\ UNCHANGED <<row, held>>
    /\ UNCHANGED <<ready, dismissed, socketVars, procVars, work,
                   cancelled, crashes>>

\* Listen replaces whatever is at the path; then the row says "starting".
OpenSocket(c) ==
    /\ AtGate(c, "listen")
    /\ \/ /\ Fails(c) /\ GoTo(c, "abandon", target[c]) /\ UNCHANGED <<row, socketVars>>
       \/ /\ listener' = [listener EXCEPT ![target[c]] = "open"]
          /\ path' = target[c]
          /\ \/ /\ Succeeds /\ GoTo(c, "launch", target[c])
                /\ row' = [row EXCEPT ![target[c]] = "starting"]
             \/ Fails(c) /\ GoTo(c, "abandon", target[c]) /\ UNCHANGED row
          /\ UNCHANGED <<link, reg, via>>
    /\ UNCHANGED <<memVars, procVars, work, cancelled, crashes>>

\* runLauncher and recordIdentity.
Launch(c) ==
    /\ AtGate(c, "launch")
    /\ \/ Fails(c) /\ GoTo(c, "abandon", target[c]) /\ UNCHANGED proc
       \/ /\ proc' = [proc EXCEPT ![target[c]] = "up"]
          /\ \/ Succeeds /\ GoTo(c, "await", target[c])
             \/ Fails(c) /\ GoTo(c, "abandon", target[c])
    /\ UNCHANGED <<row, memVars, socketVars, stuck, work, cancelled, crashes>>

\* awaitRegistration: the worker is ready and still there, or the wait ends
\* with its timer, with the context or with a worker that has left again.
AwaitRegistration(c) ==
    /\ AtGate(c, "await")
    /\ \/ /\ target[c] \in ready /\ Connected(target[c]) /\ Succeeds
          /\ row' = [row EXCEPT ![target[c]] = "ready"]
          /\ Leave(c)
       \/ /\ target[c] \in ready /\ Connected(target[c]) /\ Fails(c)
          /\ GoTo(c, "abandon", target[c]) /\ UNCHANGED row
       \/ /\ Succeeds
          /\ GoTo(c, "abandon", target[c]) /\ UNCHANGED row
    /\ UNCHANGED <<memVars, socketVars, procVars, work, cancelled, crashes>>

\* abandon that leaves the generation in the map.
AbandonedKept(g) == held

\* abandon takes the generation out of the map.
Abandoned(g) == IF held = g THEN None ELSE held

\* abandon, up to the end of the process: a stop that fails is only logged,
\* and has a context of its own.
Abandon(c) ==
    /\ AtGate(c, "abandon")
    /\ held' = Abandoned(target[c])
    /\ dismissed' = dismissed \cup {target[c]}
    /\ \/ Stopped(target[c]) /\ Succeeds
       \/ StopFails(target[c], None)
    /\ GoTo(c, "close", target[c])
    /\ UNCHANGED <<row, ready, socketVars, work, cancelled, crashes>>

-----------------------------------------------------------------------------
(* Stop                                                                     *)

\* Stop takes the worker out of the map and marks it; the mark may fail.
Take(c) ==
    /\ c \in Stopper /\ AtGate(c, "line") /\ c \notin cancelled
    /\ held' = None
    /\ IF held = None
       THEN Leave(c) /\ UNCHANGED <<row, dismissed, faults>>
       ELSE /\ dismissed' = dismissed \cup {held}
            /\ GoTo(c, "kill", held)
            /\ \/ Succeeds /\ row' = [row EXCEPT ![held] = "stopping"]
               \/ Fails(c) /\ UNCHANGED row
    /\ UNCHANGED <<ready, socketVars, procVars, work, cancelled, crashes>>

\* The end of the process, after the request to finish: until it is killed a
\* connected worker may still release its turn (WorkerEndsTurn).
Kill(c) ==
    /\ AtGate(c, "kill")
    /\ \/ Stopped(target[c]) /\ Succeeds
       \/ StopFails(target[c], c)
    /\ GoTo(c, "close", target[c])
    /\ UNCHANGED <<row, memVars, socketVars, work, cancelled, crashes>>

\* stopHeld and abandon close the socket.
CloseSocket(c) ==
    /\ AtGate(c, "close")
    /\ Close(target[c])
    /\ GoTo(c, "end", target[c])
    /\ UNCHANGED <<row, memVars, procVars, work, cancelled, faults, crashes>>

\* The final row.  Only Stop's write depends on the caller's context.
End(c) ==
    /\ AtGate(c, "end")
    /\ \/ /\ Succeeds
          /\ row' = [row EXCEPT ![target[c]] =
               IF c \in Stopper THEN "stopped" ELSE "failed"]
       \/ /\ UNCHANGED row
          /\ \/ c \in Stopper /\ Fails(c)
             \/ faults < MaxFaults /\ faults' = faults + 1
    /\ Leave(c)
    /\ UNCHANGED <<memVars, socketVars, procVars, work, cancelled, crashes>>

-----------------------------------------------------------------------------
(* The workers and the connections they register on                         *)

\* A worker dials once, and leaves when nothing listens.
Dial(g) ==
    /\ proc[g] = "up" /\ reg[g] = "none"
    /\ IF path = None
       THEN /\ reg' = [reg EXCEPT ![g] = "over"]
            /\ UNCHANGED via
       ELSE /\ reg' = [reg EXCEPT ![g] = "hello"]
            /\ via' = [via EXCEPT ![g] = path]
    /\ UNCHANGED <<row, memVars, listener, path, link, procVars, work,
                   gateVars, cancelled, faults, crashes>>

\* AcceptWorker refuses a generation that has ended.
AcceptWorker(g) ==
    /\ reg[g] = "hello"
    /\ reg' = [reg EXCEPT ![g] = IF row[g] \in Terminal THEN "over"
                                 ELSE "accepted"]
    /\ UNCHANGED <<row, memVars, listener, path, link, via, procVars, work,
                   gateVars, cancelled, faults, crashes>>

\* accept and WorkerConnected: one worker to a listener.  A worker that died
\* meanwhile may make the answer fail, and its place stays taken.
Install(g) ==
    /\ reg[g] = "accepted"
    /\ \/ /\ link[via[g]] # None
          /\ reg' = [reg EXCEPT ![g] = "over"]
          /\ UNCHANGED <<link, ready>>
       \/ /\ link[via[g]] = None
          /\ link' = [link EXCEPT ![via[g]] = g]
          /\ \/ /\ reg' = [reg EXCEPT ![g] = "served"]
                /\ ready' = IF held = g THEN ready \cup {g} ELSE ready
             \/ /\ proc[g] = "gone"
                /\ reg' = [reg EXCEPT ![g] = "unacked"]
                /\ UNCHANGED ready
    /\ UNCHANGED <<row, held, dismissed, listener, path, via,
                   procVars, work, gateVars, cancelled, faults, crashes>>

\* The connection of a process that is gone ends, or that of a worker that
\* leaves by itself and ends its process after it.
ConnectionEnds(g) ==
    /\ reg[g] = "served"
    /\ \/ proc[g] = "gone" /\ UNCHANGED crashes
       \/ crashes < MaxCrashes /\ crashes' = crashes + 1
    /\ reg' = [reg EXCEPT ![g] = "over"]
    /\ UNCHANGED <<row, memVars, listener, path, link, via, procVars, work,
                   gateVars, cancelled, faults>>

\* Listener.disconnect, which calls WorkerDisconnected.
Disconnect(g) ==
    /\ reg[g] = "over" /\ via[g] # None /\ link[via[g]] = g
    /\ link' = [link EXCEPT ![via[g]] = None]
    /\ Enter(g)
    /\ UNCHANGED <<row, memVars, listener, path, reg, via, procVars, work,
                   cancelled, faults, crashes>>

\* The process ends when its connection is over, or by itself.
ProcessExits(g) ==
    /\ proc[g] = "up"
    /\ proc' = [proc EXCEPT ![g] = "gone"]
    /\ \/ reg[g] = "over" /\ UNCHANGED crashes
       \/ crashes < MaxCrashes /\ crashes' = crashes + 1
    /\ UNCHANGED <<row, memVars, socketVars, stuck, work, gateVars,
                   cancelled, faults>>

\* A registered worker begins and ends turns.
WorkerTakesTurn(g) ==
    /\ proc[g] = "up" /\ reg[g] = "served"
    /\ work' = work \cup {g}
    /\ UNCHANGED <<row, memVars, socketVars, procVars, gateVars, cancelled,
                   faults, crashes>>
WorkerEndsTurn(g) ==
    /\ proc[g] = "up" /\ reg[g] = "served"
    /\ work' = work \ {g}
    /\ UNCHANGED <<row, memVars, socketVars, procVars, gateVars, cancelled,
                   faults, crashes>>

-----------------------------------------------------------------------------
Step(c) ==
    \/ GiveUp(c) \/ Begin(c) \/ Settle(c) \/ Reap(c) \/ Release(c) \/ Mark(c)
    \/ RecordGeneration(c) \/ OpenSocket(c) \/ Launch(c)
    \/ AwaitRegistration(c) \/ Abandon(c)
    \/ Take(c) \/ Kill(c) \/ CloseSocket(c) \/ End(c)
Worker(g) ==
    \/ Dial(g) \/ AcceptWorker(g) \/ Install(g) \/ ConnectionEnds(g)
    \/ Disconnect(g) \/ ProcessExits(g)
    \/ WorkerTakesTurn(g) \/ WorkerEndsTurn(g)

Next ==
    \/ \E c \in Call : Ask(c) \/ Cancel(c) \/ Step(c)
    \/ \E g \in Generation : Worker(g)

\* The goroutine of the call at the gate goes on; its waits for a
\* registration, a process and a row all have an end.  Nothing is asked of
\* the workers.
Fairness == WF_vars(\E c \in Call : Step(c))

Spec == Init /\ [][Next]_vars /\ Fairness

-----------------------------------------------------------------------------
(* Properties                                                               *)

\* Every variable has its type.
TypeOK ==
    /\ row \in [Generation -> {"none", "requested", "starting", "ready",
                               "stopping", "stopped", "failed"}]
    /\ held \in {None} \cup Generation
    /\ target \in [Call -> {None} \cup Generation]
    /\ listener \in [Generation -> {"none", "open", "closed"}]
    /\ path \in {None} \cup Generation
    /\ link \in [Generation -> {None} \cup Generation]
    /\ ready \subseteq Generation
    /\ proc \in [Generation -> {"none", "up", "gone"}]
    /\ stuck \subseteq Generation
    /\ reg \in [Generation -> {"none", "hello", "accepted", "served",
                               "unacked", "over"}]
    /\ via \in [Generation -> {None} \cup Generation]
    /\ work \subseteq Generation
    /\ line \in Seq(Call)
    /\ at \in [Call -> Place]
    /\ cancelled \subseteq Call
    /\ dismissed \subseteq Generation
    /\ faults \in Nat /\ crashes \in Nat

\* The comment on WorkerDisconnected: no cleanup deletes the socket of a
\* replacement.  While the listener of the session's generation is open, the
\* path leads to it.
SocketIsReachable ==
    held # None /\ listener[held] = "open" => path = held

\* The containers that outlived their end and are not recorded as ended: the
\* stop failed, and so did the write of the final row.  Such a container may
\* still register, in the place of the worker that replaced it.
Strays ==
    {g \in stuck \cap dismissed :
        row[g] \notin Terminal /\ \A c \in Call : target[c] # g}

\* A process of the session that is not its current worker is one that the
\* call at the gate is ending, or a container whose stop failed: a
\* replacement never starts beside the worker it replaces.  One double
\* failure is outside: a stray container.
ReplacementIsAlone ==
    Strays = {} =>
        \A g \in Generation :
            proc[g] = "up" =>
                \/ g = held
                \/ g \in stuck
                \/ \E c \in Call : at[c] = "kill" /\ target[c] = g

\* stopHeld reads the listener of the generation it takes without a check:
\* Stop never takes one whose launch has not opened its socket.
StopFindsListener ==
    \A c \in Call : at[c] = "kill" => listener[target[c]] # "none"

\* A worker that is lost by itself leaves the map, and its row ends, only after
\* its turns were released, whichever step of the settlement fails, so the next
\* call finds them.  Nothing is said of a generation that Stop or a failed
\* launch gave up: the code expects it to release its turns and recovers none of
\* them.  Nor is anything said beside a stray container, which may take the place
\* of the worker that was lost.
LostWorkIsKept ==
    Strays = {} =>
        \A g \in work \ dismissed : g = held /\ row[g] \notin Terminal

\* Every call that asks for the lifecycle gate returns: no failure of another
\* call, of a worker or of a launch leaves the session's gate taken.  Calls
\* are made once each, so the gate becomes free when they have returned.
CallsReturn == line # <<>> ~> line = <<>>
=============================================================================
