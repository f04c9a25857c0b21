--------------------------- MODULE AdmissionGate ---------------------------
(***************************************************************************)
(* The FIFO admission gate of internal/pkg/session/admission.go and        *)
(* admissionstop.go.  Every session has a line of tickets.  A message      *)
(* takes a ticket (Reserve), binds its preparation context to it           *)
(* (BindContext), waits until it is at the front of its line (Wait), makes *)
(* its admission take effect, and leaves (Release).  Stop empties the line *)
(* of everything except tickets still preparing (CancelPending).           *)
(*                                                                         *)
(* Tickets are numbered in the order in which Reserve ran, so the number   *)
(* of a ticket is its place in the order of reception.  Callers follow     *)
(* TurnRouter.RunReservedSessionMessage and Runtime.admitTurn: they bind   *)
(* before they wait, and release on every path.                            *)
(***************************************************************************)
EXTENDS Functions, Subsequences

CONSTANTS
    Sessions,      \* the sessions messages are sent to
    MaxTickets     \* bound: how many messages are received in a behaviour

ASSUME GateAssumption == MaxTickets \in Nat

Tickets == 1..MaxTickets

VARIABLES
    count,         \* tickets reserved so far
    session,       \* ticket -> its session (its own field sessionID)
    line,          \* gate.lines: session -> tickets in the line, front first
    phase,         \* ticket -> where its caller is
    closes,        \* ticket -> how often its admitted channel was closed
    stopped,       \* tickets whose stopped channel is closed
    preparing,     \* tickets with preparing = true
    cancellable,   \* tickets that hold their context's cancel function
    firing,        \* cancel functions CancelPending took and has yet to call
    cancelled      \* tickets whose bound context is cancelled

vars == <<count, session, line, phase, closes, stopped, preparing,
          cancellable, firing, cancelled>>

\* "new": not reserved; "reserved": in line, not bound; "bound": waiting;
\* "inside": Wait returned nil; "refused": Wait returned an error;
\* "released": Release ran.
Phases == {"new", "reserved", "bound", "inside", "refused", "released"}

Init ==
    /\ count = 0
    /\ session \in [Tickets -> Sessions]
    /\ line = [s \in Sessions |-> <<>>]
    /\ phase = [t \in Tickets |-> "new"]
    /\ closes = [t \in Tickets |-> 0]
    /\ stopped = {}
    /\ preparing = {}
    /\ cancellable = {}
    /\ firing = {}
    /\ cancelled = {}

\* close(ticket.admitted), for every ticket of a set.
Close(T) == closes' = [t \in Tickets |-> closes[t] + (IF t \in T THEN 1 ELSE 0)]

Admitted == {t \in Tickets : closes[t] > 0}

\* Reserve: a place at the end of the line, admitted at once when it is first.
Reserve ==
    /\ count < MaxTickets
    /\ LET t == count + 1
           s == session[t]
       IN  /\ count' = t
           /\ line' = [line EXCEPT ![s] = Append(@, t)]
           /\ phase' = [phase EXCEPT ![t] = "reserved"]
           /\ Close(IF line[s] = <<>> THEN {t} ELSE {})
    /\ UNCHANGED <<session, stopped, preparing, cancellable, firing, cancelled>>

\* BindContext: a stopped ticket's context is cancelled on the spot; any other
\* ticket is marked preparing and keeps the cancel function.
BindContextIgnoresStop(t) ==
    /\ phase[t] = "reserved"
    /\ phase' = [phase EXCEPT ![t] = "bound"]
    /\ preparing' = preparing \cup {t}
    /\ cancellable' = cancellable \cup {t}
    /\ UNCHANGED <<count, session, line, closes, stopped, firing, cancelled>>
BindContext(t) ==
    /\ phase[t] = "reserved"
    /\ phase' = [phase EXCEPT ![t] = "bound"]
    /\ IF t \in stopped
       THEN /\ cancelled' = cancelled \cup {t}
            /\ UNCHANGED <<preparing, cancellable>>
       ELSE /\ preparing' = preparing \cup {t}
            /\ cancellable' = cancellable \cup {t}
            /\ UNCHANGED cancelled
    /\ UNCHANGED <<count, session, line, closes, stopped, firing>>

\* checkCancellation: the context first, then the stopped channel.
MayEnter(t) == t \notin cancelled /\ t \notin stopped

\* Wait returns nil: the admitted channel is closed and the second
\* checkCancellation passes.
WaitAdmitted(t) ==
    /\ phase[t] = "bound"
    /\ t \in Admitted
    /\ MayEnter(t)
    /\ phase' = [phase EXCEPT ![t] = "inside"]
    /\ UNCHANGED <<count, session, line, closes, stopped, preparing,
                   cancellable, firing, cancelled>>

\* Wait returns an error: the ticket was stopped or its context ended.
WaitRefused(t) ==
    /\ phase[t] = "bound"
    /\ ~MayEnter(t)
    /\ phase' = [phase EXCEPT ![t] = "refused"]
    /\ UNCHANGED <<count, session, line, closes, stopped, preparing,
                   cancellable, firing, cancelled>>

\* The client goes away: the context BindContext derived from ends.
CallerCancels(t) ==
    /\ phase[t] \in {"bound", "inside"}
    /\ t \notin cancelled
    /\ cancelled' = cancelled \cup {t}
    /\ UNCHANGED <<count, session, line, phase, closes, stopped, preparing,
                   cancellable, firing>>

\* leave closes the admitted channel of the ticket that becomes first, when
\* the leaver was the first.
NextAdmittedNever(t, rest) == {}
NextAdmittedAlways(t, rest) == IF rest = <<>> THEN {} ELSE {Head(rest)}
NextAdmitted(t, rest) ==
    IF rest # <<>> /\ Head(line[session[t]]) = t THEN {Head(rest)} ELSE {}

\* leave: the ticket leaves its line, if CancelPending has not removed it.
leave(t) ==
    LET s == session[t]
        rest == Kept(line[s], Tickets \ {t})
    IN  /\ line' = [line EXCEPT ![s] = rest]
        /\ Close(NextAdmitted(t, rest))
        /\ preparing' = preparing \ {t}
        /\ cancellable' = cancellable \ {t}

\* Release: the caller failed before waiting, was refused, or its message was
\* admitted by the worker.  releaseOnce makes later calls no-ops.
Release(t) ==
    /\ phase[t] \in {"bound", "refused", "inside"}
    /\ phase' = [phase EXCEPT ![t] = "released"]
    /\ leave(t)
    /\ UNCHANGED <<count, session, stopped, firing, cancelled>>

\* What stays in the line after Stop.
RetainedNone(s) == <<>>
Retained(s) == Kept(line[s], preparing)

\* CancelPending: under the mutex, every ticket of the line is stopped, the
\* cancel functions are collected, and only preparing tickets stay in line.
CancelPending(s) ==
    /\ line[s] # <<>>
    /\ LET pending == Range(line[s])
       IN  /\ stopped' = stopped \cup pending
           /\ firing' = firing \cup (pending \cap cancellable)
           /\ cancellable' = cancellable \ pending
    /\ line' = [line EXCEPT ![s] = Retained(s)]
    /\ UNCHANGED <<count, session, phase, closes, preparing, cancelled>>

\* After the mutex is released CancelPending calls what it collected.
CallCancellation(t) ==
    /\ t \in firing
    /\ firing' = firing \ {t}
    /\ cancelled' = cancelled \cup {t}
    /\ UNCHANGED <<count, session, line, phase, closes, stopped, preparing,
                   cancellable>>

Next ==
    \/ Reserve
    \/ \E t \in Tickets :
          \/ BindContext(t) \/ WaitAdmitted(t) \/ WaitRefused(t)
          \/ CallerCancels(t) \/ Release(t) \/ CallCancellation(t)
    \/ \E s \in Sessions : CancelPending(s)

\* A caller runs its own code: it binds, returns from Wait once it can, and
\* releases once it is refused or the worker has admitted its message.
Fairness ==
    \A t \in Tickets :
        /\ WF_vars(BindContext(t))
        /\ WF_vars(WaitAdmitted(t) \/ WaitRefused(t))
        /\ WF_vars(phase[t] \in {"refused", "inside"} /\ Release(t))
        /\ WF_vars(CallCancellation(t))

Spec == Init /\ [][Next]_vars /\ Fairness

-----------------------------------------------------------------------------
TypeOK ==
    /\ count \in 0..MaxTickets
    /\ session \in [Tickets -> Sessions]
    /\ line \in [Sessions -> Seq(Tickets)]
    /\ phase \in [Tickets -> Phases]
    /\ closes \in [Tickets -> Nat] /\ stopped \subseteq Tickets
    /\ preparing \subseteq Tickets /\ cancellable \subseteq preparing
    /\ firing \subseteq Tickets /\ cancelled \subseteq Tickets

\* Messages of one session are admitted one at a time and in the order they
\* were received: while a ticket is inside, every earlier ticket of its session
\* has been released, or was stopped before it began to prepare.
\* This is the promise in the comment of AdmissionGate, and it has to survive
\* a Stop that removes tickets from the middle of the line.
AdmittedInOrder ==
    \A t, u \in Tickets :
        (u < t /\ session[u] = session[t] /\ phase[t] = "inside") =>
            \/ phase[u] = "released"
            \/ u \in stopped /\ phase[u] # "inside" /\ u \notin preparing

\* Closing a closed channel panics.  Reserve and leave close admitted channels
\* from the place a ticket has in the line, and Stop moves tickets up the line
\* without closing anything; still no channel is ever closed twice.
ClosedAtMostOnce == \A t \in Tickets : closes[t] <= 1

\* No wakeup is lost: the ticket at the front of a line can return from Wait.
FrontCanReturn ==
    \A s \in Sessions :
        line[s] # <<>> => Head(line[s]) \in Admitted \cup stopped

\* Stop reaches preparation that is under way: once CancelPending's calls are
\* made, the bound context of every stopped ticket that is still held by its
\* caller is cancelled.
StopCancelsPreparation ==
    \A t \in stopped :
        phase[t] \in {"bound", "inside"} => t \in cancelled \cup firing

\* Every message received is answered: it is admitted or refused, and leaves.
EveryTicketLeaves ==
    \A t \in Tickets : phase[t] \in {"bound", "reserved"} ~> phase[t] = "released"
=============================================================================
