--------------------------- MODULE Workers_proofs ---------------------------
(***************************************************************************)
(* What the supervisor of the workers guarantees, for any number of        *)
(* calls, generations, faults and crashes.  The end of Ensure and the      *)
(* steps of the workers come first; the theorems combine them with the     *)
(* steps of the calls.                                                     *)
(***************************************************************************)
EXTENDS WorkersCalls_proofs

-----------------------------------------------------------------------------
(* The last step of Ensure                                                  *)

\* The invariant is kept when Ensure returns with the registered worker, or
\* gives it up.
LEMMA AwaitRegistrationStep ==
    ASSUME Inv, NEW c \in Call, AwaitRegistration(c)
    PROVE  Inv'
<1> USE CallNotNone DEF Inv, Busy, Starting, Settling, Ending,
        memVars, socketVars, procVars, gateVars
<1>0. \A d \in Call : d # c => at[d] \notin Busy /\ target[d] = None
  BY OnlyHead, Zenon DEF AwaitRegistration
<1>1. GateType' /\ GateInv'
  BY LeaveGate, GoToGate, Zenon DEF AwaitRegistration, TypeOK
<1>2. TypeOK'
  <2>1. row' \in [Generation -> {"none", "requested", "starting", "ready",
                                 "stopping", "stopped", "failed"}]
    BY DEF TypeOK, AwaitRegistration
  <2>2. faults' \in Nat
    BY DEF TypeOK, AwaitRegistration, Fails, Succeeds
  <2> QED
    BY <1>1, <2>2 DEF TypeOK, GateType, AwaitRegistration
<1>3. TargetInv'
  BY <1>0 DEF TypeOK, TargetInv, AwaitRegistration, AtGate, GoTo, Leave
<1>4. HeldInv'
  BY DEF TypeOK, TargetInv, HeldInv, Terminal, AwaitRegistration, GoTo
<1>5. GenerationInv'
  BY DEF TypeOK, GenerationInv, AwaitRegistration
<1>6. StepInv'
  BY DEF TypeOK, StepInv, AwaitRegistration, GoTo, Leave
<1>7. SocketInv'
  BY DEF TypeOK, SocketInv, SocketIsReachable, StopFindsListener,
     AwaitRegistration, GoTo, Leave
<1>8. Strays \subseteq Strays'
  BY DEF TypeOK, Strays, AwaitRegistration, GoTo, Leave
<1>9. ASSUME Strays' = {} PROVE Calm'
  <2>1. Calm
    BY <1>8, <1>9, Zenon DEF CalmInv
  <2>2. OwnListener'
    BY <2>1, <1>0, SMTT(20)
       DEF TypeOK, TargetInv, HeldInv, Calm, OwnListener, AwaitRegistration,
       AtGate, GoTo, Leave, Connected
  <2>3. Unheld'
    BY <1>0 DEF TypeOK, Unheld, AwaitRegistration, AtGate, GoTo, Leave
  <2>4. PathKept'
    BY <2>1, <1>0, Zenon DEF Calm, PathKept, AwaitRegistration, AtGate
  <2>5. Alone'
    BY <2>1, <1>0 DEF Calm, Alone, AwaitRegistration, AtGate
  <2>6. StuckKept' /\ Kept'
    BY <2>1, Zenon DEF AwaitRegistration, Calm, StuckKept, Kept
  <2> QED
    BY <2>2, <2>3, <2>4, <2>5, <2>6, Zenon DEF Calm
<1> QED
  BY <1>1, <1>2, <1>3, <1>4, <1>5, <1>6, <1>7, <1>9, Zenon DEF CalmInv
-----------------------------------------------------------------------------
(* The steps of the workers                                                 *)

\* The invariant is kept when a worker dials the socket and reaches the
\* listener the path leads to.
LEMMA DialStep ==
    ASSUME Inv, NEW g \in Generation, Dial(g)
    PROVE  Inv'
<1> USE CallNotNone DEF Inv, Busy, Starting, Settling, Ending,
        memVars, socketVars, procVars, gateVars
<1>1. GateType' /\ GateInv'
  BY DEF TypeOK, GateType, GateInv, Dial
<1>2. TypeOK'
  BY DEF TypeOK, Dial
<1>3. TargetInv' /\ HeldInv' /\ StepInv' /\ Strays' = Strays
  BY DEF Dial, TargetInv, HeldInv, StepInv, Strays
<1>4. GenerationInv'
  BY DEF TypeOK, GenerationInv, Dial
<1>5. SocketInv'
  BY DEF TypeOK, SocketInv, SocketIsReachable, StopFindsListener, Dial
<1>6. ASSUME Strays' = {} PROVE Calm'
  <2>1. Calm
    BY <1>3, <1>6, Zenon DEF CalmInv
  <2>2. OwnListener'
    <3>1. CASE path = None
      BY <2>1, <3>1 DEF TypeOK, Calm, OwnListener, Dial
    <3>2. CASE path # None /\ path = g
      BY <2>1, <3>2 DEF TypeOK, Calm, OwnListener, Dial
    <3>3. CASE path # None /\ path # g
      <4>1. ASSUME NEW d \in Call, target[d] = g, at[d] \in Ending
            PROVE  FALSE
        <5>1. held = None
          BY <4>1, Zenon DEF TargetInv
        <5>2. PICK e \in Call : at[e] \in Ending /\ target[e] = path
          BY <2>1, <3>3, <5>1, Zenon DEF Calm, PathKept
        <5>3. d = e
          BY <4>1, <5>2, Zenon DEF GateInv
        <5> QED
          BY <3>3, <4>1, <5>2, <5>3, Zenon
      <4>2. g # held
        BY <2>1, <3>3, Zenon DEF Calm, PathKept, TargetInv
      <4>3. g \in stuck
        BY <2>1, <4>1, <4>2, Zenon DEF Calm, Alone, Dial
      <4>4. g \in dismissed
        BY <2>1, <4>2, <4>3, Zenon DEF Calm, StuckKept
      <4>5. \A d \in Call : target[d] # g
        BY <4>1, <4>2, Zenon DEF TargetInv
      <4>6. g \notin Strays
        BY <1>3, <1>6, Zenon
      <4>7. row[g] \in Terminal
        BY <4>3, <4>4, <4>5, <4>6, Zenon DEF Strays
      <4> QED
        BY <2>1, <4>7 DEF TypeOK, Calm, OwnListener, Dial
    <3> QED
      BY <3>1, <3>2, <3>3, Zenon
  <2>3. Unheld'
    BY <2>1 DEF TypeOK, Calm, Unheld, Connected, Dial
  <2>4. StuckKept' /\ PathKept' /\ Alone' /\ Kept'
    BY <2>1, Zenon DEF Dial, Calm, StuckKept, PathKept, Alone, Kept
  <2> QED
    BY <2>2, <2>3, <2>4, Zenon DEF Calm
<1> QED
  BY <1>1, <1>2, <1>3, <1>4, <1>5, <1>6, Zenon DEF CalmInv

\* The invariant is kept when the listener accepts the hello of a worker.
LEMMA AcceptWorkerStep ==
    ASSUME Inv, NEW g \in Generation, AcceptWorker(g)
    PROVE  Inv'
<1> USE CallNotNone DEF Inv, Busy, Starting, Settling, Ending,
        memVars, socketVars, procVars, gateVars
<1>1. GateType' /\ GateInv'
  BY DEF TypeOK, GateType, GateInv, AcceptWorker
<1>2. TypeOK'
  BY Zenon DEF TypeOK, AcceptWorker
<1>3. TargetInv' /\ HeldInv' /\ StepInv' /\ Strays' = Strays
  BY DEF AcceptWorker, TargetInv, HeldInv, StepInv, Strays
<1>4. GenerationInv'
  BY DEF GenerationInv, AcceptWorker
<1>5. SocketInv'
  BY DEF SocketInv, SocketIsReachable, StopFindsListener, AcceptWorker
<1>6. ASSUME Strays' = {} PROVE Calm'
  <2>1. Calm
    BY <1>3, <1>6, Zenon DEF CalmInv
  <2>2. OwnListener'
    BY <2>1 DEF Calm, OwnListener, AcceptWorker
  <2>3. Unheld'
    BY <2>1 DEF Calm, Unheld, Connected, AcceptWorker
  <2>4. StuckKept' /\ PathKept' /\ Alone' /\ Kept'
    BY <2>1, Zenon DEF AcceptWorker, Calm, StuckKept, PathKept, Alone, Kept
  <2> QED
    BY <2>2, <2>3, <2>4, Zenon DEF Calm
<1> QED
  BY <1>1, <1>2, <1>3, <1>4, <1>5, <1>6, Zenon DEF CalmInv

\* The invariant is kept when the registered worker becomes the one its
\* listener serves.
LEMMA InstallStep ==
    ASSUME Inv, NEW g \in Generation, Install(g)
    PROVE  Inv'
<1> USE CallNotNone DEF Inv, Busy, Starting, Settling, Ending,
        memVars, socketVars, procVars, gateVars
<1>1. GateType' /\ GateInv'
  BY DEF TypeOK, GateType, GateInv, Install
<1>2. TypeOK'
  BY <1>1, SMTT(20) DEF TypeOK, GateType, Install
<1>3. TargetInv' /\ StepInv' /\ Strays' = Strays
  BY DEF Install, TargetInv, StepInv, Strays
<1>4. HeldInv'
  BY Zenon DEF HeldInv, Install
<1>5. GenerationInv'
  BY DEF TypeOK, GenerationInv, Install
<1>6. SocketInv'
  BY DEF TypeOK, SocketInv, SocketIsReachable, StopFindsListener, Install
<1>7. ASSUME Strays' = {} PROVE Calm'
  <2>1. Calm
    BY <1>3, <1>7, Zenon DEF CalmInv
  <2>2. OwnListener'
    BY <2>1 DEF TypeOK, Calm, OwnListener, Install
  <2>3. Unheld'
    <3>1. \A c \in Call : at[c] = "record" => held = None
      BY <2>1, Zenon DEF Calm, Unheld
    <3>2. ASSUME NEW c \in Ensurer, at[c] = "settle", held # None
          PROVE  ~Connected(held)'
      <4>1. \A d \in Call : at[d] \notin Starting
        BY <3>2, Zenon DEF GateInv
      <4>2. held \in ready /\ held # g
        BY <3>2, <4>1, Zenon DEF HeldInv, GenerationInv, Install
      <4>3. via[g] = g
        BY <2>1, Zenon DEF Calm, OwnListener, Install
      <4>4. ~Connected(held) /\ link'[held] = link[held]
        BY <2>1, <3>2, <4>2, <4>3 DEF Calm, Unheld, Install, TypeOK
      <4>5. link[held] = g => link[held] = None
        BY <4>2, <4>3, Zenon DEF SocketInv, TypeOK
      <4> QED
        BY <3>2, <4>4, <4>5 DEF Connected, Install, TypeOK
    <3> QED
      BY <3>1, <3>2, Zenon DEF Unheld, Install
  <2>4. StuckKept' /\ PathKept' /\ Alone' /\ Kept'
    BY <2>1 DEF Install, Calm, StuckKept, PathKept, Alone, Kept
  <2> QED
    BY <2>2, <2>3, <2>4, Zenon DEF Calm
<1> QED
  BY <1>1, <1>2, <1>3, <1>4, <1>5, <1>6, <1>7, Zenon DEF CalmInv

\* The invariant is kept when the connection of a worker ends.
LEMMA ConnectionEndsStep ==
    ASSUME Inv, NEW g \in Generation, ConnectionEnds(g)
    PROVE  Inv'
<1> USE CallNotNone DEF Inv, Busy, Starting, Settling, Ending,
        memVars, socketVars, procVars, gateVars
<1>1. GateType' /\ GateInv'
  BY DEF TypeOK, GateType, GateInv, ConnectionEnds
<1>2. TypeOK'
  BY DEF TypeOK, ConnectionEnds
<1>3. TargetInv' /\ HeldInv' /\ StepInv' /\ Strays' = Strays
  BY DEF ConnectionEnds, TargetInv, HeldInv, StepInv, Strays
<1>4. GenerationInv'
  BY DEF TypeOK, GenerationInv, ConnectionEnds
<1>5. SocketInv'
  BY Zenon
     DEF TypeOK, SocketInv, SocketIsReachable, StopFindsListener,
     ConnectionEnds
<1>6. ASSUME Strays' = {} PROVE Calm'
  <2>1. Calm
    BY <1>3, <1>6, Zenon DEF CalmInv
  <2>2. OwnListener'
    BY <2>1 DEF Calm, OwnListener, ConnectionEnds
  <2>3. Unheld'
    BY <2>1 DEF Calm, Unheld, Connected, ConnectionEnds
  <2>4. StuckKept' /\ PathKept' /\ Alone' /\ Kept'
    BY <2>1, Zenon DEF ConnectionEnds, Calm, StuckKept, PathKept, Alone, Kept
  <2> QED
    BY <2>2, <2>3, <2>4, Zenon DEF Calm
<1> QED
  BY <1>1, <1>2, <1>3, <1>4, <1>5, <1>6, Zenon DEF CalmInv

\* The invariant is kept when WorkerDisconnected asks for the cleanup of a
\* generation.
LEMMA DisconnectStep ==
    ASSUME Inv, NEW g \in Generation, Disconnect(g)
    PROVE  Inv'
<1> USE CallNotNone DEF Inv, Busy, Starting, Settling, Ending,
        memVars, socketVars, procVars, gateVars
<1>1. GateType' /\ GateInv'
  BY EnterGate, Zenon DEF Disconnect
<1>2. TypeOK'
  BY <1>1, Zenon DEF TypeOK, GateType, Disconnect
<1>3. GenerationInv' /\ Strays' = Strays
  BY Zenon DEF Disconnect, Enter, GenerationInv, Strays
<1>4. TargetInv'
  BY DEF TargetInv, Disconnect, Enter
<1>5. HeldInv'
  BY DEF HeldInv, Disconnect, Enter
<1>6. StepInv'
  BY DEF StepInv, Disconnect, Enter
<1>7. SocketInv'
  BY DEF SocketInv, SocketIsReachable, StopFindsListener, Disconnect, Enter
<1>8. ASSUME Strays' = {} PROVE Calm'
  <2>1. Calm
    BY <1>3, <1>8, Zenon DEF CalmInv
  <2>2. Unheld'
    BY <2>1 DEF Calm, Unheld, Connected, Disconnect, Enter
  <2>3. PathKept'
    BY <2>1 DEF Calm, PathKept, Disconnect, Enter
  <2>4. Alone'
    BY <2>1 DEF Calm, Alone, Disconnect, Enter
  <2>5. OwnListener' /\ StuckKept' /\ Kept'
    BY <2>1, Zenon DEF Disconnect, Calm, OwnListener, StuckKept, Kept
  <2> QED
    BY <2>2, <2>3, <2>4, <2>5, Zenon DEF Calm
<1> QED
  BY <1>1, <1>2, <1>3, <1>4, <1>5, <1>6, <1>7, <1>8, Zenon DEF CalmInv

\* The invariant is kept when the process of a worker exits.
LEMMA ProcessExitsStep ==
    ASSUME Inv, NEW g \in Generation, ProcessExits(g)
    PROVE  Inv'
<1> USE CallNotNone DEF Inv, Busy, Starting, Settling, Ending,
        memVars, socketVars, procVars, gateVars
<1>1. GateType' /\ GateInv'
  BY Zenon DEF TypeOK, GateType, GateInv, ProcessExits
<1>2. TypeOK'
  BY DEF TypeOK, ProcessExits
<1>a. TargetInv' /\ HeldInv' /\ Strays' = Strays
  BY DEF TypeOK, ProcessExits, TargetInv, HeldInv, Strays
<1>b. SocketInv'
  BY Zenon
     DEF TypeOK, ProcessExits, SocketInv, SocketIsReachable, StopFindsListener
<1>3. TargetInv' /\ HeldInv' /\ SocketInv' /\ Strays' = Strays
  BY <1>a, <1>b, Zenon
<1>4. GenerationInv'
  BY DEF TypeOK, GenerationInv, ProcessExits
<1>5. StepInv'
  BY DEF StepInv, ProcessExits
<1>6. ASSUME Strays' = {} PROVE Calm'
  <2>1. Calm
    BY <1>3, <1>6, Zenon DEF CalmInv
  <2>2. Alone'
    BY <2>1 DEF Calm, Alone, ProcessExits
  <2>3. Kept'
    BY <2>1 DEF TargetInv, Calm, StuckKept, Alone, Kept, ProcessExits
  <2>4. OwnListener' /\ StuckKept' /\ Unheld' /\ PathKept'
    BY <2>1, Zenon
       DEF ProcessExits, Calm, OwnListener, StuckKept, Unheld, PathKept,
       Connected
  <2> QED
    BY <2>2, <2>3, <2>4, Zenon DEF Calm
<1> QED
  BY <1>1, <1>2, <1>3, <1>4, <1>5, <1>6, Zenon DEF CalmInv

\* The invariant is kept when a worker takes a turn.
LEMMA WorkerTakesTurnStep ==
    ASSUME Inv, NEW g \in Generation, WorkerTakesTurn(g)
    PROVE  Inv'
<1> USE CallNotNone DEF Inv, Busy, Starting, Settling, Ending,
        memVars, socketVars, procVars, gateVars
<1>1. GateType' /\ GateInv'
  BY DEF TypeOK, GateType, GateInv, WorkerTakesTurn
<1>2. TypeOK'
  BY Zenon DEF TypeOK, WorkerTakesTurn
<1>a. TargetInv' /\ HeldInv' /\ Strays' = Strays
  BY DEF TypeOK, WorkerTakesTurn, TargetInv, HeldInv, Strays
<1>b. SocketInv'
  BY Zenon
     DEF TypeOK, WorkerTakesTurn, SocketInv, SocketIsReachable,
     StopFindsListener
<1>3. TargetInv' /\ HeldInv' /\ SocketInv' /\ Strays' = Strays
  BY <1>a, <1>b, Zenon
<1>4. GenerationInv'
  BY Zenon DEF GenerationInv, WorkerTakesTurn
<1>5. StepInv'
  BY Zenon DEF StepInv, WorkerTakesTurn
<1>6. ASSUME Strays' = {} PROVE Calm'
  <2>1. Calm
    BY <1>3, <1>6, Zenon DEF CalmInv
  <2>2. Kept'
    BY <2>1, Zenon DEF Calm, Kept, WorkerTakesTurn
  <2>3. OwnListener' /\ StuckKept' /\ Unheld' /\ PathKept' /\ Alone'
    BY <2>1
       DEF WorkerTakesTurn, Calm, OwnListener, StuckKept, Unheld, PathKept,
       Alone, Connected
  <2> QED
    BY <2>2, <2>3, Zenon DEF Calm
<1> QED
  BY <1>1, <1>2, <1>3, <1>4, <1>5, <1>6, Zenon DEF CalmInv

\* The invariant is kept when a worker ends its turns.
LEMMA WorkerEndsTurnStep ==
    ASSUME Inv, NEW g \in Generation, WorkerEndsTurn(g)
    PROVE  Inv'
<1> USE CallNotNone DEF Inv, Busy, Starting, Settling, Ending,
        memVars, socketVars, procVars, gateVars
<1>1. GateType' /\ GateInv'
  BY DEF TypeOK, GateType, GateInv, WorkerEndsTurn
<1>2. TypeOK'
  BY Zenon DEF TypeOK, WorkerEndsTurn
<1>a. TargetInv' /\ HeldInv' /\ Strays' = Strays
  BY DEF TypeOK, WorkerEndsTurn, TargetInv, HeldInv, Strays
<1>b. SocketInv'
  BY Zenon
     DEF TypeOK, WorkerEndsTurn, SocketInv, SocketIsReachable,
     StopFindsListener
<1>3. TargetInv' /\ HeldInv' /\ SocketInv' /\ Strays' = Strays
  BY <1>a, <1>b, Zenon
<1>4. GenerationInv'
  BY Zenon DEF GenerationInv, WorkerEndsTurn
<1>5. StepInv'
  BY Zenon DEF StepInv, WorkerEndsTurn
<1>6. ASSUME Strays' = {} PROVE Calm'
  <2>1. Calm
    BY <1>3, <1>6, Zenon DEF CalmInv
  <2>2. Kept'
    BY <2>1, Zenon DEF Calm, Kept, WorkerEndsTurn
  <2>3. OwnListener' /\ StuckKept' /\ Unheld' /\ PathKept' /\ Alone'
    BY <2>1
       DEF WorkerEndsTurn, Calm, OwnListener, StuckKept, Unheld, PathKept,
       Alone, Connected
  <2> QED
    BY <2>2, <2>3, Zenon DEF Calm
<1> QED
  BY <1>1, <1>2, <1>3, <1>4, <1>5, <1>6, Zenon DEF CalmInv

-----------------------------------------------------------------------------
(* The theorems                                                             *)

\* The invariant holds initially,
LEMMA InitInv == Init => Inv
<1> SUFFICES ASSUME Init PROVE Inv
  BY Zenon
<1> USE CallNotNone DEF Init, Busy, Starting, Settling, Ending
<1>1. TypeOK
  BY DEF TypeOK, Place
<1>2. GateInv /\ TargetInv /\ HeldInv /\ GenerationInv /\ StepInv
  BY DEF GateInv, TargetInv, HeldInv, GenerationInv, StepInv
<1>3. SocketInv
  BY Zenon DEF SocketInv, SocketIsReachable, StopFindsListener
<1>4. CalmInv
  BY Zenon
     DEF CalmInv, Calm, OwnListener, StuckKept, Unheld, PathKept, Alone, Kept
<1> QED
  BY <1>1, <1>2, <1>3, <1>4, Zenon DEF Inv

\* a step that changes nothing keeps it,
LEMMA StutterInv == Inv /\ UNCHANGED vars => Inv'
<1> SUFFICES ASSUME Inv, UNCHANGED vars PROVE Inv'
  BY Zenon
<1> USE DEF vars, memVars, socketVars, procVars, gateVars
<1>1. TypeOK' /\ GateInv'
  BY DEF Inv, TypeOK, GateInv
<1>2. TargetInv' /\ HeldInv' /\ GenerationInv' /\ StepInv'
  BY DEF Inv, TargetInv, HeldInv, GenerationInv, StepInv
<1>3. SocketInv'
  BY Zenon DEF Inv, SocketInv, SocketIsReachable, StopFindsListener
<1>4. Strays' = Strays
  BY Zenon DEF Strays
<1>5. ASSUME Calm PROVE OwnListener' /\ StuckKept' /\ Unheld'
  BY <1>5, Zenon DEF Calm, OwnListener, StuckKept, Unheld, Connected
<1>6. ASSUME Calm PROVE PathKept' /\ Alone' /\ Kept'
  BY <1>6, Zenon DEF Calm, PathKept, Alone, Kept
<1>7. CalmInv'
  BY <1>4, <1>5, <1>6, Zenon DEF Inv, CalmInv, Calm
<1> QED
  BY <1>1, <1>2, <1>3, <1>7, Zenon DEF Inv

\* and so does every step.
LEMMA NextInv == Inv /\ [Next]_vars => Inv'
<1> SUFFICES ASSUME Inv, [Next]_vars PROVE Inv'
  BY Zenon
<1>1. ASSUME NEW c \in Call, Ask(c) \/ Cancel(c) PROVE Inv'
  BY <1>1, AskStep, CancelStep, Zenon
<1>2. ASSUME NEW c \in Call, Step(c) PROVE Inv'
  BY <1>2, GiveUpStep, BeginStep, SettleStep, ReapStep, ReleaseStep, MarkStep,
     RecordGenerationStep, OpenSocketStep, LaunchStep, AwaitRegistrationStep,
     AbandonStep, TakeStep, KillStep, CloseSocketStep, EndStep, Zenon DEF Step
<1>3. ASSUME NEW g \in Generation, Worker(g) PROVE Inv'
  BY <1>3, DialStep, AcceptWorkerStep, InstallStep, ConnectionEndsStep,
     DisconnectStep, ProcessExitsStep, WorkerTakesTurnStep,
     WorkerEndsTurnStep, Zenon DEF Worker
<1> QED
  BY <1>1, <1>2, <1>3, StutterInv, Zenon DEF Next

\* The invariant holds in every reachable state.
THEOREM Invariant == Spec => []Inv
BY InitInv, NextInv, PTL DEF Spec

\* Every variable keeps its type.
THEOREM WorkersTyped == Spec => []TypeOK
<1>1. Inv => TypeOK
  BY Zenon DEF Inv
<1> QED
  BY <1>1, Invariant, PTL

\* Listener.Close of one generation never removes the socket of the current
\* one, whatever the number of calls, faults and crashes.
THEOREM SocketStaysReachable == Spec => []SocketIsReachable
<1>1. Inv => SocketIsReachable
  BY Zenon DEF Inv, SocketInv
<1> QED
  BY <1>1, Invariant, PTL

\* stopHeld always finds the listener it uses.
THEOREM StopHasListener == Spec => []StopFindsListener
<1>1. Inv => StopFindsListener
  BY Zenon DEF Inv, SocketInv
<1> QED
  BY <1>1, Invariant, PTL

\* Ensure never launches a worker beside the one it replaces.
THEOREM ReplacementsAreAlone == Spec => []ReplacementIsAlone
<1>1. Inv => ReplacementIsAlone
  BY Zenon DEF Inv, CalmInv, Calm, Alone, ReplacementIsAlone
<1> QED
  BY <1>1, Invariant, PTL

\* settleDisconnectedWorker keeps a lost worker in the map, and its row open,
\* until its turns are released.  Generations that stopHeld or abandon gave up,
\* and sessions with a stray container, are excepted.
THEOREM LostWorkIsFound == Spec => []LostWorkIsKept
<1>1. Inv => LostWorkIsKept
  <2> SUFFICES ASSUME Inv, Strays = {}, NEW g \in work, g \notin dismissed
               PROVE  g = held /\ row[g] \notin Terminal
    BY Zenon DEF LostWorkIsKept
  <2>1. g \in Generation
    BY Zenon DEF Inv, TypeOK
  <2>2. g = held
    <3>1. CASE proc[g] = "up"
      BY <2>1, <3>1, Zenon
      DEF Inv, CalmInv, Calm, Alone, StuckKept, TargetInv, Ending
    <3>2. CASE proc[g] # "up"
      BY <3>2, Zenon DEF Inv, CalmInv, Calm, Kept
    <3> QED BY <3>1, <3>2, Zenon
  <2>3. held # None
    BY <2>1, <2>2, WorkersAssumption DEF Generation, None
  <2> QED BY <2>2, <2>3, Zenon DEF Inv, HeldInv
<1> QED
  BY <1>1, Invariant, PTL
=============================================================================
