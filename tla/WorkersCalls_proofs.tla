------------------------- MODULE WorkersCalls_proofs ------------------------
(***************************************************************************)
(* The inductive invariant of the supervisor of a session's workers, what  *)
(* its gate does to the line of calls, and that the steps of Stop, of the  *)
(* gate and of Ensure, from the settling of a lost worker to the launch of *)
(* its replacement, keep the invariant, for any number of calls and        *)
(* generations.                                                            *)
(***************************************************************************)
EXTENDS Workers, TLAPS

-----------------------------------------------------------------------------
(* The inductive invariant                                                  *)

Starting == {"listen", "launch", "await", "abandon"}
Settling == {"reap", "release", "mark"}
Ending == {"kill", "close", "end"}
Busy == {"settle", "record"} \cup Starting \cup Settling \cup Ending

\* The types of the gate's variables.
GateType ==
    /\ line \in Seq(Call)
    /\ at \in [Call -> Place]
    /\ target \in [Call -> {None} \cup Generation]

\* The line holds each call once, from its arrival to its return, and only
\* the call at its head has gone further than the line.
GateInv ==
    /\ \A i, j \in 1 .. Len(line) : line[i] = line[j] => i = j
    /\ \A i \in 1 .. Len(line) : at[line[i]] \notin {"idle", "done"}
    /\ \A c \in Call : at[c] \in Busy => Len(line) > 0 /\ line[1] = c

\* What a call works on, by the place it has reached.
TargetInv ==
    \A c \in Call :
        /\ target[c] # None => at[c] \in Starting \cup Settling \cup Ending
        /\ at[c] \in Starting \cup Settling => held # None /\ target[c] = held
        /\ at[c] \in Ending =>
             held = None /\ target[c] # None /\ target[c] \in dismissed
        /\ target[c] # None => row[target[c]] \notin Terminal \cup {"none"}

\* The generation in the map is recorded and not given up, and has
\* registered unless its launch is still going on.
HeldInv ==
    held # None =>
        /\ held \notin dismissed
        /\ row[held] \notin Terminal \cup {"none"}
        /\ held \in ready \/ \E c \in Call : at[c] \in Starting

\* What exists of a generation, in the order it comes into being.
GenerationInv ==
    \A g \in Generation :
        /\ row[g] = "none" => /\ listener[g] = "none"
                              /\ g \notin dismissed \cup stuck
        /\ listener[g] = "none" => proc[g] = "none"
        /\ proc[g] = "none" => reg[g] = "none"
        /\ g \in ready => reg[g] \in {"served", "over"}
        /\ reg[g] \in {"hello", "accepted", "served", "unacked"} =>
             via[g] # None
        /\ g \in work => proc[g] # "none"

\* What a call has done before it reaches a place: a worker that is launched
\* has its socket, and a worker that was settled is gone, its socket is closed
\* and in the end its turns are released.
StepInv ==
    \A c \in Call :
        /\ at[c] \in {"launch", "await"} => listener[target[c]] # "none"
        /\ at[c] \in {"release", "mark"} =>
             /\ proc[target[c]] # "up"
             /\ target[c] \notin stuck
             /\ listener[target[c]] # "open"
        /\ at[c] = "mark" => target[c] \notin work

\* The path leads to an open listener, and to the current one if it is open.
SocketInv ==
    /\ path # None => listener[path] = "open"
    /\ SocketIsReachable
    /\ StopFindsListener
    /\ \A l \in Generation :
         link[l] # None => via[link[l]] = l /\ reg[link[l]] # "none"

\* Without a stray container every worker registers with its own listener;
OwnListener ==
    \A g \in Generation :
        /\ reg[g] \in {"accepted", "served", "unacked"} => via[g] = g
        /\ reg[g] = "hello" => via[g] = g \/ row[g] \in Terminal

\* a container whose stop failed stays in the map or was given up;
StuckKept == \A g \in stuck : g = held \/ g \in dismissed

\* a launch begins with an empty map;
Unheld ==
    /\ \A c \in Call : at[c] = "record" => held = None
    /\ \A c \in Ensurer : at[c] = "settle" => held = None \/ ~Connected(held)

\* and the path leads to the current listener or to one being closed.
PathKept ==
    path # None =>
        \/ path = held
        \/ \E c \in Call : at[c] \in {"kill", "close"} /\ target[c] = path

\* What ReplacementIsAlone and LostWorkIsKept say of such a state follows.
Alone ==
    \A g \in Generation :
        proc[g] = "up" =>
            \/ g = held
            \/ g \in stuck
            \/ \E c \in Call : at[c] = "kill" /\ target[c] = g
Kept == \A g \in work : proc[g] = "up" \/ g = held \/ g \in dismissed

Calm == OwnListener /\ StuckKept /\ Unheld /\ PathKept /\ Alone /\ Kept
CalmInv == Strays = {} => Calm

Inv ==
    /\ TypeOK /\ GateInv /\ TargetInv /\ HeldInv /\ GenerationInv
    /\ StepInv /\ SocketInv /\ CalmInv

-----------------------------------------------------------------------------
(* The gate                                                                 *)

\* Calls, generations and None are told apart.
LEMMA CallNotNone == /\ None \notin Call
                     /\ None \notin Generation
                     /\ Ensurer \subseteq Call /\ Generation \subseteq Call
                     /\ \A c \in Ensurer \cup Stopper : c \notin Generation
                     /\ \A c \in Ensurer : c \notin Stopper
BY WorkersAssumption DEF Call, None, Generation

\* Removing the call at place i keeps the order of the others.
LEMMA WithoutLine ==
    ASSUME line \in Seq(Call), NEW i \in 1 .. Len(line)
    PROVE  /\ Without(i) \in Seq(Call)
           /\ Len(Without(i)) = Len(line) - 1
           /\ \A j \in 1 .. Len(line) - 1 :
                Without(i)[j] = IF j < i THEN line[j] ELSE line[j + 1]
<1>1. Len(line) \in Nat /\ Len(line) >= 1
  OBVIOUS
<1>2. Without(i) \in [1 .. Len(line) - 1 -> Call]
  BY <1>1 DEF Without
<1>3. Without(i) \in Seq(Call) /\ Len(Without(i)) = Len(line) - 1
  BY <1>1, <1>2
<1> QED
  BY <1>1, <1>3, Zenon DEF Without

\* A call that joins the line keeps the gate in order.
LEMMA EnterGate ==
    ASSUME TypeOK, GateInv, NEW c \in Call, Enter(c)
    PROVE  GateType' /\ GateInv'
<1>1. /\ line \in Seq(Call) /\ at[c] = "idle"
      /\ at' = [at EXCEPT ![c] = "line"] /\ line' = Append(line, c)
      /\ at \in [Call -> Place]
  BY Zenon DEF TypeOK, Enter
<1>2. /\ line' \in Seq(Call) /\ Len(line') = Len(line) + 1
      /\ \A i \in 1 .. Len(line) : line'[i] = line[i]
      /\ line'[Len(line) + 1] = c
      /\ Len(line) \in Nat
  BY <1>1
<1>3. \A i \in 1 .. Len(line) : line[i] \in Call /\ line[i] # c
  BY <1>1 DEF GateInv
<1>4. \A i, j \in 1 .. Len(line') : line'[i] = line'[j] => i = j
  BY <1>2, <1>3 DEF GateInv
<1>5. \A i \in 1 .. Len(line') : at'[line'[i]] \notin {"idle", "done"}
  BY <1>1, <1>2, <1>3 DEF GateInv
<1>6. \A d \in Call : at'[d] \in Busy => Len(line') > 0 /\ line'[1] = d
  BY <1>1, <1>2 DEF GateInv, Busy, Starting, Settling, Ending
<1>p. "line" \in Place
  BY Zenon DEF Place, Busy, Starting, Settling, Ending
<1>t. at' \in [Call -> Place] /\ target' \in [Call -> {None} \cup Generation]
  BY <1>1, <1>p DEF TypeOK, Enter
<1> QED
  BY <1>t, <1>2, <1>4, <1>5, <1>6, Zenon DEF GateInv, GateType

\* So does the call at the head when it goes on to its next step,
LEMMA GoToGate ==
    ASSUME TypeOK, GateInv, NEW c \in Call, NEW s, AtGate(c, s),
           NEW step \in Busy, NEW g \in {None} \cup Generation,
           GoTo(c, step, g)
    PROVE  GateType' /\ GateInv'
<1>1. /\ line \in Seq(Call) /\ line' = line
      /\ at' = [at EXCEPT ![c] = step] /\ at \in [Call -> Place]
      /\ Len(line) \in Nat /\ Len(line) > 0 /\ line[1] = c
  BY DEF TypeOK, GoTo, AtGate
<1>2. step \notin {"idle", "done"}
  BY Zenon DEF Busy, Starting, Settling, Ending
<1>3. \A i \in 1 .. Len(line) : line[i] \in Call
  BY <1>1
<1>4. \A d \in Call : at'[d] \in Busy => line[1] = d
  BY <1>1, Zenon DEF GateInv
<1>p. step \in Place
  BY Zenon DEF Place, Busy, Starting, Settling, Ending
<1>t. at' \in [Call -> Place] /\ target' \in [Call -> {None} \cup Generation]
  BY <1>1, <1>p DEF TypeOK, GoTo
<1> QED
  BY <1>t, <1>1, <1>2, <1>3, <1>4 DEF GateInv, GateType

\* and a call that leaves the line, from its head or from within.
LEMMA LeaveGate ==
    ASSUME TypeOK, GateInv, NEW c \in Call, Leave(c)
    PROVE  GateType' /\ GateInv'
<1>1. /\ line \in Seq(Call) /\ Len(line) \in Nat
      /\ at' = [at EXCEPT ![c] = "done"] /\ at \in [Call -> Place]
  BY DEF TypeOK, Leave
<1>2. PICK i \in 1 .. Len(line) : line[i] = c /\ line' = Without(i)
  BY Zenon DEF Leave
<1>3. /\ line' \in Seq(Call) /\ Len(line') = Len(line) - 1
      /\ \A j \in 1 .. Len(line) - 1 :
           line'[j] = IF j < i THEN line[j] ELSE line[j + 1]
  BY <1>1, <1>2, WithoutLine, Zenon
<1>d. \A j, k \in 1 .. Len(line) : line[j] = line[k] => j = k
  BY Zenon DEF GateInv
<1>4. \A j \in 1 .. Len(line') : line'[j] \in Call /\ line'[j] # c
  <2>1. SUFFICES ASSUME NEW j \in 1 .. Len(line) - 1
                 PROVE  line'[j] \in Call /\ line'[j] # c
    BY <1>3, Zenon
  <2>2. PICK k \in 1 .. Len(line) : k # i /\ line'[j] = line[k]
    <3>1. CASE j < i
      BY <1>1, <1>3, <3>1
    <3>2. CASE ~ (j < i)
      <4>1. j + 1 \in 1 .. Len(line) /\ j + 1 # i
        BY <1>1, <3>2
      <4> QED BY <1>3, <3>2, <4>1, Zenon
    <3> QED BY <3>1, <3>2, Zenon
  <2>3. line[k] \in Call
    BY <1>1
  <2> QED BY <1>d, <1>2, <2>2, <2>3, Zenon
<1>5. \A j, k \in 1 .. Len(line') : line'[j] = line'[k] => j = k
  <2>1. SUFFICES ASSUME NEW j \in 1 .. Len(line) - 1,
                        NEW k \in 1 .. Len(line) - 1, line'[j] = line'[k]
                 PROVE  j = k
    BY <1>3, Zenon
  <2> DEFINE from(m) == IF m < i THEN m ELSE m + 1
  <2>2. /\ from(j) \in 1 .. Len(line) /\ line'[j] = line[from(j)]
        /\ from(k) \in 1 .. Len(line) /\ line'[k] = line[from(k)]
    BY <1>1, <1>3
  <2>3. from(j) = from(k)
    <3> HIDE DEF from
    <3> QED BY <1>d, <2>1, <2>2, Zenon
  <2> QED BY <1>1, <2>3
<1>6. \A j \in 1 .. Len(line') : at'[line'[j]] \notin {"idle", "done"}
  <2>1. SUFFICES ASSUME NEW j \in 1 .. Len(line')
                 PROVE  at'[line'[j]] \notin {"idle", "done"}
    BY Zenon
  <2>2. at'[line'[j]] = at[line'[j]]
    BY <1>1, <1>4, Zenon
  <2>3. PICK k \in 1 .. Len(line) : line'[j] = line[k]
    BY <1>1, <1>3
  <2>4. at[line[k]] \notin {"idle", "done"}
    BY Zenon DEF GateInv
  <2> QED BY <2>2, <2>3, <2>4, Zenon
<1>7. \A d \in Call : at'[d] \in Busy => Len(line') > 0 /\ line'[1] = d
  <2> SUFFICES ASSUME NEW d \in Call, at'[d] \in Busy
               PROVE  Len(line') > 0 /\ line'[1] = d
    BY Zenon
  <2>1. d # c /\ at[d] \in Busy
    BY <1>1, Zenon DEF Busy, Starting, Settling, Ending
  <2>2. Len(line) > 0 /\ line[1] = d /\ i # 1
    BY <2>1, <1>2, Zenon DEF GateInv
  <2> QED
    BY <2>2, <1>1, <1>2, <1>3
<1>p. "done" \in Place
  BY Zenon DEF Place, Busy, Starting, Settling, Ending
<1>t. at' \in [Call -> Place] /\ target' \in [Call -> {None} \cup Generation]
  BY <1>1, <1>p DEF TypeOK, Leave
<1> QED
  BY <1>t, <1>3, <1>5, <1>6, <1>7, Zenon DEF GateInv, GateType

\* While a call is at the head of the line, no other call works on anything.
LEMMA OnlyHead ==
    ASSUME TypeOK, GateInv, TargetInv, NEW c \in Call, NEW s, AtGate(c, s)
    PROVE  \A d \in Call : d # c => at[d] \notin Busy /\ target[d] = None
<1>1. Len(line) > 0 /\ line[1] = c
  BY DEF TypeOK, AtGate
<1> QED
  BY <1>1, Zenon DEF GateInv, TargetInv, Busy

\* A generation that is about to be recorded has left no trace.
LEMMA Fresh ==
    ASSUME TypeOK, Unused # {}
    PROVE  NextGeneration \in Generation /\ row[NextGeneration] = "none"
BY Zenon DEF NextGeneration, Unused

\* The invariant is kept when a launch that failed is undone.
LEMMA AbandonStep ==
    ASSUME Inv, NEW c \in Call, Abandon(c)
    PROVE  Inv'
<1> USE CallNotNone DEF Inv, Busy, Starting, Settling, Ending,
        memVars, socketVars, procVars, gateVars
<1>0. \A d \in Call : d # c => at[d] \notin Busy /\ target[d] = None
  BY OnlyHead, Zenon DEF Abandon
<1>1. GateType' /\ GateInv'
  BY LeaveGate, GoToGate, Zenon
     DEF Abandon, AtGate, GoTo, Abandoned, Stopped, StopFails, TargetInv,
     TypeOK
<1>2. TypeOK'
  BY <1>1
     DEF TypeOK, GateType, TargetInv, Abandon, AtGate, GoTo, Abandoned,
     Stopped, StopFails, Fails, Succeeds
<1>3. TargetInv'
  BY <1>0 DEF TypeOK, TargetInv, Abandon, AtGate, GoTo, Abandoned
<1>4. HeldInv'
  BY <1>0, Zenon DEF TargetInv, HeldInv, Abandon, Abandoned
<1>5. GenerationInv'
  BY DEF TypeOK, TargetInv, GenerationInv, Abandon, Stopped, StopFails
<1>6. StepInv'
  BY <1>0 DEF StepInv, Abandon, AtGate, GoTo
<1>7. SocketInv'
  BY DEF SocketInv, SocketIsReachable, StopFindsListener, Abandon, GoTo,
     Abandoned
<1>8. Strays \subseteq Strays'
  BY DEF Strays, Abandon, GoTo, Stopped, StopFails
<1>9. ASSUME Strays' = {} PROVE Calm'
  <2>1. Calm
    BY <1>8, <1>9, Zenon DEF CalmInv
  <2>2. StuckKept'
    BY <2>1, Zenon DEF Calm, StuckKept, Abandon, Abandoned, Stopped, StopFails
  <2>3. Unheld'
    BY <1>0 DEF Unheld, Abandon, AtGate, GoTo
  <2>4. PathKept'
    BY <2>1 DEF TypeOK, Calm, PathKept, Abandon, GoTo, Abandoned
  <2>5. Alone'
    BY <2>1, <1>0
       DEF TypeOK, Calm, Alone, Abandon, Abandoned, Stopped, StopFails
  <2>6. Kept'
    BY <2>1 DEF TypeOK, Calm, Kept, Abandon, Abandoned, Stopped, StopFails
  <2>7. OwnListener'
    BY <2>1, Zenon DEF Abandon, Calm, OwnListener
  <2> QED
    BY <2>2, <2>3, <2>4, <2>5, <2>6, <2>7, Zenon DEF Calm
<1> QED
  BY <1>1, <1>2, <1>3, <1>4, <1>5, <1>6, <1>7, <1>9, Zenon DEF CalmInv

\* The invariant is kept when Stop takes the generation out of the map.
LEMMA TakeStep ==
    ASSUME Inv, NEW c \in Call, Take(c)
    PROVE  Inv'
<1> USE CallNotNone DEF Inv, Busy, Starting, Settling, Ending,
        memVars, socketVars, procVars, gateVars
<1>0. \A d \in Call : d # c => at[d] \notin Busy /\ target[d] = None
  BY OnlyHead, Zenon DEF Take
<1>1. GateType' /\ GateInv'
  BY LeaveGate, GoToGate, Zenon DEF Take, GoTo, TypeOK
<1>2. TypeOK'
  BY <1>1 DEF TypeOK, GateType, Take, GoTo, Fails, Succeeds
<1>3. TargetInv'
  BY <1>0 DEF TypeOK, TargetInv, HeldInv, Terminal, Take, GoTo, Leave
<1>4. HeldInv'
  BY Zenon DEF HeldInv, Take
<1>5. GenerationInv'
  BY DEF TypeOK, HeldInv, GenerationInv, Take
<1>6. StepInv'
  BY DEF TypeOK, StepInv, Take, GoTo, Leave
<1>7. SocketInv'
  BY <1>0
     DEF TypeOK, HeldInv, GenerationInv, SocketInv, SocketIsReachable,
     StopFindsListener, Take, AtGate, GoTo, Leave
<1>8. Strays \subseteq Strays'
  BY DEF TypeOK, HeldInv, Strays, Take, GoTo, Leave
<1>9. ASSUME Strays' = {} PROVE Calm'
  <2>1. Calm
    BY <1>8, <1>9, Zenon DEF CalmInv
  <2>2. OwnListener'
    BY <2>1 DEF TypeOK, HeldInv, Calm, OwnListener, Take, AtGate
  <2>3. StuckKept'
    BY <2>1, Zenon DEF Calm, StuckKept, Take
  <2>4. Unheld'
    BY Zenon DEF Unheld, Take
  <2>5. PathKept'
    BY <2>1, <1>0 DEF TypeOK, Calm, PathKept, Take, AtGate, GoTo
  <2>6. Alone'
    BY <2>1, <1>0 DEF TypeOK, Calm, Alone, Take, AtGate, GoTo
  <2>7. Kept'
    BY <2>1, Zenon DEF Calm, Kept, Take
  <2> QED
    BY <2>2, <2>3, <2>4, <2>5, <2>6, <2>7, Zenon DEF Calm
<1> QED
  BY <1>1, <1>2, <1>3, <1>4, <1>5, <1>6, <1>7, <1>9, Zenon DEF CalmInv

\* The invariant is kept when Stop stops its container.
LEMMA KillStep ==
    ASSUME Inv, NEW c \in Call, Kill(c)
    PROVE  Inv'
<1> USE CallNotNone DEF Inv, Busy, Starting, Settling, Ending,
        memVars, socketVars, procVars, gateVars
<1>0. \A d \in Call : d # c => at[d] \notin Busy /\ target[d] = None
  BY OnlyHead, Zenon DEF Kill
<1>1. GateType' /\ GateInv'
  BY LeaveGate, GoToGate, Zenon
     DEF Kill, AtGate, GoTo, Stopped, StopFails, TargetInv, TypeOK
<1>2. TypeOK'
  BY <1>1, SMTT(20)
     DEF TypeOK, GateType, TargetInv, Kill, AtGate, Stopped, StopFails, Fails,
     Succeeds
<1>3. TargetInv'
  BY DEF TargetInv, Kill, AtGate, GoTo
<1>4. HeldInv'
  BY <1>0, Zenon DEF HeldInv, Kill, AtGate
<1>5. GenerationInv'
  BY DEF TypeOK, GenerationInv, Kill, Stopped, StopFails
<1>6. StepInv'
  BY <1>0 DEF StepInv, Kill, AtGate, GoTo
<1>7. SocketInv'
  BY DEF SocketInv, SocketIsReachable, StopFindsListener, Kill, GoTo
<1>8. Strays \subseteq Strays'
  BY DEF Strays, Kill, GoTo, Stopped, StopFails
<1>9. ASSUME Strays' = {} PROVE Calm'
  <2>1. Calm
    BY <1>8, <1>9, Zenon DEF CalmInv
  <2>2. StuckKept'
    BY <2>1 DEF TargetInv, Calm, StuckKept, Kill, AtGate, Stopped, StopFails
  <2>3. Unheld'
    BY <1>0 DEF Unheld, Kill, AtGate, GoTo
  <2>4. PathKept'
    BY <2>1 DEF Calm, PathKept, Kill, GoTo
  <2>5. Alone'
    BY <2>1, <1>0 DEF TypeOK, Calm, Alone, Kill, Stopped, StopFails
  <2>6. Kept'
    BY <2>1 DEF TypeOK, TargetInv, Calm, Kept, Kill, Stopped, StopFails
  <2>7. OwnListener'
    BY <2>1, Zenon DEF Kill, Calm, OwnListener
  <2> QED
    BY <2>2, <2>3, <2>4, <2>5, <2>6, <2>7, Zenon DEF Calm
<1> QED
  BY <1>1, <1>2, <1>3, <1>4, <1>5, <1>6, <1>7, <1>9, Zenon DEF CalmInv

\* The invariant is kept when Stop closes its listener.
LEMMA CloseSocketStep ==
    ASSUME Inv, NEW c \in Call, CloseSocket(c)
    PROVE  Inv'
<1> USE CallNotNone DEF Inv, Busy, Starting, Settling, Ending,
        memVars, socketVars, procVars, gateVars
<1>0. \A d \in Call : d # c => at[d] \notin Busy /\ target[d] = None
  BY OnlyHead, Zenon DEF CloseSocket
<1>1. GateType' /\ GateInv'
  BY LeaveGate, GoToGate, Zenon
     DEF CloseSocket, AtGate, GoTo, Close, Connected, TargetInv, TypeOK
<1>2. TypeOK'
  BY <1>1 DEF TypeOK, GateType, CloseSocket, AtGate, GoTo, Close
<1>3. TargetInv'
  BY DEF TargetInv, CloseSocket, AtGate, GoTo
<1>4. HeldInv'
  BY <1>0, Zenon DEF HeldInv, CloseSocket, AtGate
<1>5. GenerationInv'
  BY DEF TypeOK, GenerationInv, CloseSocket, Close, Connected
<1>6. StepInv'
  BY <1>0 DEF StepInv, CloseSocket, AtGate, GoTo
<1>7. SocketInv'
  BY DEF TypeOK, TargetInv, SocketInv, SocketIsReachable, StopFindsListener,
     CloseSocket, GoTo, Close
<1>8. Strays \subseteq Strays'
  BY DEF Strays, CloseSocket, GoTo
<1>9. ASSUME Strays' = {} PROVE Calm'
  <2>1. Calm
    BY <1>8, <1>9, Zenon DEF CalmInv
  <2>2. OwnListener'
    BY <2>1 DEF TypeOK, Calm, OwnListener, CloseSocket, Close
  <2>3. Unheld'
    BY <1>0 DEF Unheld, CloseSocket, AtGate, GoTo
  <2>4. PathKept'
    BY <2>1, <1>0 DEF SocketInv, Calm, PathKept, CloseSocket, Close
  <2>5. Alone'
    BY <2>1, <1>0 DEF Calm, Alone, CloseSocket, AtGate
  <2>6. StuckKept' /\ Kept'
    BY <2>1, Zenon DEF CloseSocket, Calm, StuckKept, Kept
  <2> QED
    BY <2>2, <2>3, <2>4, <2>5, <2>6, Zenon DEF Calm
<1> QED
  BY <1>1, <1>2, <1>3, <1>4, <1>5, <1>6, <1>7, <1>9, Zenon DEF CalmInv

\* The invariant is kept when Stop records the end of the generation.
LEMMA EndStep ==
    ASSUME Inv, NEW c \in Call, End(c)
    PROVE  Inv'
<1> USE CallNotNone DEF Inv, Busy, Starting, Settling, Ending,
        memVars, socketVars, procVars, gateVars
<1>0. \A d \in Call : d # c => at[d] \notin Busy /\ target[d] = None
  BY OnlyHead, Zenon DEF End
<1>1. GateType' /\ GateInv'
  BY LeaveGate, GoToGate, Zenon DEF End, AtGate, Leave, TargetInv, TypeOK
<1>2. TypeOK'
  BY <1>1 DEF TypeOK, GateType, End, Fails, Succeeds
<1>3. TargetInv'
  BY <1>0 DEF TypeOK, TargetInv, End, Leave
<1>4. HeldInv'
  BY Zenon DEF TargetInv, HeldInv, End, AtGate
<1>5. GenerationInv'
  BY DEF TypeOK, GenerationInv, End
<1>6. StepInv'
  BY DEF TypeOK, StepInv, End, AtGate, Leave
<1>7. SocketInv'
  BY DEF SocketInv, SocketIsReachable, StopFindsListener, End, AtGate, Leave
<1>8. Strays \subseteq Strays'
  BY DEF TypeOK, Strays, End, Leave
<1>9. ASSUME Strays' = {} PROVE Calm'
  <2>1. Calm
    BY <1>8, <1>9, Zenon DEF CalmInv
  <2>2. OwnListener'
    BY <2>1 DEF TypeOK, TargetInv, Calm, OwnListener, End
  <2>3. Unheld'
    BY <1>0 DEF Unheld, End, AtGate, Leave
  <2>4. PathKept'
    BY <2>1, <1>0, Zenon DEF Calm, PathKept, End, AtGate
  <2>5. Alone'
    BY <2>1, <1>0 DEF Calm, Alone, End, AtGate
  <2>6. StuckKept' /\ Kept'
    BY <2>1, Zenon DEF End, Calm, StuckKept, Kept
  <2> QED
    BY <2>2, <2>3, <2>4, <2>5, <2>6, Zenon DEF Calm
<1> QED
  BY <1>1, <1>2, <1>3, <1>4, <1>5, <1>6, <1>7, <1>9, Zenon DEF CalmInv

\* The invariant is kept when a call joins the line.
LEMMA AskStep ==
    ASSUME Inv, NEW c \in Call, Ask(c)
    PROVE  Inv'
<1> USE CallNotNone DEF Inv, Busy, Starting, Settling, Ending,
        memVars, socketVars, procVars, gateVars
<1>1. GateType' /\ GateInv'
  BY EnterGate, Zenon DEF Ask
<1>2. TypeOK'
  BY <1>1, Zenon DEF TypeOK, GateType, Ask
<1>3. GenerationInv' /\ Strays' = Strays
  BY Zenon DEF Ask, Enter, GenerationInv, Strays
<1>4. TargetInv'
  BY DEF TargetInv, Ask, Enter
<1>5. HeldInv'
  BY DEF HeldInv, Ask, Enter
<1>6. StepInv'
  BY DEF TypeOK, StepInv, Ask, Enter
<1>7. SocketInv'
  BY DEF TypeOK, SocketInv, SocketIsReachable, StopFindsListener, Ask, Enter
<1>8. ASSUME Strays' = {} PROVE Calm'
  <2>1. Calm
    BY <1>3, <1>8, Zenon DEF CalmInv
  <2>2. Unheld'
    BY <2>1 DEF Calm, Unheld, Connected, Ask, Enter
  <2>3. PathKept'
    BY <2>1 DEF Calm, PathKept, Ask, Enter
  <2>4. Alone'
    BY <2>1 DEF Calm, Alone, Ask, Enter
  <2>5. OwnListener' /\ StuckKept' /\ Kept'
    BY <2>1, Zenon DEF Ask, Calm, OwnListener, StuckKept, Kept
  <2> QED
    BY <2>2, <2>3, <2>4, <2>5, Zenon DEF Calm
<1> QED
  BY <1>1, <1>2, <1>3, <1>4, <1>5, <1>6, <1>7, <1>8, Zenon DEF CalmInv

\* The invariant is kept when the context of a call is cancelled.
LEMMA CancelStep ==
    ASSUME Inv, NEW c \in Call, Cancel(c)
    PROVE  Inv'
<1> USE CallNotNone DEF Inv, Busy, Starting, Settling, Ending,
        memVars, socketVars, procVars, gateVars
<1>1. GateType' /\ GateInv'
  BY DEF TypeOK, GateType, GateInv, Cancel
<1>2. TypeOK'
  BY Zenon DEF TypeOK, Cancel
<1>3. /\ TargetInv' /\ HeldInv' /\ GenerationInv' /\ StepInv' /\ SocketInv'
      /\ Strays' = Strays
  <2>1. /\ row' = row /\ held' = held /\ target' = target /\ at' = at
        /\ dismissed' = dismissed /\ listener' = listener /\ path' = path
        /\ link' = link /\ ready' = ready /\ proc' = proc /\ stuck' = stuck
        /\ reg' = reg /\ via' = via /\ work' = work
    BY Zenon DEF Cancel
  <2>2. TargetInv' /\ HeldInv' /\ GenerationInv'
    BY <2>1 DEF TargetInv, HeldInv, GenerationInv
  <2>3. StepInv' /\ SocketInv' /\ Strays' = Strays
    BY <2>1
       DEF StepInv, SocketInv, SocketIsReachable, StopFindsListener, Strays
  <2> QED
    BY <2>2, <2>3, Zenon
<1>4. ASSUME Strays' = {} PROVE Calm'
  <2>1. Calm
    BY <1>3, <1>4, Zenon DEF CalmInv
  <2>2. OwnListener' /\ StuckKept' /\ Unheld' /\ PathKept' /\ Alone' /\ Kept'
    BY <2>1, Zenon
       DEF Cancel, Calm, OwnListener, StuckKept, Unheld, PathKept, Alone,
       Kept, Connected
  <2> QED
    BY <2>2, Zenon DEF Calm
<1> QED
  BY <1>1, <1>2, <1>3, <1>4, Zenon DEF CalmInv

\* The invariant is kept when a cancelled call leaves the line.
LEMMA GiveUpStep ==
    ASSUME Inv, NEW c \in Call, GiveUp(c)
    PROVE  Inv'
<1> USE CallNotNone DEF Inv, Busy, Starting, Settling, Ending,
        memVars, socketVars, procVars, gateVars
<1>1. GateType' /\ GateInv'
  BY LeaveGate, Zenon DEF GiveUp
<1>2. TypeOK'
  BY <1>1, Zenon DEF TypeOK, GateType, GiveUp
<1>3. GenerationInv'
  BY Zenon DEF GiveUp, GenerationInv
<1>4. TargetInv'
  BY DEF TargetInv, GiveUp, Leave
<1>5. HeldInv'
  BY DEF HeldInv, GiveUp, Leave
<1>6. StepInv'
  BY DEF TypeOK, StepInv, GiveUp, Leave
<1>7. SocketInv'
  BY DEF TypeOK, SocketInv, SocketIsReachable, StopFindsListener, GiveUp,
     Leave
<1>8. Strays \subseteq Strays'
  BY DEF TypeOK, Strays, GiveUp, Leave
<1>9. ASSUME Strays' = {} PROVE Calm'
  <2>1. Calm
    BY <1>8, <1>9, Zenon DEF CalmInv
  <2>a. /\ held' = held /\ link' = link /\ reg' = reg
        /\ \A d \in Call : at'[d] # "done" => at'[d] = at[d]
    BY Zenon DEF TypeOK, GiveUp, Leave
  <2> HIDE DEF Busy, Starting, Settling, Ending
  <2>2. Unheld'
    BY <2>1, <2>a, Zenon DEF Calm, Unheld, Connected
  <2>3. PathKept'
    BY <2>1 DEF Calm, PathKept, GiveUp, Leave
  <2>4. Alone'
    BY <2>1 DEF TypeOK, Calm, Alone, GiveUp, Leave
  <2>5. OwnListener' /\ StuckKept' /\ Kept'
    BY <2>1, Zenon DEF GiveUp, Calm, OwnListener, StuckKept, Kept
  <2> QED
    BY <2>2, <2>3, <2>4, <2>5, Zenon DEF Calm
<1> QED
  BY <1>1, <1>2, <1>3, <1>4, <1>5, <1>6, <1>7, <1>9, Zenon DEF CalmInv

-----------------------------------------------------------------------------
(* Ensure                                                                   *)
(*                                                                          *)
(* Only the call at the head of the line works on a generation (OnlyHead),  *)
(* so each step disturbs one generation.                                    *)

\* The invariant is kept when the call at the head of the line begins: Ensure
\* looks at the map, Stop takes the generation out of it.
LEMMA BeginStep ==
    ASSUME Inv, NEW c \in Call, Begin(c)
    PROVE  Inv'
<1> USE CallNotNone DEF Inv, Busy, Starting, Settling, Ending,
        memVars, socketVars, procVars, gateVars
<1>0. \A d \in Call : d # c => at[d] \notin Busy /\ target[d] = None
  BY OnlyHead, Zenon DEF Begin
<1>1. GateType' /\ GateInv'
  BY LeaveGate, GoToGate, Zenon DEF Begin
<1>2. TypeOK'
  BY <1>1, Zenon DEF TypeOK, GateType, Begin
<1>3. GenerationInv'
  BY Zenon DEF Begin, GenerationInv
<1>4. TargetInv'
  BY DEF TypeOK, TargetInv, Begin, Leave, GoTo
<1>5. HeldInv'
  BY <1>0, Zenon DEF HeldInv, Begin, AtGate
<1>6. StepInv'
  BY DEF TypeOK, StepInv, Begin, Leave, GoTo
<1>7. SocketInv'
  BY DEF TypeOK, SocketInv, SocketIsReachable, StopFindsListener, Begin,
     Leave, GoTo
<1>8. Strays \subseteq Strays'
  BY DEF TypeOK, Strays, Begin, Leave, GoTo
<1>9. ASSUME Strays' = {} PROVE Calm'
  <2>1. Calm
    BY <1>8, <1>9, Zenon DEF CalmInv
  <2>2. Unheld'
    BY <1>0, SMTT(20) DEF TypeOK, Unheld, Connected, Begin, Leave, GoTo
  <2>3. PathKept'
    BY <2>1, <1>0, Zenon DEF Calm, PathKept, Begin, AtGate
  <2>4. Alone'
    BY <2>1, <1>0, Zenon DEF Calm, Alone, Begin, AtGate
  <2>5. OwnListener' /\ StuckKept' /\ Kept'
    BY <2>1, Zenon DEF Begin, Calm, OwnListener, StuckKept, Kept
  <2> QED
    BY <2>2, <2>3, <2>4, <2>5, Zenon DEF Calm
<1> QED
  BY <1>1, <1>2, <1>3, <1>4, <1>5, <1>6, <1>7, <1>9, Zenon DEF CalmInv

\* The invariant is kept when Ensure decides what to do about the worker in
\* the map.
LEMMA SettleStep ==
    ASSUME Inv, NEW c \in Call, Settle(c)
    PROVE  Inv'
<1> USE CallNotNone DEF Inv, Busy, Starting, Settling, Ending,
        memVars, socketVars, procVars, gateVars
<1>0. \A d \in Call : d # c => at[d] \notin Busy /\ target[d] = None
  BY OnlyHead, Zenon DEF Settle
<1>1. GateType' /\ GateInv'
  BY LeaveGate, GoToGate, Zenon DEF Settle, AtGate, ToSettle, Settled, TypeOK
<1>2. TypeOK'
  BY <1>1, Zenon DEF TypeOK, GateType, Settle
<1>3. GenerationInv'
  BY Zenon DEF Settle, GenerationInv
<1>4. TargetInv'
  BY DEF TypeOK, TargetInv, HeldInv, Settle, ToSettle, Settled, Leave, GoTo
<1>5. HeldInv'
  BY <1>0, Zenon DEF HeldInv, Settle, AtGate
<1>6. StepInv'
  BY DEF TypeOK, StepInv, Settle, Settled, Leave, GoTo
<1>7. SocketInv'
  BY DEF TypeOK, SocketInv, SocketIsReachable, StopFindsListener, Settle,
     Settled, Leave, GoTo
<1>8. Strays \subseteq Strays'
  BY DEF TypeOK, HeldInv, Strays, Settle, Settled, Leave, GoTo
<1>9. ASSUME Strays' = {} PROVE Calm'
  <2>1. Calm
    BY <1>8, <1>9, Zenon DEF CalmInv
  <2>2. Unheld'
    BY <2>1, <1>0
       DEF TypeOK, Calm, Unheld, Settle, AtGate, ToSettle, Settled, Leave,
       GoTo
  <2>3. PathKept'
    BY <2>1, <1>0, Zenon DEF Calm, PathKept, Settle, AtGate
  <2>4. Alone'
    BY <2>1, <1>0, Zenon DEF Calm, Alone, Settle, AtGate
  <2>5. OwnListener' /\ StuckKept' /\ Kept'
    BY <2>1, Zenon DEF Settle, Calm, OwnListener, StuckKept, Kept
  <2> QED
    BY <2>2, <2>3, <2>4, <2>5, Zenon DEF Calm
<1> QED
  BY <1>1, <1>2, <1>3, <1>4, <1>5, <1>6, <1>7, <1>9, Zenon DEF CalmInv

\* The invariant is kept when the container of a lost worker is stopped and
\* its socket closed, or the stop fails and the worker is kept.
LEMMA ReapStep ==
    ASSUME Inv, NEW c \in Call, Reap(c)
    PROVE  Inv'
<1> USE CallNotNone DEF Inv, Busy, Starting, Settling, Ending,
        memVars, socketVars, procVars, gateVars
<1>0. \A d \in Call : d # c => at[d] \notin Busy /\ target[d] = None
  BY OnlyHead, Zenon DEF Reap
<1>1. GateType' /\ GateInv'
  BY LeaveGate, GoToGate, Zenon DEF Reap, TypeOK
<1>2. TypeOK'
  <2>1. /\ listener' \in [Generation -> {"none", "open", "closed"}]
        /\ path' \in {None} \cup Generation
        /\ link' \in [Generation -> {None} \cup Generation]
        /\ reg' \in [Generation -> {"none", "hello", "accepted", "served",
                                   "unacked", "over"}]
        /\ via' \in [Generation -> {None} \cup Generation]
    BY DEF TypeOK, Reap, Close
  <2>2. /\ proc' \in [Generation -> {"none", "up", "gone"}]
        /\ stuck' \subseteq Generation
        /\ row' \in [Generation -> {"none", "requested", "starting", "ready",
                                   "stopping", "stopped", "failed"}]
    BY DEF TypeOK, TargetInv, Reap, AtGate, Stopped, StopFails
  <2>3. faults' \in Nat
    BY DEF TypeOK, Reap, StopFails, Succeeds, Fails
  <2> QED
    BY <1>1, <2>1, <2>2, <2>3, Zenon DEF TypeOK, GateType, Reap
<1>3. TargetInv'
  BY DEF TypeOK, TargetInv, Reap, AtGate, Leave, GoTo
<1>4. HeldInv'
  BY <1>0, Zenon DEF HeldInv, Reap, AtGate
<1>5. GenerationInv'
  BY DEF TypeOK, GenerationInv, Reap, Stopped, StopFails, Close, Connected
<1>6. StepInv'
  BY <1>0
     DEF TypeOK, TargetInv, StepInv, Reap, AtGate, Leave, GoTo, Stopped, Close
<1>7. SocketInv'
  BY DEF TypeOK, TargetInv, SocketInv, SocketIsReachable, StopFindsListener,
     Reap, Leave, GoTo, Close
<1>8. Strays \subseteq Strays'
  BY DEF TypeOK, Strays, Reap, Leave, GoTo, Stopped, StopFails
<1>9. ASSUME Strays' = {} PROVE Calm'
  <2>1. Calm
    BY <1>8, <1>9, Zenon DEF CalmInv
  <2>2. OwnListener'
    BY <2>1 DEF TypeOK, Calm, OwnListener, Reap, Close
  <2>3. StuckKept'
    BY <2>1 DEF TargetInv, Calm, StuckKept, Reap, AtGate, Stopped, StopFails
  <2>4. Unheld'
    BY <1>0 DEF TypeOK, Unheld, Reap, AtGate, Leave, GoTo, Close
  <2>5. PathKept'
    BY <2>1, <1>0, Zenon DEF Calm, PathKept, Reap, AtGate, Close
  <2>6. Alone'
    BY <2>1, <1>0 DEF TypeOK, Calm, Alone, Reap, Stopped, StopFails
  <2>7. Kept'
    BY <2>1, <1>0
       DEF TypeOK, Calm, Alone, Kept, Reap, AtGate, Stopped, StopFails
  <2> QED
    BY <2>2, <2>3, <2>4, <2>5, <2>6, <2>7, Zenon DEF Calm
<1> QED
  BY <1>1, <1>2, <1>3, <1>4, <1>5, <1>6, <1>7, <1>9, Zenon DEF CalmInv

\* The invariant is kept when the turns of a worker that is gone are
\* released.
LEMMA ReleaseStep ==
    ASSUME Inv, NEW c \in Call, Release(c)
    PROVE  Inv'
<1> USE CallNotNone DEF Inv, Busy, Starting, Settling, Ending,
        memVars, socketVars, procVars, gateVars
<1>0. \A d \in Call : d # c => at[d] \notin Busy /\ target[d] = None
  BY OnlyHead, Zenon DEF Release
<1>1. GateType' /\ GateInv'
  BY LeaveGate, GoToGate, Zenon DEF Release, AtGate, Unreleased, TypeOK
<1>2. TypeOK'
  BY <1>1 DEF TypeOK, GateType, Release, Fails, Succeeds
<1>3. TargetInv'
  BY DEF TypeOK, TargetInv, Release, AtGate, Leave, GoTo, Unreleased
<1>4. HeldInv'
  BY <1>0, Zenon DEF HeldInv, Release, AtGate
<1>5. GenerationInv'
  BY Zenon DEF GenerationInv, Release
<1>6. StepInv'
  BY DEF TypeOK, StepInv, Release, AtGate, Leave, GoTo, Unreleased
<1>7. SocketInv'
  BY DEF TypeOK, SocketInv, SocketIsReachable, StopFindsListener, Release,
     Leave, GoTo, Unreleased
<1>8. Strays \subseteq Strays'
  BY DEF TypeOK, Strays, Release, Leave, GoTo, Unreleased
<1>9. ASSUME Strays' = {} PROVE Calm'
  <2>1. Calm
    BY <1>8, <1>9, Zenon DEF CalmInv
  <2>2. Unheld'
    BY <1>0
       DEF TypeOK, Unheld, Connected, Release, AtGate, Leave, GoTo, Unreleased
  <2>3. PathKept'
    BY <2>1, <1>0, Zenon DEF Calm, PathKept, Release, AtGate
  <2>4. Alone'
    BY <2>1, <1>0, Zenon DEF Calm, Alone, Release, AtGate
  <2>5. Kept'
    BY <2>1, Zenon DEF Calm, Kept, Release
  <2>6. OwnListener' /\ StuckKept'
    BY <2>1, Zenon DEF Release, Calm, OwnListener, StuckKept
  <2> QED
    BY <2>2, <2>3, <2>4, <2>5, <2>6, Zenon DEF Calm
<1> QED
  BY <1>1, <1>2, <1>3, <1>4, <1>5, <1>6, <1>7, <1>9, Zenon DEF CalmInv

\* The invariant is kept when the row of the settled worker becomes terminal
\* and it leaves the map.
LEMMA MarkStep ==
    ASSUME Inv, NEW c \in Call, Mark(c)
    PROVE  Inv'
<1> USE CallNotNone DEF Inv, Busy, Starting, Settling, Ending,
        memVars, socketVars, procVars, gateVars
<1>0. \A d \in Call : d # c => at[d] \notin Busy /\ target[d] = None
  BY OnlyHead, Zenon DEF Mark
<1>1. GateType' /\ GateInv'
  BY LeaveGate, GoToGate, Zenon DEF Mark, Settled
<1>2. TypeOK'
  <2>1. /\ listener' \in [Generation -> {"none", "open", "closed"}]
        /\ path' \in {None} \cup Generation
        /\ link' \in [Generation -> {None} \cup Generation]
        /\ reg' \in [Generation -> {"none", "hello", "accepted", "served",
                                   "unacked", "over"}]
        /\ via' \in [Generation -> {None} \cup Generation]
    BY Zenon DEF TypeOK, Mark
  <2>2. /\ proc' \in [Generation -> {"none", "up", "gone"}]
        /\ stuck' \subseteq Generation
        /\ row' \in [Generation -> {"none", "requested", "starting", "ready",
                                   "stopping", "stopped", "failed"}]
    BY DEF TypeOK, TargetInv, Mark
  <2>3. faults' \in Nat
    BY DEF TypeOK, Mark, Succeeds, Fails
  <2> QED
    BY <1>1, <2>2, <2>3, Zenon DEF TypeOK, GateType, Mark
<1>3. TargetInv'
  BY <1>0 DEF TypeOK, TargetInv, Mark, Leave, GoTo, Settled
<1>4. HeldInv'
  BY <1>0, Zenon DEF TargetInv, HeldInv, Mark, AtGate
<1>5. GenerationInv'
  BY DEF TypeOK, GenerationInv, Mark
<1>6. StepInv'
  BY DEF TypeOK, StepInv, Mark, Leave, GoTo, Settled
<1>7. SocketInv'
  BY DEF TypeOK, TargetInv, SocketInv, SocketIsReachable, StopFindsListener,
     Mark, Leave, GoTo, Settled
<1>8. Strays \subseteq Strays'
  BY DEF TypeOK, Strays, Mark, Leave, GoTo, Settled
<1>9. ASSUME Strays' = {} PROVE Calm'
  <2>1. Calm
    BY <1>8, <1>9, Zenon DEF CalmInv
  <2>4. Unheld'
    BY <1>0 DEF TypeOK, TargetInv, Unheld, Connected, Mark, AtGate, Leave
  <2>a. /\ path' = path /\ (held' = held \/ (held' = None /\ held = target[c]))
        /\ at[c] = "mark" /\ listener[target[c]] # "open"
        /\ proc' = proc /\ stuck' = stuck /\ proc[target[c]] # "up"
    BY Zenon DEF StepInv, Mark, AtGate
  <2>b. path = held => path' = None \/ path' = held'
    BY <2>a, Zenon DEF SocketInv
  <2>c. \A d \in Call : at[d] \notin {"kill", "close"}
    BY <2>a, <1>0, Zenon
  <2> HIDE DEF Busy, Starting, Settling, Ending
  <2>2. OwnListener'
    BY <2>1 DEF TypeOK, TargetInv, Calm, OwnListener, Mark, AtGate
  <2>3. StuckKept'
    BY <2>1, Zenon DEF StepInv, Calm, StuckKept, Mark, AtGate
  <2>5. PathKept'
    BY <2>1, <2>a, <2>b, <2>c, Zenon DEF Calm, PathKept
  <2>6. Alone'
    BY <2>1, <2>a, <2>c, Zenon DEF Calm, Alone
  <2>7. Kept'
    BY <2>1 DEF StepInv, Calm, Kept, Mark, AtGate
  <2> QED
    BY <2>2, <2>3, <2>4, <2>5, <2>6, <2>7, Zenon DEF Calm
<1> QED
  BY <1>1, <1>2, <1>3, <1>4, <1>5, <1>6, <1>7, <1>9, Zenon DEF CalmInv

\* The invariant is kept when a fresh generation is recorded and enters the
\* map.
LEMMA RecordGenerationStep ==
    ASSUME Inv, NEW c \in Call, RecordGeneration(c)
    PROVE  Inv'
<1> USE CallNotNone DEF Inv, Busy, Starting, Settling, Ending,
        memVars, socketVars, procVars, gateVars
<1>0. \A d \in Call : d # c => at[d] \notin Busy /\ target[d] = None
  BY OnlyHead, Zenon DEF RecordGeneration
<1>1. GateType' /\ GateInv'
  BY Fresh, LeaveGate, GoToGate, Zenon DEF RecordGeneration
<1>2. TypeOK'
  BY <1>1
     DEF TypeOK, GateType, TargetInv, RecordGeneration, Leave, GoTo, Fails,
     Succeeds
<1>3. TargetInv'
  BY Fresh, <1>0
     DEF TypeOK, TargetInv, Terminal, RecordGeneration, Leave, GoTo
<1>4. HeldInv'
  BY Fresh, <1>0
     DEF TypeOK, HeldInv, GenerationInv, Terminal, RecordGeneration, AtGate,
     GoTo
<1>5. GenerationInv'
  BY DEF TypeOK, GenerationInv, RecordGeneration
<1>6. StepInv'
  BY DEF TypeOK, StepInv, RecordGeneration, Leave, GoTo
<1>7. SocketInv'
  BY Fresh
     DEF TypeOK, TargetInv, GenerationInv, SocketInv, SocketIsReachable,
     StopFindsListener, RecordGeneration, Leave, GoTo
<1>8. Strays \subseteq Strays'
  BY Fresh DEF TypeOK, GenerationInv, Strays, RecordGeneration, Leave, GoTo
<1>9. ASSUME Strays' = {} PROVE Calm'
  <2>1. Calm
    BY <1>8, <1>9, Zenon DEF CalmInv
  <2>2. OwnListener'
    BY Fresh, <2>1
       DEF TypeOK, Calm, OwnListener, GenerationInv, RecordGeneration
  <2>3. StuckKept'
    BY <2>1 DEF TypeOK, Calm, StuckKept, Unheld, RecordGeneration, AtGate
  <2>4. Unheld'
    BY Fresh, <2>1, <1>0, SMTT(20)
       DEF TypeOK, TargetInv, HeldInv, Calm, Unheld, Connected,
       RecordGeneration, AtGate, Leave, GoTo
  <2>5. PathKept'
    BY <2>1, <1>0, Zenon DEF Calm, Unheld, PathKept, RecordGeneration, AtGate
  <2>6. Alone'
    BY <2>1, <1>0, Zenon DEF Calm, Unheld, Alone, RecordGeneration, AtGate
  <2>7. Kept'
    BY <2>1 DEF TypeOK, Calm, Unheld, Kept, RecordGeneration, AtGate
  <2> QED
    BY <2>2, <2>3, <2>4, <2>5, <2>6, <2>7, Zenon DEF Calm
<1> QED
  BY <1>1, <1>2, <1>3, <1>4, <1>5, <1>6, <1>7, <1>9, Zenon DEF CalmInv

\* The invariant is kept when its listener takes the path of the socket.
LEMMA OpenSocketStep ==
    ASSUME Inv, NEW c \in Call, OpenSocket(c)
    PROVE  Inv'
<1> USE CallNotNone DEF Inv, Busy, Starting, Settling, Ending,
        memVars, socketVars, procVars, gateVars
<1>0. \A d \in Call : d # c => at[d] \notin Busy /\ target[d] = None
  BY OnlyHead, Zenon DEF OpenSocket
<1>1. GateType' /\ GateInv'
  BY GoToGate, Zenon DEF OpenSocket, TypeOK
<1>2. TypeOK'
  <2>1. /\ listener' \in [Generation -> {"none", "open", "closed"}]
        /\ path' \in {None} \cup Generation
        /\ link' \in [Generation -> {None} \cup Generation]
        /\ reg' \in [Generation -> {"none", "hello", "accepted", "served",
                                   "unacked", "over"}]
        /\ via' \in [Generation -> {None} \cup Generation]
    BY DEF TypeOK, OpenSocket
  <2>2. /\ proc' \in [Generation -> {"none", "up", "gone"}]
        /\ stuck' \subseteq Generation
        /\ row' \in [Generation -> {"none", "requested", "starting", "ready",
                                   "stopping", "stopped", "failed"}]
    BY DEF TypeOK, OpenSocket
  <2>3. faults' \in Nat
    BY DEF TypeOK, OpenSocket, Succeeds, Fails
  <2> QED
    BY <1>1, <2>1, <2>2, <2>3, Zenon DEF TypeOK, GateType, OpenSocket
<1>3. TargetInv'
  BY DEF TypeOK, TargetInv, Terminal, OpenSocket, AtGate, GoTo
<1>4. HeldInv'
  BY DEF TypeOK, HeldInv, Terminal, OpenSocket, GoTo
<1>5. GenerationInv'
  BY DEF TypeOK, TargetInv, GenerationInv, OpenSocket
<1>6. StepInv'
  BY <1>0 DEF TypeOK, TargetInv, StepInv, OpenSocket, AtGate, GoTo
<1>7. SocketInv'
  BY DEF TypeOK, TargetInv, SocketInv, SocketIsReachable, StopFindsListener,
     OpenSocket, AtGate, GoTo
<1>8. Strays \subseteq Strays'
  BY DEF TypeOK, Strays, OpenSocket, GoTo
<1>9. ASSUME Strays' = {} PROVE Calm'
  <2>1. Calm
    BY <1>8, <1>9, Zenon DEF CalmInv
  <2>2. OwnListener'
    BY <2>1 DEF TypeOK, TargetInv, Calm, OwnListener, OpenSocket
  <2>3. Unheld'
    BY <1>0 DEF TypeOK, Unheld, OpenSocket, GoTo
  <2>4. PathKept'
    BY <2>1, Zenon DEF TargetInv, Calm, PathKept, OpenSocket, AtGate
  <2>5. Alone'
    BY <2>1, <1>0, Zenon DEF Calm, Alone, OpenSocket, AtGate
  <2>6. StuckKept' /\ Kept'
    BY <2>1, Zenon DEF OpenSocket, Calm, StuckKept, Kept
  <2> QED
    BY <2>2, <2>3, <2>4, <2>5, <2>6, Zenon DEF Calm
<1> QED
  BY <1>1, <1>2, <1>3, <1>4, <1>5, <1>6, <1>7, <1>9, Zenon DEF CalmInv

\* The invariant is kept when its container is launched.
LEMMA LaunchStep ==
    ASSUME Inv, NEW c \in Call, Launch(c)
    PROVE  Inv'
<1> USE CallNotNone DEF Inv, Busy, Starting, Settling, Ending,
        memVars, socketVars, procVars, gateVars
<1>0. \A d \in Call : d # c => at[d] \notin Busy /\ target[d] = None
  BY OnlyHead, Zenon DEF Launch
<1>1. GateType' /\ GateInv'
  BY GoToGate, Zenon DEF Launch, TypeOK
<1>2. TypeOK'
  BY <1>1 DEF TypeOK, GateType, Launch, Fails, Succeeds
<1>3. TargetInv'
  BY DEF TypeOK, TargetInv, Launch, AtGate, GoTo
<1>4. HeldInv'
  BY DEF TypeOK, HeldInv, Launch, GoTo
<1>5. GenerationInv'
  BY DEF TypeOK, GenerationInv, StepInv, Launch, AtGate
<1>6. StepInv'
  BY <1>0 DEF TypeOK, StepInv, Launch, AtGate, GoTo
<1>7. SocketInv'
  BY DEF TypeOK, SocketInv, SocketIsReachable, StopFindsListener, Launch, GoTo
<1>8. Strays \subseteq Strays'
  BY DEF TypeOK, Strays, Launch, GoTo
<1>9. ASSUME Strays' = {} PROVE Calm'
  <2>1. Calm
    BY <1>8, <1>9, Zenon DEF CalmInv
  <2>2. Unheld'
    BY <1>0 DEF TypeOK, Unheld, Launch, AtGate, GoTo
  <2>3. PathKept'
    BY <2>1, <1>0, Zenon DEF Calm, PathKept, Launch, AtGate
  <2>a. /\ held' = held /\ stuck' = stuck /\ target[c] = held
        /\ \A g \in Generation : proc'[g] = "up" => proc[g] = "up" \/ g = held
    BY DEF TypeOK, TargetInv, Launch, AtGate
  <2>b. \A d \in Call : at[d] # "kill"
    BY <1>0, Zenon DEF Launch, AtGate
  <2>4. Alone'
    BY <2>1, <2>a, <2>b, Zenon DEF Calm, Alone
  <2>5. Kept'
    BY <2>1 DEF TypeOK, Calm, Kept, Launch
  <2>6. OwnListener' /\ StuckKept'
    BY <2>1, Zenon DEF Launch, Calm, OwnListener, StuckKept
  <2> QED
    BY <2>2, <2>3, <2>4, <2>5, <2>6, Zenon DEF Calm
<1> QED
  BY <1>1, <1>2, <1>3, <1>4, <1>5, <1>6, <1>7, <1>9, Zenon DEF CalmInv
=============================================================================
