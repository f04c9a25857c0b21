------------------------ MODULE AdmissionGate_proofs ------------------------
(***************************************************************************)
(* For any number of sessions and messages: the gate admits in the order   *)
(* of reception, closes no channel twice, leaves no front ticket waiting,  *)
(* and Stop reaches every preparation.                                     *)
(***************************************************************************)
EXTENDS AdmissionGate, FiniteSetTheorems, TLAPS

\* A line holds tickets of its session that nobody has released, in the order
\* in which they were reserved.
LineInv ==
    \A s \in Sessions :
        /\ Increasing(line[s])
        /\ \A i \in 1..Len(line[s]) :
              /\ session[line[s][i]] = s
              /\ phase[line[s][i]] \notin {"new", "released"}

\* Only reserved tickets have a history.
FreshInv ==
    \A t \in Tickets :
        /\ t > count <=> phase[t] = "new"
        /\ phase[t] = "new" => closes[t] = 0 /\ t \notin stopped

\* Channels are closed once, and only that of a ticket which is or was first.
CloseInv ==
    /\ ClosedAtMostOnce
    /\ \A s \in Sessions : \A i \in 2..Len(line[s]) : closes[line[s][i]] = 0

\* A ticket that is out of its line was released, or stopped before it began
\* to prepare.
PlaceInv ==
    \A t \in Tickets :
        phase[t] \notin {"new", "released"} =>
            \/ \E i \in 1..Len(line[session[t]]) : line[session[t]][i] = t
            \/ t \in stopped /\ t \notin preparing

\* Where the caller of a ticket is, and what BindContext did for it.
CallerInv ==
    \A t \in Tickets :
        /\ t \in preparing => phase[t] \in {"bound", "inside", "refused"}
        /\ phase[t] = "inside" => t \in preparing /\ t \in Admitted
        /\ phase[t] \in {"bound", "inside"} =>
              \/ t \in stopped /\ t \in cancelled \cup firing
              \/ t \notin stopped /\ t \in preparing /\ t \in cancellable

Inv == /\ TypeOK /\ LineInv /\ FreshInv /\ CloseInv /\ PlaceInv /\ CallerInv
       /\ FrontCanReturn

-----------------------------------------------------------------------------
(* What Kept keeps of a sequence                                            *)

\* A set of naturals has a smallest element.  Induction below is a proof that
\* there is no smallest counterexample.
LEMMA Smallest == ASSUME NEW T \in SUBSET Nat, T # {}
  PROVE \E x \in T : \A y \in T : x <= y
<1> DEFINE R == {ss \in Nat \X Nat : ss[1] < ss[2]}
<1>1. IsWellFoundedOn(R, Nat)
  BY NatLessThanWellFounded, Zenon DEF OpToRel
<1> HIDE DEF R
<1>2. PICK x \in T : \A y \in T : ~ (<<y, x>> \in R)
  BY <1>1, WFMin, Zenon
<1>3. \A y \in T : ~ (y < x)
  BY <1>2, Zenon DEF R
<1> QED BY <1>3

\* A set of positions is finite.
LEMMA FiniteInterval ==
  ASSUME NEW n \in Nat, NEW S \in SUBSET (1..n)
  PROVE  IsFiniteSet(S) /\ Cardinality(S) \in Nat
<1>1. IsFiniteSet(1..n)
  BY FS_Interval
<1>2. IsFiniteSet(S)
  BY <1>1, FS_Subset, Zenon
<1> QED BY <1>2, FS_CardinalityType, Zenon

\* A set of positions can be listed in order: by induction on its bound,
\* without its greatest element if that is the bound.
LEMMA OrderExists ==
  ASSUME NEW n \in Nat, NEW S \in SUBSET (1..n)
  PROVE  \E f \in [1..Cardinality(S) -> S] : Increasing(f)
<1> DEFINE Enum(m) ==
      \A U \in SUBSET (1..m) : \E f \in [1..Cardinality(U) -> U] : Increasing(f)
           Missing == {m \in Nat : ~ Enum(m)}
<1>1. SUFFICES ASSUME Missing # {} PROVE FALSE
  <2>1. Missing = {} => Enum(n)
    BY Zenon DEF Missing
  <2> QED BY <1>1, <2>1, Zenon
<1>2. PICK m \in Missing : \A k \in Missing : m <= k
  <2> HIDE DEF Enum
  <2> QED BY <1>1, Smallest, Zenon
<1>3. PICK U \in SUBSET (1..m) :
        ~ \E f \in [1..Cardinality(U) -> U] : Increasing(f)
  BY <1>2, Zenon
<1>4. m \in Nat
  BY <1>2, Zenon
<1>5. IsFiniteSet(U) /\ Cardinality(U) \in Nat
  BY <1>4, FiniteInterval, Zenon
<1>6. m # 0
  <2>1. SUFFICES ASSUME m = 0 PROVE FALSE
    BY Zenon
  <2>2. U = {}
    BY <2>1
  <2>3. Cardinality(U) = 0
    BY <2>2, FS_EmptySet, Zenon
  <2>4. [i \in {} |-> i] \in [1..Cardinality(U) -> U]
    BY <2>3
  <2>5. Increasing([i \in {} |-> i])
    BY Zenon DEF Increasing
  <2> QED BY <1>3, <2>4, <2>5, Zenon
<1>7. Enum(m - 1)
  <2>1. m - 1 \in Nat /\ m - 1 \notin Missing
    <3> HIDE DEF Enum
    <3> QED BY <1>2, <1>4, <1>6
  <2> QED BY <2>1, Zenon
<1> HIDE DEF Missing
<1>8. PICK g \in [1..Cardinality(U \ {m}) -> U \ {m}] : Increasing(g)
  <2>1. U \ {m} \in SUBSET (1..(m - 1))
    BY <1>4
  <2> QED BY <1>7, <2>1, Zenon
<1> HIDE DEF Enum
<1>9. m \in U
  <2>1. SUFFICES ASSUME m \notin U PROVE FALSE
    BY Zenon
  <2>2. U \ {m} = U
    BY <2>1, Zenon
  <2> QED BY <1>3, <1>8, <2>2, Zenon
<1>10. PICK c \in Nat : c = Cardinality(U)
  BY <1>5, Zenon
<1>11. Cardinality(U \ {m}) = c - 1 /\ c # 0
  <2>1. Cardinality(U \ {m}) = c - 1
    BY <1>5, <1>9, <1>10, FS_RemoveElement, Zenon
  <2> QED BY <1>5, <1>9, <1>10, <2>1, FS_EmptySet, Zenon
<1>12. /\ g \in [1..(c - 1) -> U \ {m}]
       /\ \A i, j \in 1..(c - 1) : i < j => g[i] < g[j]
  BY <1>8, <1>11, Zenon DEF Increasing
<1>13. \A i \in 1..(c - 1) : g[i] \in U /\ g[i] < m
  <2>1. SUFFICES ASSUME NEW i \in 1..(c - 1) PROVE g[i] \in U /\ g[i] < m
    BY Zenon
  <2>2. g[i] \in U \ {m}
    BY <1>12, Zenon
  <2>3. g[i] \in 1..m /\ g[i] # m
    BY <2>2, Zenon
  <2> QED BY <1>4, <2>2, <2>3
<1> DEFINE f == [i \in 1..c |-> IF i = c THEN m ELSE g[i]]
<1>14. f \in [1..c -> U]
  <2>1. \A i \in 1..c : (IF i = c THEN m ELSE g[i]) \in U
    <3>1. SUFFICES ASSUME NEW i \in 1..c
                   PROVE  (IF i = c THEN m ELSE g[i]) \in U
      BY Zenon
    <3>2. i # c => i \in 1..(c - 1)
      OBVIOUS
    <3> QED BY <1>9, <1>13, <3>2, Zenon
  <2> QED BY <2>1, Zenon
<1>15. Increasing(f)
  <2>1. SUFFICES ASSUME NEW i \in 1..c, NEW j \in 1..c, i < j
                 PROVE  f[i] < f[j]
    BY Zenon DEF Increasing
  <2>2. i \in 1..(c - 1) /\ f[i] = g[i]
    BY <2>1
  <2>3. CASE j = c
    BY <2>2, <2>3, <1>13, Zenon
  <2>4. CASE j # c
    <3>1. j \in 1..(c - 1) /\ f[j] = g[j]
      BY <2>4
    <3> QED BY <2>1, <2>2, <3>1, <1>12, Zenon
  <2> QED BY <2>3, <2>4, Zenon
<1> QED
  <2> HIDE DEF f
  <2> QED BY <1>3, <1>10, <1>14, <1>15, Zenon

\* InOrder lists every element of the set: an increasing function is an
\* injection into a set of as many elements.
LEMMA OrderIsOnto ==
  ASSUME NEW n \in Nat, NEW S \in SUBSET (1..n)
  PROVE  /\ Cardinality(S) \in Nat
         /\ InOrder(S) \in [1..Cardinality(S) -> S]
         /\ Increasing(InOrder(S))
         /\ \A x \in S : \E k \in 1..Cardinality(S) : InOrder(S)[k] = x
<1> DEFINE f == InOrder(S)
           c == Cardinality(S)
<1>1. IsFiniteSet(S) /\ c \in Nat
  BY FiniteInterval, Zenon
<1>2. f \in [1..c -> S] /\ Increasing(f)
  BY OrderExists, Zenon DEF InOrder
<1>3. IsFiniteSet(1..c) /\ Cardinality(1..c) = c
  BY <1>1, FS_Interval
<1> HIDE DEF f, c
<1>4. f \in Injection(1..c, S)
  <2>1. \A i, j \in 1..c : i # j => f[i] # f[j]
    <3>1. SUFFICES ASSUME NEW i \in 1..c, NEW j \in 1..c, i # j
                   PROVE  f[i] # f[j]
      BY Zenon
    <3>2. i < j \/ j < i
      BY <1>1, <3>1
    <3>3. f[i] \in S /\ f[j] \in S
      BY <1>2, Zenon
    <3>4. f[i] < f[j] \/ f[j] < f[i]
      BY <1>2, <3>2, Zenon DEF Increasing
    <3>5. \A x \in S : x \in Int
      OBVIOUS
    <3>6. \A x, y \in Int : x < y => x # y
      OBVIOUS
    <3> QED BY <3>3, <3>4, <3>5, <3>6, Zenon
  <2> QED BY <1>2, <2>1, Zenon DEF Injection, IsInjective
<1>5. f \in Surjection(1..c, S)
  <2>1. c = Cardinality(S)
    BY Zenon DEF c
  <2> QED BY <1>1, <1>3, <1>4, <2>1, FS_Injection, Zenon
<1>6. \A x \in S : \E k \in 1..c : f[k] = x
  BY <1>5, Zenon DEF Surjection
<1> QED BY <1>1, <1>2, <1>6, Zenon DEF f, c

\* Kept(q, P) is q at the positions that hold elements of P, all of them and
\* in order.
LEMMA KeptLemma ==
  ASSUME NEW S, NEW q \in Seq(S), NEW P
  PROVE  /\ Kept(q, P) \in Seq(S)
         /\ \E at \in [1..Len(Kept(q, P)) -> 1..Len(q)] :
               /\ Increasing(at)
               /\ \A k \in 1..Len(Kept(q, P)) :
                     Kept(q, P)[k] = q[at[k]] /\ q[at[k]] \in P
               /\ \A i \in 1..Len(q) :
                     q[i] \in P => \E k \in 1..Len(Kept(q, P)) : at[k] = i
<1> DEFINE I == {i \in 1..Len(q) : q[i] \in P}
           at == InOrder(I)
           c == Cardinality(I)
<1>1. /\ c \in Nat
      /\ at \in [1..c -> I]
      /\ Increasing(at)
      /\ \A x \in I : \E k \in 1..c : at[k] = x
  <2>1. Len(q) \in Nat /\ I \in SUBSET (1..Len(q))
    OBVIOUS
  <2> QED BY <2>1, OrderIsOnto, Zenon
<1>2. Kept(q, P) = [k \in 1..c |-> q[at[k]]]
  BY <1>1, Zenon DEF Kept
<1> HIDE DEF at, c
<1>3. Kept(q, P) \in Seq(S) /\ Len(Kept(q, P)) = c
  <2>1. \A k \in 1..c : q[at[k]] \in S
    BY <1>1
  <2> QED BY <1>1, <1>2, <2>1
<1>4. at \in [1..c -> 1..Len(q)]
  BY <1>1, Zenon
<1> QED BY <1>1, <1>2, <1>3, <1>4, Zenon

\* For a line of tickets: what Kept keeps stays in order, is all that P allows
\* and begins with the first ticket if that one may stay.
LEMMA KeptLine ==
  ASSUME NEW q \in Seq(Tickets), Increasing(q), NEW P
  PROVE  /\ Kept(q, P) \in Seq(Tickets)
         /\ Increasing(Kept(q, P))
         /\ \A k \in 1..Len(Kept(q, P)) :
               /\ Kept(q, P)[k] \in P
               /\ \E i \in 1..Len(q) : q[i] = Kept(q, P)[k] /\ (k > 1 => i > 1)
         /\ \A i \in 1..Len(q) :
               q[i] \in P => \E k \in 1..Len(Kept(q, P)) : Kept(q, P)[k] = q[i]
         /\ (q # <<>> /\ q[1] \in P) =>
               Kept(q, P) # <<>> /\ Kept(q, P)[1] = q[1]
<1>1. PICK r : r = Kept(q, P)
  BY Zenon
<1>2. r \in Seq(Tickets) /\ Len(r) \in Nat /\ Len(q) \in Nat
  BY <1>1, KeptLemma
<1>3. PICK at \in [1..Len(r) -> 1..Len(q)] :
        /\ Increasing(at)
        /\ \A k \in 1..Len(r) : r[k] = q[at[k]] /\ q[at[k]] \in P
        /\ \A i \in 1..Len(q) : q[i] \in P => \E k \in 1..Len(r) : at[k] = i
  BY <1>1, KeptLemma
<1>4. /\ \A k, l \in 1..Len(r) : k < l => at[k] < at[l]
      /\ \A k \in 1..Len(r) : at[k] \in 1..Len(q)
  BY <1>3, Zenon DEF Increasing
<1>5. Increasing(r)
  <2>1. SUFFICES ASSUME NEW k \in 1..Len(r), NEW l \in 1..Len(r), k < l
                 PROVE  r[k] < r[l]
    BY <1>2 DEF Increasing
  <2>2. /\ at[k] \in 1..Len(q) /\ at[l] \in 1..Len(q) /\ at[k] < at[l]
        /\ r[k] = q[at[k]] /\ r[l] = q[at[l]]
    BY <1>3, <1>4, <2>1, Zenon
  <2>3. \A i, j \in 1..Len(q) : i < j => q[i] < q[j]
    BY DEF Increasing
  <2> QED BY <2>2, <2>3, Zenon
<1>6. \A k \in 1..Len(r) :
        r[k] \in P /\ \E i \in 1..Len(q) : q[i] = r[k] /\ (k > 1 => i > 1)
  <2>1. SUFFICES ASSUME NEW k \in 1..Len(r)
                 PROVE  r[k] \in P /\ q[at[k]] = r[k] /\ (k > 1 => at[k] > 1)
    BY <1>4, Zenon
  <2>2. r[k] \in P /\ q[at[k]] = r[k]
    BY <1>3, Zenon
  <2>3. k > 1 => at[k] > 1
    <3>1. SUFFICES ASSUME k > 1 PROVE at[k] > 1
      BY Zenon
    <3>2. 1 \in 1..Len(r) /\ at[1] < at[k]
      BY <1>2, <1>4, <3>1
    <3>3. at[1] \in 1..Len(q) /\ at[k] \in 1..Len(q)
      BY <1>4, <3>2, Zenon
    <3> QED BY <1>2, <3>2, <3>3
  <2> QED BY <2>2, <2>3, Zenon
<1>7. \A i \in 1..Len(q) : q[i] \in P => \E k \in 1..Len(r) : r[k] = q[i]
  BY <1>3
<1>8. ASSUME q # <<>>, q[1] \in P PROVE r # <<>> /\ r[1] = q[1]
  <2>1. 1 \in 1..Len(q)
    BY <1>2, <1>8
  <2>2. PICK k \in 1..Len(r) : at[k] = 1
    BY <1>3, <1>8, <2>1, Zenon
  <2>3. k = 1
    <3>1. ~ (k > 1)
      <4>1. SUFFICES ASSUME k > 1 PROVE FALSE
        BY Zenon
      <4>2. 1 \in 1..Len(r) /\ at[1] < at[k] /\ at[1] \in 1..Len(q)
        BY <1>2, <1>4, <4>1
      <4> QED BY <1>2, <2>2, <4>2
    <3> QED BY <3>1
  <2> QED BY <1>2, <1>3, <2>2, <2>3
<1> QED BY <1>1, <1>2, <1>5, <1>6, <1>7, <1>8, Zenon

\* The head of a line is its first ticket.
LEMMA HeadIsFirst ==
  ASSUME NEW S, NEW q \in Seq(S), q # <<>>
  PROVE  1 \in 1..Len(q) /\ Head(q) = q[1] /\ Head(q) \in S
OBVIOUS

\* What the lines are after Kept(line[s], P) has replaced the line of s: what
\* they hold was in them, what may stay stays, and so does a first ticket.
Comes(s, P) ==
    \A x \in Sessions : \A k \in 1..Len(line'[x]) :
        \E i \in 1..Len(line[x]) :
            /\ line[x][i] = line'[x][k]
            /\ k > 1 => i > 1
            /\ x = s => line'[x][k] \in P
Stays(s, P) ==
    \A x \in Sessions : \A i \in 1..Len(line[x]) :
        (x # s \/ line[x][i] \in P) =>
            \E k \in 1..Len(line'[x]) : line'[x][k] = line[x][i]
First(s, P) ==
    \A x \in Sessions :
        (line[x] # <<>> /\ (x # s \/ line[x][1] \in P)) =>
            line'[x] # <<>> /\ line'[x][1] = line[x][1]
Ordered ==
    /\ line' \in [Sessions -> Seq(Tickets)]
    /\ \A x \in Sessions : Increasing(line'[x])

\* Both leave and CancelPending shorten one line in this way.
LEMMA Shortened ==
  ASSUME TypeOK, LineInv, NEW s \in Sessions, NEW P,
         line' = [line EXCEPT ![s] = Kept(line[s], P)]
  PROVE  Ordered /\ Comes(s, P) /\ Stays(s, P) /\ First(s, P)
<1>1. line \in [Sessions -> Seq(Tickets)] /\ Increasing(line[s])
  BY Zenon DEF TypeOK, LineInv
<1>2. /\ line'[s] = Kept(line[s], P)
      /\ \A x \in Sessions : x # s => line'[x] = line[x]
  BY <1>1, Zenon
<1>3. line[s] \in Seq(Tickets)
  BY <1>1, Zenon
<1>4. /\ line'[s] \in Seq(Tickets)
      /\ Increasing(line'[s])
      /\ \A k \in 1..Len(line'[s]) :
            /\ line'[s][k] \in P
            /\ \E i \in 1..Len(line[s]) :
                  line[s][i] = line'[s][k] /\ (k > 1 => i > 1)
      /\ \A i \in 1..Len(line[s]) :
            line[s][i] \in P =>
                \E k \in 1..Len(line'[s]) : line'[s][k] = line[s][i]
      /\ (line[s] # <<>> /\ line[s][1] \in P) =>
            line'[s] # <<>> /\ line'[s][1] = line[s][1]
  <2> DEFINE q == line[s]
  <2>1. q \in Seq(Tickets) /\ Increasing(q) /\ line'[s] = Kept(q, P)
    BY <1>1, <1>2, <1>3, Zenon
  <2> HIDE DEF q
  <2>2. /\ Kept(q, P) \in Seq(Tickets)
        /\ Increasing(Kept(q, P))
        /\ \A k \in 1..Len(Kept(q, P)) :
              /\ Kept(q, P)[k] \in P
              /\ \E i \in 1..Len(q) : q[i] = Kept(q, P)[k] /\ (k > 1 => i > 1)
        /\ \A i \in 1..Len(q) :
              q[i] \in P => \E k \in 1..Len(Kept(q, P)) : Kept(q, P)[k] = q[i]
        /\ (q # <<>> /\ q[1] \in P) =>
              Kept(q, P) # <<>> /\ Kept(q, P)[1] = q[1]
    BY <2>1, KeptLine, Zenon
  <2> QED BY <2>1, <2>2, ZenonT(30) DEF q
<1>5. line' \in [Sessions -> Seq(Tickets)]
  BY <1>1, <1>2, <1>4, Zenon
<1>6. \A x \in Sessions : Increasing(line'[x])
  BY <1>2, <1>4, Zenon DEF LineInv
<1>7. ASSUME NEW x \in Sessions, NEW k \in 1..Len(line'[x])
      PROVE  \E i \in 1..Len(line[x]) :
                /\ line[x][i] = line'[x][k]
                /\ k > 1 => i > 1
                /\ x = s => line'[x][k] \in P
  BY <1>2, <1>4, <1>7
<1>8. ASSUME NEW x \in Sessions, NEW i \in 1..Len(line[x]),
             x # s \/ line[x][i] \in P
      PROVE  \E k \in 1..Len(line'[x]) : line'[x][k] = line[x][i]
  BY <1>2, <1>4, <1>8
<1>9. ASSUME NEW x \in Sessions, line[x] # <<>>, x # s \/ line[x][1] \in P
      PROVE  line'[x] # <<>> /\ line'[x][1] = line[x][1]
  BY <1>2, <1>4, <1>9, Zenon
<1> QED BY <1>5, <1>6, <1>7, <1>8, <1>9, Zenon
           DEF Ordered, Comes, Stays, First

-----------------------------------------------------------------------------
(* The steps                                                                *)

\* The invariant is kept when a message takes its ticket: the ticket is the
\* newest, goes to the end of its line and is admitted if it is alone.
LEMMA ReserveStep == ASSUME Inv, Reserve PROVE Inv'
<1> DEFINE t == count + 1
           s == session[t]
<1>1. /\ t \in Tickets /\ s \in Sessions /\ count \in Nat /\ MaxTickets \in Nat
      /\ line[s] \in Seq(Tickets) /\ phase[t] = "new" /\ closes[t] = 0
      /\ t \notin stopped
  BY GateAssumption DEF Inv, TypeOK, FreshInv, Reserve, Tickets
<1>2. /\ count' = t /\ session' = session /\ stopped' = stopped
      /\ preparing' = preparing /\ cancellable' = cancellable
      /\ firing' = firing /\ cancelled' = cancelled
      /\ line' = [line EXCEPT ![s] = Append(@, t)]
      /\ phase' = [phase EXCEPT ![t] = "reserved"]
      /\ closes' = [u \in Tickets |-> closes[u] +
            (IF u = t /\ line[s] = <<>> THEN 1 ELSE 0)]
  BY <1>1, Zenon DEF Reserve, Close
<1> HIDE DEF t, s
<1>3. /\ line \in [Sessions -> Seq(Tickets)]
      /\ line' \in [Sessions -> Seq(Tickets)]
      /\ \A x \in Sessions : x # s => line'[x] = line[x]
      /\ line'[s] = Append(line[s], t)
  BY <1>1, <1>2 DEF Inv, TypeOK
<1>n. /\ \A x \in Sessions : Len(line[x]) \in Nat
      /\ Len(line'[s]) = Len(line[s]) + 1
      /\ \A i \in 1..Len(line[s]) : line'[s][i] = line[s][i]
      /\ line'[s][Len(line[s]) + 1] = t
  BY <1>1, <1>3
<1>4. \A x \in Sessions : \A i \in 1..Len(line[x]) :
        i \in 1..Len(line'[x]) /\ line'[x][i] = line[x][i]
  <2>1. ASSUME NEW x \in Sessions, NEW i \in 1..Len(line[x])
        PROVE  i \in 1..Len(line'[x]) /\ line'[x][i] = line[x][i]
    <3>1. CASE x # s
      BY <1>3, <3>1, Zenon
    <3>2. CASE x = s
      BY <1>n, <3>2
    <3> QED BY <3>1, <3>2, Zenon
  <2> QED BY <2>1, Zenon
<1>5. \A x \in Sessions : \A i \in 1..Len(line'[x]) :
        \/ i \in 1..Len(line[x]) /\ line'[x][i] = line[x][i]
        \/ x = s /\ line'[x][i] = t /\ i = Len(line[x]) + 1
  BY <1>1, <1>3
<1>6. \A x \in Sessions : \A i \in 1..Len(line[x]) :
        /\ line[x][i] \in Tickets /\ line[x][i] < t
        /\ session[line[x][i]] = x
        /\ phase[line[x][i]] \notin {"new", "released"}
  <2>1. SUFFICES ASSUME NEW x \in Sessions, NEW i \in 1..Len(line[x])
                 PROVE  line[x][i] \in Tickets /\ line[x][i] < t
    BY Zenon DEF Inv, LineInv
  <2>2. line[x][i] \in Tickets /\ phase[line[x][i]] # "new"
    BY <1>3 DEF Inv, LineInv
  <2>3. ~ (line[x][i] > count)
    BY <2>2, Zenon DEF Inv, FreshInv
  <2> QED BY <1>1, <2>2, <2>3 DEF t, Tickets
<1>7. TypeOK'
  <2>1. count' \in 0..MaxTickets /\ session' \in [Tickets -> Sessions]
    BY <1>1, <1>2 DEF Inv, TypeOK, Tickets
  <2>2. phase' \in [Tickets -> Phases]
    BY <1>1, <1>2, Zenon DEF Inv, TypeOK, Phases
  <2>3. closes' \in [Tickets -> Nat]
    BY <1>2 DEF Inv, TypeOK
  <2> QED BY <1>2, <1>3, <2>1, <2>2, <2>3, Zenon DEF Inv, TypeOK
<1>8. LineInv'
  <2>1. SUFFICES ASSUME NEW x \in Sessions PROVE
           /\ \A i, j \in 1..Len(line'[x]) : i < j => line'[x][i] < line'[x][j]
           /\ \A i \in 1..Len(line'[x]) :
                 /\ session'[line'[x][i]] = x
                 /\ phase'[line'[x][i]] \notin {"new", "released"}
    <3>1. \A x \in Sessions : DOMAIN line'[x] = 1..Len(line'[x])
      BY <1>3
    <3> QED BY <3>1 DEF LineInv, Increasing
  <2>2. \A i \in 1..Len(line'[x]) :
           /\ session'[line'[x][i]] = x
           /\ phase'[line'[x][i]] \notin {"new", "released"}
    <3>1. \A u \in Tickets : u # t => phase'[u] = phase[u]
      BY <1>2, Zenon DEF Inv, TypeOK
    <3>2. phase'[t] = "reserved" /\ session[t] = s
      BY <1>1, <1>2, Zenon DEF Inv, TypeOK, s
    <3>3. \A u \in Tickets : u < t => u # t
      BY <1>1 DEF Tickets
    <3> QED BY <1>2, <1>5, <1>6, <3>1, <3>2, <3>3
  <2>3. ASSUME NEW i \in 1..Len(line'[x]), NEW j \in 1..Len(line'[x]), i < j
        PROVE  line'[x][i] < line'[x][j]
    <3>1. Len(line[x]) \in Nat
      BY <1>3
    <3>2. i \in 1..Len(line[x]) /\ line'[x][i] = line[x][i]
      <4>1. j <= Len(line[x]) + 1
        BY <1>5, <3>1
      <4> QED BY <1>4, <2>3, <3>1, <4>1
    <3>3. CASE j \in 1..Len(line[x]) /\ line'[x][j] = line[x][j]
      BY <1>3, <2>3, <3>2, <3>3 DEF Inv, LineInv, Increasing
    <3>4. CASE line'[x][j] = t
      BY <1>6, <3>2, <3>4, Zenon
    <3> QED BY <1>5, <3>3, <3>4, Zenon
  <2> QED BY <2>2, <2>3, Zenon
<1>9. FreshInv'
  BY <1>1, <1>2 DEF Inv, TypeOK, FreshInv, Tickets, t
<1>c. \A u \in Tickets :
        closes'[u] = closes[u] + (IF u = t /\ line[s] = <<>> THEN 1 ELSE 0)
  BY <1>2, Zenon
<1>10. CloseInv'
  <2>1. ClosedAtMostOnce'
    BY <1>1, <1>c DEF Inv, TypeOK, CloseInv, ClosedAtMostOnce
  <2>2. ASSUME NEW x \in Sessions, NEW i \in 2..Len(line'[x])
        PROVE  closes'[line'[x][i]] = 0
    <3>0. i \in 1..Len(line'[x])
      OBVIOUS
    <3>1. CASE i \in 1..Len(line[x]) /\ line'[x][i] = line[x][i]
      <4>1. line[x][i] \in Tickets /\ line[x][i] # t
        BY <1>1, <1>6, <3>1 DEF Tickets
      <4>2. closes[line[x][i]] = 0
        BY <3>1 DEF Inv, CloseInv
      <4> QED BY <1>c, <3>1, <4>1, <4>2
    <3>2. CASE x = s /\ line'[x][i] = t /\ i = Len(line[x]) + 1
      <4>1. line[s] # <<>>
        BY <1>n, <3>2
      <4> QED BY <1>1, <1>c, <3>2, <4>1
    <3> QED BY <1>5, <3>0, <3>1, <3>2, Zenon
  <2> QED BY <2>1, <2>2, Zenon DEF CloseInv
<1>11. FrontCanReturn'
  <2>1. SUFFICES ASSUME NEW x \in Sessions, line'[x] # <<>>
                 PROVE  closes'[Head(line'[x])] > 0 \/ Head(line'[x]) \in stopped
    BY <1>2, <1>3 DEF FrontCanReturn, Admitted
  <2>2. CASE line[x] # <<>>
    <3>0. line[x] \in Seq(Tickets) /\ line'[x] \in Seq(Tickets)
      BY <1>3, Zenon
    <3>1. Head(line'[x]) = Head(line[x]) /\ Head(line[x]) \in Tickets
      BY <1>4, <2>1, <2>2, <3>0, HeadIsFirst
    <3>2. closes[Head(line[x])] > 0 \/ Head(line[x]) \in stopped
      BY <2>2, Zenon DEF Inv, FrontCanReturn, Admitted
    <3>3. closes \in [Tickets -> Nat]
      BY Zenon DEF Inv, TypeOK
    <3>4. ASSUME NEW u \in Tickets, closes[u] > 0 PROVE closes'[u] > 0
      BY <1>c, <3>3, <3>4
    <3> QED BY <3>1, <3>2, <3>4, Zenon
  <2>3. CASE line[x] = <<>>
    <3>1. x = s /\ Head(line'[x]) = t
      BY <1>3, <2>1, <2>3
    <3> QED BY <1>1, <1>c, <2>3, <3>1
  <2> QED BY <2>2, <2>3, Zenon
<1>12. PlaceInv'
  <2>1. SUFFICES ASSUME NEW u \in Tickets,
                        phase'[u] \notin {"new", "released"},
                        ~ (u \in stopped /\ u \notin preparing)
                 PROVE  \E i \in 1..Len(line'[session[u]]) :
                            line'[session[u]][i] = u
    BY <1>2, Zenon DEF PlaceInv
  <2>2. CASE u = t
    <3>1. Len(line[s]) + 1 \in 1..Len(line'[s])
      BY <1>n, <1>1
    <3> QED BY <1>n, <2>2, <3>1, Zenon DEF s
  <2>3. CASE u # t
    <3>1. phase[u] \notin {"new", "released"}
      BY <1>2, <2>1, <2>3, Zenon DEF Inv, TypeOK
    <3>2. PICK i \in 1..Len(line[session[u]]) : line[session[u]][i] = u
      BY <2>1, <3>1, Zenon DEF Inv, PlaceInv
    <3>3. session[u] \in Sessions
      BY Zenon DEF Inv, TypeOK
    <3> QED BY <1>4, <3>2, <3>3, Zenon
  <2> QED BY <2>2, <2>3, Zenon
<1>13. CallerInv'
  <2>1. SUFFICES ASSUME NEW u \in Tickets PROVE
           /\ u \in preparing => phase'[u] \in {"bound", "inside", "refused"}
           /\ phase'[u] = "inside" => u \in preparing /\ closes'[u] > 0
           /\ phase'[u] \in {"bound", "inside"} =>
                 \/ u \in stopped /\ u \in cancelled \cup firing
                 \/ u \notin stopped /\ u \in preparing /\ u \in cancellable
    BY <1>2, Zenon DEF CallerInv, Admitted
  <2>2. /\ u \in preparing => phase[u] \in {"bound", "inside", "refused"}
        /\ phase[u] = "inside" => u \in preparing /\ closes[u] > 0
        /\ phase[u] \in {"bound", "inside"} =>
              \/ u \in stopped /\ u \in cancelled \cup firing
              \/ u \notin stopped /\ u \in preparing /\ u \in cancellable
    BY Zenon DEF Inv, CallerInv, Admitted
  <2>3. CASE u # t
    <3>1. phase'[u] = phase[u] /\ closes'[u] = closes[u]
      BY <1>2, <1>c, <2>3 DEF Inv, TypeOK
    <3> QED BY <2>2, <3>1, Zenon
  <2>4. CASE u = t
    <3>1. phase'[u] = "reserved" /\ u \notin preparing
      BY <1>1, <1>2, <2>2, <2>4, Zenon DEF Inv, TypeOK
    <3> QED BY <3>1, Zenon
  <2> QED BY <2>3, <2>4, Zenon
<1> QED BY <1>7, <1>8, <1>9, <1>10, <1>11, <1>12, <1>13, Zenon DEF Inv

\* The phases of a ticket its caller holds.
Used == {"reserved", "bound", "inside", "refused"}

\* A step of one caller that touches no line: the lines stay right.
LEMMA LinesUntouched ==
  ASSUME Inv, UNCHANGED <<count, session, line, closes, stopped>>,
         \A u \in Tickets : \/ phase'[u] = phase[u]
                            \/ phase[u] \in Used /\ phase'[u] \in Used,
         \A u \in stopped : u \notin preparing => u \notin preparing'
  PROVE  LineInv' /\ FreshInv' /\ CloseInv' /\ PlaceInv' /\ FrontCanReturn'
<1>1. \A u \in Tickets :
        /\ phase'[u] = "new" <=> phase[u] = "new"
        /\ phase'[u] = "released" <=> phase[u] = "released"
  BY Zenon DEF Used
<1>2. \A x \in Sessions : \A i \in 1..Len(line[x]) : line[x][i] \in Tickets
  BY DEF Inv, TypeOK
<1>3. LineInv'
  BY <1>1, <1>2 DEF Inv, LineInv
<1>4. FreshInv'
  BY <1>1, Zenon DEF Inv, FreshInv
<1>5. CloseInv' /\ FrontCanReturn'
  BY Zenon DEF Inv, CloseInv, ClosedAtMostOnce, FrontCanReturn, Admitted
<1>6. PlaceInv'
  BY <1>1, Zenon DEF Inv, PlaceInv
<1> QED BY <1>3, <1>4, <1>5, <1>6, Zenon

\* The invariant is kept when a caller binds its context, waits, cancels or
\* has its context cancelled.
LEMMA CallerStep ==
  ASSUME Inv, NEW t \in Tickets,
         BindContext(t) \/ WaitAdmitted(t) \/ WaitRefused(t) \/ CallerCancels(t)
            \/ CallCancellation(t)
  PROVE  Inv'
<1>1. phase \in [Tickets -> Phases]
  BY Zenon DEF Inv, TypeOK
<1>2. CASE BindContext(t)
  <2>1. LineInv' /\ FreshInv' /\ CloseInv' /\ PlaceInv' /\ FrontCanReturn'
    BY <1>1, <1>2, LinesUntouched DEF BindContext, Used
  <2>2. TypeOK'
    BY <1>2, Zenon DEF Inv, TypeOK, BindContext, Phases
  <2>3. CallerInv'
    BY <1>1, <1>2 DEF Inv, TypeOK, CallerInv, BindContext, Admitted
  <2> QED BY <2>1, <2>2, <2>3, Zenon DEF Inv
<1>3. CASE WaitAdmitted(t)
  <2>1. LineInv' /\ FreshInv' /\ CloseInv' /\ PlaceInv' /\ FrontCanReturn'
    BY <1>1, <1>3, LinesUntouched, Zenon DEF WaitAdmitted, Used
  <2>2. TypeOK'
    BY <1>3, Zenon DEF Inv, TypeOK, WaitAdmitted, Phases
  <2>3. CallerInv'
    BY <1>1, <1>3, Zenon DEF Inv, CallerInv, WaitAdmitted, MayEnter, Admitted
  <2> QED BY <2>1, <2>2, <2>3, Zenon DEF Inv
<1>4. CASE WaitRefused(t)
  <2>1. LineInv' /\ FreshInv' /\ CloseInv' /\ PlaceInv' /\ FrontCanReturn'
    BY <1>1, <1>4, LinesUntouched, Zenon DEF WaitRefused, Used
  <2>2. TypeOK'
    BY <1>4, Zenon DEF Inv, TypeOK, WaitRefused, Phases
  <2>3. CallerInv'
    BY <1>1, <1>4, Zenon DEF Inv, CallerInv, WaitRefused, Admitted
  <2> QED BY <2>1, <2>2, <2>3, Zenon DEF Inv
<1>5. CASE CallerCancels(t) \/ CallCancellation(t)
  <2>1. LineInv' /\ FreshInv' /\ CloseInv' /\ PlaceInv' /\ FrontCanReturn'
    BY <1>5, LinesUntouched, Zenon DEF CallerCancels, CallCancellation
  <2>2. TypeOK'
    BY <1>5, Zenon DEF Inv, TypeOK, CallerCancels, CallCancellation
  <2>3. CallerInv'
    BY <1>5, Zenon
       DEF Inv, CallerInv, CallerCancels, CallCancellation, Admitted
  <2> QED BY <2>1, <2>2, <2>3, Zenon DEF Inv
<1> QED BY <1>2, <1>3, <1>4, <1>5, Zenon

\* The invariant is kept when Stop clears a line: tickets that have not begun
\* to prepare leave it, the others are cancelled where they stand.
LEMMA CancelPendingStep ==
  ASSUME Inv, NEW s \in Sessions, CancelPending(s)
  PROVE  Inv'
<1> DEFINE pending == {line[s][i] : i \in 1..Len(line[s])}
<1>1. /\ line' = [line EXCEPT ![s] = Kept(line[s], preparing)]
      /\ stopped' = stopped \cup pending
      /\ firing' = firing \cup (pending \cap cancellable)
      /\ cancellable' = cancellable \ pending
      /\ UNCHANGED <<count, session, phase, closes, preparing, cancelled>>
  <2>1. DOMAIN line[s] = 1..Len(line[s])
    BY DEF Inv, TypeOK
  <2> QED BY <2>1, Zenon DEF CancelPending, Retained, Range
<1>2. pending \subseteq Tickets
  BY DEF Inv, TypeOK
<1>3. Ordered /\ Comes(s, preparing) /\ Stays(s, preparing)
  BY <1>1, Shortened, Zenon DEF Inv
<1>p. \A u \in Tickets :
        u \in pending <=> \E i \in 1..Len(line[s]) : line[s][i] = u
  BY Zenon
<1> HIDE DEF pending
<1>t. line \in [Sessions -> Seq(Tickets)]
  BY Zenon DEF Inv, TypeOK
<1>4. TypeOK'
  BY <1>1, <1>2, <1>3, Zenon DEF Inv, TypeOK, Ordered
<1>5. LineInv'
  <2>1. ASSUME NEW x \in Sessions, NEW k \in 1..Len(line'[x])
        PROVE  /\ session[line'[x][k]] = x
               /\ phase[line'[x][k]] \notin {"new", "released"}
    <3>1. PICK i \in 1..Len(line[x]) : line[x][i] = line'[x][k]
      BY <1>3, Zenon DEF Comes
    <3> QED BY <3>1 DEF Inv, LineInv
  <2> QED BY <1>1, <1>3, <2>1, Zenon DEF LineInv, Ordered
<1>6. FreshInv'
  <2>1. \A u \in Tickets : u \in pending => phase[u] # "new"
    BY <1>p DEF Inv, LineInv
  <2> QED BY <1>1, <2>1, Zenon DEF Inv, FreshInv
<1>7. CloseInv'
  <2>1. ASSUME NEW x \in Sessions, NEW k \in 2..Len(line'[x])
        PROVE  closes[line'[x][k]] = 0
    <3>1. k \in 1..Len(line'[x]) /\ k > 1
      OBVIOUS
    <3>2. PICK i \in 1..Len(line[x]) : line[x][i] = line'[x][k] /\ i > 1
      BY <1>3, <3>1, Zenon DEF Comes
    <3>3. i \in 2..Len(line[x])
      BY <3>2
    <3> QED BY <3>2, <3>3, Zenon DEF Inv, CloseInv
  <2> QED BY <1>1, <2>1, Zenon DEF Inv, CloseInv, ClosedAtMostOnce
<1>8. PlaceInv'
  <2>1. SUFFICES ASSUME NEW u \in Tickets, phase[u] \notin {"new", "released"},
                        ~ (u \in stopped' /\ u \notin preparing)
                 PROVE  \E k \in 1..Len(line'[session[u]]) :
                            line'[session[u]][k] = u
    BY <1>1 DEF PlaceInv
  <2>2. PICK i \in 1..Len(line[session[u]]) : line[session[u]][i] = u
    BY <1>1, <2>1, Zenon DEF Inv, PlaceInv
  <2>3. session[u] # s \/ u \in preparing
    BY <1>1, <1>p, <2>1, <2>2, Zenon
  <2>4. session[u] \in Sessions
    BY Zenon DEF Inv, TypeOK
  <2> QED BY <1>3, <2>2, <2>3, <2>4 DEF Stays
<1>9. CallerInv'
  BY <1>1, <1>p, Zenon DEF Inv, CallerInv, Admitted
<1>10. FrontCanReturn'
  <2>1. SUFFICES ASSUME NEW x \in Sessions, line'[x] # <<>>
                 PROVE  closes[Head(line'[x])] > 0 \/ Head(line'[x]) \in stopped'
    BY <1>1, <1>3, HeadIsFirst, Zenon DEF Ordered, FrontCanReturn, Admitted
  <2>2. line[x] \in Seq(Tickets) /\ line'[x] \in Seq(Tickets)
    BY <1>3, <1>t, Zenon DEF Ordered
  <2>3. CASE x # s
    <3>1. line'[x] = line[x]
      BY <1>1, <1>t, <2>3, Zenon
    <3> QED BY <1>1, <2>1, <3>1 DEF Inv, FrontCanReturn, Admitted
  <2>4. CASE x = s
    <3>1. /\ 1 \in 1..Len(line'[s])
          /\ Head(line'[s]) = line'[s][1] /\ Head(line'[s]) \in Tickets
      BY <2>1, <2>2, <2>4, HeadIsFirst, Zenon
    <3>2. PICK i \in 1..Len(line[s]) : line[s][i] = line'[s][1]
      BY <1>3, <3>1, Zenon DEF Comes
    <3> QED BY <1>1, <1>p, <2>4, <3>1, <3>2
  <2> QED BY <2>3, <2>4, Zenon
<1> QED BY <1>4, <1>5, <1>6, <1>7, <1>8, <1>9, <1>10, Zenon DEF Inv

\* The invariant is kept when a ticket is released: if it was first, the next
\* one, which had not been admitted, is.
LEMMA ReleaseStep ==
  ASSUME Inv, NEW t \in Tickets, Release(t)
  PROVE  Inv'
<1> DEFINE s == session[t]
           P == Tickets \ {t}
           next == NextAdmitted(t, Kept(line[s], P))
<1>1. /\ phase[t] \in {"bound", "refused", "inside"}
      /\ line' = [line EXCEPT ![s] = Kept(line[s], P)]
      /\ preparing' = preparing \ {t} /\ cancellable' = cancellable \ {t}
      /\ phase' = [phase EXCEPT ![t] = "released"]
      /\ closes' = [u \in Tickets |-> closes[u] + (IF u \in next THEN 1 ELSE 0)]
      /\ UNCHANGED <<count, session, stopped, firing, cancelled>>
  BY Zenon DEF Release, leave, Close
<1>t. /\ line \in [Sessions -> Seq(Tickets)] /\ s \in Sessions
      /\ phase \in [Tickets -> Phases] /\ closes \in [Tickets -> Nat]
  BY Zenon DEF Inv, TypeOK
<1>2. Ordered /\ Comes(s, P) /\ Stays(s, P) /\ First(s, P)
  BY <1>1, <1>t, Shortened, Zenon DEF Inv
<1>3. /\ line'[s] = Kept(line[s], P)
      /\ \A x \in Sessions : x # s => line'[x] = line[x]
      /\ \A x \in Sessions : line[x] \in Seq(Tickets) /\ line'[x] \in Seq(Tickets)
  BY <1>1, <1>2, <1>t, Zenon DEF Ordered
<1>n. next = IF line'[s] # <<>> /\ Head(line[s]) = t
             THEN {Head(line'[s])} ELSE {}
  BY <1>3, Zenon DEF NextAdmitted
<1>c. \A u \in Tickets : closes'[u] = closes[u] + (IF u \in next THEN 1 ELSE 0)
  BY <1>1, Zenon
<1>g. \A u \in Tickets : phase'[u] = IF u = t THEN "released" ELSE phase[u]
  BY <1>1, <1>t, Zenon
<1>f. phase[t] \notin {"new", "released"} /\ t \notin P
  BY <1>1, Zenon
<1> HIDE DEF s, next
<1>m. \A u \in Tickets : closes[u] > 0 => closes'[u] > 0
  BY <1>c, <1>t
<1>4. TypeOK'
  <2>1. phase' \in [Tickets -> Phases]
    BY <1>1, <1>t, Zenon DEF Phases
  <2>2. closes' \in [Tickets -> Nat]
    BY <1>1, <1>t
  <2> QED BY <1>1, <1>2, <2>1, <2>2, Zenon DEF Inv, TypeOK, Ordered
<1>5. LineInv'
  <2>1. ASSUME NEW x \in Sessions, NEW k \in 1..Len(line'[x])
        PROVE  /\ session[line'[x][k]] = x
               /\ phase'[line'[x][k]] \notin {"new", "released"}
    <3>1. PICK i \in 1..Len(line[x]) :
             line[x][i] = line'[x][k] /\ (x = s => line'[x][k] \in P)
      BY <1>2, Zenon DEF Comes
    <3>2. /\ session[line'[x][k]] = x /\ line'[x][k] \in Tickets
          /\ phase[line'[x][k]] \notin {"new", "released"}
      BY <1>3, <3>1 DEF Inv, LineInv
    <3>3. line'[x][k] # t
      BY <3>1, <3>2, Zenon DEF s
    <3> QED BY <1>g, <3>2, <3>3, Zenon
  <2> QED BY <1>1, <1>2, <2>1, Zenon DEF LineInv, Ordered
<1>h. ASSUME NEW u \in next
      PROVE  u \in Tickets /\ closes[u] = 0 /\ phase[u] \notin {"new", "released"}
  <2>1. /\ line'[s] # <<>> /\ Head(line[s]) = t /\ u = Head(line'[s])
        /\ line'[s] \in Seq(Tickets) /\ line[s] \in Seq(Tickets)
    BY <1>h, <1>n, <1>3, <1>t, Zenon
  <2>2. 1 \in 1..Len(line'[s]) /\ u = line'[s][1] /\ u \in Tickets
    BY <2>1, HeadIsFirst, Zenon
  <2>3. PICK i \in 1..Len(line[s]) : line[s][i] = u /\ u \in P
    BY <1>2, <1>t, <2>2 DEF Comes
  <2>4. line[s] # <<>>
    BY <2>1, <2>3
  <2>5. line[s][1] = t
    BY <2>1, <2>4, HeadIsFirst, Zenon
  <2>6. i \in 2..Len(line[s])
    BY <1>f, <2>3, <2>5
  <2> QED BY <1>t, <2>2, <2>3, <2>6 DEF Inv, CloseInv, LineInv
<1>6. FreshInv'
  <2>1. \A u \in Tickets : phase'[u] = "new" <=> phase[u] = "new"
    BY <1>f, <1>g, Zenon
  <2>2. \A u \in Tickets : phase[u] = "new" => closes'[u] = closes[u]
    BY <1>c, <1>h, <1>t
  <2> QED BY <1>1, <2>1, <2>2, Zenon DEF Inv, FreshInv
<1>7. CloseInv'
  <2>1. ClosedAtMostOnce'
    BY <1>c, <1>h, <1>t DEF Inv, CloseInv, ClosedAtMostOnce
  <2>2. ASSUME NEW x \in Sessions, NEW k \in 2..Len(line'[x])
        PROVE  closes'[line'[x][k]] = 0
    <3>1. k \in 1..Len(line'[x]) /\ k > 1 /\ 1 \in 1..Len(line'[x])
      OBVIOUS
    <3>2. PICK i \in 1..Len(line[x]) : line[x][i] = line'[x][k] /\ i > 1
      BY <1>2, <3>1, Zenon DEF Comes
    <3>3. i \in 2..Len(line[x])
      BY <3>2
    <3>4. closes[line'[x][k]] = 0
      BY <3>2, <3>3, Zenon DEF Inv, CloseInv
    <3>5. line'[x][k] \in Tickets
      BY <1>3, <3>1
    <3>6. line'[x][k] \notin next
      <4>1. SUFFICES ASSUME line'[s] # <<>>, line'[x][k] = Head(line'[s])
                     PROVE  FALSE
        BY <1>n, Zenon
      <4>2. Head(line'[s]) = line'[s][1] /\ 1 \in 1..Len(line'[s])
        BY <1>3, <1>t, <4>1, HeadIsFirst, Zenon
      <4>3. x = s
        BY <1>1, <1>5, <1>t, <3>1, <4>1, <4>2 DEF LineInv
      <4>4. line'[s][1] < line'[s][k]
        BY <1>2, <1>3, <1>t, <3>1, <4>3 DEF Ordered, Increasing
      <4>5. line'[s][k] \in Int
        BY <3>5, <4>3 DEF Tickets
      <4> QED BY <4>1, <4>2, <4>3, <4>4, <4>5
    <3> QED BY <1>c, <3>4, <3>5, <3>6
  <2> QED BY <2>1, <2>2, Zenon DEF CloseInv
<1>8. PlaceInv'
  <2>1. SUFFICES ASSUME NEW u \in Tickets,
                        phase'[u] \notin {"new", "released"},
                        ~ (u \in stopped /\ u \notin preparing')
                 PROVE  \E k \in 1..Len(line'[session[u]]) :
                            line'[session[u]][k] = u
    BY <1>1, Zenon DEF PlaceInv
  <2>2. u # t /\ phase[u] \notin {"new", "released"}
    BY <1>g, <2>1, Zenon
  <2>3. PICK i \in 1..Len(line[session[u]]) : line[session[u]][i] = u
    BY <1>1, <2>1, <2>2, Zenon DEF Inv, PlaceInv
  <2>4. session[u] \in Sessions
    BY Zenon DEF Inv, TypeOK
  <2> QED BY <1>2, <2>2, <2>3, <2>4 DEF Stays
<1>9. CallerInv'
  BY <1>1, <1>g, <1>m DEF Inv, CallerInv, Admitted
<1>10. FrontCanReturn'
  <2>1. SUFFICES ASSUME NEW x \in Sessions, line'[x] # <<>>
                 PROVE  closes'[Head(line'[x])] > 0 \/ Head(line'[x]) \in stopped
    <3>1. \A x \in Sessions : line'[x] # <<>> => Head(line'[x]) \in Tickets
      BY <1>3, HeadIsFirst, Zenon
    <3> QED BY <1>1, <3>1, Zenon DEF FrontCanReturn, Admitted
  <2>2. /\ 1 \in 1..Len(line'[x]) /\ Head(line'[x]) = line'[x][1]
        /\ Head(line'[x]) \in Tickets
    BY <1>3, <2>1, HeadIsFirst, Zenon
  <2>3. PICK i \in 1..Len(line[x]) : line[x][i] = line'[x][1]
    BY <1>2, <2>2 DEF Comes
  <2>4. line[x] # <<>> /\ line[x] \in Seq(Tickets)
    BY <1>3, <2>3
  <2>5. Head(line[x]) = line[x][1] /\ Head(line[x]) \in Tickets
    BY <2>4, HeadIsFirst, Zenon
  <2>6. CASE x = s /\ Head(line[s]) = t
    <3>1. Head(line'[x]) \in next
      BY <1>n, <2>1, <2>6, Zenon
    <3> QED BY <1>c, <1>t, <2>2, <3>1
  <2>7. CASE ~ (x = s /\ Head(line[s]) = t)
    <3>0. x # s \/ line[x][1] \in P
      BY <2>5, <2>7, Zenon
    <3>1. line'[x][1] = line[x][1]
      BY <1>2, <2>4, <3>0, Zenon DEF First
    <3>2. closes[Head(line[x])] > 0 \/ Head(line[x]) \in stopped
      BY <2>4, Zenon DEF Inv, FrontCanReturn, Admitted
    <3> QED BY <1>m, <2>2, <2>5, <3>1, <3>2, Zenon
  <2> QED BY <2>6, <2>7, Zenon
<1> QED BY <1>4, <1>5, <1>6, <1>7, <1>8, <1>9, <1>10, Zenon DEF Inv

\* The invariant holds initially,
LEMMA InitInv == Init => Inv
<1> SUFFICES ASSUME Init PROVE Inv
  BY Zenon
<1>1. TypeOK
  BY GateAssumption DEF Init, TypeOK, Phases, Tickets
<1>2. LineInv /\ PlaceInv /\ FrontCanReturn
  BY DEF Init, LineInv, Increasing, PlaceInv, FrontCanReturn
<1>3. FreshInv /\ CloseInv /\ CallerInv
  BY DEF Init, FreshInv, CloseInv, ClosedAtMostOnce, CallerInv, Tickets
<1> QED BY <1>1, <1>2, <1>3, Zenon DEF Inv

\* and every step keeps it.
LEMMA NextInv == Inv /\ [Next]_vars => Inv'
<1> SUFFICES ASSUME Inv, [Next]_vars PROVE Inv'
  BY Zenon
<1>1. ASSUME NEW t \in Tickets,
             \/ BindContext(t) \/ WaitAdmitted(t) \/ WaitRefused(t)
             \/ CallerCancels(t) \/ Release(t) \/ CallCancellation(t)
      PROVE  Inv'
  BY <1>1, CallerStep, ReleaseStep, Zenon
<1>2. ASSUME UNCHANGED vars PROVE Inv'
  <2>1. UNCHANGED <<count, session, line, phase, closes, stopped, preparing>>
    BY <1>2, Zenon DEF vars
  <2>2. LineInv' /\ FreshInv' /\ CloseInv' /\ PlaceInv' /\ FrontCanReturn'
    BY <2>1, LinesUntouched, Zenon
  <2>3. TypeOK' /\ CallerInv'
    BY <1>2, Zenon DEF vars, Inv, TypeOK, CallerInv, Admitted
  <2> QED BY <2>2, <2>3, Zenon DEF Inv
<1> QED BY <1>1, <1>2, ReserveStep, CancelPendingStep, Zenon DEF Next

-----------------------------------------------------------------------------
(* The theorems                                                             *)

\* The invariant holds in every reachable state.
THEOREM Invariant == Spec => []Inv
BY InitInv, NextInv, PTL DEF Spec

\* Whatever the number of sessions and messages, and whenever Stop comes, the
\* messages of a session are inside the gate one at a time and in the order in
\* which Reserve received them.
THEOREM AdmissionIsFIFO == Spec => []AdmittedInOrder
<1>1. Inv => AdmittedInOrder
  <2>1. SUFFICES ASSUME Inv, NEW t \in Tickets, NEW u \in Tickets, u < t,
                        session[u] = session[t], phase[t] = "inside",
                        phase[u] # "released"
                 PROVE  u \in stopped /\ phase[u] # "inside" /\ u \notin preparing
    BY Zenon DEF AdmittedInOrder
  <2> DEFINE s == session[t]
  <2>2. s \in Sessions /\ line[s] \in Seq(Tickets) /\ Len(line[s]) \in Nat
    BY <2>1 DEF Inv, TypeOK
  <2>3. t \in preparing /\ closes[t] # 0
    BY <2>1 DEF Inv, TypeOK, CallerInv, Admitted
  <2>4. PICK i \in 1..Len(line[s]) : line[s][i] = t
    BY <2>1, <2>3, Zenon DEF Inv, PlaceInv
  <2>5. i = 1
    <3>1. \A j \in 2..Len(line[s]) : closes[line[s][j]] = 0
      BY <2>1, <2>2, Zenon DEF Inv, CloseInv
    <3> HIDE DEF s
    <3>2. i \notin 2..Len(line[s])
      BY <2>3, <2>4, <3>1, Zenon
    <3> QED BY <2>2, <3>2
  <2>6. ~ \E j \in 1..Len(line[s]) : line[s][j] = u
    <3>1. SUFFICES ASSUME NEW j \in 1..Len(line[s]), line[s][j] = u PROVE FALSE
      BY Zenon
    <3>2. \A k, l \in 1..Len(line[s]) : k < l => line[s][k] < line[s][l]
      BY <2>1, <2>2 DEF Inv, LineInv, Increasing
    <3> HIDE DEF s
    <3>3. j > 1 => t < u
      BY <2>2, <2>4, <2>5, <3>1, <3>2, Zenon
    <3>4. j = 1 => t = u
      BY <2>4, <2>5, <3>1, Zenon
    <3> QED BY <2>1, <2>2, <3>3, <3>4 DEF Tickets
  <2>7. phase[u] # "new"
    <3>1. ~ (t > count)
      BY <2>1, Zenon DEF Inv, FreshInv
    <3>2. ~ (u > count)
      <4>1. count \in Nat
        BY <2>1, GateAssumption DEF Inv, TypeOK
      <4> QED BY <2>1, <3>1, <4>1 DEF Tickets
    <3> QED BY <2>1, <3>2, Zenon DEF Inv, FreshInv
  <2>8. u \in stopped /\ u \notin preparing
    BY <2>1, <2>6, <2>7, Zenon DEF Inv, PlaceInv
  <2>9. phase[u] = "inside" => u \in preparing
    BY <2>1, Zenon DEF Inv, CallerInv
  <2> QED BY <2>8, <2>9, Zenon
<1> QED BY <1>1, Invariant, PTL

\* No admitted channel is closed twice, so neither Reserve nor leave panics.
THEOREM NoDoubleClose == Spec => []ClosedAtMostOnce
<1>1. Inv => ClosedAtMostOnce
  BY Zenon DEF Inv, CloseInv
<1> QED BY <1>1, Invariant, PTL

\* Stop reaches every preparation: the context of a stopped ticket its caller
\* still holds is cancelled, or CancelPending is about to cancel it.
THEOREM StopReachesPreparation == Spec => []StopCancelsPreparation
<1>1. Inv => StopCancelsPreparation
  BY Zenon DEF Inv, TypeOK, CallerInv, StopCancelsPreparation
<1> QED BY <1>1, Invariant, PTL

\* No wakeup is lost: a ticket at the front of its line can return from Wait.
THEOREM FrontIsNeverStuck == Spec => []FrontCanReturn
<1>1. Inv => FrontCanReturn
  BY Zenon DEF Inv
<1> QED BY <1>1, Invariant, PTL
=============================================================================
