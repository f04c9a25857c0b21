---------------------------- MODULE Wakes_proofs ----------------------------
(***************************************************************************)
(* The steps of the idle callback, the publishers and the deciders keep    *)
(* the invariant of WakesTurns_proofs, and what follows from it.           *)
(***************************************************************************)
EXTENDS WakesTurns_proofs

-----------------------------------------------------------------------------
(* The idle callback                                                        *)

\* Nothing pending is overlooked once a scan of its own reads it all.
LEMMA ScanStarted ==
    ASSUME WakeInv, NEW s \in Scanner, scan[s] = {},
           scan' = [scan EXCEPT ![s] = Pending], fate' = Fate(Waking, Open),
           UNCHANGED <<log, delivered, publisher, claim>>
    PROVE  ClaimType' /\ ClaimInv' /\ OwedInv'
<1>1. Pending \subseteq Notice
  BY PendingNotices, Zenon DEF WakeInv
<1>2. /\ scan' \in [Scanner -> SUBSET Notice] /\ scan'[s] = Pending
      /\ \A u \in Scanner : u # s => scan'[u] = scan[u]
  BY <1>1, Zenon DEF WakeInv, ClaimType
<1>3. ClaimType' /\ ClaimInv'
  BY <1>2 DEF WakeInv, ClaimType, ClaimInv
<1>4. \A n \in Pending : Scanned(n)'
  BY <1>2, Zenon DEF Scanned
<1>5. \A n \in Waking : fate'[n].at = "open"
  BY DEF Fate, Open, At
<1> QED BY <1>3, <1>4, <1>5, PendingKept, Zenon DEF OwedInv, Owed, Watched

\* The invariant is kept when the idle callback finds a wake in flight, which
\* then owes the re-check, or none.
LEMMA IdleCheckStep ==
    ASSUME WakeInv, NEW t \in Turn, IdleCheck(t)
    PROVE  WakeInv'
<1> DEFINE s == turn[t].todo
<1>1. /\ turn[t].at = "ended"
      /\ UNCHANGED <<log, delivered, stopRev, msg, woken, publisher, scan,
                     rereading, fate>>
  BY Zenon DEF IdleCheck, rowVars
<1>2. s \in Seq(Chore) /\ Len(s) # 0
  BY <1>1, Zenon DEF WakeInv, TurnType, TurnRecord, TodoInv
<1>3. CASE claim["controller"].at = "free"
  <2>1. MoveTurn(t, "checked", s) /\ UNCHANGED claim
    BY <1>3, Zenon DEF IdleCheck
  <2> HIDE DEF s
  <2>2. /\ turn' \in [Turn -> TurnRecord]
        /\ \A u \in Turn : u # t => turn'[u] = turn[u]
        /\ turn'[t].at = "checked" /\ turn'[t].todo = s
    BY <1>2, <2>1, Moved, Zenon DEF WakeInv
  <2>3. WillRecheck(t)'
    BY <2>2, Zenon DEF WillRecheck
  <2> QED BY <1>1, <1>2, <2>1, <2>2, <2>3, TurnMoves, Zenon
<1>4. CASE claim["controller"].at # "free"
  <2>1. MoveTurn(t, "answered", s) /\ claim' = Deferred
    BY <1>4, Zenon DEF IdleCheck
  <2> HIDE DEF s
  <2>2. /\ turn' \in [Turn -> TurnRecord]
        /\ \A u \in Turn : u # t => turn'[u] = turn[u]
        /\ turn'[t].at = "answered" /\ turn'[t].todo = s
    BY <1>2, <2>1, Moved, Zenon DEF WakeInv
  <2>3. "controller" \in Runtime
    BY Zenon DEF Runtime
  <2>4. claim' \in [Runtime -> ClaimRecord]
    BY <2>1, <2>3, Zenon DEF WakeInv, ClaimType, Deferred, ClaimRecord
  <2>5. \A r \in Runtime :
          /\ claim'[r].at = claim[r].at /\ claim'[r].by = claim[r].by
          /\ claim'[r].notice = claim[r].notice
          /\ r # "controller" => claim'[r] = claim[r]
          /\ r = "controller" => claim'[r].recheck = TRUE
    BY <2>1, <2>3, Zenon DEF WakeInv, ClaimType, Deferred, ClaimRecord
  <2>6. ClaimType' /\ ClaimInv'
    BY <1>1, <1>4, <2>4, <2>5 DEF WakeInv, ClaimType, ClaimInv
  <2>7. FlightInv'
    BY <1>1, <2>5, Zenon DEF WakeInv, FlightInv
  <2>8. OwedInv'
    <3>1. SUFFICES ASSUME NEW n \in Pending \cap Waking
                   PROVE  Owed(n)'
      BY <1>1, PendingKept, Zenon DEF OwedInv
    <3>2. Owed(n)
      BY Zenon DEF WakeInv, OwedInv
    <3>3. Ended(n) => Ended(n)'
      BY <1>1, Zenon DEF Ended
    <3>4. Watched(n) => Watched(n)'
      BY <1>1, <2>5, Zenon DEF Watched, Claimed, Scanned
    <3>5. Carried(n) => Carried(n)'
      BY <1>1, <2>5, Zenon DEF Carried
    <3>6. Rechecked(n) => Rechecked(n)'
      BY <1>1, <2>3, <2>5, Zenon DEF Rechecked, WaitsFor
    <3> QED BY <3>2, <3>3, <3>4, <3>5, <3>6, Zenon DEF Owed
  <2>9. RowType' /\ TurnType' /\ MessageType' /\ NoticeInv' /\ WakesAreDue'
    BY <1>1, <2>2, Zenon
       DEF WakeInv, RowType, TurnType, MessageType, NoticeInv, WakesAreDue
  <2>10. TodoInv' /\ ScanInv'
    BY <1>1, <1>2, <2>2, ScanKept, Zenon DEF WakeInv, TodoInv
  <2>11. LeaseInv'
    BY <1>1, <2>2, Zenon DEF WakeInv, LeaseInv
  <2> QED BY <2>6, <2>7, <2>8, <2>9, <2>10, <2>11, Zenon DEF WakeInv
<1> QED BY <1>3, <1>4, Zenon

\* The invariant is kept when the idle callback reads the pending notices.
LEMMA IdleReadStep ==
    ASSUME WakeInv, NEW t \in Turn, IdleRead(t)
    PROVE  WakeInv'
<1> DEFINE s == turn[t].todo
<1>1. /\ turn[t].at = "checked" /\ MoveTurn(t, "answered", s)
      /\ scan' = [scan EXCEPT ![t] = Pending] /\ fate' = Fate(Waking, Open)
      /\ UNCHANGED <<log, delivered, stopRev, msg, woken, publisher, claim,
                     rereading>>
  BY Zenon DEF IdleRead, rowVars
<1>2. s \in Seq(Chore) /\ Len(s) # 0
  BY <1>1, Zenon DEF WakeInv, TurnType, TurnRecord, TodoInv
<1> HIDE DEF s
<1>3. /\ turn' \in [Turn -> TurnRecord]
      /\ \A u \in Turn : u # t => turn'[u] = turn[u]
      /\ turn'[t].at = "answered" /\ turn'[t].todo = s
  BY <1>1, <1>2, Moved, Zenon DEF WakeInv
<1>4. t \in Scanner /\ scan[t] = {}
  BY <1>1, Constants, Zenon DEF WakeInv, ScanInv
<1>5. ClaimType' /\ ClaimInv' /\ OwedInv'
  BY <1>1, <1>4, ScanStarted, Zenon
<1>6. RowType' /\ TurnType' /\ MessageType' /\ NoticeInv' /\ WakesAreDue'
      /\ FlightInv'
  BY <1>1, <1>3, Zenon
     DEF WakeInv, RowType, TurnType, MessageType, NoticeInv, WakesAreDue,
         FlightInv
<1>7. \A u \in Turn : u # t => scan'[u] = scan[u]
  BY <1>1, Constants, Zenon DEF WakeInv, ClaimType
<1>8. TodoInv' /\ ScanInv'
  BY <1>1, <1>2, <1>3, <1>7, Zenon DEF WakeInv, TodoInv, ScanInv
<1>9. LeaseInv'
  BY <1>1, <1>3, Zenon DEF WakeInv, LeaseInv
<1> QED BY <1>5, <1>6, <1>8, <1>9, Zenon DEF WakeInv

-----------------------------------------------------------------------------
(* Notices                                                                  *)

\* A step of the deciders leaves these alone.
LEMMA DecisionFrame ==
    ASSUME WakeInv,
           UNCHANGED <<log, delivered, stopRev, turn, msg, woken>>
    PROVE  /\ RowType' /\ TurnType' /\ MessageType' /\ NoticeInv' /\ LeaseInv'
           /\ TodoInv' /\ WakesAreDue'
<1>1. RowType' /\ TurnType' /\ MessageType' /\ NoticeInv' /\ LeaseInv'
  BY Zenon DEF WakeInv, RowType, TurnType, MessageType, NoticeInv, LeaseInv
<1>2. TodoInv' /\ WakesAreDue'
  BY Zenon DEF WakeInv, TodoInv, WakesAreDue
<1> QED BY <1>1, <1>2, Zenon

\* The invariant is kept when a notice is stored: its publisher goes on to
\* consider a wake for it.
LEMMA StoreStep ==
    ASSUME WakeInv, NEW n \in Notice, NEW r \in Runtime, Store(n, r)
    PROVE  WakeInv'
<1>1. /\ log' = Append(log, n) /\ publisher' = [publisher EXCEPT ![n] = r]
      /\ fate' = Fate({n}, Open)
      /\ UNCHANGED <<delivered, stopRev, turn, msg, woken, claim, scan,
                     rereading>>
  BY Zenon DEF Store, turnVars
<1>2. log' \in Seq(Notice) /\ Range(log') = Range(log) \cup {n}
  BY <1>1 DEF WakeInv, RowType, Range
<1>3. Pending' \subseteq Pending \cup {n}
  BY <1>1, <1>2, Zenon DEF Pending
<1>4. /\ publisher' \in [Notice -> Runtime \cup {Nothing, "deciding"}]
      /\ publisher'[n] = r
      /\ \A k : k # n => publisher'[k] = publisher[k]
  BY <1>1 DEF WakeInv, ClaimType
<1>5. \A k : Claimed(k)' = Claimed(k) /\ Scanned(k)' = Scanned(k)
  BY <1>1, Zenon DEF Claimed, Scanned
<1>6. OwedInv'
  <2> SUFFICES ASSUME NEW k \in Pending' \cap Waking
               PROVE  Owed(k)'
    BY Zenon DEF OwedInv
  <2>1. CASE k = n
    <3>1. fate'[k].at = "open"
      BY <1>1, <2>1 DEF Fate, Open, At
    <3> QED BY <1>4, <2>1, <3>1, Zenon DEF Owed, Watched
  <2>2. CASE k # n
    <3>1. fate'[k] = fate[k]
      BY <1>1, <2>2, Zenon DEF Fate
    <3>2. Owed(k)
      BY <1>3, <2>2, Zenon DEF WakeInv, OwedInv
    <3> QED BY <1>1, <1>4, <1>5, <2>2, <3>1, <3>2, OthersOwed, Zenon
  <2> QED BY <2>1, <2>2, Zenon
<1>8. RowType' /\ TurnType' /\ MessageType' /\ NoticeInv' /\ LeaseInv'
  BY <1>1, <1>2, Zenon
     DEF WakeInv, RowType, TurnType, MessageType, NoticeInv, LeaseInv
<1>9. TodoInv' /\ ScanInv' /\ FlightInv' /\ WakesAreDue'
  BY <1>1, Zenon DEF WakeInv, TodoInv, ScanInv, FlightInv, WakesAreDue
<1>10. ClaimType' /\ ClaimInv'
  BY <1>1, <1>4, Zenon DEF WakeInv, ClaimType, ClaimInv
<1> QED BY <1>6, <1>8, <1>9, <1>10, Zenon DEF WakeInv

\* A notice whose claim is refused waits for what holds the claim, or met with
\* an end.
LEMMA LeftBehindClaim ==
    ASSUME WakeInv, NEW r \in Runtime, NEW n, claim[r].at # "free",
           fate'[n] = BehindClaim(r), UNCHANGED <<turn, msg, claim>>
    PROVE  Owed(n)'
<1>1. /\ r \in Message /\ msg[r] \in MessageRecord /\ claim[r] \in ClaimRecord
  BY Zenon DEF WakeInv, MessageType, ClaimType, Message
<1>2. CASE msg[r].at = "refused"
  <2>1. fate'[n] = At("claim") /\ "claim" \in Excused \cup Forgotten
    BY <1>2 DEF BehindClaim, Forgotten
  <2> QED BY <2>1, AtAnEnd, Zenon
<1>3. CASE msg[r].at = "opened"
  <2>1. fate'[n] = LeftTo(msg[r].turn) /\ msg[r].turn \in Turn
    BY <1>1, <1>3 DEF BehindClaim, WakeInv, LeaseInv
  <2> QED BY <2>1, LeftToTurns, Zenon
<1>4. CASE msg[r].at \notin {"refused", "opened"}
  <2>1. fate'[n].at = r
    BY <1>4 DEF BehindClaim, At
  <2>2. msg[r].at \in Sending \/ msg[r].at = "idle"
    BY <1>1, <1>4 DEF MessageRecord, Sending
  <2>3. msg[r].at = "idle" => claim[r].at = "deciding"
    BY <1>1 DEF WakeInv, FlightInv, ClaimRecord
  <2> QED BY <2>1, <2>2, <2>3, Zenon DEF Owed, Carried
<1> QED BY <1>2, <1>3, <1>4, Zenon

\* A claim that is taken or refused is about the notice, and nothing that was
\* claimed before is lost.
LEMMA ClaimTaken ==
    ASSUME WakeInv, NEW r \in Runtime, NEW b \in Nat, NEW n \in Notice,
           Claim(r, b, n), UNCHANGED <<turn, msg>>
    PROVE  /\ claim' \in [Runtime -> ClaimRecord]
           /\ \A x \in Runtime : x # r => claim'[x] = claim[x]
           /\ claim'[r].at # "free" /\ claim'[r].recheck = claim[r].recheck
           /\ IF claim[r].at = "free"
                 THEN /\ claim'[r].at = "deciding" /\ claim'[r].by = b
                      /\ claim'[r].notice = n
                 ELSE claim'[r] = claim[r]
           /\ \A k \in Waking : k # n => fate'[k] = fate[k]
           /\ n \in Waking => Owed(n)'
<1>1. claim \in [Runtime -> ClaimRecord]
  BY Zenon DEF WakeInv, ClaimType
<1>2. CASE claim[r].at = "free"
  <2>1. PICK c : c = [Free EXCEPT !.at = "deciding", !.by = b, !.notice = n]
    BY Zenon
  <2>2. c \in ClaimRecord
    BY <2>1, IdleRecords, Zenon DEF ClaimRecord, Found
  <2>3. claim' = [claim EXCEPT ![r] = c] /\ fate' = Fate({n}, Open)
    BY <1>2, <2>1, Zenon DEF Claim
  <2>4. /\ claim' \in [Runtime -> ClaimRecord] /\ claim'[r] = c
        /\ \A x \in Runtime : x # r => claim'[x] = claim[x]
    BY <1>1, <2>2, <2>3, Zenon
  <2>5. c.at = "deciding" /\ c.by = b /\ c.notice = n /\ c.recheck = FALSE
    BY <2>1, Zenon DEF Free
  <2>6. claim[r].recheck = FALSE
    <3>1. claim[r] = Free
      BY <1>2, Zenon DEF WakeInv, ClaimInv
    <3> QED BY <3>1 DEF Free
  <2>7. /\ \A k \in Waking : k # n => fate'[k] = fate[k]
        /\ n \in Waking => fate'[n].at = "open"
    BY <2>3 DEF Fate, Open, At
  <2>8. n \in Waking => Owed(n)'
    BY <2>4, <2>5, <2>7, Zenon DEF Owed, Watched, Claimed
  <2> QED BY <1>2, <2>4, <2>5, <2>6, <2>7, <2>8
<1>3. CASE claim[r].at # "free"
  <2>1. UNCHANGED claim /\ fate' = Fate({n}, BehindClaim(r))
    BY <1>3, Zenon DEF Claim
  <2>2. /\ \A k \in Waking : k # n => fate'[k] = fate[k]
        /\ n \in Waking => fate'[n] = BehindClaim(r)
    BY <2>1, Zenon DEF Fate
  <2>3. n \in Waking => Owed(n)'
    BY <1>3, <2>1, <2>2, LeftBehindClaim, Zenon
  <2> QED BY <1>1, <1>3, <2>1, <2>2, <2>3, Zenon
<1> QED BY <1>2, <1>3, Zenon

\* It loses no other notice, if publisher and scan do not.
LEMMA ClaimOwed ==
    ASSUME WakeInv, NEW r \in Runtime, NEW b \in Nat, NEW n \in Notice,
           Claim(r, b, n),
           UNCHANGED <<log, delivered, turn, msg, rereading>>,
           \A k : k # n => publisher'[k] = publisher[k],
           \A k : k # n /\ Scanned(k) => Scanned(k)'
    PROVE  OwedInv' /\ FlightInv'
<1>1. /\ \A x \in Runtime : x # r => claim'[x] = claim[x]
      /\ claim'[r].at # "free" /\ claim'[r].recheck = claim[r].recheck
      /\ IF claim[r].at = "free"
            THEN /\ claim'[r].at = "deciding" /\ claim'[r].by = b
                 /\ claim'[r].notice = n
            ELSE claim'[r] = claim[r]
      /\ \A k \in Waking : k # n => fate'[k] = fate[k]
      /\ n \in Waking => Owed(n)'
  BY ClaimTaken, Zenon
<1>2. \A x \in Runtime :
        /\ claim'[x].recheck = claim[x].recheck
        /\ claim[x].at = "deciding" =>
              claim'[x].at = "deciding" /\ claim'[x].notice = claim[x].notice
        /\ claim'[x].at = "waking" <=> claim[x].at = "waking"
  BY <1>1
<1>3. FlightInv'
  BY <1>2, Zenon DEF WakeInv, FlightInv
<1>4. ASSUME NEW k \in Pending \cap Waking, k # n
      PROVE  Owed(k)'
  <2>1. Owed(k)
    BY Zenon DEF WakeInv, OwedInv
  <2>2. Claimed(k) => Claimed(k)'
    BY <1>2, Zenon DEF Claimed
  <2>3. "controller" \in Runtime
    BY Zenon DEF Runtime
  <2> QED BY <1>1, <1>2, <1>4, <2>1, <2>2, <2>3, OthersOwed, Zenon
<1> QED BY <1>1, <1>3, <1>4, PendingKept, Zenon DEF OwedInv

\* The invariant is kept when a publisher takes its notice to the claim.
LEMMA ClaimPublishedStep ==
    ASSUME WakeInv, NEW n \in Notice, ClaimPublished(n)
    PROVE  WakeInv'
<1>1. PICK r \in Runtime, p \in {Nothing, "deciding"} :
        /\ Claim(r, Publisher, n)
        /\ publisher' = [publisher EXCEPT ![n] = p]
        /\ UNCHANGED <<log, delivered, stopRev, turn, msg, woken, scan,
                       rereading>>
  BY Zenon DEF ClaimPublished, rowVars, turnVars
<1>2. /\ claim' \in [Runtime -> ClaimRecord]
      /\ \A x \in Runtime : x # r => claim'[x] = claim[x]
      /\ claim'[r].at # "free"
      /\ claim'[r].by = Publisher \/ claim'[r] = claim[r]
  BY <1>1, Constants, ClaimTaken, Zenon
<1>3. /\ publisher' \in [Notice -> Runtime \cup {Nothing, "deciding"}]
      /\ \A k : k # n => publisher'[k] = publisher[k]
  BY <1>1 DEF WakeInv, ClaimType
<1>4. ClaimType' /\ ClaimInv'
  BY <1>1, <1>2, <1>3, Constants DEF WakeInv, ClaimType, ClaimInv
<1>5. \A k : Scanned(k)' = Scanned(k)
  BY <1>1, Zenon DEF Scanned
<1>6. OwedInv' /\ FlightInv'
  BY <1>1, <1>3, <1>5, Constants, ClaimOwed, Zenon
<1>7. ScanInv'
  BY <1>1, Zenon DEF WakeInv, ScanInv
<1> QED BY <1>1, <1>4, <1>6, <1>7, DecisionFrame, Zenon DEF WakeInv

\* Moving a scan on by one notice loses that notice only.
LEMMA ScanMovesOn ==
    ASSUME ClaimType, NEW s \in Scanner, NEW n,
           scan' = [scan EXCEPT ![s] = @ \ {n}]
    PROVE  /\ scan' \in [Scanner -> SUBSET Notice]
           /\ \A u \in Scanner : u # s => scan'[u] = scan[u]
           /\ scan'[s] \subseteq scan[s]
           /\ \A k : Scanned(k) => Scanned(k)' \/ k = n
<1>1. /\ scan' \in [Scanner -> SUBSET Notice] /\ scan'[s] = scan[s] \ {n}
      /\ \A u \in Scanner : u # s => scan'[u] = scan[u]
  BY Zenon DEF ClaimType
<1> QED BY <1>1, Zenon DEF Scanned

\* The invariant is kept when a scan takes its next notice to the claim, or
\* leaves it to the claim's holder and goes on.
LEMMA ClaimScannedStep ==
    ASSUME WakeInv, NEW s \in Scanner, ClaimScanned(s)
    PROVE  WakeInv'
<1>1. PICK n \in scan[s] :
      /\ claim["controller"].by # s
      /\ Claim("controller", s, n)
      /\ scan' = IF claim["controller"].at = "free"
                    THEN scan ELSE [scan EXCEPT ![s] = @ \ {n}]
      /\ UNCHANGED <<log, delivered, stopRev, turn, msg, woken, publisher,
                     rereading>>
  BY Zenon DEF ClaimScanned, rowVars, turnVars
<1>2. n \in Notice /\ s \in Nat /\ "controller" \in Runtime
  BY <1>1, Constants, Zenon DEF WakeInv, ClaimType, Runtime
<1>3. /\ claim' \in [Runtime -> ClaimRecord]
      /\ \A x \in Runtime : x # "controller" => claim'[x] = claim[x]
      /\ claim'["controller"].at # "free"
      /\ IF claim["controller"].at = "free"
            THEN /\ claim'["controller"].at = "deciding"
                 /\ claim'["controller"].by = s
                 /\ claim'["controller"].notice = n
            ELSE claim'["controller"] = claim["controller"]
  BY <1>1, <1>2, ClaimTaken
<1>4. ASSUME scan' \in [Scanner -> SUBSET Notice],
             \A k : Scanned(k) => Scanned(k)' \/ k = n,
             \A u \in Scanner : u # s => scan'[u] = scan[u],
             scan'[s] \subseteq scan[s],
             ClaimInv'
      PROVE  WakeInv'
  <2>1. OwedInv' /\ FlightInv'
    BY <1>1, <1>2, <1>4, ClaimOwed, Zenon
  <2>2. ClaimType' /\ ScanInv'
    BY <1>1, <1>3, <1>4, Constants, Zenon DEF WakeInv, ClaimType, ScanInv
  <2> QED BY <1>1, <1>4, <2>1, <2>2, DecisionFrame, Zenon DEF WakeInv
<1>5. CASE claim["controller"].at = "free"
  <2>1. UNCHANGED scan
    BY <1>1, <1>5, Zenon
  <2>2. ClaimInv'
    BY <1>1, <1>3, <1>5, <2>1, Zenon DEF WakeInv, ClaimInv
  <2>3. \A k : Scanned(k)' = Scanned(k)
    BY <2>1, Zenon DEF Scanned
  <2> QED BY <1>4, <2>1, <2>2, <2>3, Zenon DEF WakeInv, ClaimType
<1>6. CASE claim["controller"].at # "free"
  <2>1. scan' = [scan EXCEPT ![s] = @ \ {n}]
    BY <1>1, <1>6, Zenon
  <2>2. /\ scan' \in [Scanner -> SUBSET Notice]
        /\ \A u \in Scanner : u # s => scan'[u] = scan[u]
        /\ scan'[s] \subseteq scan[s]
        /\ \A k : Scanned(k) => Scanned(k)' \/ k = n
    BY <2>1, ScanMovesOn, Zenon DEF WakeInv
  <2>3. ClaimInv'
    <3> SUFFICES ASSUME NEW x \in Runtime
                 PROVE  /\ claim'[x].at = "free" => claim'[x] = Free
                        /\ claim'[x].by \in Scanner =>
                             /\ x = "controller" /\ claim'[x].at = "deciding"
                             /\ claim'[x].notice \in scan'[claim'[x].by]
      BY Zenon DEF ClaimInv
    <3>1. CASE x = "controller"
      BY <1>1, <1>3, <1>6, <2>2, <3>1, Zenon DEF WakeInv, ClaimInv
    <3>2. CASE x # "controller"
      BY <1>3, <3>2 DEF WakeInv, ClaimInv
    <3> QED BY <3>1, <3>2, Zenon
  <2> QED BY <1>1, <1>4, <2>2, <2>3, Zenon
<1> QED BY <1>5, <1>6, Zenon

\* The invariant is kept when a decision sends a wake: the notice, and the rest
\* of the scan that found it, are left to the wake.
LEMMA StartWakeStep ==
    ASSUME WakeInv, NEW r \in Runtime, StartWake(r)
    PROVE  WakeInv'
<1> DEFINE by   == claim[r].by
           n    == claim[r].notice
           rest == IF by \in Scanner THEN scan[by] ELSE {}
<1>1. /\ claim[r].at = "deciding" /\ n \in Waking
      /\ claim' = [claim EXCEPT ![r].at = "waking", ![r].by = Nobody]
      /\ fate' = Fate({n} \cup rest, At(r))
      /\ msg' = [msg EXCEPT ![r] = [Idle EXCEPT !.at = "sent", !.notice = n]]
      /\ publisher' = IF by = Publisher
                         THEN [publisher EXCEPT ![n] = Nothing] ELSE publisher
      /\ scan' = IF by \in Scanner THEN [scan EXCEPT ![by] = {}] ELSE scan
      /\ UNCHANGED <<log, delivered, stopRev, turn, woken, rereading>>
  BY Zenon DEF StartWake, MayStart, rowVars
<1>2. n \in Notice /\ n \in Found /\ Nobody \in Nat /\ Nobody \notin Scanner
  BY <1>1, Constants, Zenon DEF Found
<1>4. /\ \A s \in Scanner : scan'[s] = scan[s] \/ scan'[s] = {}
      /\ scan' \in [Scanner -> SUBSET Notice]
      /\ by \in Scanner => scan'[by] = {}
      /\ \A s \in Scanner : s # by => scan'[s] = scan[s]
  BY <1>1, Zenon DEF WakeInv, ClaimType
<1>5. \A k : Scanned(k) => Scanned(k)' \/ k \in rest
  BY <1>4, Zenon DEF Scanned
<1> HIDE DEF rest
<1>6. claim' \in [Runtime -> ClaimRecord]
  BY <1>1, <1>2, Zenon DEF WakeInv, ClaimType, ClaimRecord
<1>7. /\ \A x \in Runtime : x # r => claim'[x] = claim[x]
      /\ claim'[r].at = "waking" /\ claim'[r].by = Nobody
      /\ claim'[r].notice = n /\ claim'[r].recheck = claim[r].recheck
  BY <1>1, Zenon DEF WakeInv, ClaimType, ClaimRecord
<1>8. /\ publisher' \in [Notice -> Runtime \cup {Nothing, "deciding"}]
      /\ \A k : k # n => publisher'[k] = publisher[k]
  BY <1>1, <1>2 DEF WakeInv, ClaimType
<1>9. PICK w : w = [Idle EXCEPT !.at = "sent", !.notice = n]
  BY Zenon
<1>10. w \in MessageRecord /\ r \in Message
  BY <1>2, <1>9, IdleRecords, Zenon DEF MessageRecord, Message
<1>11. w.at = "sent" /\ w.notice = n
  BY <1>9, Zenon DEF Idle
<1> HIDE DEF by, n
<1>12. /\ msg' \in [Message -> MessageRecord] /\ msg'[r] = w
       /\ \A k \in Message : k # r => msg'[k] = msg[k]
  BY <1>1, <1>9, <1>10, Zenon DEF WakeInv, MessageType
<1>13. FlightInv'
  <2> SUFFICES ASSUME NEW x \in Runtime
               PROVE  claim'[x].at = "waking" <=> msg'[x].at # "idle"
    BY Zenon DEF FlightInv
  <2>1. CASE x = r
    BY <1>7, <1>11, <1>12, <2>1
  <2>2. CASE x # r
    BY <1>7, <1>12, <2>2, Zenon DEF WakeInv, FlightInv, Message
  <2> QED BY <2>1, <2>2, Zenon
<1>14. OwedInv'
  <2>1. SUFFICES ASSUME NEW k \in Pending \cap Waking
                 PROVE  Owed(k)'
    BY <1>1, PendingKept, Zenon DEF OwedInv
  <2>2. CASE k \in {n} \cup rest
    <3>1. fate'[k].at = r
      BY <1>1, <2>2 DEF Fate, At
    <3> QED BY <1>11, <1>12, <3>1, Zenon DEF Owed, Carried, Sending
  <2>3. CASE k \notin {n} \cup rest
    <3>1. fate'[k] = fate[k] /\ Owed(k)
      BY <1>1, <2>3, Zenon DEF Fate, WakeInv, OwedInv
    <3>2. Claimed(k) => Claimed(k)'
      BY <1>7, <2>3, Zenon DEF Claimed, n
    <3>3. \A x \in Runtime :
            claim[x].at = "deciding" \/ msg[x].at \in Sending
              => claim'[x].at = "deciding" \/ msg'[x].at \in Sending
      BY <1>7, <1>11, <1>12, Zenon DEF Message, Sending
    <3>4. claim'["controller"].recheck = claim["controller"].recheck
      BY <1>7, Zenon DEF Runtime
    <3> QED BY <1>1, <1>5, <1>8, <2>3, <3>1, <3>2, <3>3, <3>4, OthersOwed, Zenon
  <2> QED BY <2>2, <2>3, Zenon
<1>15. ClaimType'
  BY <1>4, <1>6, <1>8, Zenon DEF ClaimType
<1>16. ClaimInv'
  <2> SUFFICES ASSUME NEW x \in Runtime
               PROVE  /\ claim'[x].at = "free" => claim'[x] = Free
                      /\ claim'[x].by \in Scanner =>
                           /\ x = "controller" /\ claim'[x].at = "deciding"
                           /\ claim'[x].notice \in scan'[claim'[x].by]
    BY Zenon DEF ClaimInv
  <2>1. CASE x = r
    BY <1>2, <1>7, <2>1, Zenon
  <2>2. CASE x # r
    BY <1>4, <1>7, <2>2 DEF WakeInv, ClaimInv, by
  <2> QED BY <2>1, <2>2, Zenon
<1>17. NoticeInv' /\ LeaseInv'
  BY <1>1, <1>11, <1>12 DEF WakeInv, NoticeInv, LeaseInv, Message, Runtime
<1>18. RowType' /\ TurnType' /\ MessageType' /\ TodoInv' /\ WakesAreDue'
  BY <1>1, <1>12, Zenon
     DEF WakeInv, RowType, TurnType, MessageType, TodoInv, WakesAreDue
<1>19. ScanInv'
  BY <1>1, <1>4, Constants, Zenon DEF WakeInv, ScanInv
<1> QED BY <1>13, <1>14, <1>15, <1>16, <1>17, <1>18, <1>19, Zenon DEF WakeInv

\* What becomes of the notices of a decision that starts no turn: they are left
\* to the turn it found, or meet with an end.
LEMMA Dropped ==
    ASSUME HolderType, NEW r \in Runtime, NEW n \in Waking,
           fate' = FateOfDropped(r), UNCHANGED turn
    PROVE  \/ Owed(n)'
           \/ /\ fate'[n] = fate[n] /\ n # claim[r].notice
              /\ n \notin Behind(r) /\ n \notin DeferredTo(r)
<1>1. CASE Active(r)
  <2>1. Holder(r) \in Turn
    BY <1>1, Constants, Zenon DEF HolderType, Active, Holder
  <2>2. fate' = Fate({claim[r].notice} \cup Behind(r) \cup DeferredTo(r),
                     LeftTo(Holder(r)))
    BY <1>1, Zenon DEF FateOfDropped
  <2>3. fate'[n] = LeftTo(Holder(r)) => Owed(n)'
    <3>1. PICK t \in Turn : t = Holder(r)
      BY <2>1, Zenon
    <3> QED BY <3>1, LeftToTurns, Zenon
  <2> QED BY <2>2, <2>3, Zenon DEF Fate
<1>2. CASE ~Active(r)
  <2>1. fate'[n] = CASE n = claim[r].notice -> At("limit")
                     [] n \in Behind(r)     -> At("claim")
                     [] n \in DeferredTo(r) -> At("recheck")
                     [] OTHER               -> fate[n]
    BY <1>2, Zenon DEF FateOfDropped
  <2>2. {"limit", "claim", "recheck"} \subseteq Excused \cup Forgotten
    BY Zenon DEF Excused, Forgotten
  <2>3. (\E a \in Excused \cup Forgotten : fate'[n] = At(a)) => Owed(n)'
    BY AtAnEnd, Zenon
  <2> QED BY <2>1, <2>2, <2>3
<1> QED BY <1>1, <1>2, Zenon

\* The invariant is kept when a decision starts no turn.
LEMMA DropWakeStep ==
    ASSUME WakeInv, HolderType, NEW r \in Runtime, DropWake(r)
    PROVE  WakeInv'
<1> DEFINE by == claim[r].by
           n  == claim[r].notice
<1>1. /\ claim[r].at = "deciding" /\ claim' = [claim EXCEPT ![r] = Free]
      /\ publisher' = IF by = Publisher
                         THEN [publisher EXCEPT ![n] = Nothing] ELSE publisher
      /\ scan' = IF by \in Scanner
                    THEN [scan EXCEPT ![by] = @ \ {n}] ELSE scan
      /\ fate' = FateOfDropped(r)
      /\ UNCHANGED <<log, delivered, stopRev, turn, msg, woken, rereading>>
  BY Zenon DEF DropWake, rowVars, turnVars
<1> HIDE DEF by, n
<1>2. /\ claim' \in [Runtime -> ClaimRecord] /\ claim'[r] = Free
      /\ \A x \in Runtime : x # r => claim'[x] = claim[x]
  BY <1>1, IdleRecords, Zenon DEF WakeInv, ClaimType
<1>3. /\ publisher' \in [Notice -> Runtime \cup {Nothing, "deciding"}]
      /\ \A k \in Notice : k # n => publisher'[k] = publisher[k]
  <2>1. publisher \in [Notice -> Runtime \cup {Nothing, "deciding"}]
    BY Zenon DEF WakeInv, ClaimType
  <2>2. CASE by = Publisher
    BY <1>1, <2>1, <2>2, Zenon
  <2>3. CASE by # Publisher
    BY <1>1, <2>1, <2>3, Zenon
  <2> QED BY <2>2, <2>3, Zenon
<1>4. /\ scan' \in [Scanner -> SUBSET Notice]
      /\ \A u \in Scanner : u # by => scan'[u] = scan[u]
      /\ \A k : Scanned(k) => Scanned(k)' \/ k = n
  <2>1. CASE by \in Scanner
    <3>1. scan' = [scan EXCEPT ![by] = @ \ {n}]
      BY <1>1, <2>1, Zenon
    <3> QED BY <2>1, <3>1, ScanMovesOn, Zenon DEF WakeInv
  <2>2. CASE by \notin Scanner
    <3>1. UNCHANGED scan
      BY <1>1, <2>2, Zenon
    <3>2. \A k : Scanned(k)' = Scanned(k)
      BY <3>1, Zenon DEF Scanned
    <3> QED BY <2>2, <3>1, <3>2, Zenon DEF WakeInv, ClaimType
  <2> QED BY <2>1, <2>2, Zenon
<1>5. OwedInv' /\ FlightInv'
  <2>1. FlightInv'
    <3> SUFFICES ASSUME NEW x \in Runtime
                 PROVE  claim'[x].at = "waking" <=> msg[x].at # "idle"
      BY <1>1, Zenon DEF FlightInv
    <3>1. CASE x = r
      BY <1>1, <1>2, <3>1 DEF WakeInv, FlightInv, Free
    <3>2. CASE x # r
      BY <1>2, <3>2, Zenon DEF WakeInv, FlightInv
    <3> QED BY <3>1, <3>2, Zenon
  <2>2. SUFFICES ASSUME NEW k \in Pending \cap Waking, fate'[k] = fate[k],
                        k # n, k \notin Behind(r), k \notin DeferredTo(r)
                 PROVE  Owed(k)'
    BY <1>1, <2>1, PendingKept, Dropped, Zenon DEF OwedInv, n
  <2>3. Owed(k) /\ k \in Notice
    BY Constants, Zenon DEF WakeInv, OwedInv
  <2>4. Claimed(k) => Claimed(k)'
    BY <1>2, <2>2, Zenon DEF Claimed, n
  <2>5. \A x \in Runtime :
          fate[k].at = x /\ (claim[x].at = "deciding" \/ msg[x].at \in Sending)
            => claim'[x].at = "deciding" \/ msg'[x].at \in Sending
    BY <1>1, <1>2, <2>2, Zenon DEF Behind
  <2>6. \A t \in Turn :
          WaitsFor(k, t) /\ (rereading \/ claim["controller"].recheck)
            => rereading' \/ claim'["controller"].recheck \/ WillRecheck(t)'
    <3> SUFFICES ASSUME NEW t \in Turn, WaitsFor(k, t), ~rereading,
                        claim["controller"].recheck
                 PROVE  claim'["controller"].recheck \/ WillRecheck(t)'
      BY <1>1, Zenon
    <3>1. CASE r = "controller"
      <4>1. WillRecheck(t)
        BY <2>2, <3>1, Zenon DEF DeferredTo, WaitsFor
      <4> QED BY <1>1, <4>1, Zenon DEF WillRecheck
    <3>2. CASE r # "controller"
      BY <1>2, <3>2, Zenon DEF Runtime
    <3> QED BY <3>1, <3>2, Zenon
  <2> QED BY <1>1, <1>3, <1>4, <2>2, <2>3, <2>4, <2>5, <2>6, OthersOwed, Zenon
<1>6. ClaimType' /\ ScanInv'
  BY <1>1, <1>2, <1>3, <1>4, Constants, Zenon DEF WakeInv, ClaimType, ScanInv
<1>7. ClaimInv'
  <2> SUFFICES ASSUME NEW x \in Runtime
               PROVE  /\ claim'[x].at = "free" => claim'[x] = Free
                      /\ claim'[x].by \in Scanner =>
                           /\ x = "controller" /\ claim'[x].at = "deciding"
                           /\ claim'[x].notice \in scan'[claim'[x].by]
    BY Zenon DEF ClaimInv
  <2>1. CASE x = r
    BY <1>2, <2>1, Constants DEF Free
  <2>2. CASE x # r
    BY <1>2, <1>4, <2>2 DEF WakeInv, ClaimInv, by
  <2> QED BY <2>1, <2>2, Zenon
<1> QED BY <1>1, <1>5, <1>6, <1>7, DecisionFrame, Zenon DEF WakeInv

\* The invariant is kept when a re-check reads the pending notices.
LEMMA RereadStep ==
    ASSUME WakeInv, Reread
    PROVE  WakeInv'
<1>1. /\ scan[0] = {} /\ scan' = [scan EXCEPT ![0] = Pending]
      /\ fate' = Fate(Waking, Open)
      /\ UNCHANGED <<log, delivered, stopRev, turn, msg, woken, publisher, claim>>
  BY Zenon DEF Reread, rowVars, turnVars
<1>2. ClaimType' /\ ClaimInv' /\ OwedInv'
  BY <1>1, Constants, ScanStarted, Zenon
<1>3. \A t \in Turn : scan'[t] = scan[t]
  BY <1>1, Constants, Zenon DEF WakeInv, ClaimType
<1>4. ScanInv' /\ FlightInv'
  BY <1>1, <1>3, Zenon DEF WakeInv, ScanInv, FlightInv
<1> QED BY <1>1, <1>2, <1>4, DecisionFrame, Zenon DEF WakeInv

\* The invariant is kept when the window of the limiter moves on, and when the
\* session is stopped.
LEMMA StopStep ==
    ASSUME WakeInv, Stop \/ \E r \in Runtime : ForgetWake(r)
    PROVE  WakeInv'
<1>1. CASE Stop
  <2>1. UNCHANGED <<log, delivered, turn, msg, woken, publisher, claim, scan,
                    rereading, fate>>
    BY <1>1, Zenon DEF Stop, turnVars, wakeVars, decisionVars
  <2>2. stopRev' \in Nat
    BY <1>1 DEF Stop, WakeInv, RowType
  <2>3. OwedInv'
    BY <2>1, PendingKept, OwedUntouched, Zenon DEF WakeInv
  <2>4. RowType' /\ TurnType' /\ MessageType' /\ NoticeInv' /\ LeaseInv'
    BY <2>1, <2>2, Zenon
       DEF WakeInv, RowType, TurnType, MessageType, NoticeInv, LeaseInv
  <2>5. TodoInv' /\ ScanInv' /\ FlightInv' /\ WakesAreDue'
    BY <2>1, Zenon DEF WakeInv, TodoInv, ScanInv, FlightInv, WakesAreDue
  <2> QED BY <2>1, <2>3, <2>4, <2>5, ClaimKept, Zenon DEF WakeInv
<1>2. ASSUME NEW r \in Runtime, ForgetWake(r)
      PROVE  WakeInv'
  BY <1>2, WakeUntouched, Zenon DEF ForgetWake, rowVars, turnVars
<1> QED BY <1>1, <1>2, Zenon

\* Lease, copy and queue are given to turns only.
LEMMA HolderStep ==
    ASSUME WakeInv, HolderType, [Next]_vars
    PROVE  HolderType'
<1> USE Constants DEF HolderType
<1>1. CASE UNCHANGED <<lease, copy, queue>>
  BY <1>1, Zenon
<1>2. ASSUME NEW m \in Message, MessageStep(m)
      PROVE  HolderType'
  <2>1. CASE Remember(m) \/ Submit(m)
    BY <2>1, Zenon DEF Remember, Submit, WakeInv, LeaseInv
  <2>2. CASE Reserve(m) \/ AdmitRefused(m)
    BY <2>2, Zenon DEF Reserve, AdmitRefused
  <2>3. CASE ~(Remember(m) \/ Submit(m) \/ Reserve(m) \/ AdmitRefused(m))
    BY <1>1, <1>2, <2>3, Zenon DEF MessageStep, TakeTicket, EnterGate,
       FindQueue, CancelMessage, Peek, Admit, Return
  <2> QED BY <2>1, <2>2, <2>3, Zenon
<1>3. ASSUME NEW t \in Turn, TurnStep(t)
      PROVE  HolderType'
  <2>1. CASE Commit(t) \/ FailOpening(t) \/ CleanUp(t)
    BY <2>1, Zenon DEF Commit, FailOpening, CleanUp
  <2>2. CASE ~(Commit(t) \/ FailOpening(t) \/ CleanUp(t))
    BY <1>1, <1>3, <2>2, Zenon DEF TurnStep, StartCommand, UseJob, Drain,
       IdleCheck, IdleRead, Interrupt, turnVars
  <2> QED BY <2>1, <2>2, Zenon
<1>4. CASE NoticeStep
  BY <1>1, <1>4, Zenon DEF NoticeStep, PublishOther, Store, ClaimPublished,
     ClaimScanned, StartWake, DropWake, ForgetWake, Reread, turnVars
<1>5. ASSUME NEW j \in Job,
             \/ JobStep(j) /\ UNCHANGED <<rowVars, turnVars, wakeVars>>
             \/ PublishJob(j) \/ JobPublished(j)
      PROVE  HolderType'
  BY <1>1, <1>5, Zenon DEF PublishJob, Store, JobPublished, turnVars
<1>6. CASE Stop \/ UNCHANGED vars
  BY <1>1, <1>6, Zenon DEF Stop, vars, turnVars
<1> QED BY <1>2, <1>3, <1>4, <1>5, <1>6, Zenon DEF Next

-----------------------------------------------------------------------------
(* The theorems                                                             *)

Inv == JobInv /\ WakeInv /\ HolderType

\* The invariant holds when the session starts.
LEMMA InitInv == Init => Inv
<1> SUFFICES ASSUME Init PROVE Inv
  BY Zenon
<1>1. JobInv
  BY Zenon
     DEF Init, JobsInit, JobInv, JobType, RegistryInv, ReportInv, KillInv,
         CancelledIsKilled
<1>2. /\ turn = [t \in Turn |-> Unborn] /\ msg = [m \in Message |-> Idle]
      /\ claim = [r \in Runtime |-> Free] /\ scan = [s \in Scanner |-> {}]
      /\ publisher = [n \in Notice |-> Nothing] /\ log = <<>>
      /\ woken = [t \in Turn |-> Nothing] /\ stopRev = 0
      /\ delivered = [n \in Notice |-> 0]
  BY Zenon DEF Init
<1>3. TurnType /\ MessageType /\ claim \in [Runtime -> ClaimRecord]
  BY <1>2, IdleRecords, Zenon DEF TurnType, MessageType
<1>4. /\ \A t \in Turn : turn[t].at = "none"
      /\ \A m \in Message : msg[m].at = "idle" /\ msg[m].notice = Nothing
      /\ \A r \in Runtime : claim[r] = Free /\ claim[r].by \notin Scanner
  BY <1>2, Constants, Zenon DEF Unborn, Idle, Free
<1>5. RowType
  BY <1>2, Constants DEF RowType, Found
<1>6. ClaimType /\ ScanInv
  BY <1>2, <1>3, Constants, Zenon DEF ClaimType, ScanInv
<1>7. NoticeInv /\ LeaseInv /\ TodoInv /\ ClaimInv
  BY <1>4, Zenon DEF NoticeInv, LeaseInv, TodoInv, ClaimInv, Message, Runtime
<1>8. OwedInv /\ WakesAreDue
  <2>1. Pending = {}
    BY <1>2 DEF Pending, Range
  <2> QED BY <1>2, <2>1, Zenon DEF OwedInv, WakesAreDue
<1>9. FlightInv
  <2>1. Free.at = "free"
    BY DEF Free
  <2>2. \A r \in Runtime : claim[r].at = "free" /\ msg[r].at = "idle"
    BY <1>4, <2>1, Zenon DEF Message
  <2> QED BY <2>2 DEF FlightInv
<1>10. HolderType
  BY Constants, Zenon DEF Init, HolderType
<1> QED BY <1>1, <1>3, <1>5, <1>6, <1>7, <1>8, <1>9, <1>10, Zenon
        DEF Inv, WakeInv

\* Every step keeps it.
LEMMA NextInv == Inv /\ [Next]_vars => Inv'
<1> SUFFICES ASSUME JobInv, WakeInv, HolderType, [Next]_vars
             PROVE  JobInv' /\ WakeInv'
  BY HolderStep, Zenon DEF Inv
<1>1. CASE NoticeStep
  <2>1. ASSUME NEW n \in Notice, NEW r \in Runtime, PublishOther(n, r)
        PROVE  JobInv' /\ WakeInv'
    BY <2>1, JobsUntouched, StoreStep, Zenon DEF PublishOther
  <2>2. ASSUME NEW n \in Notice, ClaimPublished(n)
        PROVE  JobInv' /\ WakeInv'
    BY <2>2, JobsUntouched, ClaimPublishedStep, Zenon DEF ClaimPublished
  <2>3. ASSUME NEW s \in Scanner, ClaimScanned(s)
        PROVE  JobInv' /\ WakeInv'
    BY <2>3, JobsUntouched, ClaimScannedStep, Zenon DEF ClaimScanned
  <2>4. ASSUME NEW r \in Runtime, StartWake(r)
        PROVE  JobInv' /\ WakeInv'
    BY <2>4, JobsUntouched, StartWakeStep, Zenon DEF StartWake
  <2>5. ASSUME NEW r \in Runtime, DropWake(r)
        PROVE  JobInv' /\ WakeInv'
    BY <2>5, JobsUntouched, DropWakeStep, Zenon DEF DropWake
  <2>6. ASSUME NEW r \in Runtime, ForgetWake(r)
        PROVE  JobInv' /\ WakeInv'
    BY <2>6, JobsUntouched, StopStep, Zenon DEF ForgetWake
  <2>7. ASSUME Reread
        PROVE  JobInv' /\ WakeInv'
    BY <2>7, JobsUntouched, RereadStep, Zenon DEF Reread
  <2> QED BY <1>1, <2>1, <2>2, <2>3, <2>4, <2>5, <2>6, <2>7, Zenon
          DEF NoticeStep
<1>2. ASSUME NEW m \in Message, MessageStep(m)
      PROVE  JobInv' /\ WakeInv'
  <2>1. UNCHANGED jobsVars
    BY <1>2, Zenon DEF MessageStep, TakeTicket, EnterGate, FindQueue,
       CancelMessage, Peek, Reserve, Admit, AdmitRefused, Remember, Submit,
       Return
  <2>2. WakeInv'
    BY <1>2, GateStep, GateRefused, ReserveStep, AdmitStep, AdmitRefusedStep, OpenStep,
       ReturnStep, Zenon DEF MessageStep
  <2> QED BY <2>1, <2>2, JobsUntouched, Zenon
<1>3. ASSUME NEW t \in Turn, TurnStep(t)
      PROVE  JobInv' /\ WakeInv'
  <2>1. ASSUME NEW j \in Job, StartCommand(t, j) \/ UseJob(t, j)
        PROVE  JobInv' /\ WakeInv'
    <3>1. JobInv'
      BY <2>1, CallKeepsJobs, OthersKeepJobs, Zenon DEF StartCommand, UseJob
    <3>2. UNCHANGED <<log, delivered, stopRev, turn, msg, woken, publisher,
                      claim, scan, rereading, fate>>
      BY <2>1, Zenon DEF StartCommand, UseJob, rowVars, turnVars, wakeVars,
         decisionVars
    <3> QED BY <3>1, <3>2, WakeUntouched, Zenon
  <2>2. CASE Drain(t)
    BY <2>2, JobsUntouched, DrainStep, Zenon DEF Drain
  <2>3. CASE Commit(t) \/ FailOpening(t)
    BY <2>3, JobsUntouched, EndStep, Zenon DEF Commit, FailOpening
  <2>4. CASE Interrupt(t)
    BY <2>4, InterruptKeepsJobs, EndStep, Zenon
  <2>5. CASE IdleCheck(t)
    BY <2>5, JobsUntouched, IdleCheckStep, Zenon DEF IdleCheck
  <2>6. CASE IdleRead(t)
    BY <2>6, JobsUntouched, IdleReadStep, Zenon DEF IdleRead
  <2>7. CASE CleanUp(t)
    BY <2>7, JobsUntouched, CleanedUp, Zenon DEF CleanUp
  <2> QED BY <1>3, <2>1, <2>2, <2>3, <2>4, <2>5, <2>6, <2>7, Zenon
          DEF TurnStep
<1>4. ASSUME NEW j \in Job,
             \/ JobStep(j) /\ UNCHANGED <<rowVars, turnVars, wakeVars>>
             \/ PublishJob(j) \/ JobPublished(j)
      PROVE  JobInv' /\ WakeInv'
  <2>1. JobInv'
    BY <1>4, CallKeepsJobs, MonitorKeepsJobs, OthersKeepJobs, Zenon
       DEF JobStep, PublishJob, JobPublished
  <2>2. CASE PublishJob(j)
    BY <2>1, <2>2, StoreStep, Constants, Zenon DEF PublishJob, Runtime
  <2>3. CASE ~PublishJob(j)
    <3>1. UNCHANGED <<log, delivered, stopRev, turn, msg, woken, publisher,
                      claim, scan, rereading, fate>>
      BY <1>4, <2>3, Zenon DEF JobPublished, rowVars, turnVars, wakeVars,
         decisionVars
    <3> QED BY <2>1, <3>1, WakeUntouched, Zenon
  <2> QED BY <2>2, <2>3, Zenon
<1>5. CASE Stop
  BY <1>5, JobsUntouched, StopStep, Zenon DEF Stop
<1>6. CASE UNCHANGED vars
  <2>1. UNCHANGED <<log, delivered, stopRev, turn, msg, woken, publisher,
                    claim, scan, rereading, fate>>
    BY <1>6, Zenon DEF vars, rowVars, turnVars, wakeVars,
         decisionVars
  <2> QED BY <1>6, <2>1, JobsUntouched, WakeUntouched, Zenon DEF vars
<1> QED BY <1>1, <1>2, <1>3, <1>4, <1>5, <1>6, Zenon DEF Next

\* The inductive invariant of commands, notices and turns.
THEOREM Invariant == Spec => []Inv
BY InitInv, NextInv, PTL DEF Spec

\* A command never ends in silence: the end of a job whose handle runCommand
\* handed out is published, unless a write for it failed (jobs.go, Release and
\* finalize).
THEOREM CommandsReport == Spec => []NeverSilent
<1>1. Inv => NeverSilent
  BY Zenon DEF Inv, JobInv, JobType, ReportInv, NeverSilent
<1> QED BY <1>1, Invariant, PTL

\* A command in the foreground does not outlive its cancelled call
\* (stopForegroundCommand).
THEOREM CancelledCommandsDie == Spec => []CancelledIsKilled
<1>1. Inv => CancelledIsKilled
  BY Zenon DEF Inv, JobInv, KillInv
<1> QED BY <1>1, Invariant, PTL

\* A turn that a wake started opened with the notice the wake was sent for,
\* and that notice asked for a wake (validateWakeAdmission).
THEOREM WakesOpenWithTheirNotice == Spec => []WakesAreDue
<1>1. Inv => WakesAreDue
  BY Zenon DEF Inv, WakeInv
<1> QED BY <1>1, Invariant, PTL

\* In a quiet session a notice that asks for a wake is pending only if it met
\* with one of the named ends since it was last considered (considerWake,
\* handleSessionIdle, recheckIdleWake).
THEOREM NothingLeftBehind == Spec => []QuietMeansServed
<1>1. Inv => QuietMeansServed
  <2> SUFFICES ASSUME WakeInv, Quiet, NEW n \in Pending, n \in Waking, ~Ended(n)
               PROVE  FALSE
    BY Zenon DEF Inv, QuietMeansServed, Ended
  <2>1. Owed(n)
    BY Zenon DEF WakeInv, OwedInv
  <2>2. /\ \A r \in Runtime : claim[r].at = "free" /\ msg[r].at = "idle"
        /\ \A t \in Turn : turn[t].at \in {"none", "done"}
    BY Zenon DEF Quiet, Message
  <2>3. ~Watched(n)
    <3>1. publisher[n] \notin Runtime
      BY Constants, Zenon DEF Quiet, Runtime, Nothing
    <3>2. ~Claimed(n) /\ ~Scanned(n)
      BY <2>2, Zenon DEF Quiet, Claimed, Scanned
    <3> QED BY <3>1, <3>2, Zenon DEF Watched
  <2>4. ~Carried(n)
    BY <2>2, Zenon DEF Carried, Sending
  <2>5. ~Rechecked(n)
    <3>1. \A t \in Turn : ~WillRecheck(t)
      BY <2>2, Zenon DEF WillRecheck
    <3>2. ~rereading /\ claim["controller"] = Free
      BY <2>2, Zenon DEF Quiet, WakeInv, ClaimInv, Runtime
    <3>3. ~claim["controller"].recheck
      BY <3>2 DEF Free
    <3> QED BY <3>1, <3>2, <3>3, Zenon DEF Rechecked
  <2> QED BY <2>1, <2>3, <2>4, <2>5, Zenon DEF Owed
<1> QED BY <1>1, Invariant, PTL
=============================================================================
