-------------------------------- MODULE Feed --------------------------------
(***************************************************************************)
(* The event feed of one session: the rows that committed transactions add *)
(* to it, the pump that carries them to the live clients and reports the   *)
(* admission of messages, and a client that attaches, replays what it      *)
(* missed over REST and then follows its socket.                           *)
(*                                                                         *)
(* A row is numbered by its place in `rows`.  The rows of a session live   *)
(* in three tables, and a page of the feed reads them one after the other, *)
(* outside any transaction, so that commits may fall between the reads.    *)
(***************************************************************************)
EXTENDS Naturals, Sequences, FiniteSets, SequencesExt, FiniteSetsExt

CONSTANTS
  Message,    \* messages whose admission the turn router watches for
  Kind,       \* the tables that commits write to
  MaxRows,    \* bound: rows of the feed
  MaxBatch,   \* bound: rows of one transaction
  PageLimit,  \* rows of one page
  MaxFaults   \* bound: failed reads and calls, lost frames and connections,
              \* and restarts of the controller

\* The order in which ListFeed reads the tables.
Tables == <<"event", "agentRunEvent", "notice">>

NoMessage == "none"

Reader == {"pump", "client"}

ASSUME FeedAssumption ==
  /\ Kind \subseteq Range(Tables) /\ "event" \in Kind
  /\ MaxRows \in Nat /\ MaxBatch \in Nat \ {0}
  /\ PageLimit \in Nat \ {0} /\ MaxFaults \in Nat
  /\ NoMessage \notin Message

VARIABLES
  rows,       \* the stored rows: [kind, message], message for an admission
  signals,    \* first rows of the commits that have not signalled the pump yet
  pump,       \* the pump's state for the session
  page,       \* for each reader, the page it is reading
  published,  \* rows this controller's pump has handed to deliver, in order
  watch,      \* for each message, the state of its admission watch
  api,        \* the API serves requests and has registered its sink
  client,     \* the attached client
  socket,     \* [state, frames]: its connection and the frames under way
  applied,    \* rows given to the client's sink, in order
  torn,       \* history: for each reader, rows that pages passed and that
              \* were committed too late for the read of their table
  faults      \* faults so far

vars == <<rows, signals, pump, page, published, watch, api, client, socket,
          applied, torn, faults>>

storeVars == <<rows, signals>>
pumpVars == <<pump, published, watch>>
clientVars == <<client, applied>>
pageVars == <<page, torn>>

-----------------------------------------------------------------------------
(* State. *)

Row == [kind : Kind, message : Message \cup {NoMessage}]

\* tables: how many tables have been read; got: the rows found in them; late,
\* a history: rows committed since, to a table that had been read already.
NoPage == [tables |-> 0, got |-> {}, late |-> {}]

\* failed: whether the last read failed; no action reads it.
\* out: rows of the page that the sink has still to broadcast.
NewPump ==
  [initialized |-> FALSE, last |-> 0, running |-> FALSE, dirty |-> FALSE,
   delivering |-> FALSE, out |-> <<>>, failed |-> FALSE]

\* pc: what the client does; last: the row it has reached; start: where it
\* began; frame: the live frame it catches up for, 0 when it is for a dial.
NewClient == [pc |-> "new", last |-> 0, start |-> 0, frame |-> 0]

NoSocket == [state |-> "none", frames |-> <<>>]

Init ==
  /\ rows = <<>> /\ signals = {} /\ pump = NewPump
  /\ page = [r \in Reader |-> NoPage]
  /\ published = <<>> /\ watch = [m \in Message |-> "idle"]
  /\ api = TRUE /\ client = NewClient /\ socket = NoSocket
  /\ applied = <<>> /\ torn = [r \in Reader |-> {}] /\ faults = 0

Fault == faults < MaxFaults /\ faults' = faults + 1

-----------------------------------------------------------------------------
(* The store: committed rows and pages of them. *)

Admissions(batch) ==
  {batch[i].message : i \in DOMAIN batch} \ {NoMessage}

\* A userMessage.created event is written once for a message, by the worker
\* that was asked to run it after its watch was registered.
MayWrite(batch) ==
  /\ Len(rows) + Len(batch) <= MaxRows
  /\ \A i \in DOMAIN batch :
       batch[i].message # NoMessage =>
         /\ batch[i].kind = "event"
         /\ watch[batch[i].message] # "idle"
         /\ batch[i].message \notin Admissions(rows)
         /\ \A j \in DOMAIN batch :
              j # i => batch[j].message # batch[i].message

PageRead(r) == page[r].tables = Len(Tables)

\* The rows of a batch that are too late for a page under way.
TooLate(r, batch) ==
  {Len(rows) + i : i \in {j \in DOMAIN batch :
      ~PageRead(r) /\ \E k \in 1 .. page[r].tables : Tables[k] = batch[j].kind}}

\* feedTransaction: the rows are committed with the sequence numbers after the
\* head; the signal is given afterwards, outside the transaction.
Commit(batch) ==
  /\ MayWrite(batch)
  /\ rows' = rows \o batch
  /\ signals' = signals \cup {Len(rows) + 1}
  /\ page' = [r \in Reader |->
               [page[r] EXCEPT !.late = @ \cup TooLate(r, batch)]]
  /\ UNCHANGED <<torn, api, socket, faults>>
  /\ UNCHANGED <<pumpVars, clientVars>>

\* The n smallest members of S.
Smallest(S, n) == {x \in S : Cardinality({y \in S : y < x}) < n}

\* One table's rows after the cursor, oldest first and one more than a page
\* holds.
RowsOfTable(k, cursor) ==
  Smallest({n \in DOMAIN rows : rows[n].kind = k /\ n > cursor}, PageLimit + 1)

\* The next of ListFeed's three reads.
ReadTable(r, cursor) ==
  /\ page' = [page EXCEPT ![r] =
                [@ EXCEPT !.tables = @ + 1,
                          !.got = @ \cup RowsOfTable(Tables[page[r].tables + 1],
                                                    cursor)]]
  /\ UNCHANGED torn

\* A merge that takes the events of the page before its other rows.
ItemsUnsorted(r) ==
  LET events == {n \in page[r].got : rows[n].kind = "event"}
      first == Smallest(events, PageLimit)
  IN first \cup Smallest(page[r].got \ events, PageLimit - Cardinality(first))

\* The merge of the candidates: sorted over the tables, then cut.
Items(r) == Smallest(page[r].got, PageLimit)

HasMore(r) == Cardinality(page[r].got) > PageLimit

NextCursor(r, cursor) ==
  IF Items(r) = {} THEN cursor ELSE Max(Items(r))

\* The reader is done with its page, or gives it up.
EndPage(r, cursor) ==
  /\ page' = [page EXCEPT ![r] = NoPage]
  /\ torn' = [torn EXCEPT ![r] =
                @ \cup ((cursor + 1 .. NextCursor(r, cursor)) \cap page[r].late)]

GiveUpPage(r) == page' = [page EXCEPT ![r] = NoPage] /\ UNCHANGED torn

InOrder(S) == SetToSortSeq(S, <)

-----------------------------------------------------------------------------
(* The pump. *)

DirtyDropped(p) == p

\* A signal that finds the goroutine running makes it look once more.
MarkDirty(p) == [p EXCEPT !.dirty = TRUE]

\* The first signal of a session places the cursor.
PlaceCursor(p, first) ==
  IF p.initialized THEN p
  ELSE [p EXCEPT !.initialized = TRUE, !.last = first - 1]

\* Signal: called by a writer after its commit, in no order with the others.
Signal(first) ==
  /\ first \in signals
  /\ signals' = signals \ {first}
  /\ LET p == PlaceCursor(pump, first)
     IN pump' = IF p.running THEN MarkDirty(p)
                ELSE [p EXCEPT !.running = TRUE, !.failed = FALSE]
  /\ UNCHANGED <<rows, pageVars, published, watch, api, socket, faults, clientVars>>

Reading == pump.running /\ ~pump.delivering

PumpReads ==
  /\ Reading /\ ~PageRead("pump")
  /\ ReadTable("pump", pump.last)
  /\ UNCHANGED <<storeVars, pumpVars, api, clientVars, socket, faults>>

\* A failed read ends the goroutine; a dirty mark stays.
PumpReadFails ==
  /\ Reading /\ ~PageRead("pump") /\ Fault
  /\ pump' = [pump EXCEPT !.running = FALSE, !.failed = TRUE]
  /\ GiveUpPage("pump")
  /\ UNCHANGED <<storeVars, published, watch, api, clientVars, socket>>

ReportToSinkOnly(items) ==
  [m \in Message |->
     IF /\ api /\ watch[m] = "watching"
        /\ \E n \in items : rows[n].message = m
     THEN "admitted" ELSE watch[m]]

\* Only an event item that is a userMessage.created ends a watch.
ReportAdmissions(items) ==
  [m \in Message |->
     IF watch[m] = "watching" /\ \E n \in items : rows[n].message = m
     THEN "admitted" ELSE watch[m]]

\* deliver: admissions first, then the sink, if there is one.
Deliver ==
  /\ Reading /\ PageRead("pump")
  /\ watch' = ReportAdmissions(Items("pump"))
  /\ published' = published \o InOrder(Items("pump"))
  /\ pump' = [pump EXCEPT !.delivering = TRUE,
                          !.out = IF api THEN InOrder(Items("pump")) ELSE <<>>]
  /\ UNCHANGED <<storeVars, pageVars, api, clientVars, socket, faults>>

\* BroadcastFeedItems hands the page to the hub frame by frame; the hub drops
\* a frame for a client whose buffer is full.
Broadcast ==
  /\ pump.delivering /\ pump.out # <<>>
  /\ pump' = [pump EXCEPT !.out = Tail(@)]
  /\ \/ /\ socket' = IF socket.state = "open"
                     THEN [socket EXCEPT !.frames = Append(@, Head(pump.out))]
                     ELSE socket
        /\ UNCHANGED faults
     \/ socket.state = "open" /\ Fault /\ UNCHANGED socket
  /\ UNCHANGED <<storeVars, pageVars, published, watch, api, clientVars>>

\* What the goroutine does after a page: read on, look once more, or stop.
AfterPage(p, more) ==
  IF more THEN p
  ELSE IF p.dirty THEN [p EXCEPT !.dirty = FALSE]
  ELSE [p EXCEPT !.running = FALSE]

PassedAtEnd(p) ==
  [p EXCEPT !.last = IF HasMore("pump") \/ p.dirty THEN @
                     ELSE NextCursor("pump", @),
            !.delivering = FALSE]

\* The cursor moves to the last row delivered.
Passed(p) == [p EXCEPT !.last = NextCursor("pump", @), !.delivering = FALSE]

Advance ==
  /\ pump.delivering /\ pump.out = <<>>
  /\ pump' = AfterPage(Passed(pump), HasMore("pump"))
  /\ EndPage("pump", pump.last)
  /\ UNCHANGED <<storeVars, published, watch, api, clientVars, socket, faults>>

\* The router registers the watch before it asks the worker, and stops it when
\* the call returns.
WatchAdmission(m) ==
  /\ watch[m] = "idle"
  /\ watch' = [watch EXCEPT ![m] = "watching"]
  /\ UNCHANGED <<storeVars, pump, published, pageVars, api, clientVars, socket,
                 faults>>

StopWatching(m) ==
  /\ watch[m] = "watching"
  /\ watch' = [watch EXCEPT ![m] = "stopped"]
  /\ UNCHANGED <<storeVars, pump, published, pageVars, api, clientVars, socket,
                 faults>>

-----------------------------------------------------------------------------
(* The client. *)

CatchUpFor(c, frame) == [c EXCEPT !.pc = "catchUp", !.frame = frame]

\* Attach with a cursor replays from it; without one it starts at the head.
Attach ==
  /\ client.pc = "new" /\ api
  /\ \/ \E cursor \in 0 .. Len(rows) :
          client' = CatchUpFor([client EXCEPT !.last = cursor,
                                              !.start = cursor], 0)
     \/ client' = [client EXCEPT !.pc = "dial", !.last = Len(rows),
                                 !.start = Len(rows)]
  /\ UNCHANGED <<storeVars, pumpVars, pageVars, api, socket, applied, faults>>

ClientReads ==
  /\ client.pc = "catchUp" /\ api /\ ~PageRead("client")
  /\ ReadTable("client", client.last)
  /\ UNCHANGED <<storeVars, pumpVars, api, clientVars, socket, faults>>

\* attachCatchUp returns the error of a failed call, and Attach ends with it.
CatchUpFails ==
  /\ client.pc = "catchUp"
  /\ \/ ~api /\ UNCHANGED faults
     \/ api /\ Fault
  /\ client' = [client EXCEPT !.pc = "failed"]
  /\ GiveUpPage("client")
  /\ socket' = NoSocket
  /\ UNCHANGED <<storeVars, pumpVars, api, applied>>

Take(c, done) ==
  [client |-> [c EXCEPT !.pc = "live", !.last = c.frame, !.frame = 0],
   applied |-> Append(done, c.frame)]

Drop(c, done) ==
  [client |-> [c EXCEPT !.pc = "live", !.frame = 0], applied |-> done]

OnFrameTakesGap(c, done) ==
  IF c.frame <= c.last THEN Drop(c, done) ELSE Take(c, done)

OnFrameTakesDuplicate(c, done) ==
  IF c.frame > c.last + 1
  THEN [client |-> [c EXCEPT !.pc = "catchUp"], applied |-> done]
  ELSE Take(c, done)

\* The rule for a live frame: catch up over a gap, drop what was applied, and
\* take the next row.
OnFrame(c, done) ==
  IF c.frame > c.last + 1
  THEN [client |-> [c EXCEPT !.pc = "catchUp"], applied |-> done]
  ELSE IF c.frame <= c.last THEN Drop(c, done) ELSE Take(c, done)

\* The end of a page of the replay: on to the next page, or to the dial, or
\* back to the frame that showed the gap.
CatchUpPage ==
  /\ client.pc = "catchUp" /\ api /\ PageRead("client")
  /\ LET c == [client EXCEPT !.last = NextCursor("client", @)]
         replayed == applied \o InOrder(Items("client"))
     IN IF HasMore("client")
        THEN client' = c /\ applied' = replayed
        ELSE IF c.frame = 0
        THEN client' = [c EXCEPT !.pc = "dial"] /\ applied' = replayed
        ELSE LET f == OnFrame(c, replayed)
             IN client' = f.client /\ applied' = f.applied
  /\ EndPage("client", client.last)
  /\ UNCHANGED <<storeVars, pumpVars, api, socket, faults>>

\* The hub holds the client from here on.
Dial ==
  /\ client.pc = "dial" /\ api
  /\ client' = [client EXCEPT !.pc = "live"]
  /\ socket' = [state |-> "open", frames |-> <<>>]
  /\ UNCHANGED <<storeVars, pumpVars, pageVars, api, applied, faults>>

DialFails ==
  /\ client.pc = "dial"
  /\ \/ ~api /\ UNCHANGED faults
     \/ api /\ Fault
  /\ client' = [client EXCEPT !.pc = "backoff"]
  /\ UNCHANGED <<storeVars, pumpVars, pageVars, api, socket, applied>>

ReceiveFrame ==
  /\ client.pc = "live" /\ socket.frames # <<>>
  /\ LET f == OnFrame([client EXCEPT !.frame = Head(socket.frames)], applied)
     IN client' = f.client /\ applied' = f.applied
  /\ socket' = [socket EXCEPT !.frames = Tail(@)]
  /\ UNCHANGED <<storeVars, pumpVars, pageVars, api, faults>>

\* The connection is lost with the frames under way; a client that is catching
\* up notices when it reads again.
ConnectionBreaks ==
  /\ socket.state = "open" /\ Fault
  /\ socket' = [state |-> "broken", frames |-> <<>>]
  /\ UNCHANGED <<storeVars, pumpVars, pageVars, api, clientVars>>

ReadError ==
  /\ client.pc = "live" /\ socket.state = "broken"
  /\ client' = [client EXCEPT !.pc = "backoff"]
  /\ socket' = NoSocket
  /\ UNCHANGED <<storeVars, pumpVars, pageVars, api, applied, faults>>

BackoffEnds ==
  /\ client.pc = "backoff"
  /\ client' = CatchUpFor(client, 0)
  /\ UNCHANGED <<storeVars, pumpVars, pageVars, api, socket, applied, faults>>

\* The context ends, the sink fails or the controller closes the socket
\* normally.
ClientStops ==
  /\ client.pc \in {"catchUp", "dial", "live", "backoff"}
  /\ client' = [client EXCEPT !.pc = "stopped"]
  /\ GiveUpPage("client")
  /\ socket' = NoSocket
  /\ UNCHANGED <<storeVars, pumpVars, api, applied, faults>>

-----------------------------------------------------------------------------
(* The controller. *)

\* The process ends and a new one starts: signals not yet given, the pump's
\* cursor and the watches are gone, a page being served fails, the rows stay.
Restart ==
  /\ Fault
  /\ signals' = {} /\ pump' = NewPump /\ published' = <<>>
  /\ page' = [r \in Reader |-> NoPage]
  /\ torn' = [torn EXCEPT !["pump"] = {}]
  /\ watch' = [m \in Message |->
                 IF watch[m] = "watching" THEN "stopped" ELSE watch[m]]
  /\ api' = FALSE
  /\ IF page["client"].tables > 0
     THEN client' = [client EXCEPT !.pc = "failed"] /\ socket' = NoSocket
     ELSE /\ socket' = IF socket.state = "open"
                       THEN [state |-> "broken", frames |-> <<>>] ELSE socket
          /\ UNCHANGED client
  /\ UNCHANGED <<rows, applied>>

\* The API registers its sink and begins to serve.
SetSink ==
  /\ ~api /\ api' = TRUE
  /\ UNCHANGED <<storeVars, pumpVars, pageVars, clientVars, socket, faults>>

-----------------------------------------------------------------------------
Batch == UNION {[1 .. n -> Row] : n \in 1 .. MaxBatch}

Next ==
  \/ \E batch \in Batch : Commit(batch)
  \/ \E first \in 1 .. MaxRows : Signal(first)
  \/ PumpReads \/ PumpReadFails \/ Deliver \/ Broadcast \/ Advance
  \/ \E m \in Message : WatchAdmission(m) \/ StopWatching(m)
  \/ Attach \/ ClientReads \/ CatchUpFails \/ CatchUpPage
  \/ Dial \/ DialFails \/ ReceiveFrame \/ ConnectionBreaks \/ ReadError
  \/ BackoffEnds \/ ClientStops
  \/ Restart \/ SetSink

Spec == Init /\ [][Next]_vars

-----------------------------------------------------------------------------
(* Properties. *)

\* The variables have the types of the code's fields, and only rows that are
\* stored are read, published or sent.
TypeOK ==
  /\ rows \in Seq(Row) /\ Len(rows) <= MaxRows
  /\ signals \subseteq DOMAIN rows
  /\ pump.last \in 0 .. Len(rows)
  /\ pump.delivering => pump.running
  /\ Range(pump.out) \subseteq Items("pump")
  /\ \A r \in Reader : /\ page[r].tables \in 0 .. Len(Tables)
                       /\ page[r].late \subseteq DOMAIN rows
                       /\ page[r].got \subseteq DOMAIN rows
  /\ Range(published) \subseteq DOMAIN rows
  /\ watch \in [Message -> {"idle", "watching", "admitted", "stopped"}]
  /\ api \in BOOLEAN /\ faults \in 0 .. MaxFaults
  /\ client.pc \in {"new", "catchUp", "dial", "live", "backoff", "stopped",
                    "failed"}
  /\ client.last \in 0 .. Len(rows) /\ client.frame \in 0 .. Len(rows)
  /\ socket.state \in {"none", "open", "broken"}
  /\ Range(socket.frames) \subseteq DOMAIN rows
  /\ Range(applied) \subseteq DOMAIN rows

Increasing(s) == \A i \in 1 .. Len(s) - 1 : s[i] < s[i + 1]

\* FeedPump.Signal and runOnce lose no wake-up: when every commit has
\* signalled and the goroutine has stopped for lack of work, it has reached
\* the head, however signals and the end of its last page interleaved.
PumpCatchesUp ==
  (/\ pump.initialized /\ ~pump.running /\ ~pump.failed /\ signals = {})
    => pump.last = Len(rows)

\* FeedSink's promise on order: over all pages one controller's pump delivers,
\* in spite of signals that come late, twice or while it runs, no row comes
\* twice and none comes before a smaller one.
PublishedInOrder == Increasing(published)

\* ListFeed's limits, its merge and NextCursor fit together over the pages of
\* the pump: between its first row and its cursor it leaves out no row that
\* was stored when the page that passed it read the row's table, however full
\* the tables were and whatever was committed meanwhile.
PagesJoinUp ==
  published # <<>> =>
    (published[1] .. pump.last) \ Range(published) \subseteq torn["pump"]

\* WatchAdmission's promise: the cursor does not pass the row that records a
\* message's admission, which deliver has seen, and leave its watch waiting,
\* with or without a sink.
AdmissionReported ==
  \A m \in Message, n \in Range(published) :
    rows[n].message = m => watch[m] # "watching"

\* The duplicate rule of Attach: the client's sink is given no row twice and
\* none out of order, whatever replays, gaps, reconnections and restarts of
\* the controller come between.
AppliedInOrder == Increasing(applied)

\* The gap rule of Attach: whatever frames and connections are lost, whatever
\* the pump leaves out and however often the controller restarts, the client
\* has applied every row up to the one it has reached, except rows that were
\* committed, during a page of its own replay, after the read of their table.
GapsAreTornPages ==
  (client.start + 1 .. client.last) \ Range(applied) \subseteq torn["client"]

\* The documentation of the feed (docs/http-api.md) and of the attach command:
\* a client that replays from the last row it applied misses none.
AppliedWithoutGap ==
  \A i \in DOMAIN applied : applied[i] = client.start + i
=============================================================================
