---------------------------- MODULE RoomEventSync ----------------------------
(***************************************************************************)
(* How one browser follows one room.                                       *)
(*                                                                         *)
(* PostgreSQL appends an event to the room's stream in the transaction     *)
(* that changes the room, and prunes old prefixes.  A NOTIFY listener      *)
(* coalesces the committed sequence numbers and broadcasts either the      *)
(* events themselves or only the new head.  The browser keeps a window of  *)
(* the newest messages and the sequence number it reflects; it applies     *)
(* contiguous broadcasts, replays pages of events, replaces the window by  *)
(* a snapshot when it cannot, and prepends older history on demand.        *)
(*                                                                         *)
(* A message is its position.  Its content is the sequence number of the   *)
(* event that last wrote it, 0 when the room (or the window) has none.     *)
(* The log keeps pruned events too: it also stands for the room's tables.  *)
(***************************************************************************)
EXTENDS Naturals, Sequences, FiniteSets, FiniteSetsExt

CONSTANTS
    Positions,    \* 1..n, the messages the room may ever have
    Initially,    \* those it has at the start
    MaxSeq,       \* bound on the events of the stream
    PageLimit,    \* ROOM_EVENT_PAGE_LIMIT
    WindowSize,   \* ROOM_MESSAGE_PAGE_LIMIT
    GapThreshold, \* ROOM_EVENT_SNAPSHOT_GAP_THRESHOLD
    Failures,     \* the ways a request may fail, of "lost" and "unavailable"
    MaxFaults,    \* bound on disconnections, failed requests, lost listeners
    MaxRequests,  \* bound on the user's requests: older history, page resumes
    MaxRestores,  \* bound on restores of the database from a backup
    MaxTrouble    \* bound on all of these together, see Trouble

ASSUME PositionsAssumption ==
    /\ IsFiniteSet(Positions) /\ Positions = 1..Cardinality(Positions)
    /\ Initially = 1..Cardinality(Initially) /\ Initially \subseteq Positions
ASSUME BoundsAssumption ==
    /\ {GapThreshold, MaxFaults, MaxRequests, MaxRestores, MaxTrouble} \subseteq Nat
    /\ {MaxSeq, PageLimit, WindowSize} \subseteq Nat \ {0}
    /\ Failures \subseteq {"lost", "unavailable"}

VARIABLES
    log,       \* room_events, with the pruned ones, and the tables they describe
    minSeq,    \* room_event_streams.min_available_seq
    listening, \* the LISTEN connection is up
    pending,   \* the broadcaster's coalesced range, {} or {min, max}
    announce,  \* a message_history_invalidated is about to be emitted
    joined,    \* the browser's socket is in the room
    wire,      \* what was emitted to that socket and not yet handled
    sync,      \* the browser's RoomMessageSyncStateMachine and its replay loop
    side,      \* its request for older history
    window,    \* what it shows
    faults, requests, restores

serverVars == <<log, minSeq, listening, pending, announce>>
clientVars == <<sync, side, window>>
bounds == <<faults, requests, restores>>
vars == <<serverVars, joined, wire, clientVars, bounds>>

HeadSeq == Len(log)
RoomDeleted == log[HeadSeq].type = "room.deleted"

\* The content of message m after the first n events.
VersionAt(m, n) ==
    LET touching == {i \in 1..n : m \in log[i].messages} IN
    IF touching = {} \/ log[Max(touching)].type # "messages.upserted" THEN 0
    ELSE Max(touching)

Live == {m \in Positions : VersionAt(m, HeadSeq) # 0}

EventTypes == {"messages.upserted", "messages.deleted", "room.deleted", "other"}
Events == [type : EventTypes, messages : SUBSET Positions]
Seqs == 0..MaxSeq
Views == [Positions -> Seqs]

Requests ==
    [kind : {"none"}]
    \union [kind : {"events"}, after : Seqs]
    \union [kind : {"stream"}, after : Seqs, from : 1..MaxSeq + 1, head : Seqs]
    \union [kind : {"page"}, from : 1..MaxSeq + 1, to : Seqs, head : Seqs, more : BOOLEAN]
    \union [kind : {"snapshot"}, before : Positions \union {0}]
    \union [kind : {"window"}, seq : Seqs, view : Views, more : BOOLEAN]
    \union [kind : {"error"},
            code : {"expired", "ahead", "boundary", "denied", "lost", "unavailable"}]
NoRequest == [kind |-> "none"]
Error(code) == [kind |-> "error", code |-> code]

Notices ==
    [kind : {"available"}, head : Seqs, from : 0..MaxSeq + 1]
    \union [kind : {"invalidated", "syncRequired"}]

TypeOK ==
    /\ log \in Seq(Events) /\ HeadSeq <= MaxSeq
    /\ minSeq \in 1..MaxSeq + 1
    /\ {listening, announce, joined} \subseteq BOOLEAN
    /\ pending \subseteq Seqs
    /\ wire \in Seq(Notices)
    /\ sync \in [ready : BOOLEAN, closed : BOOLEAN, baseline : BOOLEAN, invalid : BOOLEAN,
                 requested : BOOLEAN, retry : BOOLEAN, prepending : BOOLEAN,
                 applied : Seqs, desired : Seqs, gapTarget : Seqs,
                 owner : {"none", "loop", "side"},
                 pc : {"idle", "events", "snapshot"}, target : Seqs,
                 cached : BOOLEAN, request : Requests]
    /\ side \in [mode : {"none", "prepend", "replace"}, request : Requests]
    /\ window \in [view : Views, more : BOOLEAN, oldest : Positions \union {0}]
    /\ faults \in 0..MaxFaults /\ requests \in 0..MaxRequests /\ restores \in 0..MaxRestores

Cold == [ready |-> FALSE, closed |-> FALSE, baseline |-> FALSE, invalid |-> FALSE,
         requested |-> FALSE, retry |-> FALSE, prepending |-> FALSE,
         applied |-> 0, desired |-> 0, gapTarget |-> 0, owner |-> "none",
         pc |-> "idle", target |-> 0, cached |-> FALSE,
         request |-> NoRequest]
NoSide == [mode |-> "none", request |-> NoRequest]
EmptyWindow == [view |-> [m \in Positions |-> 0], more |-> FALSE, oldest |-> 0]

Init ==
    /\ log = <<[type |-> "messages.upserted", messages |-> Initially]>>
    /\ minSeq = 1
    /\ listening = TRUE
    /\ pending = {}
    /\ announce = FALSE
    /\ joined = FALSE
    /\ wire = <<>>
    /\ sync = Cold
    /\ side = NoSide
    /\ window = EmptyWindow
    /\ faults = 0 /\ requests = 0 /\ restores = 0

\* A fault or a restore takes as much of the common bound as two requests.
Trouble == 2 * (faults + restores) + requests

Fault ==
    /\ faults < MaxFaults /\ Trouble + 2 <= MaxTrouble
    /\ faults' = faults + 1
    /\ UNCHANGED <<requests, restores>>

-----------------------------------------------------------------------------
(* The room's writers and its retention.                                   *)

\* append_room_event for each event of one transaction; the NOTIFYs of its
\* commit reach the broadcaster's handle(), unless nobody listens.
Commit(events) ==
    /\ HeadSeq + Len(events) <= MaxSeq
    /\ ~RoomDeleted
    /\ log' = log \o events
    /\ pending' = IF listening
                  THEN {Min(pending \union {HeadSeq + 1}), HeadSeq + Len(events)}
                  ELSE pending
    /\ UNCHANGED <<minSeq, listening, joined, wire, clientVars, bounds>>

Event(type, messages) == [type |-> type, messages |-> messages]

Known == UNION {log[i].messages : i \in 1..HeadSeq}

\* A new message takes the next position.
Post(m) ==
    /\ m \notin Known /\ m - 1 \in Known \union {0}
    /\ Commit(<<Event("messages.upserted", {m})>>)
    /\ UNCHANGED announce

Edit(m) ==
    /\ m \in Live
    /\ Commit(<<Event("messages.upserted", {m})>>)
    /\ UNCHANGED announce

Remove(m) ==
    /\ m \in Live
    /\ Commit(<<Event("messages.deleted", {m})>>)
    /\ UNCHANGED announce

\* updateMessageAndTruncateAfter: one flush writes the upsert, then the delete;
\* the handler announces the truncation after the commit.
Truncate(m) ==
    LET after == {x \in Live : x > m} IN
    /\ m \in Live
    /\ after # {}
    /\ Commit(<<Event("messages.upserted", {m}), Event("messages.deleted", after)>>)
    /\ announce' = TRUE

\* An event of a turn, of the members or of the room's metadata.
Touch ==
    /\ Commit(<<Event("other", {})>>)
    /\ UNCHANGED announce

DeleteRoom ==
    /\ Commit(<<Event("room.deleted", Positions)>>)
    /\ UNCHANGED announce

\* pruneRoomEvents removes a prefix and moves the floor.
Prune(floor) ==
    /\ floor \in minSeq + 1..HeadSeq + 1
    /\ minSeq' = floor
    /\ UNCHANGED <<log, listening, pending, announce, joined, wire, clientVars, bounds>>

-----------------------------------------------------------------------------
(* Broadcasting.                                                           *)

Emit(notice) == wire' = IF joined THEN Append(wire, notice) ELSE wire

\* drainRoom, broadcastRange: the exact range when it is still complete, else
\* (or when it is too large, or cannot be authorised now) only its head.
Broadcast ==
    LET from == Min(pending)
        head == Max(pending)
    IN
    /\ pending # {}
    /\ pending' = {}
    /\ \/ from >= minSeq /\ Emit([kind |-> "available", head |-> head, from |-> from])
       \/ Emit([kind |-> "available", head |-> head, from |-> head + 1])
    /\ UNCHANGED <<log, minSeq, listening, announce, joined, clientVars, bounds>>

\* notifyMessageHistoryInvalidated
Announce ==
    /\ announce
    /\ announce' = FALSE
    /\ Emit([kind |-> "invalidated"])
    /\ UNCHANGED <<log, minSeq, listening, pending, joined, clientVars, bounds>>

\* The LISTEN connection breaks; its notifications are gone.
ListenerFails ==
    /\ Fault
    /\ listening
    /\ listening' = FALSE
    /\ UNCHANGED <<log, minSeq, pending, announce, joined, wire, clientVars>>

\* Mutant of Relisten: reconnecting is not told to the clients.
Relisten_Silent ==
    /\ ~listening
    /\ listening' = TRUE
    /\ UNCHANGED <<log, minSeq, pending, announce, joined, wire, clientVars, bounds>>

\* connect() after scheduleReconnect: room_sync_required once LISTEN holds.
Relisten ==
    /\ ~listening
    /\ listening' = TRUE
    /\ Emit([kind |-> "syncRequired"])
    /\ UNCHANGED <<log, minSeq, pending, announce, joined, clientVars, bounds>>

-----------------------------------------------------------------------------
(* The server's answers.                                                   *)

\* readMessagePageWithQueryable: the newest messages before the boundary.
PageBefore(before) ==
    LET older == {m \in Live : before = 0 \/ m < before} IN
    {m \in older : Cardinality({x \in older : x > m}) < WindowSize}

\* readRoomSnapshot, one repeatable-read transaction: the page and the head.
SnapshotAnswer(before) ==
    LET page == PageBefore(before) IN
    IF RoomDeleted THEN Error("denied")
    ELSE IF before # 0 /\ before \notin Live THEN Error("boundary")
    ELSE [kind |-> "window", seq |-> HeadSeq,
          view |-> [m \in Positions |-> IF m \in page THEN VersionAt(m, HeadSeq) ELSE 0],
          more |-> page # {} /\ \E m \in Live : m < Min(page)]

\* Mutants of StreamAnswer: a cursor ahead of the stream gets an empty page, or
\* the page starts one event too late.
StreamAnswer_NoAhead(after) ==
    IF after < minSeq - 1 /\ ~RoomDeleted THEN Error("expired")
    ELSE [kind |-> "stream", after |-> after, head |-> HeadSeq,
          from |-> IF RoomDeleted /\ after < HeadSeq THEN HeadSeq ELSE after + 1]
StreamAnswer_SkipsOne(after) ==
    IF after < minSeq - 1 /\ ~RoomDeleted THEN Error("expired")
    ELSE IF after > HeadSeq THEN Error("ahead")
    ELSE [kind |-> "stream", after |-> after, head |-> HeadSeq,
          from |-> IF RoomDeleted /\ after < HeadSeq THEN HeadSeq ELSE after + 2]

\* The first query of readRoomEvents: the stream row decides on the errors, and
\* a deleted room answers with its tombstone alone.
StreamAnswer(after) ==
    IF after < minSeq - 1 /\ ~RoomDeleted THEN Error("expired")
    ELSE IF after > HeadSeq THEN Error("ahead")
    ELSE [kind |-> "stream", after |-> after, head |-> HeadSeq,
          from |-> IF RoomDeleted /\ after < HeadSeq THEN HeadSeq ELSE after + 1]

\* Mutant of PageAnswer: a page that ends at the head still announces more.
PageAnswer_MoreAtHead(stream) ==
    LET from == Max({stream.from, minSeq})
        to == Min({from + PageLimit - 1, HeadSeq})
        last == IF from <= to THEN to ELSE stream.after
    IN [kind |-> "page", from |-> from, to |-> to, head |-> stream.head,
        more |-> last <= stream.head]

\* Its second query: the rows that are there now, pruned and appended to since.
PageAnswer(stream) ==
    LET from == Max({stream.from, minSeq})
        to == Min({from + PageLimit - 1, HeadSeq})
        last == IF from <= to THEN to ELSE stream.after
    IN [kind |-> "page", from |-> from, to |-> to, head |-> stream.head,
        more |-> last < stream.head]

Answer(request) ==
    CASE request.kind = "events" -> StreamAnswer(request.after)
      [] request.kind = "stream" -> PageAnswer(request)
      [] request.kind = "snapshot" -> SnapshotAnswer(request.before)

Unanswered == {"events", "stream", "snapshot"}

ServeLoop ==
    /\ sync.request.kind \in Unanswered
    /\ sync' = [sync EXCEPT !.request = Answer(@)]
    /\ UNCHANGED <<serverVars, joined, wire, side, window, bounds>>

ServeSide ==
    /\ side.request.kind \in Unanswered
    /\ side' = [side EXCEPT !.request = Answer(@)]
    /\ UNCHANGED <<serverVars, joined, wire, sync, window, bounds>>

\* A request fails: its authorization is unavailable, or it times out.
RequestFails ==
    /\ Fault
    /\ \E code \in Failures :
          \/ /\ sync.request.kind \in Unanswered
             /\ sync' = [sync EXCEPT !.request = Error(code)]
             /\ UNCHANGED side
          \/ /\ side.request.kind \in Unanswered
             /\ side' = [side EXCEPT !.request = Error(code)]
             /\ UNCHANGED sync
    /\ UNCHANGED <<serverVars, joined, wire, window>>

-----------------------------------------------------------------------------
(* The state machine and the replay loop, as functions of the sync record. *)

NotifyHead(s, head) == [s EXCEPT !.desired = Max({@, head})]

\* Mutant of NeedsReplay: the heads the browser was told of are forgotten.
NeedsReplay_HistoryOnly(s) == s.invalid

NeedsReplay(s) == s.applied < s.desired \/ s.invalid

AskEvents(s) ==
    [s EXCEPT !.pc = "events", !.request = [kind |-> "events", after |-> s.applied]]

\* loadSnapshot in replace mode: the newest replacement owns the window, and no
\* older request for history may still change it.
AskSnapshot(s, target) ==
    [s EXCEPT !.pc = "snapshot", !.target = target, !.owner = "loop", !.prepending = FALSE,
              !.request = [kind |-> "snapshot", before |-> 0]]

\* The head of the replay loop; it ends with finishReplay when nothing is asked
\* for or the session is not ready.
LoopTop(s) ==
    IF ~(s.requested /\ s.ready)
    THEN [s EXCEPT !.pc = "idle", !.target = 0, !.request = NoRequest]
    ELSE LET t == [s EXCEPT !.requested = FALSE] IN
         IF t.baseline /\ ~t.invalid THEN AskEvents(t) ELSE AskSnapshot(t, 0)

\* The inner loop goes on reading.
ReadOn(s) == IF s.ready THEN AskEvents(s) ELSE LoopTop(s)

\* Mutant of Replay: history requests in flight are not invalidated.
Replay_KeepsPrepend(s) ==
    IF ~s.ready THEN s
    ELSE LET t == [s EXCEPT !.requested = TRUE] IN
         IF t.pc = "idle" THEN LoopTop(t) ELSE t

\* syncFromCursor: requestReplay, and the loop if it does not run already.
Replay(s) ==
    IF ~s.ready THEN s
    ELSE LET t == [s EXCEPT !.requested = TRUE, !.prepending = FALSE] IN
         IF t.pc = "idle" THEN LoopTop(t) ELSE t

\* onRoomDeleted and onRoomAccessDenied: the page leaves the room.
Left(s) == [Cold EXCEPT !.closed = TRUE, !.applied = s.applied, !.desired = s.desired]

Loaded(view) == {m \in Positions : view[m] # 0}

\* Mutant of Accepted: a page is applied from its first event, gap or not.
Accepted_Gap(s, from, to) == {i \in from..to : i > s.applied}

\* The contiguous prefix of applyEventPage; a tombstone may follow a gap.
Accepted(s, from, to) ==
    LET fresh == {i \in from..to : i > s.applied} IN
    IF fresh # {} /\ Min(fresh) # s.applied + 1 /\ log[Min(fresh)].type # "room.deleted"
    THEN {}
    ELSE fresh

\* The page has a gap and is not applied.
Rejected(s, from, to) == Accepted(s, from, to) = {} /\ to > s.applied /\ from <= to

\* reduceRoomEvents over the accepted events.
Reduced(view, accepted) ==
    [m \in Positions |->
        LET touching == {i \in accepted : m \in log[i].messages} IN
        IF touching = {} THEN view[m]
        ELSE IF log[Max(touching)].type = "messages.upserted" THEN Max(touching) ELSE 0]

Deletes(accepted) == \E i \in accepted : log[i].type = "messages.deleted"
DeletesRoom(accepted) == \E i \in accepted : log[i].type = "room.deleted"

\* Mutant of Emptied: an empty window is taken for an empty room.
Emptied_Never(w, accepted) == FALSE

\* The window emptied although the room has older messages.
Emptied(w, accepted) ==
    /\ Loaded(Reduced(w.view, accepted)) = {}
    /\ w.more /\ Deletes(accepted) /\ ~DeletesRoom(accepted)

\* applyEventPage on the window.
WindowAfter(w, accepted) ==
    LET view == Reduced(w.view, accepted)
        left == Loaded(view)
    IN [view |-> view, oldest |-> IF left = {} THEN 0 ELSE Min(left),
        more |-> w.more /\ (left # {} \/ Emptied(w, accepted))]

\* applyEventPage on the cursor.
SyncAfter(s, w, accepted) ==
    IF DeletesRoom(accepted) THEN Left([s EXCEPT !.applied = Max(accepted)])
    ELSE LET invalid == s.invalid \/ Emptied(w, accepted) IN
         [s EXCEPT !.applied = Max(accepted), !.invalid = invalid, !.cached = ~invalid]

\* applySnapshot in replace mode.
SyncReplaced(s, answer) ==
    [s EXCEPT !.applied = answer.seq, !.desired = Max({@, answer.seq}), !.invalid = FALSE,
              !.baseline = TRUE, !.retry = FALSE, !.owner = "none",
              !.cached = TRUE]
OldestOf(view) == IF Loaded(view) = {} THEN 0 ELSE Min(Loaded(view))
WindowReplaced(answer) ==
    [view |-> answer.view, more |-> answer.more, oldest |-> OldestOf(answer.view)]

\* A failed request: access denied leaves the room, an unavailable
\* authorization schedules a retry, anything else is given up.
AfterError(s, code) ==
    IF code = "denied" THEN Left(s)
    ELSE IF code = "unavailable" THEN [s EXCEPT !.retry = TRUE]
    ELSE s

\* The socket leaves the room with its page.
Connection(s) == IF s.closed THEN joined' = FALSE /\ wire' = <<>> /\ side' = NoSide
                 ELSE UNCHANGED <<joined, wire, side>>

-----------------------------------------------------------------------------
(* The replay loop.                                                        *)

\* A page of events arrives.
HandlePage ==
    LET page == sync.request
        s == [NotifyHead(sync, page.head) EXCEPT !.retry = FALSE]
        tombstone == page.from <= page.head /\ page.head <= page.to
                     /\ log[page.head].type = "room.deleted"
        largeGap == page.head > s.applied + GapThreshold /\ page.head > s.gapTarget
        accepted == Accepted(s, page.from, page.to)
        after == SyncAfter(s, window, accepted)
    IN
    /\ page.kind = "page"
    /\ IF largeGap /\ ~tombstone
       THEN sync' = AskSnapshot(s, page.head) /\ UNCHANGED window
       ELSE IF \/ page.from > page.to /\ s.applied < page.head
               \/ Rejected(s, page.from, page.to)
       THEN sync' = AskSnapshot(s, 0) /\ UNCHANGED window
       ELSE IF accepted = {}
       THEN /\ sync' = IF s.invalid THEN AskSnapshot(s, 0)
                       ELSE IF page.more \/ NeedsReplay(s) THEN ReadOn(s) ELSE LoopTop(s)
            /\ UNCHANGED window
       ELSE /\ window' = WindowAfter(window, accepted)
            /\ sync' = IF after.closed THEN after
                       ELSE IF after.invalid THEN AskSnapshot(after, 0)
                       ELSE IF page.more \/ NeedsReplay(after) THEN ReadOn(after)
                       ELSE LoopTop(after)
    /\ Connection(sync')
    /\ UNCHANGED <<serverVars, bounds>>

\* get_room_events is answered by an error: a lost cursor is replaced by a
\* snapshot, and a cursor ahead forgets its target first.
HandleEventsError ==
    LET code == sync.request.code IN
    /\ sync.pc = "events" /\ sync.request.kind = "error"
    /\ sync' = CASE code = "ahead" ->
                        AskSnapshot([sync EXCEPT !.desired = 0, !.gapTarget = 0], 0)
                 [] code = "expired" -> AskSnapshot(sync, 0)
                 [] code = "denied" -> Left(sync)
                 [] OTHER -> LoopTop(AfterError(sync, code))
    /\ Connection(sync')
    /\ UNCHANGED <<serverVars, window, bounds>>

\* The loop's snapshot arrives; a newer replacement may own the window by now.
HandleSnapshot ==
    LET answer == sync.request
        replaced == SyncReplaced(sync, answer)
    IN
    /\ sync.pc = "snapshot" /\ answer.kind \in {"window", "error"}
    /\ IF answer.kind = "error"
       THEN /\ sync' = IF answer.code = "denied" THEN Left(sync)
                       ELSE LoopTop([AfterError(sync, answer.code) EXCEPT
                                        !.owner = IF @ = "loop" THEN "none" ELSE @])
            /\ UNCHANGED window
       ELSE IF sync.owner # "loop"
       THEN sync' = LoopTop(sync) /\ UNCHANGED window
       ELSE /\ window' = WindowReplaced(answer)
            /\ sync' = ReadOn([replaced EXCEPT
                           !.gapTarget = IF sync.target = 0 THEN @ ELSE sync.target,
                           !.target = 0])
    /\ Connection(sync')
    /\ UNCHANGED <<serverVars, bounds>>

-----------------------------------------------------------------------------
(* Older history: loadSnapshot outside the loop.                           *)

\* beginSnapshot('prepend') is refused while a replay or a replacement runs.
Prepend ==
    /\ requests < MaxRequests /\ Trouble < MaxTrouble
    /\ sync.ready /\ sync.baseline /\ window.more
    /\ sync.pc = "idle" /\ sync.owner = "none" /\ side.mode = "none"
    /\ Loaded(window.view) # {}
    /\ sync' = [sync EXCEPT !.prepending = TRUE]
    /\ side' = [mode |-> "prepend",
                request |-> [kind |-> "snapshot",
                             before |-> IF window.oldest # 0 THEN window.oldest
                                        ELSE Min(Loaded(window.view))]]
    /\ requests' = requests + 1
    /\ UNCHANGED <<serverVars, joined, wire, window, faults, restores>>

\* The page of older messages arrives while its token is current.  Messages
\* that are loaded keep their content, and the cursor does not move.
Prepended(w, answer) ==
    [view |-> [m \in Positions |-> IF w.view[m] # 0 THEN w.view[m] ELSE answer.view[m]],
     more |-> answer.more, oldest |-> OldestOf(answer.view)]

HandlePrepend ==
    LET answer == side.request IN
    /\ side.mode = "prepend" /\ answer.kind \in {"window", "error"}
    /\ IF answer.kind = "window"
       THEN /\ window' = IF sync.prepending THEN Prepended(window, answer) ELSE window
            /\ sync' = IF sync.prepending
                       THEN [sync EXCEPT !.prepending = FALSE, !.retry = FALSE, !.cached = TRUE]
                       ELSE sync
            /\ side' = NoSide
            /\ UNCHANGED <<joined, wire>>
       ELSE IF answer.code = "boundary"
       \* PAGINATION_BOUNDARY_EXPIRED: a replacement, whatever else is running
       THEN /\ sync' = [sync EXCEPT !.owner = "side", !.prepending = FALSE]
            /\ side' = [mode |-> "replace", request |-> [kind |-> "snapshot", before |-> 0]]
            /\ UNCHANGED <<joined, wire, window>>
       ELSE /\ sync' = [AfterError(sync, answer.code) EXCEPT !.prepending = FALSE]
            /\ IF sync'.closed THEN Connection(sync')
               ELSE side' = NoSide /\ UNCHANGED <<joined, wire>>
            /\ UNCHANGED window
    /\ UNCHANGED <<serverVars, bounds>>

\* Its replacement arrives.
HandleSideReplace ==
    LET answer == side.request
        owned == sync.owner = "side"
    IN
    /\ side.mode = "replace" /\ answer.kind \in {"window", "error"}
    /\ IF answer.kind = "window" /\ owned
       THEN sync' = SyncReplaced(sync, answer) /\ window' = WindowReplaced(answer)
       ELSE /\ sync' = IF answer.kind = "error"
                       THEN [AfterError(sync, answer.code) EXCEPT
                                !.owner = IF owned THEN "none" ELSE @]
                       ELSE sync
            /\ UNCHANGED window
    /\ IF sync'.closed THEN Connection(sync') ELSE side' = NoSide /\ UNCHANGED <<joined, wire>>
    /\ UNCHANGED <<serverVars, bounds>>

-----------------------------------------------------------------------------
(* Socket events and the session.                                          *)

\* room_event_available: the fast path when the events continue the window, and
\* a replay when the cursor is still behind.
AvailableSync(notice, accepted) ==
    LET told == NotifyHead(sync, notice.head)
        fast == sync.baseline /\ notice.from <= notice.head
        mutated == IF fast THEN [told EXCEPT !.prepending = FALSE] ELSE told
        after == IF accepted = {} THEN mutated ELSE SyncAfter(mutated, window, accepted)
    IN
    IF ~after.closed /\ (~after.baseline \/ NeedsReplay(after)) THEN Replay(after) ELSE after

HandleAvailable ==
    LET notice == Head(wire)
        accepted == IF sync.baseline THEN Accepted(sync, notice.from, notice.head) ELSE {}
    IN
    /\ wire # <<>> /\ notice.kind = "available"
    /\ window' = IF accepted = {} THEN window ELSE WindowAfter(window, accepted)
    /\ sync' = AvailableSync(notice, accepted)
    /\ IF sync'.closed THEN Connection(sync')
       ELSE wire' = Tail(wire) /\ UNCHANGED <<joined, side>>
    /\ UNCHANGED <<serverVars, bounds>>

\* message_history_invalidated and room_sync_required
HandleNudge ==
    /\ wire # <<>> /\ Head(wire).kind # "available"
    /\ sync' = Replay([sync EXCEPT !.invalid = @ \/ Head(wire).kind = "invalidated"])
    /\ wire' = Tail(wire)
    /\ UNCHANGED <<serverVars, joined, side, window, bounds>>

\* The retry timer of scheduleReplayRetry.
RetryFires ==
    /\ sync.retry
    /\ sync' = Replay([sync EXCEPT !.retry = FALSE])
    /\ UNCHANGED <<serverVars, joined, wire, side, window, bounds>>

\* handlePageResume: the user looks at the page again.
PageResumes ==
    /\ requests < MaxRequests /\ Trouble < MaxTrouble
    /\ requests' = requests + 1
    /\ sync.ready
    /\ sync' = Replay(sync)
    /\ UNCHANGED <<serverVars, joined, wire, side, window, faults, restores>>

Join ==
    /\ ~joined /\ ~sync.closed
    /\ joined' = TRUE
    /\ UNCHANGED <<serverVars, wire, clientVars, bounds>>

\* The join is acknowledged: the session is ready and history is requested.
SessionReady ==
    /\ joined /\ ~sync.ready
    /\ sync' = Replay([sync EXCEPT !.ready = TRUE])
    /\ UNCHANGED <<serverVars, joined, wire, side, window, bounds>>

Lost(request) == IF request = NoRequest THEN NoRequest ELSE Error("lost")

\* The connection breaks: notices and answers in flight are gone.
Offline ==
    /\ joined' = FALSE
    /\ wire' = <<>>
    /\ sync' = [sync EXCEPT !.ready = FALSE, !.request = Lost(@)]
    /\ side' = [side EXCEPT !.request = Lost(@)]
    /\ UNCHANGED window

Disconnect ==
    /\ Fault
    /\ joined
    /\ Offline
    /\ UNCHANGED serverVars

\* The user opens another room and comes back, or reloads: a new state machine
\* starts from the cached window and its cursor, or cold.
Remount ==
    /\ Fault
    /\ joined
    /\ joined' = FALSE
    /\ wire' = <<>>
    /\ side' = NoSide
    /\ sync' = IF sync.cached
               THEN [Cold EXCEPT !.baseline = TRUE, !.cached = TRUE, !.applied = sync.applied]
               ELSE Cold
    /\ window' = IF sync.cached THEN window ELSE EmptyWindow
    /\ UNCHANGED serverVars

\* The database is restored from a backup of n events, with the application
\* down; what browsers remember stays.
Restore(n) ==
    /\ restores < MaxRestores /\ Trouble + 2 <= MaxTrouble
    /\ restores' = restores + 1
    /\ n < HeadSeq
    /\ log' = SubSeq(log, 1, n)
    /\ minSeq' = Min({minSeq, n + 1})
    /\ listening' = TRUE
    /\ pending' = {}
    /\ announce' = FALSE
    /\ Offline
    /\ UNCHANGED <<faults, requests>>

-----------------------------------------------------------------------------

RoomStep ==
    \/ \E m \in Positions : Post(m) \/ Edit(m) \/ Remove(m) \/ Truncate(m)
    \/ Touch
    \/ DeleteRoom

ServerStep == Broadcast \/ Announce \/ Relisten \/ ServeLoop \/ ServeSide

ClientStep ==
    \/ HandlePage \/ HandleEventsError \/ HandleSnapshot
    \/ HandlePrepend \/ HandleSideReplace
    \/ HandleAvailable \/ HandleNudge \/ RetryFires \/ Join \/ SessionReady

Next ==
    \/ RoomStep
    \/ \E floor \in 2..MaxSeq + 1 : Prune(floor)
    \/ ServerStep
    \/ ClientStep
    \/ Prepend \/ PageResumes
    \/ ListenerFails \/ RequestFails \/ Disconnect \/ Remount
    \/ \E n \in 1..MaxSeq : Restore(n)

Spec == Init /\ [][Next]_vars

\* The listener, the sockets and the browser's event loop each keep going; the
\* room's writers, the user, retention and faults owe nothing.
Fairness ==
    /\ WF_vars(Broadcast) /\ WF_vars(Announce) /\ WF_vars(Relisten)
    /\ WF_vars(ServeLoop) /\ WF_vars(ServeSide)
    /\ WF_vars(HandlePage) /\ WF_vars(HandleEventsError) /\ WF_vars(HandleSnapshot)
    /\ WF_vars(HandlePrepend) /\ WF_vars(HandleSideReplace)
    /\ WF_vars(HandleAvailable) /\ WF_vars(HandleNudge)
    /\ WF_vars(RetryFires) /\ WF_vars(Join) /\ WF_vars(SessionReady)

FairSpec == Spec /\ Fairness

-----------------------------------------------------------------------------
(* Safety.                                                                 *)

\* m has been in the room at every moment from the cursor to now.
Present(m) == \A n \in sync.applied..HeadSeq : VersionAt(m, n) # 0

\* Every loaded message shows what the room held at the cursor or later: no
\* snapshot, page, broadcast or late history page, in whatever order they
\* arrive, brings back a deleted message or an overwritten content.
NeverStale ==
    \A m \in Loaded(window.view) :
        \E n \in sync.applied..HeadSeq : window.view[m] = VersionAt(m, n)

\* A message is missing from the window only because a whole window of newer ones
\* stood in the room at some moment after it was last written: the cursor never
\* passes an event that was not applied. (That the newest message of the room is
\* loaded is more than the code gives: when an update has brought an old message
\* into the window and the newer ones are deleted, those in between stay missing.)
NothingNewerMissing ==
    sync.baseline =>
        \A m \in Positions \ Loaded(window.view) : Present(m) =>
            \E n \in VersionAt(m, sync.applied)..sync.applied :
                Cardinality({x \in Positions : x > m /\ VersionAt(x, n) # 0}) >= WindowSize

\* Messages that are not loaded can still be asked for: the window says that
\* there is more, or is about to be replaced. What the client promises; a request
\* for older history after an update of a message outside the window breaks it.
OlderStaysReachable ==
    sync.baseline /\ ~sync.invalid /\ ~window.more =>
        \A m \in Positions : Present(m) => m \in Loaded(window.view)

\* As long as no history was requested, older messages stay reachable whatever
\* pages, snapshots, broadcasts, deletions and faults the browser goes through.
ReachableUntilPaged == requests = 0 => OlderStaysReachable

\* When the loop rests, with no snapshot under way and no retry scheduled, the
\* cursor has reached every head the browser was told of. (A replacement that a
\* history request starts outside the loop can set the cursor back unnoticed.)
RestingMeansCaughtUp ==
    requests = 0 /\ sync.pc = "idle" /\ sync.ready /\ side.mode # "replace" /\ ~sync.retry =>
        sync.applied >= sync.desired

\* A browser that rests is not ahead of the room, even when the database went
\* back behind its cursor. (A page of older history that arrives cancels the retry
\* that is scheduled, and the loop's request with it.)
NeverRestsAhead ==
    requests = 0 /\ sync.pc = "idle" /\ sync.ready /\ ~sync.retry => sync.applied <= HeadSeq

-----------------------------------------------------------------------------
(* Liveness.                                                               *)

\* Once the room is quiet the browser reaches its head and stays there, or has
\* left a room that was deleted: whichever broadcasts and notifications were
\* lost, coalesced, pruned or overtaken, unless the database was set back.
Converges ==
    <>[](sync.closed \/ (sync.baseline /\ sync.applied = HeadSeq) \/ restores > 0)

\* Every replay comes to an end, unless the database is set back: then a
\* remembered head that is never reached again keeps the loop reading.
ReplayEnds == (sync.pc # "idle") ~> (sync.pc = "idle" \/ restores > 0)
=============================================================================
