------------------------ MODULE RoomEventSyncProofs ------------------------
(***************************************************************************)
(* For any room, any log, any page and window sizes and any number of      *)
(* faults, requests and restores: types, a window that is never stale and  *)
(* misses nothing newer, and a loop that rests where it should.            *)
(*                                                                         *)
(* The invariant says of every answer in flight what the room was at the   *)
(* moment it was given: a page ends within the log, a snapshot is the room *)
(* after some prefix of it.  A restore cuts the log and the connections    *)
(* with it, so that holds with restores too; the cursor, which survives    *)
(* them, is within the log only as long as there was none.                 *)
(*                                                                         *)
(* Its parts are predicates of the log l, the number n of restores, the    *)
(* browser's records s (sync), d (side) and w (window).                    *)
(***************************************************************************)
EXTENDS RoomEventSync, FiniteSums, SequenceTheorems

-----------------------------------------------------------------------------
(* The inductive invariant.                                                *)

Syncs == [ready : BOOLEAN, closed : BOOLEAN, baseline : BOOLEAN, invalid : BOOLEAN,
          requested : BOOLEAN, retry : BOOLEAN, prepending : BOOLEAN,
          applied : Seqs, desired : Seqs, gapTarget : Seqs,
          owner : {"none", "loop", "side"},
          pc : {"idle", "events", "snapshot"}, target : Seqs,
          cached : BOOLEAN, request : Requests]
Sides == [mode : {"none", "prepend", "replace"}, request : Requests]
Windows == [view : Views, more : BOOLEAN, oldest : Positions \union {0}]

\* VersionAt and the messages newer than m, of a given log.
VersionIn(l, m, n) ==
    LET touching == {i \in 1..n : m \in l[i].messages} IN
    IF touching = {} \/ l[Max(touching)].type # "messages.upserted" THEN 0
    ELSE Max(touching)

NewerIn(l, m, n) == {x \in Positions : x > m /\ VersionIn(l, x, n) # 0}

\* The tombstone of a room is its last event and takes every message with it.
LogOK(l) ==
    /\ l \in Seq(Events) /\ Len(l) \in 1..MaxSeq
    /\ \A i \in 1..Len(l) :
          /\ l[i].type = "room.deleted" => i = Len(l) /\ l[i].messages = Positions
          /\ l[i].type = "other" => l[i].messages = {}

RoomInv ==
    /\ LogOK(log)
    /\ minSeq \in 1..MaxSeq + 1
    /\ listening \in BOOLEAN /\ announce \in BOOLEAN
    /\ pending \subseteq 1..Len(log)

\* Only committed events are announced.
NoticeOK(l, notice) ==
    /\ notice \in Notices
    /\ notice.kind = "available" => notice.head <= Len(l) /\ notice.from >= 1

WireOK(l, sent) == sent \in Seq(Notices) /\ \A k \in 1..Len(sent) : NoticeOK(l, sent[k])

\* A socket that is not in the room is sent nothing, and a page that was left has none.
SessionInv ==
    /\ joined \in BOOLEAN /\ WireOK(log, wire)
    /\ ~joined => wire = <<>>
    /\ sync.closed => ~joined

\* What an answer says was so at a prefix of the log.
AnswerOK(l, r) ==
    /\ r \in Requests
    /\ r.kind = "stream" => r.head <= Len(l)
    /\ r.kind = "page" => r.to <= Len(l) /\ r.head <= Len(l)
    /\ r.kind = "window" =>
          /\ r.seq <= Len(l)
          /\ \A m \in Positions : r.view[m] # 0 => r.view[m] = VersionIn(l, m, r.seq)

\* A request for, or an answer with, the newest messages: what is left out is older
\* than a whole window, and the answer says that there is more.
Whole(l, r) ==
    /\ r.kind = "snapshot" => r.before = 0
    /\ r.kind = "window" =>
          /\ r.more => Loaded(r.view) # {}
          /\ \A m \in Positions : VersionIn(l, m, r.seq) # 0 /\ r.view[m] = 0 =>
                r.more /\ Cardinality(NewerIn(l, m, r.seq)) >= WindowSize

\* The loop has the request that it waits for, its snapshots are of the newest
\* messages, and only a loop that rests leaves a history page its place.
RequestOK(l, s) ==
    /\ AnswerOK(l, s.request) /\ Whole(l, s.request)
    /\ s.pc = "idle" <=> s.request.kind = "none"
    /\ s.request.kind \in {"events", "stream", "page"} => s.pc = "events"
    /\ s.request.kind \in {"snapshot", "window"} => s.pc = "snapshot"
    /\ s.request.kind = "error" =>
          /\ s.request.code # "boundary"
          /\ s.pc = "snapshot" => s.request.code \notin {"expired", "ahead"}
    /\ s.pc = "events" => s.baseline
    /\ s.prepending => s.pc = "idle"

\* The cursor is in the log, unless the log was cut behind it. A page of events is
\* only given to a cursor in the log, and the next one is asked for from there.
CursorOK(l, n, s) ==
    /\ n = 0 => s.applied <= Len(l)
    /\ s.request.kind = "events" => s.request.after = s.applied \/ s.applied <= Len(l)
    /\ s.request.kind \in {"stream", "page"} => s.applied <= Len(l)

LoopOK(l, n, s) ==
    /\ s \in Syncs /\ RequestOK(l, s) /\ CursorOK(l, n, s)
    /\ s.cached \/ s.prepending => s.baseline

SideOK(l, d) ==
    /\ d \in Sides /\ AnswerOK(l, d.request)
    /\ d.mode = "replace" => Whole(l, d.request)
    /\ d.mode = "none" => d.request.kind = "none"

\* A history page whose token is current is not older than the cursor.
PrependOK(n, s, d) ==
    s.prepending => /\ d.mode = "prepend"
                    /\ n = 0 /\ d.request.kind = "window" => s.applied <= d.request.seq

BoundsInv == faults \in 0..MaxFaults /\ requests \in 0..MaxRequests /\ restores \in 0..MaxRestores

SyncInv ==
    /\ RoomInv
    /\ SessionInv
    /\ LoopOK(log, restores, sync)
    /\ SideOK(log, side)
    /\ requests = 0 => side.mode = "none"
    /\ PrependOK(restores, sync, side)
    /\ window \in Windows
    /\ BoundsInv

-----------------------------------------------------------------------------
(* What the window shows.                                                  *)

PresentIn(l, a, m) == \A n \in a..Len(l) : VersionIn(l, m, n) # 0

StaleFree(l, a, v) ==
    \A m \in Loaded(v) : \E n \in a..Len(l) : v[m] = VersionIn(l, m, n)

NoneMissing(l, a, v) ==
    \A m \in Positions \ Loaded(v) : PresentIn(l, a, m) =>
        \E n \in VersionIn(l, m, a)..a : Cardinality(NewerIn(l, m, n)) >= WindowSize

\* A window that has more shows something, and one that has not shows everything.
Sound(l, a, w) ==
    /\ w.more => Loaded(w.view) # {}
    /\ ~w.more => \A m \in Positions : PresentIn(l, a, m) => m \in Loaded(w.view)

\* A window that is cached for the next visit is sound even if it is to be replaced.
Trusted(s) == s.baseline /\ (~s.invalid \/ s.cached)

\* With q history requests so far.
Follows(l, q, s, w) ==
    /\ StaleFree(l, s.applied, w.view)
    /\ s.baseline => NoneMissing(l, s.applied, w.view)
    /\ q = 0 /\ Trusted(s) => Sound(l, s.applied, w)

WindowInv == restores = 0 => Follows(log, requests, sync, window)

-----------------------------------------------------------------------------
(* Where the loop rests.                                                   *)

\* A loop that lost its request has been asked to run again once it is ready, and
\* without history requests nobody takes the window from it.
RestOK(l, q, s) ==
    /\ s.ready /\ s.request = Error("lost") => s.requested
    /\ q = 0 /\ s.pc = "snapshot" => s.owner = "loop"
    /\ q = 0 /\ s.pc = "idle" /\ s.ready /\ ~s.retry =>
          s.applied >= s.desired /\ s.applied <= Len(l)

RestInv == RestOK(log, requests, sync)

-----------------------------------------------------------------------------
(* Numbers.                                                                *)

LEMMA MinOf ==
    ASSUME NEW S \in SUBSET Nat, S # {}
    PROVE  Min(S) \in S /\ \A x \in S : Min(S) <= x
<1>1. PICK n \in S : \A k \in S : n <= k
  BY LeastNatural
<1> QED BY <1>1 DEF Min

LEMMA MaxOf ==
    ASSUME NEW S \in SUBSET Nat, S # {}, NEW h \in Nat, \A x \in S : x <= h
    PROVE  Max(S) \in S /\ \A x \in S : x <= Max(S)
<1> DEFINE T == {k \in Nat : \A x \in S : x <= k}
<1>1. PICK n \in T : \A k \in T : n <= k
  BY LeastNatural
<1>2. n \in S
  <2> SUFFICES ASSUME n \notin S PROVE FALSE
    OBVIOUS
  <2>1. \A x \in S : x <= n - 1
    BY <1>1
  <2>2. PICK x \in S : TRUE
    OBVIOUS
  <2>3. n - 1 \in Nat
    <3>1. x \in Nat /\ x <= n - 1
      BY <2>1
    <3> QED BY <3>1
  <2>4. n - 1 \in T
    BY <2>1, <2>3
  <2> QED BY <1>1, <2>4
<1>3. \A x \in S : n >= x
  BY <1>1
<1> HIDE DEF T
<1> QED BY <1>2, <1>3 DEF Max

LEMMA MaxIs ==
    ASSUME NEW S \in SUBSET Nat, NEW n \in S, \A x \in S : x <= n
    PROVE  Max(S) = n
<1>1. S # {} /\ n \in Nat
  OBVIOUS
<1>2. Max(S) \in S /\ n <= Max(S)
  BY <1>1, MaxOf
<1>3. Max(S) \in Nat /\ Max(S) <= n
  BY <1>2
<1> QED BY <1>1, <1>2, <1>3

LEMMA MaxOfPair ==
    ASSUME NEW a \in Nat, NEW b \in Nat
    PROVE  Max({a, b}) = IF a >= b THEN a ELSE b
<1>1. CASE a >= b
  BY <1>1, MaxIs, {a, b} \in SUBSET Nat, a \in {a, b}, \A x \in {a, b} : x <= a
<1>2. CASE a < b
  BY <1>2, MaxIs, {a, b} \in SUBSET Nat, b \in {a, b}, \A x \in {a, b} : x <= b
<1> QED BY <1>1, <1>2

LEMMA MinOfPair ==
    ASSUME NEW a \in Nat, NEW b \in Nat
    PROVE  Min({a, b}) = IF a <= b THEN a ELSE b
<1>1. {a, b} \in SUBSET Nat /\ {a, b} # {}
  OBVIOUS
<1>2. Min({a, b}) \in {a, b} /\ Min({a, b}) <= a /\ Min({a, b}) <= b
  BY <1>1, MinOf
<1> QED BY <1>2

LEMMA Bounds ==
    /\ MaxSeq \in Nat /\ MaxSeq >= 1 /\ PageLimit \in Nat /\ PageLimit >= 1
    /\ WindowSize \in Nat /\ WindowSize >= 1 /\ GapThreshold \in Nat
    /\ MaxFaults \in Nat /\ MaxRequests \in Nat /\ MaxRestores \in Nat
    /\ Seqs \subseteq Nat /\ 0 \in Seqs /\ Positions \in SUBSET (Nat \ {0})
    /\ IsFiniteSet(Positions)
<1>1. Cardinality(Positions) \in Nat
  BY PositionsAssumption, FS_CardinalityType
<1> QED BY <1>1, BoundsAssumption, PositionsAssumption DEF Seqs

-----------------------------------------------------------------------------
(* The content of a message after a prefix of the log.                     *)

LEMMA VersionBound ==
    ASSUME NEW l, NEW m, NEW n \in Nat
    PROVE  VersionIn(l, m, n) \in 0..n
<1> DEFINE touching == {i \in 1..n : m \in l[i].messages}
<1>1. CASE touching = {}
  BY <1>1 DEF VersionIn
<1>2. CASE touching # {}
  <2>1. touching \in SUBSET Nat /\ \A i \in touching : i <= n
    OBVIOUS
  <2> HIDE DEF touching
  <2>2. Max(touching) \in touching
    BY <1>2, <2>1, MaxOf
  <2> USE DEF touching
  <2> QED BY <2>2 DEF VersionIn
<1> QED BY <1>1, <1>2

\* Versions depend on the prefix of the log alone.
LEMMA VersionOfPrefix ==
    ASSUME NEW l, NEW k, NEW m, NEW n \in Nat, \A i \in 1..n : l[i] = k[i]
    PROVE  VersionIn(l, m, n) = VersionIn(k, m, n)
<1> DEFINE touching == {i \in 1..n : m \in l[i].messages}
<1>1. touching = {i \in 1..n : m \in k[i].messages}
  OBVIOUS
<1>2. CASE touching = {}
  BY <1>1, <1>2 DEF VersionIn
<1>3. CASE touching # {}
  <2>0. touching \in SUBSET Nat /\ \A i \in touching : i <= n
    OBVIOUS
  <2>1. Max(touching) \in touching
    BY <1>3, <2>0, MaxOf
  <2>2. l[Max(touching)] = k[Max(touching)]
    BY <2>1
  <2> QED BY <1>1, <1>3, <2>2 DEF VersionIn
<1> QED BY <1>2, <1>3

\* Events that do not touch a message do not change it.
LEMMA VersionUntouched ==
    ASSUME NEW l, NEW m, NEW a \in Nat, NEW b \in Nat, a <= b,
           \A i \in a + 1..b : m \notin l[i].messages
    PROVE  VersionIn(l, m, b) = VersionIn(l, m, a)
<1>1. {i \in 1..b : m \in l[i].messages} = {i \in 1..a : m \in l[i].messages}
  OBVIOUS
<1> QED BY <1>1 DEF VersionIn

\* The last event that touches it does.
LEMMA VersionTouched ==
    ASSUME NEW l, NEW m, NEW a \in Nat, NEW b \in Nat, NEW i \in a + 1..b, m \in l[i].messages
    PROVE  LET touching == {j \in a + 1..b : m \in l[j].messages} IN
           /\ Max(touching) \in touching
           /\ VersionIn(l, m, b) = IF l[Max(touching)].type = "messages.upserted"
                                   THEN Max(touching) ELSE 0
<1> DEFINE touching == {j \in a + 1..b : m \in l[j].messages}
           all == {j \in 1..b : m \in l[j].messages}
<1>1. touching # {} /\ touching \in SUBSET Nat /\ \A x \in touching : x <= b
  OBVIOUS
<1>2. Max(touching) \in touching /\ \A x \in touching : x <= Max(touching)
  BY <1>1, MaxOf
<1>3. Max(touching) \in all /\ \A x \in all : x <= Max(touching)
  <2>1. touching = {j \in all : j > a}
    OBVIOUS
  <2> HIDE DEF touching
  <2>2. Max(touching) \in all /\ Max(touching) > a
    BY <1>2, <2>1
  <2> SUFFICES ASSUME NEW x \in all PROVE x <= Max(touching)
    BY <2>2
  <2> QED BY <1>2, <2>1, <2>2
<1>4. Max(all) = Max(touching)
  BY <1>3, MaxIs, all \in SUBSET Nat
<1> QED BY <1>2, <1>3, <1>4 DEF VersionIn

LEMMA VersionAtIs == \A m, n : VersionAt(m, n) = VersionIn(log, m, n)
  BY DEF VersionAt, VersionIn

-----------------------------------------------------------------------------
(* Requests and answers.                                                   *)

Codes == {"expired", "ahead", "boundary", "denied", "lost", "unavailable"}

LEMMA RequestFields ==
    ASSUME NEW r \in Requests
    PROVE  /\ r.kind \in {"none", "events", "stream", "page", "snapshot", "window", "error"}
           /\ r.kind = "none" => r = NoRequest
           /\ r.kind = "events" => r.after \in Seqs
           /\ r.kind = "stream" => r.after \in Seqs /\ r.from \in 1..MaxSeq + 1 /\ r.head \in Seqs
           /\ r.kind = "page" => /\ r.from \in 1..MaxSeq + 1 /\ r.to \in Seqs
                                 /\ r.head \in Seqs /\ r.more \in BOOLEAN
           /\ r.kind = "snapshot" => r.before \in Positions \union {0}
           /\ r.kind = "window" => r.seq \in Seqs /\ r.view \in Views /\ r.more \in BOOLEAN
           /\ r.kind = "error" => r.code \in Codes
  BY DEF Requests, NoRequest, Codes

LEMMA RequestsAre ==
    /\ NoRequest \in Requests
    /\ \A a \in Seqs : [kind |-> "events", after |-> a] \in Requests
    /\ \A b \in Positions \union {0} : [kind |-> "snapshot", before |-> b] \in Requests
    /\ \A c \in Codes : Error(c) \in Requests
  BY DEF Requests, NoRequest, Codes, Error

\* A request, and an answer that is an error, claim nothing about the room.
LEMMA Claimless ==
    ASSUME NEW l, NEW r \in Requests, r.kind \in {"none", "events", "snapshot", "error"}
    PROVE  AnswerOK(l, r) /\ (r.kind # "snapshot" \/ r.before = 0 => Whole(l, r))
  BY DEF AnswerOK, Whole

-----------------------------------------------------------------------------
(* The log grows.                                                          *)

LEMMA LogFields ==
    ASSUME NEW l, LogOK(l)
    PROVE  /\ Len(l) \in Nat /\ 1 <= Len(l) /\ Len(l) <= MaxSeq
           /\ \A i \in 1..Len(l) : l[i].type \in EventTypes /\ l[i].messages \in SUBSET Positions
<1>1. Len(l) \in Nat /\ 1 <= Len(l) /\ Len(l) <= MaxSeq
  BY Bounds DEF LogOK
<1>2. \A i \in 1..Len(l) : l[i] \in Events
  BY ElementOfSeq DEF LogOK
<1> QED BY <1>1, <1>2 DEF Events

LEMMA CursorsAre ==
    ASSUME NEW s \in Syncs
    PROVE  s.applied \in Seqs /\ s.applied \in Nat /\ s.desired \in Seqs /\ s.desired \in Nat
  BY Bounds DEF Syncs

Extends(l, k) == Len(l) <= Len(k) /\ \A i \in 1..Len(l) : l[i] = k[i]

LEMMA PrefixKept ==
    ASSUME NEW l, LogOK(l), NEW k, LogOK(k), Extends(l, k)
    PROVE  /\ \A m, n : n \in 0..Len(l) => VersionIn(k, m, n) = VersionIn(l, m, n)
           /\ \A m, n : n \in 0..Len(l) => NewerIn(k, m, n) = NewerIn(l, m, n)
<1>1. ASSUME NEW m, NEW n \in 0..Len(l)
      PROVE  VersionIn(k, m, n) = VersionIn(l, m, n)
  <2>1. n \in Nat /\ \A i \in 1..n : l[i] = k[i]
    BY DEF Extends, LogOK
  <2> QED BY <2>1, VersionOfPrefix
<1> QED BY <1>1 DEF NewerIn

LEMMA AnswersKept ==
    ASSUME NEW l, LogOK(l), NEW k, LogOK(k), Extends(l, k), NEW r, AnswerOK(l, r)
    PROVE  AnswerOK(k, r) /\ (Whole(l, r) => Whole(k, r))
<1>1. Len(l) \in Nat /\ Len(k) \in Nat /\ Len(l) <= Len(k)
  BY DEF LogOK, Extends
<1>2. r.kind = "window" => r.seq \in 0..Len(l)
  BY RequestFields, <1>1 DEF AnswerOK, Seqs
<1>3. AnswerOK(k, r)
  <2>1. CASE r.kind = "window"
    BY <1>1, <1>2, <2>1, PrefixKept DEF AnswerOK
  <2>2. CASE r.kind # "window"
    BY <1>1, <2>2, RequestFields, Bounds DEF AnswerOK, Seqs
  <2> QED BY <2>1, <2>2
<1>4. Whole(l, r) => Whole(k, r)
  BY <1>2, PrefixKept DEF Whole
<1> QED BY <1>3, <1>4

LEMMA NoticesKept ==
    ASSUME NEW l, LogOK(l), NEW k, LogOK(k), Extends(l, k), NEW sent, WireOK(l, sent)
    PROVE  WireOK(k, sent)
<1>1. \A notice : NoticeOK(l, notice) => NoticeOK(k, notice)
  BY DEF NoticeOK, Notices, LogOK, Extends, Seqs
<1> QED BY <1>1 DEF WireOK

LEMMA LoopKept ==
    ASSUME NEW l, LogOK(l), NEW k, LogOK(k), Extends(l, k), NEW n, NEW s, LoopOK(l, n, s)
    PROVE  LoopOK(k, n, s)
<1>1. AnswerOK(k, s.request) /\ Whole(k, s.request)
  BY AnswersKept DEF LoopOK, RequestOK
<1>2. RequestOK(k, s)
  BY <1>1 DEF LoopOK, RequestOK
<1>3. s.applied \in Nat
  BY Bounds DEF LoopOK, Syncs
<1>4. CursorOK(k, n, s)
  BY <1>3 DEF LoopOK, CursorOK, Extends, LogOK
<1> QED BY <1>2, <1>4 DEF LoopOK

LEMMA SideKept ==
    ASSUME NEW l, LogOK(l), NEW k, LogOK(k), Extends(l, k), NEW d, SideOK(l, d)
    PROVE  SideOK(k, d)
  BY AnswersKept DEF SideOK

-----------------------------------------------------------------------------
(* The window.                                                             *)

\* t knows as much as s, or trusts less.
Remembers(s, t) ==
    /\ t.applied = s.applied
    /\ t.baseline => s.baseline
    /\ Trusted(t) => Trusted(s)

\* The log grows, or the loop takes a step that leaves the window alone.
LEMMA FollowsOn ==
    ASSUME NEW l, LogOK(l), NEW k, LogOK(k), Extends(l, k),
           NEW s \in Syncs, s.applied <= Len(l), NEW w,
           NEW q, NEW r, r = 0 => q = 0, Follows(l, q, s, w),
           NEW t, Remembers(s, t)
    PROVE  Follows(k, r, t, w)
<1>0. s.applied \in Nat
  BY Bounds DEF Syncs
<1>1. s.applied \in Nat /\ Len(l) \in Nat /\ Len(k) \in Nat /\ Len(l) <= Len(k)
  BY <1>0 DEF LogOK, Extends
<1>2. \A m : PresentIn(k, s.applied, m) => PresentIn(l, s.applied, m)
  BY <1>1, PrefixKept DEF PresentIn
<1>3. StaleFree(k, s.applied, w.view)
  BY <1>1, PrefixKept DEF Follows, StaleFree
<1>4. ASSUME s.baseline
      PROVE  NoneMissing(k, s.applied, w.view)
  <2>1. \A m : VersionIn(k, m, s.applied) = VersionIn(l, m, s.applied)
    BY <1>1, PrefixKept
  <2>2. \A m : VersionIn(l, m, s.applied) \in 0..s.applied
    BY <1>1, VersionBound
  <2>3. \A m, n : n \in VersionIn(l, m, s.applied)..s.applied => NewerIn(k, m, n) = NewerIn(l, m, n)
    BY <1>1, <2>2, PrefixKept
  <2> QED BY <1>2, <1>4, <2>1, <2>3 DEF Follows, NoneMissing
<1>5. Sound(l, s.applied, w) => Sound(k, s.applied, w)
  BY <1>2 DEF Sound
<1> QED BY <1>3, <1>4, <1>5 DEF Follows, Remembers

\* A snapshot replaces the window.
LEMMA FollowsReplaced ==
    ASSUME NEW l, LogOK(l), NEW r, AnswerOK(l, r), Whole(l, r), r.kind = "window",
           NEW q, NEW s, s.applied = r.seq, NEW w, w.view = r.view, w.more = r.more
    PROVE  Follows(l, q, s, w)
<1>1. r.seq \in 0..Len(l) /\ Len(l) \in Nat /\ r.more \in BOOLEAN /\ r.view \in Views
  BY RequestFields DEF AnswerOK, LogOK, Seqs
<1>2. StaleFree(l, r.seq, r.view)
  BY <1>1 DEF StaleFree, Loaded, AnswerOK
<1>3. \A m : PresentIn(l, r.seq, m) => VersionIn(l, m, r.seq) # 0
  BY <1>1 DEF PresentIn
<1>4. NoneMissing(l, r.seq, r.view)
  <2> SUFFICES ASSUME NEW m \in Positions, r.view[m] = 0, PresentIn(l, r.seq, m)
               PROVE  \E n \in VersionIn(l, m, r.seq)..r.seq :
                          Cardinality(NewerIn(l, m, n)) >= WindowSize
    BY DEF NoneMissing, Loaded
  <2>1. Cardinality(NewerIn(l, m, r.seq)) >= WindowSize
    BY <1>3 DEF Whole
  <2>2. VersionIn(l, m, r.seq) \in 0..r.seq
    BY <1>1, VersionBound
  <2> QED BY <1>1, <2>1, <2>2
<1>5. Sound(l, r.seq, w)
  BY <1>1, <1>3 DEF Sound, Whole, Loaded
<1> QED BY <1>2, <1>4, <1>5 DEF Follows

\* A page of older history is put before it.
LEMMA FollowsPrepended ==
    ASSUME NEW l, LogOK(l), NEW r, AnswerOK(l, r), r.kind = "window",
           NEW q, q # 0, NEW s \in Syncs, s.applied <= r.seq,
           NEW w, Follows(l, q, s, w),
           NEW t, t.applied = s.applied, t.baseline => s.baseline
    PROVE  Follows(l, q, t, Prepended(w, r))
<1> DEFINE view == Prepended(w, r).view
<1>1. r.seq \in 0..Len(l) /\ Len(l) \in Nat /\ s.applied \in Nat /\ r.view \in Views
  BY RequestFields, Bounds DEF AnswerOK, LogOK, Seqs, Syncs
<1>2. \A m \in Positions : view[m] = IF w.view[m] # 0 THEN w.view[m] ELSE r.view[m]
  BY DEF Prepended
<1> HIDE DEF view
<1>3. StaleFree(l, s.applied, view)
  <2> SUFFICES ASSUME NEW m \in Positions, view[m] # 0
               PROVE  \E n \in s.applied..Len(l) : view[m] = VersionIn(l, m, n)
    BY DEF StaleFree, Loaded
  <2>1. CASE w.view[m] # 0
    BY <1>2, <2>1 DEF Follows, StaleFree, Loaded
  <2>2. CASE w.view[m] = 0
    BY <1>1, <1>2, <2>2 DEF AnswerOK
  <2> QED BY <2>1, <2>2
<1>4. Loaded(w.view) \subseteq Loaded(view)
  BY <1>2 DEF Loaded
<1>5. NoneMissing(l, s.applied, w.view) => NoneMissing(l, s.applied, view)
  BY <1>4 DEF NoneMissing
<1> QED BY <1>3, <1>5 DEF Follows, view

-----------------------------------------------------------------------------
(* Accepted events.                                                        *)

\* They continue the window up to the last one, or are the tombstone alone.
LEMMA AcceptedShape ==
    ASSUME LogOK(log), NEW s \in Syncs, NEW from \in Nat \ {0}, NEW to \in 0..Len(log),
           Accepted(s, from, to) # {}
    PROVE  LET accepted == Accepted(s, from, to) IN
           /\ s.applied < to /\ Max(accepted) = to
           /\ \/ accepted = s.applied + 1..to
              \/ accepted = {to} /\ to = Len(log) /\ log[to].type = "room.deleted"
<1> DEFINE fresh == {i \in from..to : i > s.applied}
           accepted == Accepted(s, from, to)
<1>0. s.applied \in Nat
  BY Bounds DEF Syncs
<1>1. Len(log) \in Nat
  BY DEF LogOK
<1>2. accepted = fresh /\ fresh # {}
  BY DEF Accepted
<1>3. Min(fresh) \in fresh /\ \A i \in fresh : Min(fresh) <= i
  BY <1>2, MinOf, fresh \in SUBSET Nat
<1>4. to \in fresh /\ s.applied < to
  BY <1>0, <1>1, <1>2
<1>5. Max(fresh) = to
  BY <1>1, <1>4, MaxIs, fresh \in SUBSET Nat, \A i \in fresh : i <= to
<1>6. CASE Min(fresh) = s.applied + 1
  <2>1. from <= s.applied + 1
    BY <1>3, <1>6
  <2>2. fresh = s.applied + 1..to
    BY <1>0, <1>1, <2>1
  <2> QED BY <1>2, <1>4, <1>5, <2>2
<1>7. CASE Min(fresh) # s.applied + 1
  <2>1. log[Min(fresh)].type = "room.deleted"
    BY <1>2, <1>7 DEF Accepted
  <2>2. Min(fresh) = Len(log)
    <3>1. Min(fresh) \in 1..Len(log)
      BY <1>1, <1>3
    <3> QED BY <2>1, <3>1 DEF LogOK
  <2>3. fresh = {to} /\ to = Len(log)
    BY <1>1, <1>3, <1>4, <2>2
  <2> QED BY <1>2, <1>4, <1>5, <2>1, <2>2, <2>3
<1> QED BY <1>6, <1>7

\* Each message has the content it has after the last of them, or they do not touch it.
LEMMA ReducedIs ==
    ASSUME LogOK(log), NEW s \in Syncs, NEW from \in Nat \ {0}, NEW to \in 0..Len(log),
           Accepted(s, from, to) # {}, NEW view \in Views, NEW m \in Positions
    PROVE  LET accepted == Accepted(s, from, to) IN
           \/ /\ Reduced(view, accepted)[m] = VersionIn(log, m, to)
              /\ \E i \in accepted : /\ m \in log[i].messages
                                     /\ log[i].type # "messages.upserted" =>
                                            Reduced(view, accepted)[m] = 0
                                     /\ Reduced(view, accepted)[m] = 0 =>
                                            log[i].type # "messages.upserted"
           \/ /\ Reduced(view, accepted)[m] = view[m]
              /\ \A n \in s.applied..to : VersionIn(log, m, n) = VersionIn(log, m, to)
<1> DEFINE accepted == Accepted(s, from, to)
           touching == {i \in accepted : m \in log[i].messages}
<1>0. s.applied \in Nat /\ Len(log) \in Nat /\ to \in Nat
  BY CursorsAre, LogFields
<1>1. /\ s.applied < to
      /\ \/ accepted = s.applied + 1..to
         \/ accepted = {to} /\ to = Len(log) /\ log[to].type = "room.deleted"
  BY AcceptedShape
<1>2. Reduced(view, accepted)[m] =
        IF touching = {} THEN view[m]
        ELSE IF log[Max(touching)].type = "messages.upserted" THEN Max(touching) ELSE 0
  BY DEF Reduced
<1>3. PICK a \in Nat : s.applied <= a /\ accepted = a + 1..to
  <2>1. CASE accepted = s.applied + 1..to
    BY <1>0, <2>1
  <2>2. CASE accepted = {to}
    <3>1. to - 1 \in Nat /\ s.applied <= to - 1 /\ {to} = (to - 1) + 1..to
      BY <1>0, <1>1
    <3> QED BY <2>2, <3>1
  <2> QED BY <1>1, <2>1, <2>2
<1> HIDE DEF accepted
<1>4. CASE touching # {}
  <2>1. PICK i \in a + 1..to : m \in log[i].messages
    BY <1>3, <1>4
  <2>2. touching = {j \in a + 1..to : m \in log[j].messages}
    BY <1>3
  <2> DEFINE last == {j \in a + 1..to : m \in log[j].messages}
  <2>3. /\ Max(last) \in last
        /\ VersionIn(log, m, to) = IF log[Max(last)].type = "messages.upserted"
                                   THEN Max(last) ELSE 0
    BY <1>0, <2>1, VersionTouched
  <2> HIDE DEF touching
  <2>4. Max(touching) # 0 /\ Max(touching) \in touching
    BY <1>3, <2>2, <2>3
  <2> QED BY <1>2, <1>4, <2>2, <2>3, <2>4 DEF accepted, touching
<1>5. CASE touching = {}
  <2>1. accepted = s.applied + 1..to
    <3> SUFFICES ASSUME accepted = {to}, to = Len(log), log[to].type = "room.deleted"
                 PROVE  FALSE
      BY <1>1
    <3>1. log[to].messages = Positions
      BY <1>0, <1>1 DEF LogOK
    <3> QED BY <1>5, <3>1
  <2>2. ASSUME NEW n \in s.applied..to
        PROVE  VersionIn(log, m, n) = VersionIn(log, m, to)
    <3>1. n \in Nat /\ n <= to /\ \A i \in n + 1..to : m \notin log[i].messages
      BY <1>0, <1>5, <2>1
    <3> QED BY <1>0, <3>1, VersionUntouched
  <2> QED BY <1>2, <1>5, <2>2 DEF accepted
<1> QED BY <1>4, <1>5

LEMMA WindowAfterOK ==
    ASSUME LogOK(log), NEW s \in Syncs, NEW from \in Nat \ {0}, NEW to \in 0..Len(log),
           Accepted(s, from, to) # {}, NEW w \in Windows
    PROVE  WindowAfter(w, Accepted(s, from, to)) \in Windows
<1> DEFINE accepted == Accepted(s, from, to)
           view == Reduced(w.view, accepted)
           left == Loaded(view)
<1>1. ASSUME NEW m \in Positions
      PROVE  view[m] \in Seqs
  <2>1. VersionIn(log, m, to) \in 0..to
    BY VersionBound, Bounds DEF LogOK
  <2>2. VersionIn(log, m, to) \in Seqs
    BY <2>1, Bounds DEF LogOK, Seqs
  <2>3. w.view \in Views /\ w.view[m] \in Seqs
    BY DEF Windows, Views
  <2> QED BY <2>2, <2>3, ReducedIs
<1>2. view \in Views
  BY <1>1 DEF Reduced, Views
<1>3. left # {} => Min(left) \in Positions
  <2>1. left \in SUBSET Nat /\ left \in SUBSET Positions
    BY Bounds DEF Loaded
  <2> QED BY <2>1, MinOf
<1> HIDE DEF view, accepted
<1>4. (w.more /\ (left # {} \/ Emptied(w, accepted))) \in BOOLEAN
  OBVIOUS
<1> QED BY <1>2, <1>3, <1>4 DEF WindowAfter, Windows, view, accepted

\* Events are applied to the window.
LEMMA FollowsAccepted ==
    ASSUME LogOK(log), NEW s \in Syncs, NEW from \in Nat \ {0}, NEW to \in 0..Len(log),
           Accepted(s, from, to) # {}, NEW w \in Windows, NEW q,
           s.baseline, Follows(log, q, s, w),
           NEW t, t.applied = to,
           t.baseline => ~DeletesRoom(Accepted(s, from, to)),
           Trusted(t) => ~s.invalid /\ ~Emptied(w, Accepted(s, from, to))
    PROVE  Follows(log, q, t, WindowAfter(w, Accepted(s, from, to)))
<1> DEFINE accepted == Accepted(s, from, to)
           view == Reduced(w.view, accepted)
<1>0. s.applied \in Nat /\ Len(log) \in Nat /\ to \in Nat
  BY CursorsAre, LogFields
<1>1. /\ s.applied < to
      /\ \/ accepted = s.applied + 1..to
         \/ accepted = {to} /\ to = Len(log) /\ log[to].type = "room.deleted"
  BY AcceptedShape
<1>2. w.view \in Views
  BY DEF Windows
<1>3. ASSUME NEW m \in Positions
      PROVE  \/ /\ view[m] = VersionIn(log, m, to)
                /\ \E i \in accepted : /\ m \in log[i].messages
                                       /\ log[i].type # "messages.upserted" => view[m] = 0
                                       /\ view[m] = 0 => log[i].type # "messages.upserted"
             \/ /\ view[m] = w.view[m]
                /\ \A n \in s.applied..to : VersionIn(log, m, n) = VersionIn(log, m, to)
  BY <1>2, ReducedIs
<1>4. ASSUME NEW m \in Positions, PresentIn(log, to, m)
      PROVE  VersionIn(log, m, to) # 0 /\ (view[m] = w.view[m] \/ view[m] # 0)
  BY <1>0, <1>3, <1>4 DEF PresentIn
<1>5. ASSUME NEW m \in Positions, PresentIn(log, to, m), view[m] = 0
      PROVE  PresentIn(log, s.applied, m) /\ w.view[m] = 0
             /\ \A n \in s.applied..to : VersionIn(log, m, n) = VersionIn(log, m, to)
  <2>1. VersionIn(log, m, to) # 0
    BY <1>4, <1>5
  <2>2. view[m] = w.view[m] /\ \A n \in s.applied..to : VersionIn(log, m, n) = VersionIn(log, m, to)
    BY <1>3, <1>5, <2>1
  <2> QED BY <1>0, <1>5, <2>1, <2>2 DEF PresentIn
<1> HIDE DEF view, accepted
<1>6. StaleFree(log, to, view)
  <2> SUFFICES ASSUME NEW m \in Positions, view[m] # 0
               PROVE  \E n \in to..Len(log) : view[m] = VersionIn(log, m, n)
    BY DEF StaleFree, Loaded
  <2>1. CASE view[m] = VersionIn(log, m, to)
    BY <1>0, <2>1
  <2>2. CASE /\ view[m] = w.view[m]
             /\ \A n \in s.applied..to : VersionIn(log, m, n) = VersionIn(log, m, to)
    <3>1. PICK n \in s.applied..Len(log) : view[m] = VersionIn(log, m, n)
      BY <2>2 DEF Follows, StaleFree, Loaded
    <3>2. CASE n >= to
      BY <1>0, <3>1, <3>2
    <3>3. CASE n < to
      <4>1. view[m] = VersionIn(log, m, to)
        BY <1>0, <2>2, <3>1, <3>3
      <4> QED BY <1>0, <4>1
    <3> QED BY <1>0, <3>2, <3>3
  <2> QED BY <1>3, <2>1, <2>2
<1>7. NoneMissing(log, to, view)
  <2> SUFFICES ASSUME NEW m \in Positions, view[m] = 0, PresentIn(log, to, m)
               PROVE  \E n \in VersionIn(log, m, to)..to :
                          Cardinality(NewerIn(log, m, n)) >= WindowSize
    BY DEF NoneMissing, Loaded
  <2>1. /\ PresentIn(log, s.applied, m) /\ w.view[m] = 0
        /\ VersionIn(log, m, s.applied) = VersionIn(log, m, to)
    BY <1>0, <1>1, <1>5
  <2>2. PICK n \in VersionIn(log, m, s.applied)..s.applied :
                Cardinality(NewerIn(log, m, n)) >= WindowSize
    BY <2>1 DEF Follows, NoneMissing, Loaded
  <2>3. VersionIn(log, m, to) \in 0..to
    BY VersionBound
  <2> QED BY <1>0, <1>1, <2>1, <2>2, <2>3
<1>8. ASSUME q = 0, Trusted(t)
      PROVE  Sound(log, to, WindowAfter(w, accepted))
  <2>1. ~s.invalid /\ ~Emptied(w, accepted) /\ ~DeletesRoom(accepted) /\ Sound(log, s.applied, w)
    BY <1>8 DEF Trusted, Follows, accepted
  <2>2. w.more => Loaded(view) # {}
    <3> SUFFICES ASSUME w.more, Loaded(view) = {} PROVE FALSE
      OBVIOUS
    <3>1. ~Deletes(accepted)
      BY <2>1 DEF Emptied, view
    <3>2. PICK m \in Positions : w.view[m] # 0
      BY <2>1 DEF Sound, Loaded
    <3>3. view[m] = 0
      BY DEF Loaded
    <3>4. PICK i \in accepted : m \in log[i].messages /\ log[i].type # "messages.upserted"
      BY <1>3, <3>2, <3>3
    <3>5. i \in 1..Len(log)
      BY <1>0, <1>1, <3>4
    <3>6. log[i].type \in EventTypes
      BY <3>5, LogFields
    <3>7. log[i].type # "other"
      BY <3>4, <3>5 DEF LogOK
    <3> QED BY <2>1, <3>1, <3>4, <3>6, <3>7 DEF EventTypes, Deletes, DeletesRoom
  <2>3. ~w.more => \A m \in Positions : PresentIn(log, to, m) => m \in Loaded(view)
    BY <1>5, <2>1 DEF Sound, Loaded
  <2>4. WindowAfter(w, accepted).view = view /\ WindowAfter(w, accepted).more = w.more
    BY <2>1, <2>2 DEF WindowAfter, view, Windows
  <2> QED BY <2>2, <2>3, <2>4 DEF Sound
<1>9. WindowAfter(w, accepted).view = view
  BY DEF WindowAfter, view
<1> QED BY <1>6, <1>7, <1>8, <1>9 DEF Follows, accepted

-----------------------------------------------------------------------------
(* The state machine and the loop.                                         *)

\* What the loop may be continued from, and what it then is.
Able(l, n, s) ==
    /\ s \in Syncs /\ ~s.prepending
    /\ s.cached => s.baseline
    /\ n = 0 => s.applied <= Len(l)

Onward(l, n, s, t) == LoopOK(l, n, t) /\ ~t.prepending /\ Remembers(s, t)

LEMMA AskEventsOK ==
    ASSUME NEW l, LogOK(l), NEW n, NEW s, Able(l, n, s), s.baseline
    PROVE  Onward(l, n, s, AskEvents(s))
<1> DEFINE r == [kind |-> "events", after |-> s.applied]
           t == AskEvents(s)
<1>1. r \in Requests /\ AnswerOK(l, r) /\ Whole(l, r)
  BY RequestsAre, Claimless, CursorsAre DEF Able
<1>2. /\ t \in Syncs /\ t.request = r /\ t.pc = "events"
      /\ t.applied = s.applied /\ t.baseline = s.baseline /\ t.invalid = s.invalid
      /\ t.cached = s.cached /\ t.prepending = s.prepending
  BY <1>1 DEF Able, Syncs, AskEvents
<1> HIDE DEF t
<1>3. RequestOK(l, t) /\ CursorOK(l, n, t)
  BY <1>1, <1>2 DEF Able, RequestOK, CursorOK
<1> QED BY <1>2, <1>3 DEF Onward, LoopOK, Able, Remembers, Trusted, t

LEMMA AskSnapshotOK ==
    ASSUME NEW l, LogOK(l), NEW n, NEW s, Able(l, n, s) \/ LoopOK(l, n, s), NEW target \in Seqs
    PROVE  Onward(l, n, s, AskSnapshot(s, target))
<1> DEFINE r == [kind |-> "snapshot", before |-> 0]
           t == AskSnapshot(s, target)
<1>1. r \in Requests /\ AnswerOK(l, r) /\ Whole(l, r)
  BY RequestsAre, Claimless
<1>2. s \in Syncs /\ (s.cached => s.baseline) /\ (n = 0 => s.applied <= Len(l))
  BY DEF Able, LoopOK, CursorOK
<1>3. /\ t \in Syncs /\ t.request = r /\ t.pc = "snapshot"
      /\ t.applied = s.applied /\ t.baseline = s.baseline /\ t.invalid = s.invalid
      /\ t.cached = s.cached /\ ~t.prepending
  BY <1>1, <1>2 DEF Syncs, AskSnapshot
<1> HIDE DEF t
<1>4. RequestOK(l, t) /\ CursorOK(l, n, t)
  BY <1>1, <1>2, <1>3 DEF RequestOK, CursorOK
<1> QED BY <1>2, <1>3, <1>4 DEF Onward, LoopOK, Remembers, Trusted, t

LEMMA LoopTopOK ==
    ASSUME NEW l, LogOK(l), NEW n, NEW s, Able(l, n, s)
    PROVE  Onward(l, n, s, LoopTop(s))
<1>1. CASE ~(s.requested /\ s.ready)
  <2> DEFINE t == LoopTop(s)
  <2>1. NoRequest \in Requests /\ AnswerOK(l, NoRequest) /\ Whole(l, NoRequest)
        /\ NoRequest.kind = "none"
    BY RequestsAre, Claimless DEF NoRequest
  <2>2. /\ t \in Syncs /\ t.request = NoRequest /\ t.pc = "idle"
        /\ t.applied = s.applied /\ t.baseline = s.baseline /\ t.invalid = s.invalid
        /\ t.cached = s.cached /\ ~t.prepending
    BY <1>1, <2>1, Bounds DEF Able, Syncs, LoopTop
  <2> HIDE DEF t
  <2>3. RequestOK(l, t) /\ CursorOK(l, n, t)
    BY <2>1, <2>2 DEF Able, RequestOK, CursorOK
  <2> QED BY <2>2, <2>3 DEF Onward, LoopOK, Able, Remembers, Trusted, t
<1>2. CASE s.requested /\ s.ready
  <2> DEFINE t == [s EXCEPT !.requested = FALSE]
  <2>1. /\ Able(l, n, t) /\ t.applied = s.applied /\ t.baseline = s.baseline
        /\ t.invalid = s.invalid /\ t.cached = s.cached
    BY DEF Able, Syncs
  <2>2. LoopTop(s) = IF t.baseline /\ ~t.invalid THEN AskEvents(t) ELSE AskSnapshot(t, 0)
    BY <1>2 DEF LoopTop
  <2> HIDE DEF t
  <2>3. Onward(l, n, t, LoopTop(s))
    BY <2>1, <2>2, AskEventsOK, AskSnapshotOK, Bounds
  <2> QED BY <2>1, <2>3 DEF Onward, Remembers, Trusted
<1> QED BY <1>1, <1>2

LEMMA ReadOnOK ==
    ASSUME NEW l, LogOK(l), NEW n, NEW s, Able(l, n, s), s.baseline
    PROVE  Onward(l, n, s, ReadOn(s))
  BY AskEventsOK, LoopTopOK DEF ReadOn

\* Running loops are able.
LEMMA RunningIsAble ==
    ASSUME NEW l, NEW n, NEW s, LoopOK(l, n, s), s.pc # "idle" \/ ~s.prepending
    PROVE  Able(l, n, s)
  BY DEF Able, LoopOK, RequestOK, CursorOK

LEMMA ReplayOK ==
    ASSUME NEW l, LogOK(l), NEW n, NEW s, LoopOK(l, n, s)
    PROVE  /\ LoopOK(l, n, Replay(s)) /\ Remembers(s, Replay(s))
           /\ Replay(s).prepending => ~s.ready /\ s.prepending
<1>1. CASE ~s.ready
  BY <1>1 DEF Replay, Remembers
<1>2. CASE s.ready
  <2> DEFINE t == [s EXCEPT !.requested = TRUE, !.prepending = FALSE]
  <2>1. /\ t \in Syncs /\ ~t.prepending /\ t.applied = s.applied /\ t.baseline = s.baseline
        /\ t.invalid = s.invalid /\ t.cached = s.cached /\ t.pc = s.pc /\ t.request = s.request
    BY DEF LoopOK, Syncs
  <2>2. Replay(s) = IF t.pc = "idle" THEN LoopTop(t) ELSE t
    BY <1>2 DEF Replay
  <2> HIDE DEF t
  <2>3. LoopOK(l, n, t) /\ Able(l, n, t) /\ Remembers(s, t)
    BY <2>1 DEF LoopOK, RequestOK, CursorOK, Able, Remembers, Trusted
  <2>4. Onward(l, n, t, Replay(s))
    BY <2>1, <2>2, <2>3, LoopTopOK DEF Onward, Remembers
  <2> QED BY <2>3, <2>4 DEF Onward, Remembers
<1> QED BY <1>1, <1>2

LEMMA LeftOK ==
    ASSUME NEW l, LogOK(l), NEW n, NEW s \in Syncs, n = 0 => s.applied <= Len(l)
    PROVE  Onward(l, n, s, Left(s))
<1> DEFINE t == Left(s)
<1>1. NoRequest \in Requests /\ AnswerOK(l, NoRequest) /\ Whole(l, NoRequest)
      /\ NoRequest.kind = "none"
  BY RequestsAre, Claimless DEF NoRequest
<1>2. /\ t \in Syncs /\ t.request = NoRequest /\ t.pc = "idle" /\ t.applied = s.applied
      /\ ~t.baseline /\ ~t.cached /\ ~t.prepending
  BY <1>1, Bounds DEF Syncs, Left, Cold
<1> HIDE DEF t
<1>3. RequestOK(l, t) /\ CursorOK(l, n, t)
  BY <1>1, <1>2 DEF RequestOK, CursorOK
<1> QED BY <1>2, <1>3 DEF Onward, LoopOK, Remembers, Trusted, t

LEMMA NotifyHeadOK ==
    ASSUME NEW l, NEW n, NEW s, LoopOK(l, n, s), NEW head \in Seqs
    PROVE  /\ LoopOK(l, n, NotifyHead(s, head)) /\ Remembers(s, NotifyHead(s, head))
           /\ NotifyHead(s, head) = [s EXCEPT !.desired = NotifyHead(s, head).desired]
           /\ NotifyHead(s, head).desired \in Seqs
           /\ NotifyHead(s, head).desired >= head /\ NotifyHead(s, head).desired >= s.desired
<1> DEFINE t == NotifyHead(s, head)
           d == Max({s.desired, head})
<1>1. s \in Syncs /\ d \in Seqs /\ d >= head /\ d >= s.desired
  BY CursorsAre, Bounds, MaxOfPair DEF LoopOK
<1>2. t = [s EXCEPT !.desired = d]
  BY DEF NotifyHead
<1> HIDE DEF t, d
<1>3. /\ t \in Syncs /\ t.request = s.request /\ t.pc = s.pc /\ t.applied = s.applied
      /\ t.baseline = s.baseline /\ t.invalid = s.invalid /\ t.cached = s.cached
      /\ t.prepending = s.prepending /\ t.desired = d
  BY <1>1, <1>2 DEF Syncs
<1>4. LoopOK(l, n, t)
  BY <1>3 DEF LoopOK, RequestOK, CursorOK
<1> QED BY <1>1, <1>2, <1>3, <1>4 DEF Remembers, Trusted, t

\* Flags that the invariant does not mention.
LEMMA FlagsOK ==
    ASSUME NEW l, NEW n, NEW s, LoopOK(l, n, s), NEW t \in Syncs,
           t.request = s.request, t.pc = s.pc, t.applied = s.applied, t.baseline = s.baseline,
           t.cached = s.cached, t.prepending => s.prepending,
           t.invalid = s.invalid \/ t.invalid = TRUE
    PROVE  LoopOK(l, n, t) /\ Remembers(s, t)
  BY DEF LoopOK, RequestOK, CursorOK, Remembers, Trusted

LEMMA SyncAfterOK ==
    ASSUME LogOK(log), NEW n, NEW s, LoopOK(log, n, s), s.baseline,
           NEW from \in Nat \ {0}, NEW to \in 0..Len(log), Accepted(s, from, to) # {}, NEW w
    PROVE  LET accepted == Accepted(s, from, to)
               t == SyncAfter(s, w, accepted)
           IN  /\ LoopOK(log, n, t) /\ t.applied = to
               /\ t.baseline => ~DeletesRoom(accepted)
               /\ Trusted(t) => ~s.invalid /\ ~Emptied(w, accepted)
               /\ t.prepending => s.prepending
               /\ t.closed \/ (t.baseline /\ t.closed = s.closed /\ t.pc = s.pc)
<1> DEFINE accepted == Accepted(s, from, to)
           t == SyncAfter(s, w, accepted)
           u == [s EXCEPT !.applied = to]
<1>0. s \in Syncs /\ to \in Seqs /\ to <= Len(log)
  BY LogFields, Bounds DEF LoopOK, Seqs
<1>1. Max(accepted) = to /\ to \in Seqs /\ to <= Len(log) /\ s \in Syncs
  BY <1>0, AcceptedShape
<1> HIDE DEF accepted
<1>2. CASE DeletesRoom(accepted)
  <2>1. u \in Syncs /\ u.applied = to
    BY <1>1 DEF Syncs
  <2>2. t = Left(u)
    BY <1>1, <1>2 DEF SyncAfter
  <2>3. LoopOK(log, n, t) /\ t.applied = to /\ ~t.prepending /\ ~t.baseline /\ t.closed
    <3>1. Onward(log, n, u, Left(u))
      BY <1>1, <2>1, LeftOK
    <3>2. ~Left(u).baseline /\ Left(u).closed
      BY DEF Left, Cold
    <3> QED BY <2>1, <2>2, <3>1, <3>2 DEF Onward, Remembers
  <2> QED BY <2>3 DEF accepted, Trusted
<1>3. CASE ~DeletesRoom(accepted)
  <2> DEFINE invalid == s.invalid \/ Emptied(w, accepted)
  <2>1. invalid \in BOOLEAN
    OBVIOUS
  <2>2. t = [s EXCEPT !.applied = to, !.invalid = invalid, !.cached = ~invalid]
    BY <1>1, <1>3 DEF SyncAfter
  <2> HIDE DEF t
  <2>3. /\ t \in Syncs /\ t.request = s.request /\ t.pc = s.pc /\ t.applied = to
        /\ t.baseline = s.baseline /\ t.invalid = invalid /\ t.cached = ~invalid
        /\ t.prepending = s.prepending /\ t.closed = s.closed
    BY <1>1, <2>1, <2>2 DEF Syncs
  <2>4. LoopOK(log, n, t)
    BY <1>1, <2>3 DEF LoopOK, RequestOK, CursorOK
  <2> QED BY <1>3, <2>3, <2>4 DEF Trusted, accepted, t
<1> QED BY <1>2, <1>3

LEMMA SyncReplacedOK ==
    ASSUME NEW l, LogOK(l), NEW n, NEW s, LoopOK(l, n, s),
           NEW r, AnswerOK(l, r), r.kind = "window"
    PROVE  LET t == SyncReplaced(s, r) IN
           /\ LoopOK(l, n, t) /\ t.applied = r.seq /\ t.baseline
           /\ t.prepending = s.prepending /\ t.ready = s.ready
<1> DEFINE t == SyncReplaced(s, r)
           d == Max({s.desired, r.seq})
<1>0. s \in Syncs /\ r.seq \in Seqs /\ r.seq <= Len(l)
  BY RequestFields DEF LoopOK, AnswerOK
<1>1. s \in Syncs /\ r.seq \in Seqs /\ r.seq <= Len(l) /\ d \in Seqs
  <2>1. r.seq \in Nat /\ s.desired \in Nat /\ s.desired \in Seqs
    BY <1>0, CursorsAre, Bounds
  <2> QED BY <1>0, <2>1, MaxOfPair
<1>2. t = [s EXCEPT !.applied = r.seq, !.desired = d, !.invalid = FALSE, !.baseline = TRUE,
                    !.retry = FALSE, !.owner = "none", !.cached = TRUE]
  BY DEF SyncReplaced
<1> HIDE DEF t, d
<1>3. /\ t \in Syncs /\ t.request = s.request /\ t.pc = s.pc /\ t.applied = r.seq
      /\ t.baseline /\ t.prepending = s.prepending /\ t.ready = s.ready
  BY <1>1, <1>2 DEF Syncs
<1>4. LoopOK(l, n, t)
  BY <1>1, <1>3 DEF LoopOK, RequestOK, CursorOK
<1> QED BY <1>3, <1>4 DEF t

LEMMA AfterErrorOK ==
    ASSUME NEW l, LogOK(l), NEW n, NEW s, LoopOK(l, n, s), NEW code
    PROVE  LET t == AfterError(s, code) IN
           /\ LoopOK(l, n, t) /\ Remembers(s, t)
           /\ t.prepending => s.prepending
<1> DEFINE t == AfterError(s, code)
<1>0. s \in Syncs /\ (n = 0 => s.applied <= Len(l))
  BY DEF LoopOK, CursorOK
<1>1. CASE code = "denied"
  BY <1>0, <1>1, LeftOK DEF AfterError, Onward
<1>2. CASE code # "denied"
  <2>1. t = s \/ t = [s EXCEPT !.retry = TRUE]
    BY <1>2 DEF AfterError
  <2>2. /\ t \in Syncs /\ t.request = s.request /\ t.pc = s.pc /\ t.applied = s.applied
        /\ t.baseline = s.baseline /\ t.cached = s.cached /\ t.prepending = s.prepending
        /\ t.invalid = s.invalid
    BY <1>0, <2>1 DEF Syncs
  <2> QED BY <2>2, FlagsOK
<1> QED BY <1>1, <1>2

-----------------------------------------------------------------------------
(* The start, the room's writers and the broadcasts.                       *)

LEMMA ColdOK ==
    ASSUME NEW l, LogOK(l), NEW n
    PROVE  LoopOK(l, n, Cold)
<1>1. NoRequest \in Requests /\ AnswerOK(l, NoRequest) /\ Whole(l, NoRequest)
      /\ NoRequest.kind = "none"
  BY RequestsAre, Claimless DEF NoRequest
<1>2. /\ Cold \in Syncs /\ Cold.request = NoRequest /\ Cold.pc = "idle" /\ Cold.applied = 0
      /\ ~Cold.baseline /\ ~Cold.cached /\ ~Cold.prepending
  BY <1>1, Bounds DEF Syncs, Cold
<1>3. Len(l) \in Nat
  BY LogFields
<1> QED BY <1>1, <1>2, <1>3 DEF LoopOK, RequestOK, CursorOK

LEMMA NoSideOK ==
    ASSUME NEW l
    PROVE  SideOK(l, NoSide)
<1>1. NoRequest \in Requests /\ AnswerOK(l, NoRequest) /\ NoRequest.kind = "none"
  BY RequestsAre, Claimless DEF NoRequest
<1> QED BY <1>1 DEF SideOK, Sides, NoSide

LEMMA EmptyWindowOK == EmptyWindow \in Windows
  BY Bounds DEF EmptyWindow, Windows, Views

LEMMA EmptyWindowFollows ==
    ASSUME NEW l, NEW q, NEW s, ~s.baseline
    PROVE  Follows(l, q, s, EmptyWindow)
  BY DEF Follows, StaleFree, Loaded, EmptyWindow, Trusted

LEMMA NothingSent ==
    ASSUME NEW l
    PROVE  WireOK(l, <<>>)
  BY DEF WireOK

LEMMA InitInv == Init => SyncInv /\ WindowInv
<1> SUFFICES ASSUME Init PROVE SyncInv /\ WindowInv
  OBVIOUS
<1>1. LogOK(log)
  <2> DEFINE e == [type |-> "messages.upserted", messages |-> Initially]
  <2>1. e \in Events /\ e.type = "messages.upserted"
    BY PositionsAssumption DEF Events, EventTypes
  <2> HIDE DEF e
  <2>2. <<e>> \in Seq(Events) /\ Len(<<e>>) = 1 /\ <<e>>[1] = e
    BY <2>1
  <2>3. log = <<e>>
    BY DEF Init, e
  <2> QED BY <2>1, <2>2, <2>3, Bounds DEF LogOK
<1>2. RoomInv
  <2>1. minSeq \in 1..MaxSeq + 1
    BY Bounds DEF Init
  <2>2. listening \in BOOLEAN /\ announce \in BOOLEAN /\ pending \subseteq 1..Len(log)
    BY DEF Init
  <2> QED BY <1>1, <2>1, <2>2 DEF RoomInv
<1>3. LoopOK(log, restores, sync) /\ SideOK(log, side) /\ window \in Windows /\ WireOK(log, wire)
  BY <1>1, ColdOK, NoSideOK, EmptyWindowOK, NothingSent DEF Init
<1>4. ~sync.prepending /\ side.mode = "none" /\ ~sync.baseline /\ ~sync.closed
  BY DEF Init, Cold, NoSide
<1>5. WindowInv
  BY <1>4, EmptyWindowFollows DEF Init, WindowInv
<1>6. BoundsInv
  BY Bounds DEF Init, BoundsInv
<1>7. SessionInv
  BY <1>3, <1>4 DEF Init, SessionInv
<1> QED BY <1>2, <1>3, <1>4, <1>5, <1>6, <1>7 DEF SyncInv, PrependOK

\* The browser takes no step.
LEMMA ServerSteps ==
    ASSUME SyncInv, WindowInv, RoomInv', Extends(log, log'), SessionInv',
           BoundsInv', UNCHANGED <<clientVars, requests, restores>>
    PROVE  SyncInv' /\ WindowInv'
<1>1. LogOK(log) /\ LogOK(log')
  BY DEF SyncInv, RoomInv
<1>2. UNCHANGED <<sync, side, window, requests, restores>>
  BY DEF clientVars
<1>3. LoopOK(log', restores', sync') /\ SideOK(log', side')
  BY <1>1, <1>2, LoopKept, SideKept DEF SyncInv
<1>4. SyncInv'
  BY <1>2, <1>3 DEF SyncInv
<1>5. WindowInv'
  <2> SUFFICES ASSUME restores = 0 PROVE Follows(log', requests', sync', window')
    BY <1>2 DEF WindowInv
  <2>1. sync \in Syncs /\ sync.applied <= Len(log) /\ Remembers(sync, sync)
    BY DEF SyncInv, LoopOK, CursorOK, Remembers
  <2> QED BY <1>1, <1>2, <2>1, FollowsOn DEF WindowInv
<1> QED BY <1>4, <1>5

LEMMA ExtendsItself ==
    ASSUME NEW l, LogOK(l)
    PROVE  Extends(l, l)
  BY DEF Extends, LogOK

\* The events of one transaction.
EventsOK(events) ==
    /\ events \in Seq(Events) /\ Len(events) >= 1
    /\ \A i \in 1..Len(events) :
          /\ events[i].type = "room.deleted" =>
                i = Len(events) /\ events[i].messages = Positions
          /\ events[i].type = "other" => events[i].messages = {}

LEMMA CommitStep ==
    ASSUME SyncInv, WindowInv, NEW events, EventsOK(events), Commit(events), announce' \in BOOLEAN
    PROVE  SyncInv' /\ WindowInv'
<1> DEFINE h == Len(log)
           e == Len(events)
<1>1. /\ LogOK(log) /\ h \in Nat /\ h >= 1 /\ log \in Seq(Events)
      /\ events \in Seq(Events) /\ e \in Nat /\ e >= 1
  BY LogFields DEF SyncInv, RoomInv, LogOK, EventsOK
<1>2. h + e <= MaxSeq /\ log[h].type # "room.deleted" /\ log' = log \o events
  BY DEF Commit, HeadSeq, RoomDeleted
<1>3. /\ log' \in Seq(Events) /\ Len(log') = h + e
      /\ \A i \in 1..h + e : log'[i] = IF i <= h THEN log[i] ELSE events[i - h]
  BY <1>1, <1>2, ConcatProperties
<1>4. Extends(log, log')
  BY <1>1, <1>3 DEF Extends
<1>5. LogOK(log')
  <2> SUFFICES ASSUME NEW i \in 1..h + e
               PROVE  /\ log'[i].type = "room.deleted" =>
                             i = h + e /\ log'[i].messages = Positions
                      /\ log'[i].type = "other" => log'[i].messages = {}
    <3>1. Len(log') \in 1..MaxSeq
      BY <1>1, <1>2, <1>3, Bounds
    <3> QED BY <1>3, <3>1 DEF LogOK
  <2>1. CASE i <= h
    BY <1>1, <1>2, <1>3, <2>1 DEF LogOK
  <2>2. CASE i > h
    <3>1. i - h \in 1..e /\ log'[i] = events[i - h]
      BY <1>1, <1>3, <2>2
    <3>2. i - h = e => i = h + e
      BY <1>1
    <3> QED BY <3>1, <3>2 DEF EventsOK
  <2> QED BY <1>1, <2>1, <2>2
<1>6. pending' \subseteq 1..Len(log')
  <2>1. pending \subseteq 1..h
    BY DEF SyncInv, RoomInv
  <2>2. CASE listening
    <3> DEFINE S == pending \union {h + 1}
    <3>0. h + 1 \in 1..h + e /\ 1..h \subseteq 1..h + e
      BY <1>1
    <3>1. S # {} /\ S \in SUBSET Nat /\ \A x \in S : x \in 1..h + e
      <4>1. \A x \in S : x \in 1..h + e
        BY <2>1, <3>0
      <4>2. h + 1 \in S
        OBVIOUS
      <4>3. 1..h + e \subseteq Nat
        BY <1>1
      <4> HIDE DEF S
      <4> QED BY <4>1, <4>2, <4>3
    <3>2. Min(S) \in S
      BY <3>1, MinOf
    <3>3. pending' = {Min(S), h + e}
      BY <2>2 DEF Commit, HeadSeq
    <3> QED BY <1>1, <1>3, <3>1, <3>2, <3>3
  <2>3. CASE ~listening
    BY <1>1, <1>3, <2>1, <2>3 DEF Commit
  <2> QED BY <2>2, <2>3
<1>7. UNCHANGED <<minSeq, listening, joined, wire, clientVars, bounds>>
  BY DEF Commit
<1>8. RoomInv'
  BY <1>5, <1>6, <1>7 DEF SyncInv, RoomInv
<1>9. SessionInv'
  BY <1>1, <1>4, <1>5, <1>7, NoticesKept DEF SyncInv, SessionInv, clientVars
<1>10. BoundsInv' /\ UNCHANGED <<requests, restores>>
  BY <1>7 DEF SyncInv, BoundsInv, bounds
<1> QED BY <1>4, <1>7, <1>8, <1>9, <1>10, ServerSteps

LEMMA OneEvent ==
    ASSUME NEW type \in EventTypes, NEW messages \in SUBSET Positions,
           type = "room.deleted" => messages = Positions, type = "other" => messages = {}
    PROVE  EventsOK(<<Event(type, messages)>>)
<1> DEFINE e == Event(type, messages)
<1>1. e \in Events /\ e.type = type /\ e.messages = messages
  BY DEF Events, Event
<1> HIDE DEF e
<1> QED BY <1>1 DEF EventsOK, e

LEMMA RoomSteps ==
    ASSUME SyncInv, WindowInv, RoomStep
    PROVE  SyncInv' /\ WindowInv'
<1>0. UNCHANGED announce => announce' \in BOOLEAN
  BY DEF SyncInv, RoomInv
<1>1. ASSUME NEW m \in Positions, Post(m) \/ Edit(m)
      PROVE  SyncInv' /\ WindowInv'
  <2>1. EventsOK(<<Event("messages.upserted", {m})>>)
    BY OneEvent DEF EventTypes
  <2> QED BY <1>0, <1>1, <2>1, CommitStep DEF Post, Edit
<1>2. ASSUME NEW m \in Positions, Remove(m)
      PROVE  SyncInv' /\ WindowInv'
  <2>1. EventsOK(<<Event("messages.deleted", {m})>>)
    BY OneEvent DEF EventTypes
  <2> QED BY <1>0, <1>2, <2>1, CommitStep DEF Remove
<1>3. ASSUME NEW m \in Positions, Truncate(m)
      PROVE  SyncInv' /\ WindowInv'
  <2> DEFINE after == {x \in Live : x > m}
             first == Event("messages.upserted", {m})
             second == Event("messages.deleted", after)
  <2>1. /\ first \in Events /\ first.type = "messages.upserted"
        /\ second \in Events /\ second.type = "messages.deleted"
    BY DEF Events, Event, EventTypes, Live
  <2>2. Commit(<<first, second>>) /\ announce' = TRUE
    BY <1>3 DEF Truncate
  <2> HIDE DEF first, second
  <2>3. EventsOK(<<first, second>>)
    BY <2>1 DEF EventsOK
  <2> QED BY <2>2, <2>3, CommitStep
<1>4. ASSUME Touch
      PROVE  SyncInv' /\ WindowInv'
  <2>1. EventsOK(<<Event("other", {})>>)
    BY OneEvent DEF EventTypes
  <2> QED BY <1>0, <1>4, <2>1, CommitStep DEF Touch
<1>5. ASSUME DeleteRoom
      PROVE  SyncInv' /\ WindowInv'
  <2>1. EventsOK(<<Event("room.deleted", Positions)>>)
    BY OneEvent DEF EventTypes
  <2> QED BY <1>0, <1>5, <2>1, CommitStep DEF DeleteRoom
<1> QED BY <1>1, <1>2, <1>3, <1>4, <1>5 DEF RoomStep

\* The log stays as it is.
LEMMA QuietSteps ==
    ASSUME SyncInv, WindowInv, RoomInv', UNCHANGED log, SessionInv',
           BoundsInv', UNCHANGED <<clientVars, requests, restores>>
    PROVE  SyncInv' /\ WindowInv'
  BY ServerSteps, ExtendsItself DEF SyncInv, RoomInv

LEMMA EmitOK ==
    ASSUME NEW l, WireOK(l, wire), NEW notice, NoticeOK(l, notice), Emit(notice)
    PROVE  WireOK(l, wire') /\ (~joined => wire' = wire)
<1>1. CASE joined
  <2>1. wire' = Append(wire, notice) /\ wire \in Seq(Notices) /\ notice \in Notices
    BY <1>1 DEF Emit, WireOK, NoticeOK
  <2>2. /\ wire' \in Seq(Notices) /\ Len(wire') = Len(wire) + 1 /\ Len(wire) \in Nat
        /\ \A k \in 1..Len(wire') : wire'[k] = IF k <= Len(wire) THEN wire[k] ELSE notice
    BY <2>1
  <2> QED BY <1>1, <2>2 DEF WireOK
<1>2. CASE ~joined
  BY <1>2 DEF Emit
<1> QED BY <1>1, <1>2

LEMMA NudgeOK ==
    ASSUME NEW l, NEW kind \in {"invalidated", "syncRequired"}
    PROVE  NoticeOK(l, [kind |-> kind])
  BY DEF NoticeOK, Notices

LEMMA FaultOK ==
    ASSUME BoundsInv, Fault
    PROVE  BoundsInv' /\ UNCHANGED <<requests, restores>>
  BY Bounds DEF BoundsInv, Fault

LEMMA BroadcastSteps ==
    ASSUME SyncInv, WindowInv,
           \/ \E floor \in 2..MaxSeq + 1 : Prune(floor)
           \/ Broadcast \/ Announce \/ Relisten \/ ListenerFails \/ Join
    PROVE  SyncInv' /\ WindowInv'
<1>0. /\ LogOK(log) /\ Len(log) \in Nat /\ Len(log) >= 1 /\ Len(log) <= MaxSeq
      /\ MaxSeq \in Nat /\ SessionInv /\ WireOK(log, wire) /\ BoundsInv /\ RoomInv
  BY LogFields, Bounds DEF SyncInv, RoomInv, SessionInv
<1>1. ASSUME NEW floor \in 2..MaxSeq + 1, Prune(floor)
      PROVE  SyncInv' /\ WindowInv'
  <2>1. /\ UNCHANGED <<log, listening, pending, announce, joined, wire, clientVars, bounds>>
        /\ minSeq' = floor
    BY <1>1 DEF Prune
  <2>2. RoomInv'
    BY <1>0, <2>1 DEF RoomInv
  <2> QED BY <1>0, <2>1, <2>2, QuietSteps DEF BoundsInv, bounds, SessionInv, clientVars
<1>2. ASSUME Broadcast
      PROVE  SyncInv' /\ WindowInv'
  <2> DEFINE from == Min(pending)
             head == Max(pending)
  <2>1. pending # {} /\ pending \in SUBSET Nat /\ \A x \in pending : x \in 1..Len(log)
    BY <1>0, <1>2 DEF Broadcast, RoomInv
  <2>2. from \in 1..Len(log) /\ head \in 1..Len(log)
    <3>1. from \in pending
      BY <2>1, MinOf
    <3>2. \A x \in pending : x <= Len(log)
      BY <1>0, <2>1
    <3>3. head \in pending
      BY <1>0, <2>1, <3>2, MaxOf
    <3> QED BY <2>1, <3>1, <3>3
  <2> HIDE DEF from, head
  <2>3. /\ NoticeOK(log, [kind |-> "available", head |-> head, from |-> from])
        /\ NoticeOK(log, [kind |-> "available", head |-> head, from |-> head + 1])
    BY <1>0, <2>2 DEF NoticeOK, Notices, Seqs
  <2>4. WireOK(log, wire') /\ (~joined => wire' = wire)
    BY <1>0, <1>2, <2>3, EmitOK DEF Broadcast, from, head
  <2>5. UNCHANGED <<log, minSeq, listening, announce, joined, clientVars, bounds>> /\ pending' = {}
    BY <1>2 DEF Broadcast
  <2>6. RoomInv'
    BY <1>0, <2>5 DEF RoomInv
  <2> QED BY <1>0, <2>4, <2>5, <2>6, QuietSteps DEF BoundsInv, bounds, SessionInv, clientVars
<1>3. ASSUME Announce
      PROVE  SyncInv' /\ WindowInv'
  <2>1. /\ UNCHANGED <<log, minSeq, listening, pending, joined, clientVars, bounds>>
        /\ announce' = FALSE /\ WireOK(log, wire') /\ (~joined => wire' = wire)
    BY <1>0, <1>3, EmitOK, NudgeOK DEF Announce
  <2>2. RoomInv'
    BY <1>0, <2>1 DEF RoomInv
  <2> QED BY <1>0, <2>1, <2>2, QuietSteps DEF BoundsInv, bounds, SessionInv, clientVars
<1>4. ASSUME Relisten
      PROVE  SyncInv' /\ WindowInv'
  <2>1. /\ UNCHANGED <<log, minSeq, pending, announce, joined, clientVars, bounds>>
        /\ listening' = TRUE /\ WireOK(log, wire') /\ (~joined => wire' = wire)
    BY <1>0, <1>4, EmitOK, NudgeOK DEF Relisten
  <2>2. RoomInv'
    BY <1>0, <2>1 DEF RoomInv
  <2> QED BY <1>0, <2>1, <2>2, QuietSteps DEF BoundsInv, bounds, SessionInv, clientVars
<1>5. ASSUME ListenerFails
      PROVE  SyncInv' /\ WindowInv'
  <2>1. /\ UNCHANGED <<log, minSeq, pending, announce, joined, wire, clientVars>>
        /\ listening' = FALSE /\ BoundsInv' /\ UNCHANGED <<requests, restores>>
    BY <1>0, <1>5, FaultOK DEF ListenerFails
  <2>2. RoomInv'
    BY <1>0, <2>1 DEF RoomInv
  <2> QED BY <1>0, <2>1, <2>2, QuietSteps DEF SessionInv, clientVars
<1>6. ASSUME Join
      PROVE  SyncInv' /\ WindowInv'
  <2>1. UNCHANGED <<serverVars, wire, clientVars, bounds>> /\ joined' = TRUE /\ ~sync.closed
    BY <1>6 DEF Join
  <2>2. RoomInv' /\ BoundsInv'
    BY <1>0, <2>1 DEF RoomInv, BoundsInv, serverVars, bounds
  <2> QED BY <1>0, <2>1, <2>2, QuietSteps DEF serverVars, bounds, SessionInv, clientVars
<1> QED BY <1>1, <1>2, <1>3, <1>4, <1>5, <1>6

-----------------------------------------------------------------------------
(* The server's answers.                                                   *)

LEMMA StreamAnswerOK ==
    ASSUME RoomInv, NEW a \in Seqs
    PROVE  LET r == StreamAnswer(a) IN
           /\ AnswerOK(log, r) /\ Whole(log, r) /\ r.kind \in {"stream", "error"}
           /\ r.kind = "stream" => a <= Len(log)
           /\ r.kind = "error" => r.code \in {"expired", "ahead"}
<1>0. /\ Len(log) \in Nat /\ Len(log) >= 1 /\ Len(log) <= MaxSeq /\ MaxSeq \in Nat
      /\ minSeq \in Nat /\ a \in Nat /\ a <= MaxSeq
  BY LogFields, Bounds DEF RoomInv, Seqs
<1>1. ASSUME NEW code \in {"expired", "ahead"}, StreamAnswer(a) = Error(code)
      PROVE  /\ AnswerOK(log, Error(code)) /\ Whole(log, Error(code))
             /\ Error(code).kind = "error" /\ Error(code).code = code
  BY RequestsAre, Claimless DEF Error, Codes
<1>2. ASSUME NEW from \in 1..MaxSeq + 1, a <= Len(log),
             NEW r, r = [kind |-> "stream", after |-> a, head |-> Len(log), from |-> from]
      PROVE  AnswerOK(log, r) /\ Whole(log, r) /\ r.kind = "stream"
  <2>1. Len(log) \in Seqs
    BY <1>0 DEF Seqs
  <2>2. r \in Requests
    BY <1>2, <2>1 DEF Requests
  <2> QED BY <1>0, <1>2, <2>2 DEF AnswerOK, Whole
<1>3. CASE StreamAnswer(a) \in {Error("expired"), Error("ahead")}
  BY <1>1, <1>3
<1>4. CASE StreamAnswer(a) \notin {Error("expired"), Error("ahead")}
  <2> DEFINE from == IF RoomDeleted /\ a < HeadSeq THEN HeadSeq ELSE a + 1
  <2>1. from \in 1..MaxSeq + 1
    BY <1>0 DEF HeadSeq
  <2>2. /\ a <= Len(log)
        /\ StreamAnswer(a) = [kind |-> "stream", after |-> a, head |-> Len(log), from |-> from]
    BY <1>0, <1>4 DEF StreamAnswer, HeadSeq
  <2> HIDE DEF from
  <2> QED BY <1>2, <2>1, <2>2
<1> QED BY <1>3, <1>4

LEMMA PageAnswerOK ==
    ASSUME RoomInv, NEW stream, AnswerOK(log, stream), stream.kind = "stream"
    PROVE  LET r == PageAnswer(stream) IN
           AnswerOK(log, r) /\ Whole(log, r) /\ r.kind = "page"
<1> DEFINE from == Max({stream.from, minSeq})
           to == Min({from + PageLimit - 1, HeadSeq})
           more == (IF from <= to THEN to ELSE stream.after) < stream.head
<1>1. /\ Len(log) \in Nat /\ Len(log) >= 1 /\ Len(log) <= MaxSeq /\ MaxSeq \in Nat
      /\ PageLimit \in Nat /\ PageLimit >= 1
  BY LogFields, Bounds DEF RoomInv
<1>2. minSeq \in 1..MaxSeq + 1 /\ stream.from \in 1..MaxSeq + 1
  BY RequestFields DEF RoomInv, AnswerOK
<1>3. stream.head \in Seqs /\ stream.head <= Len(log)
  BY RequestFields DEF AnswerOK
<1>4. from \in 1..MaxSeq + 1
  BY <1>1, <1>2, MaxOfPair
<1> HIDE DEF from
<1>5. to \in 0..Len(log)
  <2>1. from + PageLimit - 1 \in Nat /\ HeadSeq \in Nat /\ HeadSeq = Len(log)
    BY <1>1, <1>4 DEF HeadSeq
  <2> QED BY <2>1, MinOfPair
<1>6. to \in Seqs /\ to <= Len(log) /\ more \in BOOLEAN
  BY <1>1, <1>5 DEF Seqs
<1>7. PageAnswer(stream) =
        [kind |-> "page", from |-> from, to |-> to, head |-> stream.head, more |-> more]
  BY DEF PageAnswer, from
<1> HIDE DEF to, more
<1>8. PageAnswer(stream) \in Requests
  BY <1>3, <1>4, <1>6, <1>7 DEF Requests
<1> QED BY <1>3, <1>6, <1>7, <1>8 DEF AnswerOK, Whole

LEMMA LiveIs == Live = {m \in Positions : VersionIn(log, m, Len(log)) # 0}
  BY VersionAtIs DEF Live, HeadSeq

\* What a page leaves out is older than a whole window of newer messages, and then it
\* is not the oldest page.
LEMMA PageLeavesOut ==
    ASSUME NEW m \in Live \ PageBefore(0)
    PROVE  LET page == PageBefore(0) IN
           /\ Cardinality({x \in Live : x > m}) >= WindowSize
           /\ page # {} /\ \E x \in Live : x < Min(page)
<1> DEFINE page == PageBefore(0)
           Above(p) == {x \in Live : x > p}
<1>0. Live \in SUBSET Nat /\ IsFiniteSet(Live) /\ WindowSize \in Nat /\ WindowSize >= 1
  BY Bounds, FS_Subset DEF Live
<1>1. page = {p \in Live : Cardinality(Above(p)) < WindowSize}
  BY DEF PageBefore
<1>2. \A p \in Live : IsFiniteSet(Above(p)) /\ Cardinality(Above(p)) \in Nat
  BY <1>0, FS_Subset, FS_CardinalityType
<1>3. Cardinality(Above(m)) >= WindowSize
  BY <1>0, <1>1, <1>2
<1>4. ASSUME NEW p \in page
      PROVE  m < p
  <2>1. p \in Live /\ p \in Nat /\ m \in Nat /\ m \in Live
    BY <1>0, <1>1
  <2> SUFFICES ASSUME p <= m PROVE FALSE
    BY <2>1
  <2>2. \A x \in Live : x \in Nat /\ (x > m => x > p)
    BY <1>0, <2>1
  <2>3. Above(m) \in SUBSET Above(p)
    BY <2>2
  <2>4. Cardinality(Above(m)) <= Cardinality(Above(p))
    BY <1>2, <2>1, <2>3, FS_Subset
  <2>5. Cardinality(Above(p)) < WindowSize
    BY <1>1
  <2>6. Cardinality(Above(p)) \in Nat /\ Cardinality(Above(m)) \in Nat
    BY <1>2, <2>1
  <2> HIDE DEF Above
  <2> QED BY <1>0, <1>3, <2>4, <2>5, <2>6
<1>5. page # {}
  <2>1. PICK h \in Nat : \A p \in Live : p <= h
    <3>1. Cardinality(Positions) \in Nat /\ Positions = 1..Cardinality(Positions)
      BY PositionsAssumption, FS_CardinalityType
    <3> QED BY <3>1 DEF Live
  <2>2. Max(Live) \in Live /\ \A p \in Live : p <= Max(Live)
    BY <1>0, <2>1, MaxOf
  <2>3. Above(Max(Live)) = {}
    <3>1. Max(Live) \in Nat
      BY <1>0, <2>2
    <3>2. ASSUME NEW p \in Live
          PROVE  ~(p > Max(Live))
      <4>1. p \in Nat /\ p <= Max(Live)
        BY <1>0, <2>2
      <4> QED BY <3>1, <4>1
    <3> QED BY <3>2
  <2> QED BY <1>0, <1>1, <2>2, <2>3, FS_EmptySet
<1>6. Min(page) \in page
  BY <1>0, <1>1, <1>5, MinOf
<1> QED BY <1>3, <1>4, <1>5, <1>6

LEMMA SnapshotAnswerOK ==
    ASSUME RoomInv, NEW before \in Positions \union {0}
    PROVE  LET r == SnapshotAnswer(before) IN
           /\ AnswerOK(log, r) /\ r.kind \in {"window", "error"}
           /\ before = 0 => Whole(log, r)
           /\ r.kind = "window" => r.seq = Len(log)
           /\ r.kind = "error" =>
                 r.code \in {"denied", "boundary"} /\ (before = 0 => r.code # "boundary")
<1> DEFINE r == SnapshotAnswer(before)
           page == PageBefore(before)
           view == [m \in Positions |-> IF m \in page THEN VersionIn(log, m, Len(log)) ELSE 0]
           more == page # {} /\ \E m \in Live : m < Min(page)
<1>0. Len(log) \in Nat /\ Len(log) <= MaxSeq /\ MaxSeq \in Nat /\ Len(log) \in Seqs
  BY LogFields, Bounds DEF RoomInv, Seqs
<1>1. ASSUME NEW code \in {"denied", "boundary"}
      PROVE  /\ AnswerOK(log, Error(code)) /\ Whole(log, Error(code))
             /\ Error(code).kind = "error" /\ Error(code).code = code
  BY RequestsAre, Claimless DEF Error, Codes
<1>2. CASE RoomDeleted
  BY <1>1, <1>2 DEF SnapshotAnswer
<1>3. CASE ~RoomDeleted /\ before # 0 /\ before \notin Live
  BY <1>1, <1>3 DEF SnapshotAnswer
<1>4. CASE ~RoomDeleted /\ ~(before # 0 /\ before \notin Live)
  <2>1. r = [kind |-> "window", seq |-> Len(log), view |-> view, more |-> more]
    BY <1>4, VersionAtIs DEF SnapshotAnswer, HeadSeq
  <2>2. view \in Views
    <3>1. \A m \in Positions : VersionIn(log, m, Len(log)) \in Seqs
      BY <1>0, VersionBound DEF Seqs
    <3> QED BY <3>1, Bounds DEF Views
  <2>3. more \in BOOLEAN
    OBVIOUS
  <2>4. \A m \in Positions : view[m] = IF m \in page THEN VersionIn(log, m, Len(log)) ELSE 0
    OBVIOUS
  <2>5. page \subseteq Live
    BY DEF PageBefore
  <2>6. \A m \in page : m \in Positions /\ VersionIn(log, m, Len(log)) # 0
    BY <2>5, LiveIs
  <2> HIDE DEF view, r
  <2>7. AnswerOK(log, r)
    <3>1. r \in Requests
      BY <1>0, <2>1, <2>2, <2>3 DEF Requests
    <3> QED BY <1>0, <2>1, <2>4, <3>1 DEF AnswerOK
  <2>8. ASSUME before = 0
        PROVE  Whole(log, r)
    <3>1. more => Loaded(view) # {}
      BY <2>4, <2>6 DEF Loaded
    <3>2. ASSUME NEW m \in Positions, VersionIn(log, m, Len(log)) # 0, view[m] = 0
          PROVE  more /\ Cardinality(NewerIn(log, m, Len(log))) >= WindowSize
      <4>1. m \in Live \ PageBefore(0)
        BY <2>4, <2>8, <3>2, LiveIs
      <4>2. {x \in Live : x > m} = NewerIn(log, m, Len(log))
        BY LiveIs DEF NewerIn
      <4> QED BY <2>8, <4>1, <4>2, PageLeavesOut
    <3> HIDE DEF more
    <3> QED BY <2>1, <3>1, <3>2 DEF Whole
  <2> QED BY <2>1, <2>7, <2>8 DEF r
<1> QED BY <1>2, <1>3, <1>4

LEMMA AnswerSteps ==
    ASSUME SyncInv, WindowInv, ServeLoop \/ ServeSide \/ RequestFails
    PROVE  SyncInv' /\ WindowInv'
<1>0. /\ RoomInv /\ LogOK(log) /\ LoopOK(log, restores, sync) /\ SideOK(log, side)
      /\ PrependOK(restores, sync, side) /\ sync \in Syncs /\ sync.request \in Requests
      /\ side \in Sides /\ side.request \in Requests
  BY DEF SyncInv, RoomInv, LoopOK, SideOK, RequestOK, AnswerOK
<1> DEFINE SameServer == UNCHANGED <<serverVars, joined, wire, window, requests, restores>>
<1>1. ASSUME NEW r, NEW t, t = [sync EXCEPT !.request = r], sync' = t,
             LoopOK(log, restores, t), UNCHANGED side, SameServer, BoundsInv'
      PROVE  SyncInv' /\ WindowInv'
  <2>1. /\ t.applied = sync.applied /\ t.baseline = sync.baseline /\ t.invalid = sync.invalid
        /\ t.cached = sync.cached /\ t.prepending = sync.prepending /\ t.closed = sync.closed
    BY <1>0, <1>1 DEF Syncs
  <2>2. SyncInv'
    BY <1>0, <1>1, <2>1 DEF SyncInv, RoomInv, PrependOK, serverVars, SessionInv
  <2>3. WindowInv'
    BY <1>1, <2>1 DEF WindowInv, Follows, Trusted, serverVars
  <2> QED BY <2>2, <2>3
<1>2. ASSUME NEW r, NEW d, d = [side EXCEPT !.request = r], side' = d,
             SideOK(log, d), UNCHANGED sync, SameServer, BoundsInv',
             restores = 0 /\ sync.prepending /\ r.kind = "window" => sync.applied <= r.seq
      PROVE  SyncInv' /\ WindowInv'
  <2>1. d.mode = side.mode /\ d.request = r
    BY <1>0, <1>2 DEF Sides
  <2>2. SyncInv'
    BY <1>0, <1>2, <2>1 DEF SyncInv, RoomInv, PrependOK, serverVars, SessionInv
  <2>3. WindowInv'
    BY <1>2 DEF WindowInv, serverVars
  <2> QED BY <2>2, <2>3
<1>3. ASSUME NEW r \in Requests, AnswerOK(log, r), Whole(log, r),
             sync.request.kind \in Unanswered,
             r.kind \in {"stream", "page", "window", "error"},
             r.kind \in {"stream", "page"} => sync.pc = "events" /\ sync.applied <= Len(log),
             r.kind = "window" => sync.pc = "snapshot",
             r.kind = "error" => r.code # "boundary",
             r.kind = "error" /\ sync.pc = "snapshot" => r.code \notin {"expired", "ahead"}
      PROVE  LoopOK(log, restores, [sync EXCEPT !.request = r])
  <2> DEFINE t == [sync EXCEPT !.request = r]
  <2>1. /\ t \in Syncs /\ t.request = r /\ t.pc = sync.pc /\ t.applied = sync.applied
        /\ t.baseline = sync.baseline /\ t.cached = sync.cached /\ t.prepending = sync.prepending
    BY <1>0, <1>3 DEF Syncs
  <2> HIDE DEF t
  <2>2. sync.pc # "idle"
    BY <1>0, <1>3 DEF LoopOK, RequestOK, Unanswered
  <2>3. RequestOK(log, t)
    BY <1>0, <1>3, <2>1, <2>2 DEF LoopOK, RequestOK
  <2>4. CursorOK(log, restores, t)
    BY <1>0, <1>3, <2>1 DEF LoopOK, CursorOK
  <2> QED BY <1>0, <2>1, <2>3, <2>4 DEF LoopOK, t
<1>4. ASSUME ServeLoop
      PROVE  SyncInv' /\ WindowInv'
  <2> DEFINE q == sync.request
             r == Answer(q)
  <2>1. /\ q.kind \in Unanswered /\ sync' = [sync EXCEPT !.request = r]
        /\ UNCHANGED <<serverVars, joined, wire, side, window, bounds>>
    BY <1>4 DEF ServeLoop
  <2>2. CASE q.kind = "events"
    <3>1. r = StreamAnswer(q.after) /\ q.after \in Seqs
      BY <1>0, <2>2, RequestFields DEF Answer
    <3>2. sync.pc = "events" /\ (q.after = sync.applied \/ sync.applied <= Len(log))
      BY <1>0, <2>2 DEF LoopOK, RequestOK, CursorOK
    <3> HIDE DEF r
    <3>3. LoopOK(log, restores, [sync EXCEPT !.request = r])
      BY <1>0, <1>3, <2>1, <3>1, <3>2, StreamAnswerOK DEF AnswerOK
    <3> QED BY <1>1, <2>1, <3>3 DEF SyncInv, BoundsInv, bounds
  <2>3. CASE q.kind = "stream"
    <3>1. r = PageAnswer(q)
      BY <2>3 DEF Answer
    <3>2. sync.pc = "events" /\ sync.applied <= Len(log) /\ AnswerOK(log, q)
      BY <1>0, <2>3 DEF LoopOK, RequestOK, CursorOK
    <3> HIDE DEF r
    <3>3. LoopOK(log, restores, [sync EXCEPT !.request = r])
      BY <1>0, <1>3, <2>1, <2>3, <3>1, <3>2, PageAnswerOK DEF AnswerOK
    <3> QED BY <1>1, <2>1, <3>3 DEF SyncInv, BoundsInv, bounds
  <2>4. CASE q.kind = "snapshot"
    <3>1. r = SnapshotAnswer(q.before) /\ q.before = 0 /\ sync.pc = "snapshot"
      BY <1>0, <2>4 DEF Answer, LoopOK, RequestOK, Whole
    <3> HIDE DEF r
    <3>2. LoopOK(log, restores, [sync EXCEPT !.request = r])
      BY <1>0, <1>3, <2>1, <3>1, SnapshotAnswerOK DEF AnswerOK
    <3> QED BY <1>1, <2>1, <3>2 DEF SyncInv, BoundsInv, bounds
  <2> QED BY <2>1, <2>2, <2>3, <2>4 DEF Unanswered
<1>5. ASSUME NEW r \in Requests, AnswerOK(log, r), side.request.kind \in Unanswered,
             side.mode = "replace" => Whole(log, r)
      PROVE  SideOK(log, [side EXCEPT !.request = r])
  <2> DEFINE d == [side EXCEPT !.request = r]
  <2>1. d \in Sides /\ d.mode = side.mode /\ d.request = r
    BY <1>0, <1>5 DEF Sides
  <2>2. side.mode # "none"
    BY <1>0, <1>5 DEF SideOK, Unanswered
  <2> HIDE DEF d
  <2> QED BY <1>5, <2>1, <2>2 DEF SideOK, d
<1>6. ASSUME ServeSide
      PROVE  SyncInv' /\ WindowInv'
  <2> DEFINE q == side.request
             r == Answer(q)
  <2>1. /\ q.kind \in Unanswered /\ side' = [side EXCEPT !.request = r]
        /\ UNCHANGED <<serverVars, joined, wire, sync, window, bounds>>
    BY <1>6 DEF ServeSide
  <2>2. /\ AnswerOK(log, r) /\ (side.mode = "replace" => Whole(log, r))
        /\ r.kind = "window" => r.seq = Len(log)
    <3>1. CASE q.kind = "events"
      <4>1. r = StreamAnswer(q.after) /\ q.after \in Seqs
        BY <1>0, <3>1, RequestFields DEF Answer
      <4> QED BY <1>0, <4>1, StreamAnswerOK
    <3>2. CASE q.kind = "stream"
      <4>1. r = PageAnswer(q) /\ AnswerOK(log, q)
        BY <1>0, <3>2 DEF Answer, SideOK
      <4> QED BY <1>0, <3>2, <4>1, PageAnswerOK
    <3>3. CASE q.kind = "snapshot"
      <4>1. /\ r = SnapshotAnswer(q.before) /\ q.before \in Positions \union {0}
            /\ side.mode = "replace" => q.before = 0
        BY <1>0, <3>3, RequestFields DEF Answer, SideOK, Whole
      <4> QED BY <1>0, <4>1, SnapshotAnswerOK
    <3> QED BY <2>1, <3>1, <3>2, <3>3 DEF Unanswered
  <2> HIDE DEF r
  <2>3. SideOK(log, [side EXCEPT !.request = r])
    BY <1>5, <2>1, <2>2 DEF AnswerOK
  <2>4. restores = 0 => sync.applied <= Len(log)
    BY <1>0 DEF LoopOK, CursorOK
  <2> QED BY <1>2, <2>1, <2>2, <2>3, <2>4 DEF SyncInv, BoundsInv, bounds
<1>7. ASSUME RequestFails
      PROVE  SyncInv' /\ WindowInv'
  <2>1. PICK code \in Failures :
          \/ /\ sync.request.kind \in Unanswered
             /\ sync' = [sync EXCEPT !.request = Error(code)]
             /\ UNCHANGED side
          \/ /\ side.request.kind \in Unanswered
             /\ side' = [side EXCEPT !.request = Error(code)]
             /\ UNCHANGED sync
    BY <1>7 DEF RequestFails
  <2>2. SameServer /\ BoundsInv'
    BY <1>7, FaultOK DEF RequestFails, SyncInv
  <2>3. code \in {"lost", "unavailable"}
    BY BoundsAssumption
  <2>4. /\ Error(code) \in Requests /\ Error(code).kind = "error" /\ Error(code).code = code
        /\ AnswerOK(log, Error(code)) /\ Whole(log, Error(code))
    BY <2>3, RequestsAre, Claimless DEF Error, Codes
  <2>5. CASE sync.request.kind \in Unanswered /\ sync' = [sync EXCEPT !.request = Error(code)]
             /\ UNCHANGED side
    <3>1. LoopOK(log, restores, [sync EXCEPT !.request = Error(code)])
      BY <1>3, <2>3, <2>4, <2>5
    <3> QED BY <1>1, <2>2, <2>5, <3>1
  <2>6. CASE side.request.kind \in Unanswered /\ side' = [side EXCEPT !.request = Error(code)]
             /\ UNCHANGED sync
    <3>1. SideOK(log, [side EXCEPT !.request = Error(code)])
      BY <1>5, <2>4, <2>6
    <3> QED BY <1>2, <2>2, <2>4, <2>6, <3>1
  <2> QED BY <2>1, <2>5, <2>6
<1> QED BY <1>4, <1>6, <1>7

-----------------------------------------------------------------------------
(* The browser.                                                            *)

LEMMA ClientSteps ==
    ASSUME SyncInv, WindowInv, UNCHANGED <<serverVars, restores>>, BoundsInv', SessionInv',
           LoopOK(log, restores, sync'), SideOK(log, side'),
           requests' = 0 => side'.mode = "none", PrependOK(restores, sync', side'),
           window' \in Windows, restores = 0 => Follows(log, requests', sync', window')
    PROVE  SyncInv' /\ WindowInv'
<1>1. UNCHANGED <<log, minSeq, listening, pending, announce, restores>>
  BY DEF serverVars
<1>2. SyncInv'
  BY <1>1 DEF SyncInv, RoomInv
<1> QED BY <1>1, <1>2 DEF WindowInv

LEMMA FollowsSame ==
    ASSUME NEW l, LogOK(l), NEW n, NEW s, LoopOK(l, n, s), n = 0, NEW w,
           NEW q, NEW r, r = 0 => q = 0, Follows(l, q, s, w), NEW t, Remembers(s, t)
    PROVE  Follows(l, r, t, w)
<1>1. s \in Syncs /\ s.applied <= Len(l)
  BY DEF LoopOK, CursorOK
<1> QED BY <1>1, FollowsOn, ExtendsItself

LEMMA Followed ==
    ASSUME SyncInv, WindowInv, NEW t, Remembers(sync, t), restores = 0
    PROVE  Follows(log, requests, t, window)
  BY FollowsSame DEF SyncInv, RoomInv, WindowInv

\* A page that left the room has no request for history either.
LEMMA ConnectionOK ==
    ASSUME SyncInv, Connection(sync'), UNCHANGED log
    PROVE  /\ SessionInv' /\ SideOK(log, side') /\ (requests = 0 => side'.mode = "none")
<1>1. CASE sync'.closed
  <2>1. joined' = FALSE /\ wire' = <<>> /\ side' = NoSide
    BY <1>1 DEF Connection
  <2> QED BY <2>1, NothingSent, NoSideOK DEF SessionInv, NoSide
<1>2. CASE ~sync'.closed
  BY <1>2 DEF Connection, SyncInv, SessionInv
<1> QED BY <1>1, <1>2

\* The loop's steps, which leave no request for history its token.
LEMMA LoopSteps ==
    ASSUME SyncInv, WindowInv, UNCHANGED <<serverVars, bounds>>, Connection(sync'),
           LoopOK(log, restores, sync'), ~sync'.prepending, window' \in Windows,
           restores = 0 => Follows(log, requests, sync', window')
    PROVE  SyncInv' /\ WindowInv'
<1>1. UNCHANGED <<log, requests, restores>> /\ BoundsInv'
  BY DEF serverVars, bounds, SyncInv, BoundsInv
<1>2. SessionInv' /\ SideOK(log, side') /\ (requests = 0 => side'.mode = "none")
  BY <1>1, ConnectionOK
<1> QED BY <1>1, <1>2, ClientSteps DEF PrependOK

LEMMA PageSteps ==
    ASSUME SyncInv, WindowInv, HandlePage
    PROVE  SyncInv' /\ WindowInv'
<1> DEFINE page == sync.request
           s == [NotifyHead(sync, page.head) EXCEPT !.retry = FALSE]
           accepted == Accepted(s, page.from, page.to)
           after == SyncAfter(s, window, accepted)
<1>0. /\ page.kind = "page" /\ UNCHANGED <<serverVars, bounds>> /\ Connection(sync')
      /\ LogOK(log) /\ LoopOK(log, restores, sync) /\ window \in Windows
  BY DEF HandlePage, SyncInv, RoomInv
<1>1. /\ AnswerOK(log, page) /\ page.from \in Nat \ {0} /\ page.to \in 0..Len(log)
      /\ page.head \in Seqs
  <2>1. AnswerOK(log, page) /\ page \in Requests /\ page.to <= Len(log)
    BY <1>0 DEF LoopOK, RequestOK, AnswerOK
  <2>2. page.from \in 1..MaxSeq + 1 /\ page.to \in Seqs /\ page.head \in Seqs
    BY <1>0, <2>1, RequestFields
  <2>3. page.to \in Nat /\ Len(log) \in Nat
    BY <1>0, <2>2, Bounds, LogFields
  <2> QED BY <2>1, <2>2, <2>3
<1>2. /\ LoopOK(log, restores, s) /\ s \in Syncs /\ Remembers(sync, s)
      /\ s.pc = "events" /\ s.baseline /\ Able(log, restores, s)
  <2> DEFINE t == NotifyHead(sync, page.head)
  <2>1. LoopOK(log, restores, t) /\ Remembers(sync, t) /\ t \in Syncs
    BY <1>0, <1>1, NotifyHeadOK DEF LoopOK
  <2>2. t.pc = "events" /\ t.baseline
    <3>1. sync.pc = "events" /\ sync.baseline /\ sync \in Syncs
      BY <1>0 DEF LoopOK, RequestOK
    <3>2. t = [sync EXCEPT !.desired = t.desired]
      BY <1>0, <1>1, NotifyHeadOK
    <3> HIDE DEF t
    <3> QED BY <3>1, <3>2 DEF Syncs
  <2> HIDE DEF t
  <2>3. /\ s \in Syncs /\ s.request = t.request /\ s.pc = t.pc /\ s.applied = t.applied
        /\ s.baseline = t.baseline /\ s.cached = t.cached /\ s.prepending = t.prepending
        /\ s.invalid = t.invalid
    <3>1. s = [t EXCEPT !.retry = FALSE]
      BY DEF t
    <3> HIDE DEF s
    <3> QED BY <2>1, <3>1 DEF Syncs
  <2> HIDE DEF s
  <2>4. LoopOK(log, restores, s) /\ Remembers(t, s)
    BY <2>1, <2>3, FlagsOK
  <2>5. Remembers(sync, s)
    BY <2>1, <2>4 DEF Remembers
  <2>6. Able(log, restores, s)
    BY <2>2, <2>3, <2>4, RunningIsAble
  <2> QED BY <2>2, <2>3, <2>4, <2>5, <2>6
<1>3. /\ \/ /\ sync' \in {AskSnapshot(s, page.head), AskSnapshot(s, 0), ReadOn(s), LoopTop(s)}
            /\ UNCHANGED window
         \/ /\ accepted # {} /\ window' = WindowAfter(window, accepted)
            /\ sync' = after /\ after.closed
         \/ /\ accepted # {} /\ window' = WindowAfter(window, accepted) /\ ~after.closed
            /\ sync' \in {AskSnapshot(after, 0), ReadOn(after), LoopTop(after)}
  BY DEF HandlePage
<1> HIDE DEF s
<1>4. restores = 0 => Follows(log, requests, s, window)
  BY <1>2, Followed
<1>5. CASE /\ sync' \in {AskSnapshot(s, page.head), AskSnapshot(s, 0), ReadOn(s), LoopTop(s)}
           /\ UNCHANGED window
  <2>1. Onward(log, restores, s, sync')
    BY <1>0, <1>1, <1>2, <1>5, AskSnapshotOK, ReadOnOK, LoopTopOK, Bounds
  <2>2. restores = 0 => Follows(log, requests, sync', window')
    BY <1>0, <1>2, <1>4, <1>5, <2>1, FollowsSame DEF Onward
  <2> QED BY <1>0, <1>5, <2>1, <2>2, LoopSteps DEF Onward
<1>6. ASSUME accepted # {}, window' = WindowAfter(window, accepted)
      PROVE  /\ LoopOK(log, restores, after) /\ ~after.prepending /\ window' \in Windows
             /\ after.closed \/ after.baseline
             /\ restores = 0 => Follows(log, requests, after, window')
  <2> HIDE DEF accepted, after
  <2>1. /\ LoopOK(log, restores, after) /\ after.applied = page.to
        /\ after.baseline => ~DeletesRoom(accepted)
        /\ Trusted(after) => ~s.invalid /\ ~Emptied(window, accepted)
        /\ after.prepending => s.prepending
        /\ after.closed \/ after.baseline
    BY <1>0, <1>1, <1>2, <1>6, SyncAfterOK DEF accepted, after
  <2>2. ~s.prepending
    BY <1>2 DEF Able
  <2>3. window' \in Windows
    BY <1>0, <1>1, <1>2, <1>6, WindowAfterOK DEF accepted
  <2>4. restores = 0 => Follows(log, requests, after, window')
    BY <1>0, <1>1, <1>2, <1>4, <1>6, <2>1, FollowsAccepted DEF accepted
  <2> QED BY <2>1, <2>2, <2>3, <2>4
<1> HIDE DEF after, accepted
<1>7. CASE /\ accepted # {} /\ window' = WindowAfter(window, accepted)
           /\ sync' = after /\ after.closed
  BY <1>0, <1>6, <1>7, LoopSteps
<1>8. CASE /\ accepted # {} /\ window' = WindowAfter(window, accepted) /\ ~after.closed
           /\ sync' \in {AskSnapshot(after, 0), ReadOn(after), LoopTop(after)}
  <2>1. Able(log, restores, after) /\ after.baseline
    BY <1>6, <1>8, RunningIsAble
  <2>2. Onward(log, restores, after, sync')
    BY <1>0, <1>8, <2>1, AskSnapshotOK, ReadOnOK, LoopTopOK, Bounds
  <2>3. restores = 0 => Follows(log, requests, sync', window')
    BY <1>0, <1>6, <1>8, <2>2, FollowsSame DEF Onward
  <2> QED BY <1>0, <1>6, <1>8, <2>2, <2>3, LoopSteps DEF Onward
<1> QED BY <1>3, <1>5, <1>7, <1>8

LEMMA EventsErrorSteps ==
    ASSUME SyncInv, WindowInv, HandleEventsError
    PROVE  SyncInv' /\ WindowInv'
<1> DEFINE code == sync.request.code
           s == [sync EXCEPT !.desired = 0, !.gapTarget = 0]
<1>0. /\ sync.pc = "events" /\ UNCHANGED <<serverVars, window, bounds>> /\ Connection(sync')
      /\ LogOK(log) /\ LoopOK(log, restores, sync) /\ window \in Windows
      /\ sync \in Syncs /\ ~sync.prepending /\ (restores = 0 => sync.applied <= Len(log))
  BY DEF HandleEventsError, SyncInv, RoomInv, LoopOK, RequestOK, CursorOK
<1>1. LoopOK(log, restores, s) /\ Remembers(sync, s)
  <2>1. /\ s \in Syncs /\ s.request = sync.request /\ s.pc = sync.pc /\ s.applied = sync.applied
        /\ s.baseline = sync.baseline /\ s.cached = sync.cached
        /\ s.prepending = sync.prepending /\ s.invalid = sync.invalid
    BY <1>0, Bounds DEF Syncs
  <2> QED BY <1>0, <2>1, FlagsOK
<1>2. /\ LoopOK(log, restores, AfterError(sync, code)) /\ Remembers(sync, AfterError(sync, code))
      /\ ~AfterError(sync, code).prepending
  BY <1>0, AfterErrorOK
<1>3. sync' \in {AskSnapshot(s, 0), AskSnapshot(sync, 0), Left(sync),
                 LoopTop(AfterError(sync, code))}
  BY DEF HandleEventsError
<1> HIDE DEF s, code
<1>4. LoopOK(log, restores, sync') /\ ~sync'.prepending /\ Remembers(sync, sync')
  <2>1. CASE sync' = AskSnapshot(s, 0)
    BY <1>0, <1>1, <2>1, AskSnapshotOK, Bounds DEF Onward, Remembers
  <2>2. CASE sync' = AskSnapshot(sync, 0)
    BY <1>0, <2>2, AskSnapshotOK, Bounds DEF Onward
  <2>3. CASE sync' = Left(sync)
    BY <1>0, <2>3, LeftOK DEF Onward
  <2>4. CASE sync' = LoopTop(AfterError(sync, code))
    BY <1>0, <1>2, <2>4, RunningIsAble, LoopTopOK DEF Onward, Remembers
  <2> QED BY <1>3, <2>1, <2>2, <2>3, <2>4
<1> QED BY <1>0, <1>4, Followed, LoopSteps

LEMMA OldestIs ==
    ASSUME NEW view
    PROVE  OldestOf(view) \in Positions \union {0}
<1>1. Loaded(view) \in SUBSET Nat /\ Loaded(view) \in SUBSET Positions
  BY Bounds DEF Loaded
<1> QED BY <1>1, MinOf DEF OldestOf

LEMMA WindowReplacedOK ==
    ASSUME NEW l, NEW r, AnswerOK(l, r), r.kind = "window"
    PROVE  WindowReplaced(r) \in Windows
<1>1. r.view \in Views /\ r.more \in BOOLEAN
  BY RequestFields DEF AnswerOK
<1> QED BY <1>1, OldestIs DEF WindowReplaced, Windows

LEMMA SnapshotSteps ==
    ASSUME SyncInv, WindowInv, HandleSnapshot
    PROVE  SyncInv' /\ WindowInv'
<1> DEFINE answer == sync.request
           replaced == SyncReplaced(sync, answer)
           s == [AfterError(sync, answer.code) EXCEPT !.owner = IF @ = "loop" THEN "none" ELSE @]
           t == [replaced EXCEPT !.gapTarget = IF sync.target = 0 THEN @ ELSE sync.target,
                                 !.target = 0]
<1>0. /\ sync.pc = "snapshot" /\ UNCHANGED <<serverVars, bounds>> /\ Connection(sync')
      /\ answer.kind \in {"window", "error"}
      /\ LogOK(log) /\ LoopOK(log, restores, sync) /\ window \in Windows
      /\ sync \in Syncs /\ ~sync.prepending /\ (restores = 0 => sync.applied <= Len(log))
      /\ AnswerOK(log, answer) /\ Whole(log, answer)
  BY DEF HandleSnapshot, SyncInv, RoomInv, LoopOK, RequestOK, CursorOK
<1>1. \/ sync' \in {Left(sync), LoopTop(s), LoopTop(sync)} /\ UNCHANGED window
      \/ answer.kind = "window" /\ window' = WindowReplaced(answer) /\ sync' = ReadOn(t)
  BY <1>0 DEF HandleSnapshot
<1>2. CASE sync' \in {Left(sync), LoopTop(s), LoopTop(sync)} /\ UNCHANGED window
  <2> DEFINE u == AfterError(sync, answer.code)
  <2>1. LoopOK(log, restores, u) /\ Remembers(sync, u) /\ ~u.prepending /\ u \in Syncs
    BY <1>0, AfterErrorOK DEF LoopOK
  <2> HIDE DEF u
  <2>2. /\ s \in Syncs /\ s.request = u.request /\ s.pc = u.pc /\ s.applied = u.applied
        /\ s.baseline = u.baseline /\ s.cached = u.cached
        /\ s.prepending = u.prepending /\ s.invalid = u.invalid
    <3>1. s = [u EXCEPT !.owner = IF @ = "loop" THEN "none" ELSE @]
      BY DEF u
    <3> HIDE DEF s
    <3> QED BY <2>1, <3>1 DEF Syncs
  <2> HIDE DEF s
  <2>3. LoopOK(log, restores, s) /\ Remembers(sync, s) /\ ~s.prepending
    BY <2>1, <2>2, FlagsOK DEF Remembers
  <2>4. CASE sync' = Left(sync)
    <3>1. Onward(log, restores, sync, sync')
      BY <1>0, <2>4, LeftOK
    <3>2. LoopOK(log, restores, sync') /\ ~sync'.prepending /\ Remembers(sync, sync')
      BY <3>1 DEF Onward
    <3>3. restores = 0 => Follows(log, requests, sync', window')
      BY <1>2, <3>2, Followed
    <3>4. window' \in Windows
      BY <1>0, <1>2
    <3> QED BY <1>0, <3>2, <3>3, <3>4, LoopSteps
  <2>5. CASE sync' = LoopTop(s)
    <3>1. Onward(log, restores, s, sync')
      BY <1>0, <2>3, <2>5, RunningIsAble, LoopTopOK
    <3>2. Remembers(sync, sync')
      BY <2>3, <3>1 DEF Onward, Remembers
    <3> QED BY <1>0, <1>2, <3>1, <3>2, Followed, LoopSteps DEF Onward
  <2>6. CASE sync' = LoopTop(sync)
    <3>1. Onward(log, restores, sync, sync')
      BY <1>0, <2>6, RunningIsAble, LoopTopOK
    <3> QED BY <1>0, <1>2, <3>1, Followed, LoopSteps DEF Onward
  <2> QED BY <1>2, <2>4, <2>5, <2>6
<1>3. CASE answer.kind = "window" /\ window' = WindowReplaced(answer) /\ sync' = ReadOn(t)
  <2>1. /\ LoopOK(log, restores, replaced) /\ replaced.applied = answer.seq /\ replaced.baseline
        /\ ~replaced.prepending /\ replaced \in Syncs
    BY <1>0, <1>3, SyncReplacedOK DEF LoopOK
  <2> HIDE DEF replaced
  <2>2. /\ t \in Syncs /\ t.request = replaced.request /\ t.pc = replaced.pc
        /\ t.applied = replaced.applied /\ t.baseline = replaced.baseline
        /\ t.cached = replaced.cached /\ t.prepending = replaced.prepending
        /\ t.invalid = replaced.invalid
    BY <1>0, <2>1, Bounds DEF Syncs
  <2> HIDE DEF t
  <2>3. LoopOK(log, restores, t) /\ ~t.prepending /\ t.baseline /\ t.applied = answer.seq
    BY <2>1, <2>2, FlagsOK
  <2>4. Onward(log, restores, t, sync')
    BY <1>0, <1>3, <2>3, RunningIsAble, ReadOnOK
  <2>5. window'.view = answer.view /\ window'.more = answer.more
    BY <1>3 DEF WindowReplaced
  <2>6. Follows(log, requests, t, window')
    BY <1>0, <1>3, <2>3, <2>5, FollowsReplaced
  <2>7. restores = 0 => Follows(log, requests, sync', window')
    BY <1>0, <2>3, <2>4, <2>6, FollowsSame DEF Onward
  <2>8. window' \in Windows
    BY <1>0, <1>3, WindowReplacedOK
  <2> QED BY <1>0, <2>4, <2>7, <2>8, LoopSteps DEF Onward
<1> QED BY <1>1, <1>2, <1>3

-----------------------------------------------------------------------------
(* Older history.                                                          *)

LEMMA PrependSteps ==
    ASSUME SyncInv, WindowInv, Prepend
    PROVE  SyncInv' /\ WindowInv'
<1> DEFINE before == IF window.oldest # 0 THEN window.oldest ELSE Min(Loaded(window.view))
           r == [kind |-> "snapshot", before |-> before]
           t == [sync EXCEPT !.prepending = TRUE]
<1>0. /\ LogOK(log) /\ LoopOK(log, restores, sync) /\ window \in Windows /\ sync \in Syncs
      /\ sync.pc = "idle" /\ sync.baseline /\ Loaded(window.view) # {}
      /\ sync' = t /\ side' = [mode |-> "prepend", request |-> r]
      /\ requests < MaxRequests /\ requests' = requests + 1
      /\ UNCHANGED <<serverVars, joined, wire, window, faults, restores>>
  BY DEF Prepend, SyncInv, RoomInv, LoopOK
<1>1. before \in Positions \union {0}
  <2>1. Loaded(window.view) \in SUBSET Nat /\ Loaded(window.view) \in SUBSET Positions
    BY Bounds DEF Loaded
  <2>2. window.oldest \in Positions \union {0}
    BY <1>0 DEF Windows
  <2> QED BY <1>0, <2>1, <2>2, MinOf
<1> HIDE DEF before
<1>2. r \in Requests /\ AnswerOK(log, r) /\ r.kind = "snapshot"
  BY <1>1, RequestsAre, Claimless
<1>3. SideOK(log, side') /\ side'.mode = "prepend" /\ side'.request.kind # "window"
  BY <1>0, <1>2 DEF SideOK, Sides
<1>4. /\ t \in Syncs /\ t.request = sync.request /\ t.pc = sync.pc /\ t.applied = sync.applied
      /\ t.baseline = sync.baseline /\ t.cached = sync.cached /\ t.invalid = sync.invalid
      /\ t.closed = sync.closed
  BY <1>0 DEF Syncs
<1> HIDE DEF t
<1>5. LoopOK(log, restores, t) /\ Remembers(sync, t)
  BY <1>0, <1>4 DEF LoopOK, RequestOK, CursorOK, Remembers, Trusted
<1>6. BoundsInv' /\ requests' # 0 /\ requests \in Nat
  BY <1>0, Bounds DEF SyncInv, BoundsInv
<1>7. restores = 0 => Follows(log, requests', sync', window')
  BY <1>0, <1>5, <1>6, FollowsSame DEF WindowInv
<1>8. SessionInv'
  BY <1>0, <1>4 DEF SyncInv, SessionInv, serverVars
<1> QED BY <1>0, <1>3, <1>5, <1>6, <1>7, <1>8, ClientSteps DEF PrependOK

\* A request for older history has ended, or the page has left the room.
LEMMA SideEnds ==
    ASSUME SyncInv, UNCHANGED <<log, requests>>,
           IF sync'.closed THEN Connection(sync') ELSE side' = NoSide /\ UNCHANGED <<joined, wire>>
    PROVE  SessionInv' /\ SideOK(log, side') /\ side'.mode = "none"
<1>1. CASE sync'.closed
  <2>1. joined' = FALSE /\ wire' = <<>> /\ side' = NoSide
    BY <1>1 DEF Connection
  <2> QED BY <2>1, NothingSent, NoSideOK DEF SessionInv, NoSide
<1>2. CASE ~sync'.closed
  BY <1>2, NoSideOK DEF SyncInv, SessionInv, NoSide
<1> QED BY <1>1, <1>2

LEMMA PrependedOK ==
    ASSUME NEW w \in Windows, NEW l, NEW r, AnswerOK(l, r), r.kind = "window"
    PROVE  Prepended(w, r) \in Windows
<1>1. r.view \in Views /\ r.more \in BOOLEAN /\ w.view \in Views
  BY RequestFields DEF AnswerOK, Windows
<1>2. [m \in Positions |-> IF w.view[m] # 0 THEN w.view[m] ELSE r.view[m]] \in Views
  BY <1>1 DEF Views
<1> QED BY <1>1, <1>2, OldestIs DEF Prepended, Windows

LEMMA HistorySteps ==
    ASSUME SyncInv, WindowInv, HandlePrepend
    PROVE  SyncInv' /\ WindowInv'
<1> DEFINE answer == side.request
<1>0. /\ LogOK(log) /\ LoopOK(log, restores, sync) /\ window \in Windows /\ sync \in Syncs
      /\ SideOK(log, side) /\ AnswerOK(log, answer) /\ PrependOK(restores, sync, side)
      /\ side.mode = "prepend" /\ answer.kind \in {"window", "error"}
      /\ UNCHANGED <<serverVars, bounds>> /\ requests # 0 /\ BoundsInv'
      /\ (restores = 0 => sync.applied <= Len(log))
  BY DEF HandlePrepend, SyncInv, RoomInv, LoopOK, SideOK, BoundsInv, bounds, CursorOK
<1>1. UNCHANGED <<log, requests, restores, faults>>
  BY <1>0 DEF serverVars, bounds
<1>2. CASE answer.kind = "window"
  <2>1. side' = NoSide /\ UNCHANGED <<joined, wire>>
    BY <1>2 DEF HandlePrepend
  <2>2. CASE sync.prepending
    <3> DEFINE t == [sync EXCEPT !.prepending = FALSE, !.retry = FALSE, !.cached = TRUE]
    <3>1. sync' = t /\ window' = Prepended(window, answer)
      BY <1>2, <2>2 DEF HandlePrepend
    <3>2. /\ t \in Syncs /\ t.request = sync.request /\ t.pc = sync.pc /\ t.applied = sync.applied
          /\ t.baseline = sync.baseline /\ t.cached /\ t.invalid = sync.invalid
          /\ t.closed = sync.closed /\ ~t.prepending
      BY <1>0 DEF Syncs
    <3> HIDE DEF t
    <3>3. sync.baseline
      BY <1>0, <2>2 DEF LoopOK
    <3>4. LoopOK(log, restores, t)
      BY <1>0, <3>2, <3>3 DEF LoopOK, RequestOK, CursorOK
    <3>5. window' \in Windows
      BY <1>0, <1>2, <3>1, PrependedOK
    <3>6. restores = 0 => Follows(log, requests', sync', window')
      <4> SUFFICES ASSUME restores = 0 PROVE Follows(log, requests, t, Prepended(window, answer))
        BY <1>1, <3>1
      <4>1. Follows(log, requests, sync, window) /\ sync.applied <= answer.seq
        BY <1>0, <1>2, <2>2 DEF WindowInv, PrependOK
      <4>2. t.applied = sync.applied /\ t.baseline = sync.baseline
        BY <3>2
      <4> QED BY <1>0, <1>2, <4>1, <4>2, FollowsPrepended
    <3>7. SessionInv'
      BY <1>1, <2>1, <3>1, <3>2 DEF SyncInv, SessionInv
    <3> QED BY <1>0, <1>1, <2>1, <3>1, <3>2, <3>4, <3>5, <3>6, <3>7, NoSideOK, ClientSteps
            DEF PrependOK, NoSide
  <2>3. CASE ~sync.prepending
    <3>1. UNCHANGED <<sync, window>>
      BY <1>2, <2>3 DEF HandlePrepend
    <3>2. SessionInv'
      BY <1>1, <2>1, <3>1 DEF SyncInv, SessionInv
    <3> QED BY <1>0, <1>1, <2>1, <2>3, <3>1, <3>2, NoSideOK, ClientSteps
            DEF PrependOK, NoSide, WindowInv
  <2> QED BY <2>2, <2>3
<1>3. CASE answer.kind = "error" /\ answer.code = "boundary"
  <2> DEFINE t == [sync EXCEPT !.owner = "side", !.prepending = FALSE]
             r == [kind |-> "snapshot", before |-> 0]
  <2>1. /\ sync' = t /\ side' = [mode |-> "replace", request |-> r]
        /\ UNCHANGED <<joined, wire, window>>
    BY <1>3 DEF HandlePrepend
  <2>2. /\ t \in Syncs /\ t.request = sync.request /\ t.pc = sync.pc /\ t.applied = sync.applied
        /\ t.baseline = sync.baseline /\ t.cached = sync.cached /\ t.invalid = sync.invalid
        /\ t.closed = sync.closed /\ ~t.prepending
    BY <1>0 DEF Syncs
  <2> HIDE DEF t
  <2>3. LoopOK(log, restores, t) /\ Remembers(sync, t)
    BY <1>0, <2>2, FlagsOK
  <2>4. r \in Requests /\ AnswerOK(log, r) /\ Whole(log, r)
    BY RequestsAre, Claimless
  <2>5. SideOK(log, side')
    BY <2>1, <2>4 DEF SideOK, Sides
  <2>6. SessionInv'
    BY <1>1, <2>1, <2>2 DEF SyncInv, SessionInv
  <2>7. restores = 0 => Follows(log, requests', sync', window')
    BY <1>1, <2>1, <2>3, Followed
  <2> QED BY <1>0, <1>1, <2>1, <2>2, <2>3, <2>5, <2>6, <2>7, ClientSteps DEF PrependOK
<1>4. CASE answer.kind = "error" /\ answer.code # "boundary"
  <2> DEFINE u == AfterError(sync, answer.code)
             t == [u EXCEPT !.prepending = FALSE]
  <2>1. /\ sync' = t /\ UNCHANGED window
        /\ IF sync'.closed THEN Connection(sync')
           ELSE side' = NoSide /\ UNCHANGED <<joined, wire>>
    BY <1>4 DEF HandlePrepend
  <2>2. LoopOK(log, restores, u) /\ Remembers(sync, u) /\ u \in Syncs
    BY <1>0, AfterErrorOK DEF LoopOK
  <2> HIDE DEF u
  <2>3. /\ t \in Syncs /\ t.request = u.request /\ t.pc = u.pc /\ t.applied = u.applied
        /\ t.baseline = u.baseline /\ t.cached = u.cached /\ t.invalid = u.invalid
        /\ ~t.prepending
    BY <2>2 DEF Syncs
  <2> HIDE DEF t
  <2>4. LoopOK(log, restores, t) /\ Remembers(sync, t)
    BY <2>2, <2>3, FlagsOK DEF Remembers
  <2>5. SessionInv' /\ SideOK(log, side') /\ side'.mode = "none"
    BY <1>1, <2>1, SideEnds
  <2>6. restores = 0 => Follows(log, requests', sync', window')
    BY <1>1, <2>1, <2>4, Followed
  <2> QED BY <1>0, <1>1, <2>1, <2>3, <2>4, <2>5, <2>6, ClientSteps DEF PrependOK
<1> QED BY <1>0, <1>2, <1>3, <1>4

LEMMA ReplacementSteps ==
    ASSUME SyncInv, WindowInv, HandleSideReplace
    PROVE  SyncInv' /\ WindowInv'
<1> DEFINE answer == side.request
<1>0. /\ LogOK(log) /\ LoopOK(log, restores, sync) /\ window \in Windows /\ sync \in Syncs
      /\ AnswerOK(log, answer) /\ Whole(log, answer) /\ ~sync.prepending
      /\ UNCHANGED <<serverVars, bounds>> /\ BoundsInv' /\ answer.kind \in {"window", "error"}
      /\ IF sync'.closed THEN Connection(sync') ELSE side' = NoSide /\ UNCHANGED <<joined, wire>>
  BY DEF HandleSideReplace, SyncInv, RoomInv, LoopOK, SideOK, BoundsInv, bounds, PrependOK
<1>1. UNCHANGED <<log, requests, restores, faults>>
  BY <1>0 DEF serverVars, bounds
<1>2. SessionInv' /\ SideOK(log, side') /\ side'.mode = "none"
  BY <1>0, <1>1, SideEnds
<1>3. CASE answer.kind = "window" /\ sync.owner = "side"
  <2>1. sync' = SyncReplaced(sync, answer) /\ window' = WindowReplaced(answer)
    BY <1>3 DEF HandleSideReplace
  <2>2. LoopOK(log, restores, sync') /\ sync'.applied = answer.seq /\ ~sync'.prepending
    BY <1>0, <1>3, <2>1, SyncReplacedOK
  <2>3. window'.view = answer.view /\ window'.more = answer.more /\ window' \in Windows
    BY <1>0, <1>3, <2>1, WindowReplacedOK DEF WindowReplaced
  <2>4. Follows(log, requests', sync', window')
    BY <1>0, <1>3, <2>2, <2>3, FollowsReplaced
  <2> QED BY <1>0, <1>1, <1>2, <2>2, <2>3, <2>4, ClientSteps DEF PrependOK
<1>4. CASE ~(answer.kind = "window" /\ sync.owner = "side")
  <2> DEFINE u == AfterError(sync, answer.code)
             t == [u EXCEPT !.owner = IF sync.owner = "side" THEN "none" ELSE @]
  <2>1. UNCHANGED window /\ sync' \in {sync, t}
    BY <1>4 DEF HandleSideReplace
  <2>2. LoopOK(log, restores, u) /\ Remembers(sync, u) /\ u \in Syncs /\ ~u.prepending
    BY <1>0, AfterErrorOK DEF LoopOK
  <2> HIDE DEF u
  <2>3. /\ t \in Syncs /\ t.request = u.request /\ t.pc = u.pc /\ t.applied = u.applied
        /\ t.baseline = u.baseline /\ t.cached = u.cached /\ t.invalid = u.invalid
        /\ t.prepending = u.prepending
    BY <2>2 DEF Syncs
  <2> HIDE DEF t
  <2>4. LoopOK(log, restores, t) /\ Remembers(sync, t) /\ ~t.prepending
    BY <2>2, <2>3, FlagsOK DEF Remembers
  <2>5. LoopOK(log, restores, sync') /\ Remembers(sync, sync') /\ ~sync'.prepending
    BY <1>0, <2>1, <2>4 DEF Remembers
  <2>6. restores = 0 => Follows(log, requests', sync', window')
    BY <1>1, <2>1, <2>5, Followed
  <2> QED BY <1>0, <1>1, <1>2, <2>1, <2>5, <2>6, ClientSteps DEF PrependOK
<1> QED BY <1>3, <1>4

-----------------------------------------------------------------------------
(* Socket events and the session.                                          *)

LEMMA LoopTopKeeps ==
    ASSUME NEW s \in Syncs
    PROVE  LoopTop(s).closed = s.closed
  BY DEF LoopTop, AskEvents, AskSnapshot, Syncs

LEMMA ReplayKeeps ==
    ASSUME NEW s \in Syncs
    PROVE  Replay(s).closed = s.closed
<1> DEFINE t == [s EXCEPT !.requested = TRUE, !.prepending = FALSE]
<1>1. t \in Syncs /\ t.closed = s.closed
  BY DEF Syncs
<1>2. Replay(s) \in {s, t, LoopTop(t)}
  BY DEF Replay
<1> HIDE DEF t
<1> QED BY <1>1, <1>2, LoopTopKeeps

\* The wire has a notice for a page that is in its room.
LEMMA FirstNotice ==
    ASSUME SyncInv, wire # <<>>
    PROVE  /\ NoticeOK(log, Head(wire)) /\ WireOK(log, Tail(wire))
           /\ joined /\ ~sync.closed
<1>1. WireOK(log, wire) /\ joined /\ ~sync.closed
  BY DEF SyncInv, SessionInv
<1>2. wire \in Seq(Notices)
  BY <1>1 DEF WireOK
<1>3. /\ Len(wire) \in Nat /\ Len(wire) >= 1 /\ Head(wire) = wire[1]
  BY <1>2
<1>4. /\ Tail(wire) \in Seq(Notices) /\ Len(Tail(wire)) = Len(wire) - 1
      /\ \A i \in 1..Len(Tail(wire)) : Tail(wire)[i] = wire[i + 1]
  BY <1>2, HeadTailProperties
<1>5. NoticeOK(log, Head(wire))
  BY <1>1, <1>3 DEF WireOK
<1>6. WireOK(log, Tail(wire))
  BY <1>1, <1>3, <1>4 DEF WireOK
<1> QED BY <1>1, <1>5, <1>6

\* A replay is asked for; the session and the wire stay, or lose a notice.
LEMMA ReplaySteps ==
    ASSUME SyncInv, WindowInv, NEW s, sync' = Replay(s), s \in Syncs,
           LoopOK(log, restores, s), Remembers(sync, s), s.closed = sync.closed,
           s.prepending => sync.prepending,
           UNCHANGED <<serverVars, joined, side, window, restores>>, BoundsInv',
           requests' \in {requests, requests + 1},
           wire' = wire \/ (joined /\ WireOK(log, wire'))
    PROVE  SyncInv' /\ WindowInv'
<1>1. LogOK(log) /\ UNCHANGED log /\ requests \in Nat
  BY Bounds DEF SyncInv, RoomInv, serverVars, BoundsInv
<1>2. /\ LoopOK(log, restores, sync') /\ Remembers(s, sync')
      /\ sync'.prepending => s.prepending
  BY <1>1, ReplayOK
<1>3. Remembers(sync, sync')
  BY <1>2 DEF Remembers
<1>4. sync'.closed = sync.closed
  BY ReplayKeeps
<1>5. SessionInv'
  BY <1>1, <1>4 DEF SyncInv, SessionInv
<1>6. requests' = 0 => requests = 0
  BY <1>1
<1>7. restores = 0 => Follows(log, requests', sync', window')
  BY <1>1, <1>3, <1>6, FollowsSame DEF SyncInv, WindowInv
<1>8. PrependOK(restores, sync', side')
  BY <1>2, <1>3 DEF SyncInv, PrependOK, Remembers
<1>9. SideOK(log, side') /\ (requests' = 0 => side'.mode = "none") /\ window' \in Windows
  BY <1>6 DEF SyncInv
<1> QED BY <1>2, <1>5, <1>7, <1>8, <1>9, ClientSteps

LEMMA SessionSteps ==
    ASSUME SyncInv, WindowInv, HandleNudge \/ RetryFires \/ PageResumes \/ SessionReady
    PROVE  SyncInv' /\ WindowInv'
<1>0. sync \in Syncs /\ LoopOK(log, restores, sync) /\ BoundsInv
  BY DEF SyncInv, LoopOK
<1>1. ASSUME HandleNudge
      PROVE  SyncInv' /\ WindowInv'
  <2> DEFINE s == [sync EXCEPT !.invalid = @ \/ Head(wire).kind = "invalidated"]
  <2>1. /\ sync' = Replay(s) /\ wire # <<>> /\ wire' = Tail(wire)
        /\ UNCHANGED <<serverVars, joined, side, window, bounds>>
    BY <1>1 DEF HandleNudge
  <2>2. /\ s \in Syncs /\ s.request = sync.request /\ s.pc = sync.pc /\ s.applied = sync.applied
        /\ s.baseline = sync.baseline /\ s.cached = sync.cached
        /\ s.prepending = sync.prepending /\ s.closed = sync.closed
        /\ (s.invalid = sync.invalid \/ s.invalid = TRUE)
    <3>1. (sync.invalid \/ Head(wire).kind = "invalidated") \in BOOLEAN
      OBVIOUS
    <3>2. sync.invalid \in BOOLEAN
      BY <1>0 DEF Syncs
    <3> QED BY <1>0, <3>1, <3>2 DEF Syncs
  <2> HIDE DEF s
  <2>3. LoopOK(log, restores, s) /\ Remembers(sync, s)
    BY <1>0, <2>2, FlagsOK
  <2> QED BY <1>0, <2>1, <2>2, <2>3, FirstNotice, ReplaySteps DEF bounds, BoundsInv
<1>2. ASSUME RetryFires
      PROVE  SyncInv' /\ WindowInv'
  <2> DEFINE s == [sync EXCEPT !.retry = FALSE]
  <2>1. /\ sync' = Replay(s) /\ UNCHANGED <<serverVars, joined, wire, side, window, bounds>>
    BY <1>2 DEF RetryFires
  <2>2. /\ s \in Syncs /\ s.request = sync.request /\ s.pc = sync.pc /\ s.applied = sync.applied
        /\ s.baseline = sync.baseline /\ s.cached = sync.cached /\ s.invalid = sync.invalid
        /\ s.prepending = sync.prepending /\ s.closed = sync.closed
    BY <1>0 DEF Syncs
  <2> HIDE DEF s
  <2>3. LoopOK(log, restores, s) /\ Remembers(sync, s)
    BY <1>0, <2>2, FlagsOK
  <2> QED BY <1>0, <2>1, <2>2, <2>3, ReplaySteps DEF bounds, BoundsInv
<1>3. ASSUME PageResumes
      PROVE  SyncInv' /\ WindowInv'
  <2>1. /\ sync' = Replay(sync) /\ requests < MaxRequests /\ requests' = requests + 1
        /\ UNCHANGED <<serverVars, joined, wire, side, window, faults, restores>>
    BY <1>3 DEF PageResumes
  <2>2. BoundsInv'
    BY <1>0, <2>1, Bounds DEF BoundsInv
  <2> QED BY <1>0, <2>1, <2>2, ReplaySteps DEF Remembers
<1>4. ASSUME SessionReady
      PROVE  SyncInv' /\ WindowInv'
  <2> DEFINE s == [sync EXCEPT !.ready = TRUE]
  <2>1. /\ sync' = Replay(s) /\ UNCHANGED <<serverVars, joined, wire, side, window, bounds>>
    BY <1>4 DEF SessionReady
  <2>2. /\ s \in Syncs /\ s.request = sync.request /\ s.pc = sync.pc /\ s.applied = sync.applied
        /\ s.baseline = sync.baseline /\ s.cached = sync.cached /\ s.invalid = sync.invalid
        /\ s.prepending = sync.prepending /\ s.closed = sync.closed
    BY <1>0 DEF Syncs
  <2> HIDE DEF s
  <2>3. LoopOK(log, restores, s) /\ Remembers(sync, s)
    BY <1>0, <2>2, FlagsOK
  <2> QED BY <1>0, <2>1, <2>2, <2>3, ReplaySteps DEF bounds, BoundsInv
<1> QED BY <1>1, <1>2, <1>3, <1>4

\* What becomes of the state machine before it decides on a replay.
Told(notice) == NotifyHead(sync, notice.head)
Mutated(notice) ==
    IF sync.baseline /\ notice.from <= notice.head
    THEN [Told(notice) EXCEPT !.prepending = FALSE] ELSE Told(notice)

LEMMA ToldOK ==
    ASSUME SyncInv, wire # <<>>, Head(wire).kind = "available"
    PROVE  LET notice == Head(wire)
               s == Mutated(notice)
           IN  /\ notice.from \in Nat \ {0} /\ notice.head \in 0..Len(log)
               /\ LoopOK(log, restores, s) /\ Remembers(sync, s) /\ s \in Syncs
               /\ s.prepending => sync.prepending
               /\ sync.baseline /\ notice.from <= notice.head => ~s.prepending
               /\ s.baseline = sync.baseline /\ s.closed = sync.closed /\ s.ready = sync.ready
               /\ s.pc = sync.pc /\ s.owner = sync.owner /\ s.request = sync.request
               /\ s.requested = sync.requested /\ s.retry = sync.retry
               /\ s.desired \in Seqs
<1> DEFINE notice == Head(wire)
           t == Told(notice)
           s == Mutated(notice)
<1>0. sync \in Syncs /\ LoopOK(log, restores, sync) /\ LogOK(log)
  BY DEF SyncInv, LoopOK, RoomInv
<1>1. notice.from \in Nat \ {0} /\ notice.head \in 0..Len(log) /\ notice.head \in Seqs
  <2>1. /\ notice \in Notices /\ notice.head <= Len(log) /\ notice.from >= 1
    BY FirstNotice DEF NoticeOK
  <2>2. notice.head \in Seqs /\ notice.from \in 0..MaxSeq + 1
    BY <2>1 DEF Notices
  <2>3. Len(log) \in Nat /\ MaxSeq \in Nat
    BY <1>0, LogFields, Bounds
  <2>4. notice.head \in Nat /\ notice.from \in Nat
    BY <2>2, <2>3 DEF Seqs
  <2>5. notice.head \in 0..Len(log) /\ notice.from \in Nat \ {0}
    BY <2>1, <2>3, <2>4
  <2> QED BY <2>2, <2>5
<1>2. /\ LoopOK(log, restores, t) /\ Remembers(sync, t) /\ t \in Syncs
      /\ t = [sync EXCEPT !.desired = t.desired] /\ t.desired \in Seqs
  BY <1>0, <1>1, NotifyHeadOK DEF LoopOK, Told
<1> HIDE DEF t
<1>3. /\ t.prepending = sync.prepending /\ t.baseline = sync.baseline /\ t.closed = sync.closed
      /\ t.ready = sync.ready /\ t.pc = sync.pc /\ t.owner = sync.owner
      /\ t.request = sync.request /\ t.requested = sync.requested /\ t.retry = sync.retry
  BY <1>0, <1>2 DEF Syncs
<1>4. s \in {t, [t EXCEPT !.prepending = FALSE]}
      /\ (sync.baseline /\ notice.from <= notice.head => s = [t EXCEPT !.prepending = FALSE])
  BY DEF Mutated, t
<1> HIDE DEF s
<1>5. /\ s \in Syncs /\ s.request = t.request /\ s.pc = t.pc /\ s.applied = t.applied
      /\ s.baseline = t.baseline /\ s.cached = t.cached /\ s.invalid = t.invalid
      /\ s.closed = t.closed /\ s.ready = t.ready /\ s.owner = t.owner
      /\ s.requested = t.requested /\ s.retry = t.retry /\ s.desired = t.desired
      /\ (s.prepending => t.prepending)
      /\ (sync.baseline /\ notice.from <= notice.head => ~s.prepending)
  BY <1>2, <1>4 DEF Syncs
<1>6. LoopOK(log, restores, s) /\ Remembers(sync, s)
  BY <1>2, <1>5, FlagsOK DEF Remembers
<1> QED BY <1>1, <1>2, <1>3, <1>5, <1>6 DEF s

LEMMA AvailableSteps ==
    ASSUME SyncInv, WindowInv, HandleAvailable
    PROVE  SyncInv' /\ WindowInv'
<1> DEFINE notice == Head(wire)
           s == Mutated(notice)
           accepted == IF sync.baseline THEN Accepted(sync, notice.from, notice.head) ELSE {}
           after == IF accepted = {} THEN s ELSE SyncAfter(s, window, accepted)
<1>0. /\ wire # <<>> /\ notice.kind = "available" /\ UNCHANGED <<serverVars, bounds>>
      /\ window' = IF accepted = {} THEN window ELSE WindowAfter(window, accepted)
      /\ IF sync'.closed THEN Connection(sync')
         ELSE wire' = Tail(wire) /\ UNCHANGED <<joined, side>>
      /\ LogOK(log) /\ window \in Windows /\ sync \in Syncs
  BY DEF HandleAvailable, SyncInv, RoomInv, LoopOK
<1>1. UNCHANGED <<log, faults, requests, restores>> /\ BoundsInv'
  BY <1>0 DEF serverVars, bounds, SyncInv, BoundsInv
<1>2. sync' \in {after, Replay(after)}
  BY <1>0 DEF HandleAvailable, AvailableSync, Mutated, Told
<1>3. /\ notice.from \in Nat \ {0} /\ notice.head \in 0..Len(log)
      /\ LoopOK(log, restores, s) /\ Remembers(sync, s) /\ s \in Syncs
      /\ s.prepending => sync.prepending
      /\ sync.baseline /\ notice.from <= notice.head => ~s.prepending
      /\ s.baseline = sync.baseline /\ s.closed = sync.closed
  BY <1>0, ToldOK
<1>4. joined /\ ~sync.closed /\ WireOK(log, Tail(wire))
  BY <1>0, FirstNotice
<1> HIDE DEF s
<1>5. restores = 0 => Follows(log, requests, s, window)
  BY <1>3, Followed
<1>6. /\ LoopOK(log, restores, after) /\ after \in Syncs /\ window' \in Windows
      /\ restores = 0 => Follows(log, requests, after, window')
      /\ after.prepending => sync.prepending /\ after.applied = sync.applied
      /\ after.closed => ~after.prepending
  <2>1. CASE accepted = {}
    BY <1>0, <1>3, <1>4, <1>5, <2>1 DEF Remembers
  <2>2. CASE accepted # {}
    <3>1. sync.baseline /\ accepted = Accepted(sync, notice.from, notice.head)
      BY <2>2
    <3>2. s.applied = sync.applied
      BY <1>3 DEF Remembers
    <3>3. accepted = Accepted(s, notice.from, notice.head)
      BY <3>1, <3>2 DEF Accepted
    <3>4. notice.from <= notice.head
      <4>1. sync.applied < notice.head /\ accepted \subseteq notice.from..notice.head
        BY <1>0, <1>3, <2>2, <3>1, AcceptedShape DEF Accepted
      <4>2. PICK i \in accepted : i \in notice.from..notice.head
        BY <2>2, <4>1
      <4>3. notice.head \in Nat
        BY <1>0, <1>3, LogFields
      <4> QED BY <1>3, <4>2, <4>3
    <3> HIDE DEF accepted, notice
    <3> DEFINE t == SyncAfter(s, window, accepted)
    <3>a. s.baseline /\ Accepted(s, notice.from, notice.head) # {}
      BY <1>3, <2>2, <3>1, <3>3
    <3>5. /\ LoopOK(log, restores, t) /\ t.applied = notice.head
          /\ t.baseline => ~DeletesRoom(accepted)
          /\ Trusted(t) => ~s.invalid /\ ~Emptied(window, accepted)
          /\ t.prepending => s.prepending
      BY <1>0, <1>3, <3>3, <3>a, SyncAfterOK
    <3>6. WindowAfter(window, accepted) \in Windows
      BY <1>0, <1>3, <3>a, <3>3, WindowAfterOK
    <3>7. restores = 0 => Follows(log, requests, t, WindowAfter(window, accepted))
      BY <1>0, <1>3, <1>5, <3>a, <3>3, <3>5, FollowsAccepted
    <3>8. after = t
      BY <2>2
    <3>9. t \in Syncs /\ ~t.prepending
      BY <1>3, <3>1, <3>4, <3>5 DEF LoopOK
    <3> HIDE DEF t, after
    <3> QED BY <1>0, <2>2, <3>5, <3>6, <3>7, <3>8, <3>9
  <2> QED BY <2>1, <2>2
<1> HIDE DEF after, accepted
<1>7. /\ LoopOK(log, restores, sync') /\ Remembers(after, sync')
      /\ sync'.prepending => after.prepending
      /\ sync'.closed = after.closed
  <2>1. CASE sync' = after
    BY <1>6, <2>1 DEF Remembers
  <2>2. CASE sync' = Replay(after)
    <3>1. /\ LoopOK(log, restores, Replay(after)) /\ Remembers(after, Replay(after))
          /\ Replay(after).prepending => after.prepending
      BY <1>0, <1>6, ReplayOK
    <3>2. Replay(after).closed = after.closed
      BY <1>6, ReplayKeeps
    <3> QED BY <2>2, <3>1, <3>2
  <2> QED BY <1>2, <2>1, <2>2
<1>8. restores = 0 => Follows(log, requests, sync', window')
  BY <1>0, <1>6, <1>7, FollowsSame
<1>9. CASE sync'.closed
  <2>1. Connection(sync')
    BY <1>0, <1>9
  <2> QED BY <1>0, <1>6, <1>7, <1>8, <1>9, <2>1, LoopSteps
<1>10. CASE ~sync'.closed
  <2>1. SessionInv'
    BY <1>0, <1>1, <1>4, <1>10 DEF SessionInv
  <2>2. SideOK(log, side') /\ (requests' = 0 => side'.mode = "none")
    BY <1>0, <1>1, <1>10 DEF SyncInv
  <2>3. PrependOK(restores, sync', side')
    BY <1>0, <1>6, <1>7, <1>10 DEF SyncInv, PrependOK, Remembers
  <2> QED BY <1>0, <1>1, <1>6, <1>7, <1>8, <2>1, <2>2, <2>3, ClientSteps
<1> QED BY <1>9, <1>10

-----------------------------------------------------------------------------
(* Faults and restores.                                                    *)

\* Whatever was asked for is lost, whichever prefix of the log there is then.
LEMMA OfflineOK ==
    ASSUME SyncInv, Offline
    PROVE  /\ \A k, n : LogOK(k) /\ (n = 0 => sync.applied <= Len(k)) =>
                 LoopOK(k, n, sync') /\ SideOK(k, side') /\ PrependOK(n, sync', side')
           /\ Remembers(sync, sync') /\ side'.mode = side.mode
           /\ joined' = FALSE /\ wire' = <<>> /\ window' = window
<1>0. /\ LoopOK(log, restores, sync) /\ sync \in Syncs /\ sync.request \in Requests
      /\ SideOK(log, side) /\ side \in Sides /\ side.request \in Requests
      /\ PrependOK(restores, sync, side)
  BY DEF SyncInv, LoopOK, RequestOK, SideOK, AnswerOK
<1>1. ASSUME NEW r \in Requests
      PROVE  /\ Lost(r) \in Requests /\ Lost(r).kind \in {"none", "error"}
             /\ Lost(r).kind = "none" <=> r.kind = "none"
             /\ Lost(r).kind = "error" => Lost(r).code = "lost"
             /\ \A k : AnswerOK(k, Lost(r)) /\ Whole(k, Lost(r))
  <2>1. /\ Error("lost") \in Requests /\ Error("lost").kind = "error"
        /\ Error("lost").code = "lost" /\ NoRequest \in Requests /\ NoRequest.kind = "none"
        /\ \A k : /\ AnswerOK(k, Error("lost")) /\ Whole(k, Error("lost"))
                  /\ AnswerOK(k, NoRequest) /\ Whole(k, NoRequest)
    BY RequestsAre, Claimless DEF Error, NoRequest, Codes
  <2>2. r.kind = "none" <=> r = NoRequest
    BY RequestFields DEF NoRequest
  <2> QED BY <2>1, <2>2 DEF Lost
<1> DEFINE q == Lost(sync.request)
           t == [sync EXCEPT !.ready = FALSE, !.request = q]
           p == Lost(side.request)
           d == [side EXCEPT !.request = p]
<1>2. sync' = t /\ side' = d /\ joined' = FALSE /\ wire' = <<>> /\ window' = window
  BY DEF Offline
<1>3. /\ q \in Requests /\ q.kind \in {"none", "error"} /\ (q.kind = "none" <=> sync.request.kind = "none")
      /\ (q.kind = "error" => q.code = "lost") /\ \A k : AnswerOK(k, q) /\ Whole(k, q)
  BY <1>0, <1>1
<1>4. /\ p \in Requests /\ p.kind \in {"none", "error"} /\ (p.kind = "none" <=> side.request.kind = "none")
      /\ \A k : AnswerOK(k, p) /\ Whole(k, p)
  BY <1>0, <1>1
<1> HIDE DEF q, p
<1>5. /\ t \in Syncs /\ t.request = q /\ t.pc = sync.pc /\ t.applied = sync.applied
      /\ t.baseline = sync.baseline /\ t.cached = sync.cached /\ t.invalid = sync.invalid
      /\ t.prepending = sync.prepending
  BY <1>0, <1>3 DEF Syncs
<1>6. d \in Sides /\ d.mode = side.mode /\ d.request = p
  BY <1>0, <1>4 DEF Sides
<1> HIDE DEF t, d
<1>7. Remembers(sync, t)
  BY <1>5 DEF Remembers, Trusted
<1>8. ASSUME NEW k, NEW n, LogOK(k), n = 0 => sync.applied <= Len(k)
      PROVE  LoopOK(k, n, t) /\ SideOK(k, d) /\ PrependOK(n, t, d)
  <2>1. LoopOK(k, n, t)
    BY <1>0, <1>3, <1>5, <1>8 DEF LoopOK, RequestOK, CursorOK
  <2>2. SideOK(k, d)
    BY <1>0, <1>4, <1>6 DEF SideOK
  <2>3. PrependOK(n, t, d)
    BY <1>0, <1>4, <1>5, <1>6 DEF PrependOK
  <2> QED BY <2>1, <2>2, <2>3
<1> QED BY <1>2, <1>6, <1>7, <1>8

LEMMA DisconnectSteps ==
    ASSUME SyncInv, WindowInv, Disconnect
    PROVE  SyncInv' /\ WindowInv'
<1>0. LogOK(log) /\ (restores = 0 => sync.applied <= Len(log)) /\ BoundsInv
  BY DEF SyncInv, RoomInv, LoopOK, CursorOK
<1>1. Offline /\ UNCHANGED serverVars /\ BoundsInv' /\ UNCHANGED <<requests, restores>>
  BY <1>0, FaultOK DEF Disconnect
<1>2. UNCHANGED log
  BY <1>1 DEF serverVars
<1>3. /\ LoopOK(log, restores, sync') /\ Remembers(sync, sync') /\ SideOK(log, side')
      /\ PrependOK(restores, sync', side') /\ side'.mode = side.mode
      /\ joined' = FALSE /\ wire' = <<>> /\ window' = window
  BY <1>0, <1>1, OfflineOK
<1>4. SessionInv'
  BY <1>3, NothingSent DEF SessionInv
<1>5. restores = 0 => Follows(log, requests', sync', window')
  BY <1>1, <1>3, Followed
<1> QED BY <1>1, <1>3, <1>4, <1>5, ClientSteps DEF SyncInv

LEMMA RemountSteps ==
    ASSUME SyncInv, WindowInv, Remount
    PROVE  SyncInv' /\ WindowInv'
<1>0. /\ LogOK(log) /\ LoopOK(log, restores, sync) /\ sync \in Syncs /\ window \in Windows
      /\ (restores = 0 => sync.applied <= Len(log)) /\ BoundsInv
  BY DEF SyncInv, RoomInv, LoopOK, CursorOK
<1>1. /\ joined' = FALSE /\ wire' = <<>> /\ side' = NoSide /\ UNCHANGED serverVars
      /\ BoundsInv' /\ UNCHANGED <<requests, restores>>
  BY <1>0, FaultOK DEF Remount
<1>2. SessionInv' /\ SideOK(log, side') /\ side'.mode = "none"
  BY <1>1, NothingSent, NoSideOK DEF SessionInv, NoSide
<1>3. CASE sync.cached
  <2> DEFINE t == [Cold EXCEPT !.baseline = TRUE, !.cached = TRUE, !.applied = sync.applied]
  <2>1. sync' = t /\ window' = window
    BY <1>3 DEF Remount
  <2>2. LoopOK(log, restores, Cold) /\ Cold \in Syncs
    BY <1>0, ColdOK DEF LoopOK
  <2>3. /\ t \in Syncs /\ t.request = Cold.request /\ t.pc = Cold.pc /\ t.applied = sync.applied
        /\ t.baseline /\ t.cached /\ ~t.prepending
    <3>1. sync.applied \in Seqs
      BY <1>0, CursorsAre
    <3> HIDE DEF Cold
    <3>2. /\ t \in Syncs /\ t.request = Cold.request /\ t.pc = Cold.pc
          /\ t.applied = sync.applied /\ t.baseline /\ t.cached /\ t.prepending = Cold.prepending
      BY <2>2, <3>1 DEF Syncs
    <3>3. ~Cold.prepending
      BY DEF Cold
    <3> QED BY <3>2, <3>3
  <2> HIDE DEF t
  <2>4. Cold.request = NoRequest /\ NoRequest.kind = "none"
    BY DEF Cold, NoRequest
  <2>5. LoopOK(log, restores, t)
    BY <1>0, <2>2, <2>3, <2>4 DEF LoopOK, RequestOK, CursorOK
  <2>6. Remembers(sync, t)
    BY <1>0, <1>3, <2>3 DEF LoopOK, Remembers, Trusted
  <2>7. restores = 0 => Follows(log, requests', sync', window')
    BY <1>1, <2>1, <2>6, Followed
  <2> QED BY <1>0, <1>1, <1>2, <2>1, <2>3, <2>5, <2>7, ClientSteps DEF PrependOK
<1>4. CASE ~sync.cached
  <2>1. sync' = Cold /\ window' = EmptyWindow
    BY <1>4 DEF Remount
  <2>2. LoopOK(log, restores, sync') /\ ~sync'.prepending /\ ~sync'.baseline
    BY <1>0, <2>1, ColdOK DEF Cold
  <2>3. window' \in Windows /\ Follows(log, requests', sync', window')
    BY <2>1, <2>2, EmptyWindowOK, EmptyWindowFollows
  <2> QED BY <1>1, <1>2, <2>2, <2>3, ClientSteps DEF PrependOK
<1> QED BY <1>3, <1>4

LEMMA RestoreSteps ==
    ASSUME SyncInv, WindowInv, NEW n \in 1..MaxSeq, Restore(n)
    PROVE  SyncInv' /\ WindowInv'
<1>0. /\ LogOK(log) /\ Len(log) \in Nat /\ BoundsInv /\ restores \in Nat /\ MaxSeq \in Nat
      /\ minSeq \in 1..MaxSeq + 1
  BY LogFields, Bounds DEF SyncInv, RoomInv, BoundsInv
<1>1. /\ restores < MaxRestores /\ restores' = restores + 1 /\ n < Len(log)
      /\ log' = SubSeq(log, 1, n) /\ minSeq' = Min({minSeq, n + 1}) /\ listening' = TRUE
      /\ pending' = {} /\ announce' = FALSE /\ Offline /\ UNCHANGED <<faults, requests>>
  BY DEF Restore, HeadSeq
<1>2. LogOK(log')
  <2>1. \A i \in 1..n : log[i] \in Events
    BY <1>0, <1>1, ElementOfSeq DEF LogOK
  <2>2. /\ log' \in Seq(Events) /\ Len(log') = n
        /\ \A i \in 1..n : log'[i] = log[i]
    BY <1>1, <2>1, SubSeqProperties
  <2>3. \A i \in 1..n : i \in 1..Len(log) /\ i # Len(log)
    BY <1>0, <1>1
  <2> QED BY <1>0, <2>2, <2>3 DEF LogOK
<1>3. RoomInv'
  <2>1. minSeq' \in 1..MaxSeq + 1
    BY <1>0, <1>1, MinOfPair
  <2> QED BY <1>1, <1>2, <2>1 DEF RoomInv
<1>4. BoundsInv' /\ restores' # 0
  BY <1>0, <1>1, Bounds DEF BoundsInv
<1>5. /\ LoopOK(log', restores', sync') /\ SideOK(log', side')
      /\ PrependOK(restores', sync', side') /\ side'.mode = side.mode
      /\ joined' = FALSE /\ wire' = <<>> /\ window' = window
  BY <1>1, <1>2, <1>4, OfflineOK
<1>6. SessionInv'
  BY <1>5, NothingSent DEF SessionInv
<1> QED BY <1>1, <1>3, <1>4, <1>5, <1>6 DEF SyncInv, WindowInv

-----------------------------------------------------------------------------
(* The theorems about the window.                                          *)

LEMMA NextInv == SyncInv /\ WindowInv /\ [Next]_vars => SyncInv' /\ WindowInv'
<1> SUFFICES ASSUME SyncInv, WindowInv, [Next]_vars PROVE SyncInv' /\ WindowInv'
  OBVIOUS
<1>1. CASE UNCHANGED vars
  <2>1. UNCHANGED <<log, minSeq, listening, pending, announce, joined, wire, sync, side,
                    window, faults, requests, restores>>
    BY <1>1 DEF vars, serverVars, clientVars, bounds
  <2> QED BY <2>1 DEF SyncInv, RoomInv, SessionInv, BoundsInv, WindowInv
<1>2. CASE RoomStep
  BY <1>2, RoomSteps
<1>3. CASE (\E floor \in 2..MaxSeq + 1 : Prune(floor)) \/ ListenerFails
  BY <1>3, BroadcastSteps
<1>4. CASE ServerStep
  BY <1>4, BroadcastSteps, AnswerSteps DEF ServerStep
<1>5. CASE ClientStep
  BY <1>5, PageSteps, EventsErrorSteps, SnapshotSteps, HistorySteps, ReplacementSteps,
     AvailableSteps, SessionSteps, BroadcastSteps DEF ClientStep
<1>6. CASE Prepend \/ PageResumes
  BY <1>6, PrependSteps, SessionSteps
<1>7. CASE RequestFails \/ Disconnect \/ Remount
  BY <1>7, AnswerSteps, DisconnectSteps, RemountSteps
<1>8. CASE \E n \in 1..MaxSeq : Restore(n)
  BY <1>8, RestoreSteps
<1> QED BY <1>1, <1>2, <1>3, <1>4, <1>5, <1>6, <1>7, <1>8 DEF Next

LEMMA Invariance == Spec => [](SyncInv /\ WindowInv)
  BY InitInv, NextInv, PTL DEF Spec

LEMMA InvTypes == SyncInv => TypeOK
<1> SUFFICES ASSUME SyncInv PROVE TypeOK
  OBVIOUS
<1>1. log \in Seq(Events) /\ HeadSeq <= MaxSeq /\ minSeq \in 1..MaxSeq + 1
  BY LogFields DEF SyncInv, RoomInv, LogOK, HeadSeq
<1>2. {listening, announce, joined} \subseteq BOOLEAN
  BY DEF SyncInv, RoomInv, SessionInv
<1>3. pending \subseteq Seqs
  BY LogFields, Bounds DEF SyncInv, RoomInv, Seqs
<1>4. wire \in Seq(Notices)
  BY DEF SyncInv, SessionInv, WireOK
<1>5. sync \in Syncs /\ side \in Sides /\ window \in Windows
  BY DEF SyncInv, LoopOK, SideOK
<1>6. faults \in 0..MaxFaults /\ requests \in 0..MaxRequests /\ restores \in 0..MaxRestores
  BY DEF SyncInv, BoundsInv
<1> QED BY <1>1, <1>2, <1>3, <1>4, <1>5, <1>6 DEF TypeOK, Syncs, Sides, Windows

\* The room, the answers in flight and the browser's state are of their types, and the
\* log, the cursor and the counters keep their bounds.
THEOREM TypesHold == Spec => []TypeOK
  BY Invariance, InvTypes, PTL

\* As long as the database was not set back, every loaded message shows what the room
\* held at the cursor or later.
THEOREM WindowIsNeverStale == Spec => [](restores = 0 => NeverStale)
<1>1. SyncInv /\ WindowInv => (restores = 0 => NeverStale)
  BY VersionAtIs DEF WindowInv, Follows, StaleFree, NeverStale, HeadSeq
<1> QED BY <1>1, Invariance, PTL

\* And a message that is missing was once older than a whole window: the cursor passes
\* no event that was not applied.
THEOREM NothingIsSkipped == Spec => [](restores = 0 => NothingNewerMissing)
<1>1. SyncInv /\ WindowInv => (restores = 0 => NothingNewerMissing)
  <2> SUFFICES ASSUME WindowInv, restores = 0, sync.baseline,
                      NEW m \in Positions \ Loaded(window.view), Present(m)
               PROVE  \E n \in VersionAt(m, sync.applied)..sync.applied :
                          Cardinality({x \in Positions : x > m /\ VersionAt(x, n) # 0})
                              >= WindowSize
    BY DEF NothingNewerMissing
  <2>1. PresentIn(log, sync.applied, m)
    BY VersionAtIs DEF Present, PresentIn, HeadSeq
  <2>2. PICK n \in VersionIn(log, m, sync.applied)..sync.applied :
                Cardinality(NewerIn(log, m, n)) >= WindowSize
    BY <2>1 DEF WindowInv, Follows, NoneMissing
  <2>3. NewerIn(log, m, n) = {x \in Positions : x > m /\ VersionAt(x, n) # 0}
    BY VersionAtIs DEF NewerIn
  <2> QED BY <2>2, <2>3, VersionAtIs
<1> QED BY <1>1, Invariance, PTL

\* As long as no history was requested either, a window that says that there is no more
\* shows every message that has been in the room since the cursor.
THEOREM OlderHistoryIsReachable == Spec => [](restores = 0 => ReachableUntilPaged)
<1>1. SyncInv /\ WindowInv => (restores = 0 => ReachableUntilPaged)
  <2> SUFFICES ASSUME WindowInv, restores = 0, requests = 0, sync.baseline, ~sync.invalid,
                      ~window.more, NEW m \in Positions, Present(m)
               PROVE  m \in Loaded(window.view)
    BY DEF ReachableUntilPaged, OlderStaysReachable
  <2>1. PresentIn(log, sync.applied, m)
    BY VersionAtIs DEF Present, PresentIn, HeadSeq
  <2> QED BY <2>1 DEF WindowInv, Follows, Trusted, Sound
<1> QED BY <1>1, Invariance, PTL

-----------------------------------------------------------------------------
(* Where the loop rests: its operations.                                   *)

LEMMA AskRests ==
    ASSUME NEW l, NEW q, NEW s \in Syncs
    PROVE  RestOK(l, q, AskEvents(s)) /\ \A target : RestOK(l, q, AskSnapshot(s, target))
<1>1. Error("lost").kind = "error"
  BY DEF Error
<1>2. RestOK(l, q, AskEvents(s))
  <2> DEFINE t == AskEvents(s)
  <2>1. t.pc = "events" /\ t.request.kind = "events"
    BY DEF Syncs, AskEvents
  <2> HIDE DEF t
  <2>2. RestOK(l, q, t)
    BY <1>1, <2>1 DEF RestOK
  <2> QED BY <2>2 DEF t
<1>3. ASSUME NEW target
      PROVE  RestOK(l, q, AskSnapshot(s, target))
  <2> DEFINE t == AskSnapshot(s, target)
  <2>1. t.pc = "snapshot" /\ t.owner = "loop" /\ t.request.kind = "snapshot"
    BY DEF Syncs, AskSnapshot
  <2> HIDE DEF t
  <2>2. RestOK(l, q, t)
    BY <1>1, <2>1 DEF RestOK
  <2> QED BY <2>2 DEF t
<1> QED BY <1>2, <1>3

\* A loop ends only where it may rest.
LEMMA TopRests ==
    ASSUME NEW l, NEW q, NEW s \in Syncs,
           q = 0 /\ s.ready /\ ~s.requested /\ ~s.retry =>
               s.applied >= s.desired /\ s.applied <= Len(l)
    PROVE  RestOK(l, q, LoopTop(s))
<1>1. CASE ~(s.requested /\ s.ready)
  <2> DEFINE t == LoopTop(s)
  <2>1. /\ t.pc = "idle" /\ t.request.kind = "none" /\ t.ready = s.ready /\ t.retry = s.retry
        /\ t.applied = s.applied /\ t.desired = s.desired
    BY <1>1 DEF Syncs, LoopTop, NoRequest
  <2>2. Error("lost").kind = "error"
    BY DEF Error
  <2> HIDE DEF t
  <2>3. RestOK(l, q, t)
    BY <1>1, <2>1, <2>2 DEF RestOK
  <2> QED BY <2>3 DEF t
<1>2. CASE s.requested /\ s.ready
  <2> DEFINE t == [s EXCEPT !.requested = FALSE]
  <2>1. t \in Syncs
    BY DEF Syncs
  <2>2. LoopTop(s) \in {AskEvents(t), AskSnapshot(t, 0)}
    BY <1>2 DEF LoopTop
  <2> QED BY <2>1, <2>2, AskRests
<1> QED BY <1>1, <1>2

LEMMA ReadOnRests ==
    ASSUME NEW l, NEW q, NEW s \in Syncs
    PROVE  RestOK(l, q, ReadOn(s))
  BY AskRests, TopRests DEF ReadOn

\* A replay that is asked for leaves nothing to rest on.
LEMMA ReplayRests ==
    ASSUME NEW l, NEW q, NEW s \in Syncs, q = 0 /\ s.pc = "snapshot" => s.owner = "loop"
    PROVE  RestOK(l, q, Replay(s))
<1>1. CASE ~s.ready
  BY <1>1 DEF Replay, RestOK
<1>2. CASE s.ready
  <2> DEFINE t == [s EXCEPT !.requested = TRUE, !.prepending = FALSE]
  <2>1. t \in Syncs /\ t.requested /\ t.pc = s.pc /\ t.owner = s.owner
    BY DEF Syncs
  <2>2. Replay(s) = IF t.pc = "idle" THEN LoopTop(t) ELSE t
    BY <1>2 DEF Replay
  <2> HIDE DEF t
  <2>3. RestOK(l, q, LoopTop(t))
    BY <2>1, TopRests
  <2>4. t.pc # "idle" => RestOK(l, q, t)
    BY <2>1 DEF RestOK
  <2> QED BY <2>2, <2>3, <2>4
<1> QED BY <1>1, <1>2

\* A page that is not in the room does not rest there.
LEMMA AwayRests ==
    ASSUME NEW l, NEW q, NEW s, ~s.ready, q = 0 /\ s.pc = "snapshot" => s.owner = "loop"
    PROVE  RestOK(l, q, s)
  BY DEF RestOK

LEMMA LeftRests ==
    ASSUME NEW l, NEW q, NEW s
    PROVE  RestOK(l, q, Left(s)) /\ RestOK(l, q, Cold)
<1>1. /\ Left(s).ready = FALSE /\ Left(s).pc = "idle"
      /\ Cold.ready = FALSE /\ Cold.pc = "idle"
  BY DEF Left, Cold
<1> QED BY <1>1 DEF RestOK

\* Steps that do not touch what the loop rests on, while the log only grows.
LEMMA RestKept ==
    ASSUME NEW l, NEW q, NEW s, RestOK(l, q, s), NEW k, NEW r, NEW t \in Syncs,
           r = 0 => q = 0, Len(l) \in Nat, Len(k) \in Nat, Len(l) <= Len(k),
           t.ready = s.ready, t.request = s.request, t.requested = s.requested,
           t.pc = s.pc, t.owner = s.owner, t.retry = s.retry,
           t.applied = s.applied, t.desired = s.desired
    PROVE  RestOK(k, r, t)
<1>1. t.applied \in Nat
  BY CursorsAre
<1> QED BY <1>1 DEF RestOK

-----------------------------------------------------------------------------
(* Where the loop rests: the steps.                                        *)

LEMMA PageRests ==
    ASSUME SyncInv, RestInv, HandlePage
    PROVE  RestInv'
<1> DEFINE page == sync.request
           s == [NotifyHead(sync, page.head) EXCEPT !.retry = FALSE]
           accepted == Accepted(s, page.from, page.to)
           after == SyncAfter(s, window, accepted)
<1>0. /\ page.kind = "page" /\ UNCHANGED <<log, requests>>
      /\ LogOK(log) /\ LoopOK(log, restores, sync) /\ Len(log) \in Nat
  BY LogFields DEF HandlePage, SyncInv, RoomInv, serverVars, bounds
<1>1. /\ page.from \in Nat \ {0} /\ page.to \in 0..Len(log) /\ page.head \in Seqs
  <2>1. page \in Requests /\ page.to <= Len(log)
    BY <1>0 DEF LoopOK, RequestOK, AnswerOK
  <2>2. page.from \in 1..MaxSeq + 1 /\ page.to \in Seqs /\ page.head \in Seqs
    BY <1>0, <2>1, RequestFields
  <2>3. page.to \in Nat /\ Len(log) \in Nat
    BY <1>0, <2>2, Bounds
  <2> QED BY <2>1, <2>2, <2>3
<1>2. s \in Syncs /\ LoopOK(log, restores, s) /\ s.applied = sync.applied /\ s.baseline
      /\ s.applied <= Len(log) /\ s.pc = "events" /\ s.request.kind = "page"
  <2> DEFINE t == NotifyHead(sync, page.head)
  <2>1. LoopOK(log, restores, t) /\ t \in Syncs /\ t = [sync EXCEPT !.desired = t.desired]
    BY <1>0, <1>1, NotifyHeadOK DEF LoopOK
  <2>2. sync \in Syncs /\ sync.baseline /\ sync.applied <= Len(log) /\ sync.pc = "events"
    BY <1>0 DEF LoopOK, RequestOK, CursorOK
  <2> HIDE DEF t
  <2>3. /\ s \in Syncs /\ s.request = t.request /\ s.pc = t.pc /\ s.applied = t.applied
        /\ s.baseline = t.baseline /\ s.cached = t.cached /\ s.prepending = t.prepending
        /\ s.invalid = t.invalid
    <3>1. s = [t EXCEPT !.retry = FALSE]
      BY DEF t
    <3> HIDE DEF s
    <3> QED BY <2>1, <3>1 DEF Syncs
  <2>4. /\ t.applied = sync.applied /\ t.baseline = sync.baseline
        /\ t.pc = sync.pc /\ t.request = sync.request
    BY <2>1, <2>2 DEF Syncs
  <2> HIDE DEF s
  <2>5. LoopOK(log, restores, s)
    BY <2>1, <2>3, FlagsOK
  <2> QED BY <1>0, <2>2, <2>3, <2>4, <2>5
<1>3. \/ sync' \in {AskSnapshot(s, page.head), AskSnapshot(s, 0), ReadOn(s)}
      \/ sync' = LoopTop(s) /\ ~NeedsReplay(s)
      \/ /\ accepted # {}
         /\ \/ sync' = after /\ after.closed
            \/ sync' \in {AskSnapshot(after, 0), ReadOn(after)}
            \/ sync' = LoopTop(after) /\ ~NeedsReplay(after) /\ ~after.closed
  BY DEF HandlePage
<1> HIDE DEF s
<1>4. CASE sync' \in {AskSnapshot(s, page.head), AskSnapshot(s, 0), ReadOn(s)}
  BY <1>0, <1>2, <1>4, AskRests, ReadOnRests DEF RestInv
<1>5. CASE sync' = LoopTop(s) /\ ~NeedsReplay(s)
  <2>1. s.applied >= s.desired
    BY <1>2, <1>5, CursorsAre DEF NeedsReplay
  <2>2. RestOK(log, requests, LoopTop(s))
    BY <1>2, <2>1, TopRests
  <2> QED BY <1>0, <1>5, <2>2 DEF RestInv
<1>6. ASSUME accepted # {}
      PROVE  after \in Syncs /\ after.applied <= Len(log)
  <2>1. LoopOK(log, restores, after) /\ after.applied = page.to
    BY <1>0, <1>1, <1>2, <1>6, SyncAfterOK
  <2> QED BY <1>0, <1>1, <2>1 DEF LoopOK
<1>7. RestOK(log, requests, after)
  <2>1. CASE DeletesRoom(accepted)
    BY <2>1, LeftRests DEF SyncAfter
  <2>2. CASE ~DeletesRoom(accepted)
    <3>1. after.pc = s.pc /\ after.request = s.request
      BY <1>2, <2>2 DEF SyncAfter, Syncs
    <3>2. Error("lost").kind = "error"
      BY DEF Error
    <3> QED BY <1>0, <1>2, <3>1, <3>2 DEF RestOK
  <2> QED BY <2>1, <2>2
<1> HIDE DEF after
<1>8. CASE accepted # {} /\ sync' = after /\ after.closed
  BY <1>0, <1>7, <1>8 DEF RestInv
<1>9. CASE accepted # {} /\ sync' \in {AskSnapshot(after, 0), ReadOn(after)}
  BY <1>0, <1>6, <1>9, AskRests, ReadOnRests DEF RestInv
<1>10. CASE accepted # {} /\ sync' = LoopTop(after) /\ ~NeedsReplay(after)
  <2>1. after \in Syncs /\ after.applied <= Len(log) /\ after.applied >= after.desired
    BY <1>6, <1>10, CursorsAre DEF NeedsReplay
  <2>2. RestOK(log, requests, LoopTop(after))
    BY <2>1, TopRests
  <2> QED BY <1>0, <1>10, <2>2 DEF RestInv
<1> QED BY <1>3, <1>4, <1>5, <1>8, <1>9, <1>10

\* A loop whose request is given up was asked to run again, or will retry.
LEMMA ErrorRests ==
    ASSUME SyncInv, RestInv, sync.request.kind = "error", sync.request.code \in {"lost", "unavailable"},
           NEW owner \in {"none", "loop", "side"}
    PROVE  LET s == [AfterError(sync, sync.request.code) EXCEPT !.owner = owner] IN
           RestOK(log, requests, LoopTop(s)) /\ s \in Syncs
<1> DEFINE s == [AfterError(sync, sync.request.code) EXCEPT !.owner = owner]
<1>1. sync \in Syncs /\ sync.request \in Requests
  BY DEF SyncInv, LoopOK, RequestOK, AnswerOK
<1>2. CASE sync.request.code = "unavailable"
  <2>1. s \in Syncs /\ s.retry
    BY <1>1, <1>2 DEF AfterError, Syncs
  <2> HIDE DEF s
  <2>2. RestOK(log, requests, LoopTop(s))
    BY <2>1, TopRests
  <2> QED BY <2>1, <2>2 DEF s
<1>3. CASE sync.request.code = "lost"
  <2>1. sync.request = Error("lost")
    BY <1>1, <1>3 DEF Requests, Error
  <2>2. s \in Syncs /\ s.ready = sync.ready /\ s.requested = sync.requested
    BY <1>1, <1>3 DEF AfterError, Syncs
  <2>3. s.ready => s.requested
    BY <2>1, <2>2 DEF RestInv, RestOK
  <2> HIDE DEF s
  <2>4. RestOK(log, requests, LoopTop(s))
    BY <2>2, <2>3, TopRests
  <2> QED BY <2>2, <2>4 DEF s
<1> QED BY <1>2, <1>3

LEMMA EventsErrorRests ==
    ASSUME SyncInv, RestInv, HandleEventsError
    PROVE  RestInv'
<1> DEFINE code == sync.request.code
           s == [sync EXCEPT !.desired = 0, !.gapTarget = 0]
<1>0. /\ sync.pc = "events" /\ sync.request.kind = "error" /\ UNCHANGED <<log, requests>>
      /\ sync \in Syncs
      /\ code \in {"expired", "ahead", "denied", "lost", "unavailable"}
  <2>1. /\ sync.pc = "events" /\ sync.request.kind = "error" /\ UNCHANGED <<log, requests>>
        /\ sync \in Syncs /\ sync.request \in Requests /\ code # "boundary"
    BY DEF HandleEventsError, SyncInv, LoopOK, RequestOK, AnswerOK, serverVars, bounds
  <2> QED BY <2>1, RequestFields DEF Codes
<1>1. /\ code = "ahead" => sync' = AskSnapshot(s, 0)
      /\ code = "expired" => sync' = AskSnapshot(sync, 0)
      /\ code = "denied" => sync' = Left(sync)
      /\ code \in {"lost", "unavailable"} => sync' = LoopTop(AfterError(sync, code))
  BY DEF HandleEventsError
<1>2. s \in Syncs
  BY <1>0, Bounds DEF Syncs
<1>3. CASE code \in {"lost", "unavailable"}
  <2> DEFINE t == AfterError(sync, code)
             u == [t EXCEPT !.owner = sync.owner]
  <2>1. sync.owner \in {"none", "loop", "side"}
    BY <1>0 DEF Syncs
  <2>2. RestOK(log, requests, LoopTop(u))
    BY <1>0, <1>3, <2>1, ErrorRests
  <2>3. t \in Syncs /\ t.owner = sync.owner
    <3>1. t = sync \/ t = [sync EXCEPT !.retry = TRUE]
      BY <1>3 DEF AfterError
    <3> QED BY <1>0, <3>1 DEF Syncs
  <2>4. u = t
    BY <2>3 DEF Syncs
  <2> QED BY <1>0, <1>1, <1>3, <2>2, <2>4 DEF RestInv
<1>4. CASE code \in {"ahead", "expired"}
  BY <1>0, <1>1, <1>2, <1>4, AskRests DEF RestInv
<1>5. CASE code = "denied"
  BY <1>0, <1>1, <1>5, LeftRests DEF RestInv
<1> QED BY <1>0, <1>3, <1>4, <1>5

LEMMA SnapshotRests ==
    ASSUME SyncInv, RestInv, HandleSnapshot
    PROVE  RestInv'
<1> DEFINE answer == sync.request
           owner == IF sync.owner = "loop" THEN "none" ELSE sync.owner
           s == [AfterError(sync, answer.code) EXCEPT !.owner = owner]
           t == [SyncReplaced(sync, answer) EXCEPT
                    !.gapTarget = IF sync.target = 0 THEN @ ELSE sync.target, !.target = 0]
<1>0. /\ sync.pc = "snapshot" /\ UNCHANGED <<log, requests>> /\ sync \in Syncs
      /\ answer.kind \in {"window", "error"} /\ owner \in {"none", "loop", "side"}
      /\ answer \in Requests /\ AnswerOK(log, answer) /\ LogOK(log) /\ LoopOK(log, restores, sync)
      /\ answer.kind = "error" => answer.code \in {"denied", "lost", "unavailable"}
  <2>1. /\ sync.pc = "snapshot" /\ UNCHANGED <<log, requests>> /\ sync \in Syncs
        /\ answer.kind \in {"window", "error"} /\ LoopOK(log, restores, sync) /\ LogOK(log)
    BY DEF HandleSnapshot, SyncInv, RoomInv, LoopOK, serverVars, bounds
  <2>2. AnswerOK(log, answer) /\ answer \in Requests
    BY <2>1 DEF LoopOK, RequestOK, AnswerOK
  <2>3. answer.kind = "error" => answer.code \notin {"boundary", "expired", "ahead"}
    BY <2>1 DEF LoopOK, RequestOK
  <2>4. answer.kind = "error" => answer.code \in {"denied", "lost", "unavailable"}
    BY <2>2, <2>3, RequestFields DEF Codes
  <2>5. owner \in {"none", "loop", "side"}
    BY <2>1 DEF Syncs
  <2> QED BY <2>1, <2>2, <2>4, <2>5
<1>1. CASE answer.kind = "error" /\ answer.code = "denied"
  <2>1. sync' = Left(sync)
    BY <1>1 DEF HandleSnapshot
  <2> QED BY <1>0, <2>1, LeftRests DEF RestInv
<1>2. CASE answer.kind = "error" /\ answer.code \in {"lost", "unavailable"}
  <2>1. AfterError(sync, answer.code).owner = sync.owner
    BY <1>0, <1>2 DEF AfterError, Syncs
  <2>2. sync' = LoopTop(s)
    BY <1>2, <2>1 DEF HandleSnapshot
  <2>3. RestOK(log, requests, LoopTop(s))
    BY <1>0, <1>2, ErrorRests
  <2> QED BY <1>0, <2>2, <2>3 DEF RestInv
<1>3. CASE answer.kind = "window" /\ sync.owner # "loop"
  <2>1. sync' = LoopTop(sync)
    BY <1>3 DEF HandleSnapshot
  <2>2. requests # 0
    BY <1>0, <1>3 DEF RestInv, RestOK
  <2> QED BY <1>0, <2>1, <2>2, TopRests DEF RestInv
<1>4. CASE answer.kind = "window" /\ sync.owner = "loop"
  <2>1. sync' = ReadOn(t)
    BY <1>4 DEF HandleSnapshot
  <2>2. SyncReplaced(sync, answer) \in Syncs
    BY <1>0, <1>4, SyncReplacedOK DEF LoopOK
  <2>3. t \in Syncs
    BY <1>0, <2>2, Bounds DEF Syncs
  <2> QED BY <1>0, <2>1, <2>3, ReadOnRests DEF RestInv
<1> QED BY <1>0, <1>1, <1>2, <1>3, <1>4

\* The history page is only there when it was requested; the loop keeps its request.
LEMMA HistoryRests ==
    ASSUME SyncInv, RestInv, Prepend \/ HandlePrepend \/ HandleSideReplace
    PROVE  RestInv'
<1>0. sync \in Syncs /\ UNCHANGED log
  BY DEF SyncInv, LoopOK, Prepend, HandlePrepend, HandleSideReplace, serverVars
<1>1. requests' # 0
  <2>1. CASE Prepend
    BY <2>1, Bounds DEF SyncInv, BoundsInv, Prepend
  <2>2. CASE HandlePrepend \/ HandleSideReplace
    BY <2>2 DEF SyncInv, HandlePrepend, HandleSideReplace, bounds
  <2> QED BY <2>1, <2>2
<1>2. \/ /\ sync'.ready = sync.ready /\ sync'.request = sync.request
         /\ sync'.requested = sync.requested
      \/ ~sync'.ready
  <2>1. ASSUME NEW code, NEW s, s = AfterError(sync, code)
        PROVE  \/ /\ s \in Syncs /\ s.ready = sync.ready /\ s.request = sync.request
                  /\ s.requested = sync.requested
               \/ s = Left(sync)
    <3>1. s = Left(sync) \/ s = sync \/ s = [sync EXCEPT !.retry = TRUE]
      BY <2>1 DEF AfterError
    <3>2. CASE s = [sync EXCEPT !.retry = TRUE]
      BY <1>0, <3>2 DEF Syncs
    <3> QED BY <1>0, <3>1, <3>2
  <2>2. ~Left(sync).ready /\ \A o : ~[Left(sync) EXCEPT !.owner = o].ready
        /\ ~[Left(sync) EXCEPT !.prepending = FALSE].ready
    BY DEF Left, Cold
  <2>3. CASE Prepend
    BY <1>0, <2>3 DEF Prepend, Syncs
  <2>4. CASE HandlePrepend
    <3>1. \/ sync' = sync
          \/ sync' = [sync EXCEPT !.prepending = FALSE, !.retry = FALSE, !.cached = TRUE]
          \/ sync' = [sync EXCEPT !.owner = "side", !.prepending = FALSE]
          \/ \E code : sync' = [AfterError(sync, code) EXCEPT !.prepending = FALSE]
      BY <2>4 DEF HandlePrepend
    <3>2. ASSUME NEW code, sync' = [AfterError(sync, code) EXCEPT !.prepending = FALSE]
          PROVE  <1>2!1 \/ <1>2!2
      BY <2>1, <2>2, <3>2 DEF Syncs
    <3> QED BY <1>0, <3>1, <3>2 DEF Syncs
  <2>5. CASE HandleSideReplace
    <3>1. \/ sync' = sync
          \/ sync' = SyncReplaced(sync, side.request)
          \/ \E code, o : sync' = [AfterError(sync, code) EXCEPT !.owner = o]
      <4>1. \A code : [AfterError(sync, code) EXCEPT
                !.owner = IF sync.owner = "side" THEN "none" ELSE @]
              = [AfterError(sync, code) EXCEPT
                !.owner = IF sync.owner = "side" THEN "none" ELSE AfterError(sync, code).owner]
        OBVIOUS
      <4> QED BY <2>5, <4>1 DEF HandleSideReplace
    <3>2. ASSUME NEW code, NEW o, sync' = [AfterError(sync, code) EXCEPT !.owner = o]
          PROVE  <1>2!1 \/ <1>2!2
      BY <2>1, <2>2, <3>2 DEF Syncs
    <3>3. sync' = SyncReplaced(sync, side.request) => <1>2!1
      BY <1>0 DEF SyncReplaced, Syncs
    <3> QED BY <3>1, <3>2, <3>3
  <2> QED BY <2>3, <2>4, <2>5
<1>3. sync'.ready /\ sync'.request = Error("lost") => sync'.requested
  BY <1>2 DEF RestInv, RestOK
<1> QED BY <1>1, <1>3 DEF RestInv, RestOK

\* The fast path rests only on a cursor that has caught up.
LEMMA AvailableRests ==
    ASSUME SyncInv, RestInv, HandleAvailable
    PROVE  RestInv'
<1> DEFINE notice == Head(wire)
           s == Mutated(notice)
           accepted == IF sync.baseline THEN Accepted(sync, notice.from, notice.head) ELSE {}
           after == IF accepted = {} THEN s ELSE SyncAfter(s, window, accepted)
<1>0. /\ wire # <<>> /\ notice.kind = "available" /\ UNCHANGED <<log, requests>>
      /\ LogOK(log) /\ Len(log) \in Nat /\ sync \in Syncs
  BY LogFields DEF HandleAvailable, SyncInv, RoomInv, LoopOK, serverVars, bounds
<1>1. sync' = IF ~after.closed /\ (~after.baseline \/ NeedsReplay(after))
              THEN Replay(after) ELSE after
  BY <1>0 DEF HandleAvailable, AvailableSync, Mutated, Told
<1>2. /\ notice.from \in Nat \ {0} /\ notice.head \in 0..Len(log)
      /\ LoopOK(log, restores, s) /\ s \in Syncs /\ s.applied = sync.applied
      /\ s.baseline = sync.baseline /\ ~s.closed /\ s.ready = sync.ready
      /\ s.pc = sync.pc /\ s.owner = sync.owner /\ s.request = sync.request
      /\ s.requested = sync.requested /\ s.retry = sync.retry
  BY <1>0, ToldOK, FirstNotice DEF Remembers
<1> HIDE DEF s
<1>3. \/ after.closed /\ RestOK(log, requests, after)
      \/ /\ after \in Syncs /\ ~after.closed /\ after.ready = s.ready /\ after.pc = s.pc /\ after.owner = s.owner
         /\ after.request = s.request /\ after.requested = s.requested /\ after.retry = s.retry
         /\ after.applied = s.applied \/ after.applied <= Len(log)
  <2>1. CASE accepted = {}
    BY <1>2, <2>1
  <2>2. CASE accepted # {}
    <3>1. s.baseline /\ accepted = Accepted(s, notice.from, notice.head)
      BY <1>2, <2>2 DEF Accepted
    <3> HIDE DEF accepted, notice
    <3>2. Accepted(s, notice.from, notice.head) # {}
      BY <2>2, <3>1
    <3> DEFINE t == SyncAfter(s, window, accepted)
    <3>3. LoopOK(log, restores, t) /\ t.applied = notice.head
      BY <1>0, <1>2, <3>1, <3>2, SyncAfterOK
    <3>4. t \in Syncs /\ t.applied <= Len(log)
      BY <1>0, <1>2, <3>3 DEF LoopOK
    <3>5. CASE DeletesRoom(accepted)
      <4>1. \E u : t = Left(u)
        BY <3>5 DEF SyncAfter
      <4>2. t.closed
        BY <4>1 DEF Left, Cold
      <4> QED BY <2>2, <4>1, <4>2, LeftRests
    <3>6. CASE ~DeletesRoom(accepted)
      <4>1. /\ t.ready = s.ready /\ t.pc = s.pc /\ t.owner = s.owner
            /\ t.request = s.request /\ t.requested = s.requested /\ t.retry = s.retry
            /\ t.closed = s.closed
        BY <1>2, <3>6 DEF SyncAfter, Syncs
      <4> HIDE DEF t
      <4> QED BY <1>2, <2>2, <3>4, <4>1 DEF t
    <3> QED BY <3>5, <3>6
  <2> QED BY <2>1, <2>2
<1> HIDE DEF after, accepted
<1>4. CASE after.closed /\ RestOK(log, requests, after)
  BY <1>0, <1>1, <1>4 DEF RestInv
<1>5. ASSUME after \in Syncs, after.ready = sync.ready, after.pc = sync.pc,
             after.owner = sync.owner, after.request = sync.request,
             after.requested = sync.requested, after.retry = sync.retry,
             after.applied = sync.applied \/ after.applied <= Len(log),
             ~after.closed
      PROVE  RestInv'
  <2>1. requests = 0 /\ after.pc = "snapshot" => after.owner = "loop"
    BY <1>5 DEF RestInv, RestOK
  <2>2. CASE ~after.baseline \/ NeedsReplay(after)
    BY <1>0, <1>1, <1>5, <2>1, <2>2, ReplayRests DEF RestInv
  <2>3. CASE after.baseline /\ ~NeedsReplay(after)
    <3>1. after.applied >= after.desired /\ after.applied \in Nat
      BY <1>5, <2>3, CursorsAre DEF NeedsReplay
    <3>2. requests = 0 /\ after.pc = "idle" /\ after.ready /\ ~after.retry =>
              after.applied <= Len(log)
      BY <1>5 DEF RestInv, RestOK
    <3>3. RestOK(log, requests, after)
      BY <1>5, <2>1, <3>1, <3>2 DEF RestInv, RestOK
    <3> QED BY <1>0, <1>1, <2>3, <3>3 DEF RestInv
  <2> QED BY <2>2, <2>3
<1> QED BY <1>2, <1>3, <1>4, <1>5

LEMMA SessionRests ==
    ASSUME SyncInv, RestInv, HandleNudge \/ RetryFires \/ PageResumes \/ SessionReady
    PROVE  RestInv'
<1>0. /\ sync \in Syncs /\ UNCHANGED log /\ requests \in Nat
      /\ requests' = requests \/ requests' = requests + 1
  BY Bounds DEF SyncInv, LoopOK, BoundsInv, HandleNudge, RetryFires, PageResumes, SessionReady,
     serverVars, bounds
<1>1. \E s \in Syncs : sync' = Replay(s) /\ s.pc = sync.pc /\ s.owner = sync.owner
  <2> DEFINE invalid == sync.invalid \/ Head(wire).kind = "invalidated"
             nudged == [sync EXCEPT !.invalid = invalid]
             rested == [sync EXCEPT !.retry = FALSE]
             readied == [sync EXCEPT !.ready = TRUE]
  <2>1. invalid \in BOOLEAN
    OBVIOUS
  <2> HIDE DEF invalid
  <2>2. \A s \in {nudged, rested, readied} :
            s \in Syncs /\ s.pc = sync.pc /\ s.owner = sync.owner
    <3>1. nudged \in Syncs /\ nudged.pc = sync.pc /\ nudged.owner = sync.owner
      BY <1>0, <2>1 DEF Syncs
    <3>2. rested \in Syncs /\ rested.pc = sync.pc /\ rested.owner = sync.owner
      BY <1>0 DEF Syncs
    <3>3. readied \in Syncs /\ readied.pc = sync.pc /\ readied.owner = sync.owner
      BY <1>0 DEF Syncs
    <3> HIDE DEF nudged, rested, readied
    <3> QED BY <3>1, <3>2, <3>3
  <2>3. \/ sync' = Replay(nudged) \/ sync' = Replay(rested) \/ sync' = Replay(readied)
        \/ sync' = Replay(sync)
    BY DEF HandleNudge, RetryFires, PageResumes, SessionReady, invalid
  <2> HIDE DEF nudged, rested, readied
  <2> QED BY <1>0, <2>2, <2>3
<1>2. PICK s \in Syncs : sync' = Replay(s) /\ s.pc = sync.pc /\ s.owner = sync.owner
  BY <1>1
<1>3. requests' = 0 /\ s.pc = "snapshot" => s.owner = "loop"
  BY <1>0, <1>2 DEF RestInv, RestOK
<1> QED BY <1>0, <1>2, <1>3, ReplayRests DEF RestInv

\* No answer is a lost one, and a loop that waits for it does not rest.
LEMMA AnswerRests ==
    ASSUME SyncInv, RestInv, ServeLoop \/ ServeSide \/ RequestFails, "lost" \notin Failures
    PROVE  RestInv'
<1>0. /\ RoomInv /\ LoopOK(log, restores, sync) /\ sync \in Syncs /\ sync.request \in Requests
      /\ BoundsInv
  BY DEF SyncInv, LoopOK, RequestOK, AnswerOK
<1>1. UNCHANGED <<log, requests>>
  BY <1>0, FaultOK DEF ServeLoop, ServeSide, RequestFails, serverVars, bounds
<1>2. ASSUME NEW r, sync.request.kind \in Unanswered, sync' = [sync EXCEPT !.request = r],
             r # Error("lost")
      PROVE  RestInv'
  <2> DEFINE t == [sync EXCEPT !.request = r]
  <2>1. t.request = r /\ t.pc = sync.pc /\ t.owner = sync.owner
    BY <1>0 DEF Syncs
  <2>2. sync.pc # "idle"
    BY <1>0, <1>2 DEF LoopOK, RequestOK, Unanswered
  <2> HIDE DEF t
  <2>3. RestOK(log, requests, t)
    BY <1>2, <2>1, <2>2 DEF RestInv, RestOK
  <2> QED BY <1>1, <1>2, <2>3 DEF RestInv, t
<1>3. CASE UNCHANGED sync
  BY <1>1, <1>3 DEF RestInv
<1>4. CASE ServeLoop
  <2> DEFINE q == sync.request
             r == Answer(q)
  <2>1. q.kind \in Unanswered /\ sync' = [sync EXCEPT !.request = r]
    BY <1>4 DEF ServeLoop
  <2>2. Error("lost").kind = "error" /\ Error("lost").code = "lost"
    BY DEF Error
  <2>3. r # Error("lost")
    <3>1. CASE q.kind = "events"
      <4>1. r = StreamAnswer(q.after) /\ q.after \in Seqs
        BY <1>0, <3>1, RequestFields DEF Answer
      <4> HIDE DEF r
      <4> QED BY <1>0, <2>2, <4>1, StreamAnswerOK
    <3>2. CASE q.kind = "stream"
      <4>1. r = PageAnswer(q) /\ AnswerOK(log, q)
        BY <1>0, <3>2 DEF Answer, LoopOK, RequestOK
      <4> HIDE DEF r
      <4> QED BY <1>0, <2>2, <3>2, <4>1, PageAnswerOK
    <3>3. CASE q.kind = "snapshot"
      <4>1. r = SnapshotAnswer(q.before) /\ q.before \in Positions \union {0}
        BY <1>0, <3>3, RequestFields DEF Answer
      <4> HIDE DEF r
      <4> QED BY <1>0, <2>2, <4>1, SnapshotAnswerOK
    <3> QED BY <2>1, <3>1, <3>2, <3>3 DEF Unanswered
  <2> QED BY <1>2, <2>1, <2>3
<1>5. CASE ServeSide
  BY <1>3, <1>5 DEF ServeSide
<1>6. CASE RequestFails
  <2>1. PICK code \in Failures :
          \/ sync.request.kind \in Unanswered /\ sync' = [sync EXCEPT !.request = Error(code)]
          \/ UNCHANGED sync
    BY <1>6 DEF RequestFails
  <2>2. Error(code).code # Error("lost").code
    BY DEF Error
  <2> QED BY <1>2, <1>3, <2>1, <2>2
<1> QED BY <1>4, <1>5, <1>6

\* Away from the room the loop does not rest.
LEMMA AwaySteps ==
    ASSUME SyncInv, RestInv, Disconnect \/ Remount \/ \E n \in 1..MaxSeq : Restore(n)
    PROVE  RestInv'
<1>0. sync \in Syncs /\ BoundsInv
  BY DEF SyncInv, LoopOK
<1>1. UNCHANGED requests
  BY <1>0, FaultOK DEF Disconnect, Remount, Restore
<1>2. CASE Offline
  <2>1. ~sync'.ready /\ sync'.pc = sync.pc /\ sync'.owner = sync.owner
    BY <1>0, <1>2 DEF Offline, Syncs
  <2> QED BY <1>1, <2>1, AwayRests DEF RestInv, RestOK
<1>3. CASE Remount
  <2>1. ~sync'.ready /\ sync'.pc = "idle"
    BY <1>3 DEF Remount, Cold
  <2> QED BY <2>1, AwayRests DEF RestInv
<1> QED BY <1>2, <1>3 DEF Disconnect, Restore

\* The room's log only grows, and the broadcasts are the socket's.
LEMMA RoomRests ==
    ASSUME SyncInv, RestInv,
           \/ RoomStep \/ (\E floor \in 2..MaxSeq + 1 : Prune(floor)) \/ ListenerFails
           \/ Broadcast \/ Announce \/ Relisten \/ Join
    PROVE  RestInv'
<1>0. /\ sync \in Syncs /\ log \in Seq(Events) /\ Len(log) \in Nat /\ BoundsInv /\ requests \in Nat
  BY LogFields, Bounds DEF SyncInv, RoomInv, LogOK, LoopOK, BoundsInv
<1>1. ASSUME UNCHANGED <<sync, requests>>, Len(log') \in Nat, Len(log) <= Len(log')
      PROVE  RestInv'
  BY <1>0, <1>1, RestKept DEF RestInv
<1>2. ASSUME NEW events \in Seq(Events), Commit(events)
      PROVE  RestInv'
  <2>1. log' = log \o events /\ UNCHANGED <<sync, requests>>
    BY <1>2 DEF Commit, clientVars, bounds
  <2>2. Len(log') = Len(log) + Len(events) /\ Len(events) \in Nat
    BY <1>0, <2>1
  <2> QED BY <1>0, <1>1, <2>1, <2>2
<1>3. \A type \in EventTypes, messages \in SUBSET Positions : Event(type, messages) \in Events
  BY DEF Event, Events
<1>4. ASSUME NEW m \in Positions, Post(m) \/ Edit(m) \/ Remove(m)
      PROVE  RestInv'
  <2>1. /\ <<Event("messages.upserted", {m})>> \in Seq(Events)
        /\ <<Event("messages.deleted", {m})>> \in Seq(Events)
    BY <1>3 DEF EventTypes
  <2> QED BY <1>2, <1>4, <2>1 DEF Post, Edit, Remove
<1>5. ASSUME NEW m \in Positions, Truncate(m)
      PROVE  RestInv'
  <2> DEFINE after == {x \in Live : x > m}
  <2>1. after \in SUBSET Positions
    BY DEF Live
  <2>2. Commit(<<Event("messages.upserted", {m}), Event("messages.deleted", after)>>)
    BY <1>5 DEF Truncate
  <2> HIDE DEF after
  <2>3. <<Event("messages.upserted", {m}), Event("messages.deleted", after)>> \in Seq(Events)
    BY <1>3, <2>1 DEF EventTypes
  <2> QED BY <1>2, <2>2, <2>3
<1>6. CASE Touch \/ DeleteRoom
  <2>1. /\ <<Event("other", {})>> \in Seq(Events)
        /\ <<Event("room.deleted", Positions)>> \in Seq(Events)
    BY <1>3 DEF EventTypes
  <2> QED BY <1>2, <1>6, <2>1 DEF Touch, DeleteRoom
<1>7. CASE \/ (\E floor \in 2..MaxSeq + 1 : Prune(floor)) \/ ListenerFails
           \/ Broadcast \/ Announce \/ Relisten \/ Join
  <2>1. UNCHANGED <<log, sync, requests>>
    BY <1>0, <1>7, FaultOK DEF Prune, ListenerFails, Broadcast, Announce, Relisten, Join,
       clientVars, serverVars, bounds
  <2> QED BY <2>1 DEF RestInv
<1> QED BY <1>4, <1>5, <1>6, <1>7 DEF RoomStep

LEMMA NextRests ==
    ASSUME SyncInv, RestInv, [Next]_vars, "lost" \notin Failures
    PROVE  RestInv'
<1>1. CASE UNCHANGED vars
  BY <1>1 DEF vars, serverVars, clientVars, bounds, RestInv
<1>2. CASE RoomStep \/ (\E floor \in 2..MaxSeq + 1 : Prune(floor)) \/ ListenerFails
  BY <1>2, RoomRests
<1>3. CASE ServerStep
  BY <1>3, RoomRests, AnswerRests DEF ServerStep
<1>4. CASE ClientStep
  BY <1>4, PageRests, EventsErrorRests, SnapshotRests, HistoryRests, AvailableRests,
     SessionRests, RoomRests DEF ClientStep
<1>5. CASE Prepend \/ PageResumes
  BY <1>5, HistoryRests, SessionRests
<1>6. CASE RequestFails
  BY <1>6, AnswerRests
<1>7. CASE Disconnect \/ Remount \/ \E n \in 1..MaxSeq : Restore(n)
  BY <1>7, AwaySteps
<1> QED BY <1>1, <1>2, <1>3, <1>4, <1>5, <1>6, <1>7 DEF Next

LEMMA RestInvariance ==
    ASSUME "lost" \notin Failures
    PROVE  Spec => [](SyncInv /\ RestInv)
<1>1. Init => RestInv
  BY LeftRests DEF Init, RestInv
<1>2. SyncInv /\ RestInv /\ [Next]_vars => RestInv'
  BY NextRests
<1>3. Spec => []SyncInv
  BY Invariance, PTL
<1> QED BY <1>1, <1>2, <1>3, PTL DEF Spec

\* Where every failed request is retried or told, and before any history is requested,
\* a loop that rests has applied every head that the browser was told of.
THEOREM RestingCatchesUp ==
    ASSUME "lost" \notin Failures
    PROVE  Spec => []RestingMeansCaughtUp
<1>1. RestInv => RestingMeansCaughtUp
  BY DEF RestInv, RestOK, RestingMeansCaughtUp
<1> QED BY <1>1, RestInvariance, PTL

\* Nor does it rest ahead of a room whose database was set back.
THEOREM RestingIsWithinTheRoom ==
    ASSUME "lost" \notin Failures
    PROVE  Spec => []NeverRestsAhead
<1>1. RestInv => NeverRestsAhead
  BY DEF RestInv, RestOK, NeverRestsAhead, HeadSeq
<1> QED BY <1>1, RestInvariance, PTL
=============================================================================
