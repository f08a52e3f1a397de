---------------------------- MODULE MessageCache ----------------------------
(***************************************************************************)
(* CompositeRoomStore's Redis copy of one room's history.                  *)
(*                                                                         *)
(* PostgreSQL holds the history; every change of it appends one room event *)
(* in the same transaction, so a state of the history is named by the      *)
(* event head at which it stands, and reading a part of it at some moment  *)
(* yields the head of that moment.  A reader looks at the head, then at    *)
(* the cache, then reads messages and media assets with two queries, looks *)
(* at the head again and fills the cache if it has not moved.  Writers and *)
(* readers of all instances interleave between any two of these calls.     *)
(***************************************************************************)
EXTENDS Integers

CONSTANTS
    Readers,    \* calls of readMessagesByRoom under way, in any instance
    MaxHead     \* bound: events appended to the room

ASSUME MaxHeadAssumption == MaxHead \in Nat

Nothing == 0        \* the history before its first event, and what a failed query yields
NoStamp == -1       \* the head could not be read

Blank == [rows |-> Nothing, assets |-> Nothing, failed |-> FALSE]
NoEntry == [stamp |-> NoStamp, copy |-> Blank]

VARIABLES
    head,       \* room_event_streams.head_seq
    cache,      \* the cached payload of the room, or NoEntry
    drops,      \* invalidations that writers have not sent yet
    reader      \* per call: where it is, and its local variables

vars == <<head, cache, drops, reader>>

Histories == 0 .. MaxHead

\* A history as somebody holds it: when its two parts were read, and whether a
\* query failed on the way (history variable: the code does not know).
Copies == [rows : Histories, assets : Histories, failed : BOOLEAN]

Entries == [stamp : Histories, copy : Copies]

Steps == {"idle", "head", "look", "drop", "rows", "assets", "check", "fill", "done"}

\* began (history variable): the head when the call was made.
Calls == [at : Steps, began : Histories, stamp : Histories \union {NoStamp}, copy : Copies]

TypeOK ==
    /\ head \in Histories
    /\ cache \in Entries \union {NoEntry}
    /\ drops \in Nat
    /\ reader \in [Readers -> Calls]

Init ==
    /\ head = 0
    /\ cache = NoEntry
    /\ drops = 0
    /\ reader = [r \in Readers |->
                    [at |-> "idle", began |-> 0, stamp |-> NoStamp, copy |-> Blank]]

-----------------------------------------------------------------------------
(* Writers.                                                                *)

\* A mutation and its event commit; the store will then drop the copy, unless
\* the writer is one that does not go through an invalidating method.
Commit ==
    /\ head < MaxHead
    /\ head' = head + 1
    /\ drops' \in {drops, drops + 1}
    /\ UNCHANGED <<cache, reader>>

\* The invalidation reaches Redis.
Invalidate ==
    /\ drops > 0
    /\ drops' = drops - 1
    /\ cache' = NoEntry
    /\ UNCHANGED <<head, reader>>

\* Redis refuses it, or its process stops first: failures are ignored.
InvalidateFails ==
    /\ drops > 0
    /\ drops' = drops - 1
    /\ UNCHANGED <<head, cache, reader>>

\* The time to live passes.
Expire ==
    /\ cache # NoEntry
    /\ cache' = NoEntry
    /\ UNCHANGED <<head, drops, reader>>

-----------------------------------------------------------------------------
(* Readers.                                                                *)

Moves(r, at) == reader' = [reader EXCEPT ![r].at = at]

Ask(r) ==
    /\ reader[r].at \in {"idle", "done"}
    /\ reader' = [reader EXCEPT ![r] =
                    [at |-> "head", began |-> head, stamp |-> NoStamp, copy |-> Blank]]
    /\ UNCHANGED <<head, cache, drops>>

ReadHead(r) ==
    /\ reader[r].at = "head"
    /\ \/ reader' = [reader EXCEPT ![r].at = "look", ![r].stamp = head]
       \/ Moves(r, "rows")
    /\ UNCHANGED <<head, cache, drops>>

\* Mutant of Hits: any copy is good enough.
Hits_AnyStamp(r) == cache # NoEntry

Hits(r) == cache # NoEntry /\ cache.stamp = reader[r].stamp

\* The copy is fetched: taken if its stamp is the head read before, dropped if
\* not.  A failing Redis counts as a miss.
Look(r) ==
    /\ reader[r].at = "look"
    /\ \/ /\ Hits(r)
          /\ reader' = [reader EXCEPT ![r].at = "done", ![r].copy = cache.copy]
       \/ ~Hits(r) /\ cache # NoEntry /\ Moves(r, "drop")
       \/ ~Hits(r) /\ cache = NoEntry /\ Moves(r, "rows")
       \/ Moves(r, "rows")
    /\ UNCHANGED <<head, cache, drops>>

\* The copy that did not match is deleted by key, whatever it is by now.
Drop(r) ==
    /\ reader[r].at = "drop"
    /\ Moves(r, "rows")
    /\ cache' \in {NoEntry, cache}
    /\ UNCHANGED <<head, drops>>

\* A failing query of the messages is answered with an empty history.
ReadRows(r) ==
    /\ reader[r].at = "rows"
    /\ \/ reader' = [reader EXCEPT ![r].at = "assets", ![r].copy.rows = head]
       \/ reader' = [reader EXCEPT ![r].at = IF reader[r].stamp = NoStamp THEN "done" ELSE "check",
                                   ![r].copy.failed = TRUE]
    /\ UNCHANGED <<head, cache, drops>>

\* A failing query of the assets is answered with none.
ReadAssets(r) ==
    /\ reader[r].at = "assets"
    /\ \/ reader' = [reader EXCEPT ![r].at = IF reader[r].stamp = NoStamp THEN "done" ELSE "check",
                                   ![r].copy.assets = head]
       \/ reader' = [reader EXCEPT ![r].at = IF reader[r].stamp = NoStamp THEN "done" ELSE "check",
                                   ![r].copy.failed = TRUE]
    /\ UNCHANGED <<head, cache, drops>>

\* Mutant of Unmoved: the head is not read again.
Unmoved_NotAsked(r) == TRUE

Unmoved(r) == head = reader[r].stamp

Check(r) ==
    /\ reader[r].at = "check"
    /\ \/ Unmoved(r) /\ Moves(r, "fill")
       \/ Moves(r, "done")
    /\ UNCHANGED <<head, cache, drops>>

\* SETEX, a deletion because the payload is too large, or a failure.
Fill(r) ==
    /\ reader[r].at = "fill"
    /\ Moves(r, "done")
    /\ cache' \in {[stamp |-> reader[r].stamp, copy |-> reader[r].copy], NoEntry, cache}
    /\ UNCHANGED <<head, drops>>

-----------------------------------------------------------------------------
Next ==
    \/ Commit \/ Invalidate \/ InvalidateFails \/ Expire
    \/ \E r \in Readers :
          \/ Ask(r) \/ ReadHead(r) \/ Look(r) \/ Drop(r)
          \/ ReadRows(r) \/ ReadAssets(r) \/ Check(r) \/ Fill(r)

Spec == Init /\ [][Next]_vars

-----------------------------------------------------------------------------
\* A copy in Redis, written by however slow a reader and whatever was dropped or
\* overwritten meanwhile, is the whole history at the head it is stamped with:
\* its messages and its assets belong together.  Copies of failed reads excepted.
EntriesAreWhole ==
    (cache # NoEntry /\ ~cache.copy.failed) =>
        cache.copy.rows = cache.stamp /\ cache.copy.assets = cache.stamp

\* What a call of readMessagesByRoom returns, from the cache or not, is no older
\* than the room was when the call was made: whoever has committed a message
\* before finds it in the answer.  Answers of failed reads excepted.
AnswersAreRecent ==
    \A r \in Readers :
        (reader[r].at = "done" /\ ~reader[r].copy.failed) =>
            reader[r].copy.rows >= reader[r].began /\ reader[r].copy.assets >= reader[r].began
=============================================================================
