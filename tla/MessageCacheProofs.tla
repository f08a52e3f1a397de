------------------------ MODULE MessageCacheProofs ------------------------
(***************************************************************************)
(* For any number of readers and events: copies in Redis are whole, and    *)
(* answers are recent.  Both follow from what a reader's local variables   *)
(* say of the head at each of its steps.                                   *)
(***************************************************************************)
EXTENDS MessageCache, TLAPS

\* What a call knows, by where it stands.
Knows(r) ==
    LET c == reader[r] IN
    /\ c.began <= head
    /\ c.stamp # NoStamp => c.began <= c.stamp /\ c.stamp <= head
    /\ c.at \in {"look", "drop", "check", "fill"} => c.stamp # NoStamp
    /\ c.at = "assets" =>
          c.began <= c.copy.rows /\ c.stamp <= c.copy.rows /\ c.copy.rows <= head
    /\ (c.at = "check" /\ ~c.copy.failed) =>
          /\ c.stamp <= c.copy.rows
          /\ c.copy.rows <= c.copy.assets
          /\ c.copy.assets <= head
    /\ (c.at = "fill" /\ ~c.copy.failed) =>
          c.copy.rows = c.stamp /\ c.copy.assets = c.stamp
    /\ (c.at \in {"check", "done"} /\ ~c.copy.failed) =>
          c.began <= c.copy.rows /\ c.began <= c.copy.assets

CacheInv ==
    /\ TypeOK
    /\ EntriesAreWhole
    /\ \A r \in Readers : Knows(r)

\* The variables keep their types.
LEMMA TypeStep == CacheInv /\ [Next]_vars => TypeOK'
<1> SUFFICES ASSUME TypeOK, \A r \in Readers : Knows(r), [Next]_vars PROVE TypeOK'
  BY DEF CacheInv
<1> USE MaxHeadAssumption DEF TypeOK, Histories, Copies, Entries, Steps, Calls, Nothing,
        NoStamp, Blank, NoEntry
<1>1. CASE Commit
  BY <1>1 DEF Commit
<1>2. CASE Invalidate \/ InvalidateFails \/ Expire
  BY <1>2 DEF Invalidate, InvalidateFails, Expire
<1>3. ASSUME NEW r \in Readers, Ask(r)
      PROVE  TypeOK'
  BY <1>3 DEF Ask
<1>4. ASSUME NEW r \in Readers, ReadHead(r)
      PROVE  TypeOK'
  BY <1>4 DEF ReadHead, Moves
<1>5. ASSUME NEW r \in Readers, Look(r)
      PROVE  TypeOK'
  <2>1. CASE Hits(r) /\ reader' = [reader EXCEPT ![r].at = "done", ![r].copy = cache.copy]
    <3>1. CASE cache \in Entries
      BY ZenonT(60), <1>5, <2>1, <3>1 DEF Look
    <3>2. CASE cache = NoEntry
      BY <1>5, <2>1, <3>2 DEF Look, Hits
    <3> QED  BY <3>1, <3>2
  <2>2. CASE Moves(r, "drop") \/ Moves(r, "rows")
    BY <1>5, <2>2 DEF Look, Moves
  <2> QED  BY <1>5, <2>1, <2>2 DEF Look
<1>6. ASSUME NEW r \in Readers, Drop(r)
      PROVE  TypeOK'
  BY <1>6 DEF Drop, Moves
<1>7. ASSUME NEW r \in Readers, ReadRows(r)
      PROVE  TypeOK'
  BY <1>7 DEF ReadRows
<1>8. ASSUME NEW r \in Readers, ReadAssets(r)
      PROVE  TypeOK'
  BY <1>8 DEF ReadAssets
<1>9. ASSUME NEW r \in Readers, Check(r)
      PROVE  TypeOK'
  BY <1>9 DEF Check, Moves
<1>10. ASSUME NEW r \in Readers, Fill(r)
       PROVE  TypeOK'
  BY <1>10 DEF Fill, Moves, Knows
<1>11. CASE UNCHANGED vars
  BY <1>11 DEF vars
<1> QED
  BY <1>1, <1>2, <1>3, <1>4, <1>5, <1>6, <1>7, <1>8, <1>9, <1>10, <1>11 DEF Next

\* A step of one call leaves what the others know untouched.
LEMMA OthersKnow ==
    ASSUME NEW r \in Readers, NEW q \in Readers, q # r, TypeOK, Knows(q),
           head' = head, reader'[q] = reader[q]
    PROVE  Knows(q)'
  BY DEF Knows

\* The copies stay whole, and calls go on knowing where they stand.
LEMMA CacheStep == CacheInv /\ [Next]_vars => CacheInv'
<1> SUFFICES ASSUME CacheInv, [Next]_vars PROVE CacheInv'
  OBVIOUS
<1>1. TypeOK /\ TypeOK'
  BY TypeStep DEF CacheInv
<1>2. EntriesAreWhole /\ \A q \in Readers : Knows(q)
  BY DEF CacheInv
<1>3. \A q \in Readers :
        /\ reader[q] \in Calls /\ reader[q].copy \in Copies
        /\ reader[q].began \in Nat /\ reader[q].stamp \in Int
        /\ reader[q].copy.rows \in Nat /\ reader[q].copy.assets \in Nat
  BY <1>1, MaxHeadAssumption DEF TypeOK, Calls, Copies, Histories, NoStamp
<1>4. head \in Nat
  BY <1>1, MaxHeadAssumption DEF TypeOK, Histories
<1> USE <1>1, <1>2, <1>3, <1>4
<1>5. CASE Commit
  <2>1. EntriesAreWhole'
    BY <1>5 DEF Commit, EntriesAreWhole
  <2>2. ASSUME NEW q \in Readers PROVE Knows(q)'
    BY <1>5, <2>2 DEF Commit, Knows
  <2> QED  BY <2>1, <2>2 DEF CacheInv
<1>6. CASE Invalidate \/ InvalidateFails \/ Expire
  <2>1. EntriesAreWhole'
    BY <1>6 DEF Invalidate, InvalidateFails, Expire, EntriesAreWhole
  <2>2. ASSUME NEW q \in Readers PROVE Knows(q)'
    BY <1>6, <2>2 DEF Invalidate, InvalidateFails, Expire, Knows
  <2> QED  BY <2>1, <2>2 DEF CacheInv
<1>7. ASSUME NEW r \in Readers, Ask(r)
      PROVE  CacheInv'
  <2>1. EntriesAreWhole'
    BY <1>7 DEF Ask, EntriesAreWhole
  <2>2. Knows(r)'
    BY <1>7 DEF Ask, TypeOK, Knows, NoStamp, Blank, Nothing
  <2>3. ASSUME NEW q \in Readers, q # r PROVE Knows(q)'
    <3>1. head' = head /\ reader'[q] = reader[q]
      BY <1>7, <2>3 DEF TypeOK, Ask, TypeOK, Knows, NoStamp, Blank, Nothing
    <3> QED  BY <2>3, <3>1, OthersKnow
  <2> QED  BY <2>1, <2>2, <2>3 DEF CacheInv
<1>8. ASSUME NEW r \in Readers, ReadHead(r)
      PROVE  CacheInv'
  <2>1. EntriesAreWhole'
    BY <1>8 DEF ReadHead, EntriesAreWhole
  <2>2. Knows(r)'
    BY <1>8 DEF ReadHead, Moves, TypeOK, Knows, NoStamp, Calls
  <2>3. ASSUME NEW q \in Readers, q # r PROVE Knows(q)'
    <3>1. head' = head /\ reader'[q] = reader[q]
      BY <1>8, <2>3 DEF TypeOK, ReadHead, Moves, TypeOK, Knows, NoStamp, Calls
    <3> QED  BY <2>3, <3>1, OthersKnow
  <2> QED  BY <2>1, <2>2, <2>3 DEF CacheInv
<1>9. ASSUME NEW r \in Readers, Look(r)
      PROVE  CacheInv'
  <2>1. EntriesAreWhole'
    BY <1>9 DEF Look, EntriesAreWhole
  <2>2. Knows(r)'
    BY <1>9 DEF Look, Moves, Hits, EntriesAreWhole, NoEntry, TypeOK, Knows, Calls
  <2>3. ASSUME NEW q \in Readers, q # r PROVE Knows(q)'
    <3>1. head' = head /\ reader'[q] = reader[q]
      BY <1>9, <2>3 DEF TypeOK, Look, Moves, Hits, EntriesAreWhole, NoEntry, TypeOK, Knows, Calls
    <3> QED  BY <2>3, <3>1, OthersKnow
  <2> QED  BY <2>1, <2>2, <2>3 DEF CacheInv
<1>10. ASSUME NEW r \in Readers, Drop(r)
      PROVE  CacheInv'
  <2>1. EntriesAreWhole'
    BY <1>10 DEF Drop, EntriesAreWhole
  <2>2. Knows(r)'
    BY <1>10 DEF Drop, Moves, TypeOK, Knows, Calls
  <2>3. ASSUME NEW q \in Readers, q # r PROVE Knows(q)'
    <3>1. head' = head /\ reader'[q] = reader[q]
      BY <1>10, <2>3 DEF TypeOK, Drop, Moves, TypeOK, Knows, Calls
    <3> QED  BY <2>3, <3>1, OthersKnow
  <2> QED  BY <2>1, <2>2, <2>3 DEF CacheInv
<1>11. ASSUME NEW r \in Readers, ReadRows(r)
      PROVE  CacheInv'
  <2>1. EntriesAreWhole'
    BY <1>11 DEF ReadRows, EntriesAreWhole
  <2>2. Knows(r)'
    BY <1>11 DEF ReadRows, TypeOK, Knows, NoStamp, Calls, Copies
  <2>3. ASSUME NEW q \in Readers, q # r PROVE Knows(q)'
    <3>1. head' = head /\ reader'[q] = reader[q]
      BY <1>11, <2>3 DEF TypeOK, ReadRows, TypeOK, Knows, NoStamp, Calls, Copies
    <3> QED  BY <2>3, <3>1, OthersKnow
  <2> QED  BY <2>1, <2>2, <2>3 DEF CacheInv
<1>12. ASSUME NEW r \in Readers, ReadAssets(r)
      PROVE  CacheInv'
  <2>1. EntriesAreWhole'
    BY <1>12 DEF ReadAssets, EntriesAreWhole
  <2>2. Knows(r)'
    BY <1>12 DEF ReadAssets, TypeOK, Knows, NoStamp, Calls, Copies
  <2>3. ASSUME NEW q \in Readers, q # r PROVE Knows(q)'
    <3>1. head' = head /\ reader'[q] = reader[q]
      BY <1>12, <2>3 DEF TypeOK, ReadAssets, TypeOK, Knows, NoStamp, Calls, Copies
    <3> QED  BY <2>3, <3>1, OthersKnow
  <2> QED  BY <2>1, <2>2, <2>3 DEF CacheInv
<1>13. ASSUME NEW r \in Readers, Check(r)
      PROVE  CacheInv'
  <2>1. EntriesAreWhole'
    BY <1>13 DEF Check, EntriesAreWhole
  <2>2. Knows(r)'
    BY SMTT(60), <1>13 DEF Check, Unmoved, Moves, TypeOK, Knows, Calls
  <2>3. ASSUME NEW q \in Readers, q # r PROVE Knows(q)'
    <3>1. head' = head /\ reader'[q] = reader[q]
      BY <1>13, <2>3 DEF TypeOK, Check, Unmoved, Moves, TypeOK, Knows, Calls
    <3> QED  BY <2>3, <3>1, OthersKnow
  <2> QED  BY <2>1, <2>2, <2>3 DEF CacheInv
<1>14. ASSUME NEW r \in Readers, Fill(r)
      PROVE  CacheInv'
  <2>1. EntriesAreWhole'
    BY <1>14 DEF Fill, Knows, EntriesAreWhole, TypeOK, Calls, Copies
  <2>2. Knows(r)'
    BY <1>14 DEF Fill, Moves, TypeOK, Knows, Calls
  <2>3. ASSUME NEW q \in Readers, q # r PROVE Knows(q)'
    <3>1. head' = head /\ reader'[q] = reader[q]
      BY <1>14, <2>3 DEF TypeOK, Fill, Moves, TypeOK, Knows, Calls
    <3> QED  BY <2>3, <3>1, OthersKnow
  <2> QED  BY <2>1, <2>2, <2>3 DEF CacheInv
<1>15. CASE UNCHANGED vars
  BY <1>15 DEF vars, CacheInv, EntriesAreWhole, Knows
<1> QED
  BY <1>5, <1>6, <1>7, <1>8, <1>9, <1>10, <1>11, <1>12, <1>13, <1>14, <1>15 DEF Next

\* Before anything happens there is no copy, and nobody has asked.
LEMMA CacheInit == Init => CacheInv
  BY MaxHeadAssumption DEF Init, CacheInv, TypeOK, EntriesAreWhole, Knows, NoEntry, Blank,
     Nothing, NoStamp, Calls, Copies, Entries, Steps, Histories

\* The strengthening holds throughout.
THEOREM CacheInvHolds == Spec => []CacheInv
  BY CacheInit, CacheStep, PTL DEF Spec

\* The variables have their types.
THEOREM CacheTyped == Spec => []TypeOK
<1>1. CacheInv => TypeOK
  BY DEF CacheInv
<1> QED  BY <1>1, CacheInvHolds, PTL

\* Copies in Redis are whole: the double check of the head in readMessagesByRoom
\* suffices, however writers, fills and deletions interleave.
THEOREM CopiesAreWhole == Spec => []EntriesAreWhole
<1>1. CacheInv => EntriesAreWhole
  BY DEF CacheInv
<1> QED  BY <1>1, CacheInvHolds, PTL

\* Answers are recent: a reader finds every event committed before it asked.
THEOREM ReadersReadTheirWrites == Spec => []AnswersAreRecent
<1>1. CacheInv => AnswersAreRecent
  <2> SUFFICES ASSUME CacheInv, NEW r \in Readers,
                      reader[r].at = "done", ~reader[r].copy.failed
               PROVE  /\ reader[r].copy.rows >= reader[r].began
                      /\ reader[r].copy.assets >= reader[r].began
    BY DEF AnswersAreRecent
  <2>1. TypeOK /\ Knows(r)
    BY DEF CacheInv
  <2> QED  BY <2>1, MaxHeadAssumption DEF Knows, TypeOK, Calls, Copies, Histories
<1> QED  BY <1>1, CacheInvHolds, PTL
=============================================================================
