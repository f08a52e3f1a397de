------------------------ MODULE CodeAgentTurnProofs ------------------------
(***************************************************************************)
(* For any number of servers, turns, inputs and faults: types, turns that  *)
(* do not interleave, a room that runs under its holder, inputs used once, *)
(* and the refinement of TurnTaking.  Every step has one of six effects on *)
(* the lease, the turns, the conversation and the queue (StepEffects); the *)
(* theorems follow from those.                                             *)
(***************************************************************************)
EXTENDS CodeAgentTurn, WellFoundedInduction, TLAPS

\* What an execution's program counter and event say of its registers.
ExecOK(e) ==
    /\ e \in Execs
    /\ e.pc # "none" => e.server \in Servers
    /\ e.seg <= e.tools + 1
    /\ e.pc \in Before \union {"preparing"} => e.event = "none" /\ ~e.more
    /\ e.event = "tool" => e.tools < MaxTools
    /\ e.event = "text" => e.seg <= e.tools
    /\ e.more /\ e.event # "tool" /\ e.pc = "working" => e.seg <= e.tools

ExecsOK == \A t \in Turns : ExecOK(exec[t])

\* A turn that has not begun has no row.
NotYetBegun == \A t \in Turns : exec[t].pc \in Before => turn[t].status = "none"

SteersPlaced == \A i \in Inputs : steer[i].step # "none" => steer[i].server \in Servers

TInv == TypeOK /\ ExecsOK /\ NotYetBegun /\ SteersPlaced

-----------------------------------------------------------------------------
(* Executions.                                                             *)

LEMMA NoExecOK == ExecOK(NoExec)
  BY BoundsAssumption DEF ExecOK, Execs, NoExec, Pcs, Before, Segments

\* An execution leaves off at a later place.
LEMMA MovesOK ==
    ASSUME NEW e \in Execs, ExecOK(e), e.pc # "none",
           NEW p \in Pcs, p \notin {"none", "called", "preparing", "working"}
    PROVE  /\ [e EXCEPT !.pc = p] \in Execs
           /\ ExecOK([e EXCEPT !.pc = p])
           /\ [e EXCEPT !.pc = p].pc = p
  BY DEF ExecOK, Execs, Before

\* One execution moves, and no row disappears.
LEMMA ExecStep ==
    ASSUME TInv, NEW t \in Turns, NEW f \in Execs, ExecOK(f), Set(t, f),
           f.pc \in Before => turn'[t].status = "none",
           \A u \in Turns \ {t} : turn[u].status = "none" => turn'[u].status = "none"
    PROVE  /\ exec' \in [Turns -> Execs]
           /\ ExecsOK'
           /\ NotYetBegun'
<1>1. exec \in [Turns -> Execs] /\ exec' = [exec EXCEPT ![t] = f]
  BY DEF TInv, TypeOK, Set
<1>2. exec' \in [Turns -> Execs] /\ \A u \in Turns : exec'[u] = IF u = t THEN f ELSE exec[u]
  BY <1>1
<1>3. ExecsOK'
  BY <1>2 DEF TInv, ExecsOK
<1>4. NotYetBegun'
  BY <1>2 DEF TInv, NotYetBegun
<1> QED BY <1>2, <1>3, <1>4

\* One execution moves and the conversation may change.
LEMMA TranscriptStep ==
    ASSUME TInv, NEW t \in Turns, NEW f \in Execs, ExecOK(f), Set(t, f), f.pc \notin Before,
           transcript' \in Seq(Entries),
           UNCHANGED <<room, lease, turn, active, queueVars, budget>>
    PROVE  TInv'
<1>1. exec' \in [Turns -> Execs] /\ ExecsOK' /\ NotYetBegun'
  BY ExecStep
<1> QED BY <1>1 DEF TInv, TypeOK, SteersPlaced, queueVars, budget

LEMMA ExecOnly ==
    ASSUME TInv, NEW t \in Turns, NEW f \in Execs, ExecOK(f), Set(t, f), f.pc \notin Before,
           UNCHANGED <<room, lease, turn, transcript, active, queueVars, budget>>
    PROVE  TInv'
  BY TranscriptStep DEF TInv, TypeOK

LEMMA AtWork ==
    ASSUME TInv, NEW t \in Turns
    PROVE  /\ exec[t] \in Execs /\ ExecOK(exec[t])
           /\ active \in [Servers -> Turns \union {NoTurn}]
           /\ exec[t].pc \notin Before => exec[t].pc # "none" /\ exec[t].server \in Servers
  BY DEF TInv, TypeOK, ExecsOK, ExecOK, Before

\* Fails, and every other move to the error path.
LEMMA FailsOK ==
    ASSUME TInv, NEW t \in Turns, exec[t].pc \notin Before
    PROVE  /\ [exec[t] EXCEPT !.pc = "failing"] \in Execs
           /\ ExecOK([exec[t] EXCEPT !.pc = "failing"])
           /\ [exec[t] EXCEPT !.pc = "failing"].pc \notin Before
  BY AtWork DEF ExecOK, Execs, Pcs, Failing, Before

LEMMA PrepareTyped == ASSUME TInv, NEW t \in Turns, Prepare(t) PROVE TInv'
<1> DEFINE e == exec[t]
           f == [e EXCEPT !.pc = "working"]
           g == [e EXCEPT !.pc = "failing", !.lost = @ \/ lease.turn # t \/ ~lease.live]
<1>1. e \in Execs /\ ExecOK(e) /\ e.pc = "preparing"
  BY AtWork DEF Prepare
<1>2. f \in Execs /\ ExecOK(f) /\ f.pc \notin Before
  BY <1>1 DEF ExecOK, Execs, Pcs, Working, Before
<1>3. (e.lost \/ lease.turn # t \/ ~lease.live) \in BOOLEAN
  BY <1>1 DEF Execs
<1>4. g \in Execs /\ ExecOK(g) /\ g.pc \notin Before
  <2>1. "failing" \in Pcs /\ "failing" \notin Before
    BY DEF Pcs, Failing, Before
  <2>2. g \in Execs
    BY <1>1, <1>3, <2>1 DEF Execs
  <2>3. /\ g.pc = "failing" /\ g.server = e.server /\ g.seg = e.seg /\ g.more = e.more
        /\ g.event = e.event /\ g.tools = e.tools
    BY <1>1 DEF Execs
  <2> QED BY <1>1, <2>1, <2>2, <2>3 DEF ExecOK, Before
<1>5. Set(t, f) \/ Set(t, g)
  BY DEF Prepare
<1>6. UNCHANGED <<room, lease, turn, transcript, active, queueVars, budget>>
  BY DEF Prepare
<1> QED BY <1>2, <1>4, <1>5, <1>6, ExecOnly

LEMMA FailsTyped ==
    ASSUME TInv, NEW t \in Turns, exec[t].pc \notin Before, Fails(t),
           UNCHANGED <<room, lease, turn, transcript, active, queueVars, budget>>
    PROVE  TInv'
  BY FailsOK, ExecOnly DEF Fails

LEMMA WorkFailsTyped == ASSUME TInv, NEW t \in Turns, WorkFails(t) PROVE TInv'
  BY FailsTyped DEF WorkFails, Before

LEMMA StopTyped == ASSUME TInv, NEW t \in Turns, Stop(t) PROVE TInv'
  BY FailsTyped DEF Stop, Before

LEMMA ArriveTyped == ASSUME TInv, NEW t \in Turns, Arrive(t) PROVE TInv'
<1> DEFINE e == exec[t]
<1>1. e \in Execs /\ ExecOK(e) /\ e.pc = "working" /\ e.event = "none"
  BY AtWork DEF Arrive
<1> SUFFICES ASSUME NEW f, Set(t, f),
                \/ ~e.more /\ f = [e EXCEPT !.text = "unsealed", !.shown = @ \union {e.seg}]
                \/ e.more /\ f = [e EXCEPT !.event = "text"]
                \/ e.tools < MaxTools /\ f = [e EXCEPT !.event = "tool", !.more = TRUE]
                \/ f = [e EXCEPT !.event = "result"]
                \/ \E i \in e.got :
                      f = [e EXCEPT !.event = "steer", !.steered = i, !.got = @ \ {i}]
             PROVE  f \in Execs /\ ExecOK(f) /\ f.pc \notin Before
  BY ExecOnly DEF Arrive
<1>2. CASE ~e.more /\ f = [e EXCEPT !.text = "unsealed", !.shown = @ \union {e.seg}]
  <2>1. e.shown \union {e.seg} \in SUBSET Segments
    BY <1>1 DEF Execs
  <2> QED BY <1>1, <1>2, <2>1 DEF ExecOK, Execs, Before
<1>3. CASE e.more /\ f = [e EXCEPT !.event = "text"]
  BY <1>1, <1>3 DEF ExecOK, Execs, Before
<1>4. CASE e.tools < MaxTools /\ f = [e EXCEPT !.event = "tool", !.more = TRUE]
  BY <1>1, <1>4 DEF ExecOK, Execs, Before
<1>5. CASE f = [e EXCEPT !.event = "result"]
  BY <1>1, <1>5 DEF ExecOK, Execs, Before
<1>6. ASSUME NEW i \in e.got, f = [e EXCEPT !.event = "steer", !.steered = i, !.got = @ \ {i}]
      PROVE  f \in Execs /\ ExecOK(f) /\ f.pc \notin Before
  <2>1. i \in Inputs /\ e.got \ {i} \in SUBSET Inputs
    BY <1>1, <1>6 DEF Execs
  <2> QED BY <1>1, <1>6, <2>1 DEF ExecOK, Execs, Before
<1> QED BY <1>2, <1>3, <1>4, <1>5, <1>6

LEMMA AgentEndsTyped == ASSUME TInv, NEW t \in Turns, AgentEnds(t) PROVE TInv'
<1>1. PICK p \in {"failing", "finalizing"} : Set(t, [exec[t] EXCEPT !.pc = p])
  BY DEF AgentEnds
<1>2. exec[t].pc = "working"
  BY DEF AgentEnds
<1>3. [exec[t] EXCEPT !.pc = p] \in Execs /\ ExecOK([exec[t] EXCEPT !.pc = p])
      /\ [exec[t] EXCEPT !.pc = p].pc \notin Before
  BY <1>2, AtWork DEF ExecOK, Execs, Pcs, Working, Failing, Before
<1> QED BY <1>1, <1>3, ExecOnly DEF AgentEnds

\* An interrupt and a deadline: the stop flag and perhaps the drain, nothing else.
LEMMA FlaggedOK ==
    ASSUME NEW e \in Execs, ExecOK(e), NEW x \in {"no", "user", "late", "timeout"}
    PROVE  [e EXCEPT !.stop = x] \in Execs /\ ExecOK([e EXCEPT !.stop = x])
           /\ [e EXCEPT !.stop = x].pc = e.pc
  BY DEF ExecOK, Execs

LEMMA InterruptedOK ==
    ASSUME NEW e \in Execs, ExecOK(e), NEW x \in {"user", "late"}, NEW d \in BOOLEAN
    PROVE  [e EXCEPT !.stop = x, !.drains = d] \in Execs
           /\ ExecOK([e EXCEPT !.stop = x, !.drains = d])
           /\ [e EXCEPT !.stop = x, !.drains = d].pc = e.pc
<1> DEFINE f == [e EXCEPT !.stop = x, !.drains = d]
<1>1. f \in Execs
  BY DEF Execs
<1>2. /\ f.pc = e.pc /\ f.server = e.server /\ f.seg = e.seg /\ f.more = e.more
      /\ f.event = e.event /\ f.tools = e.tools
  BY DEF Execs
<1> QED BY <1>1, <1>2 DEF ExecOK

LEMMA LostOK ==
    ASSUME NEW e \in Execs, ExecOK(e), NEW b \in BOOLEAN
    PROVE  [e EXCEPT !.lost = b] \in Execs /\ ExecOK([e EXCEPT !.lost = b])
           /\ [e EXCEPT !.lost = b].pc = e.pc
  BY DEF ExecOK, Execs

LEMMA SetSame ==
    ASSUME TInv, NEW t \in Turns, NEW f \in Execs, ExecOK(f), f.pc = exec[t].pc, Set(t, f),
           UNCHANGED <<room, lease, turn, transcript, active, queueVars, asks>>,
           faults' \in 0..MaxFaults
    PROVE  TInv'
<1>1. f.pc \in Before => turn'[t].status = "none"
  BY DEF TInv, NotYetBegun
<1>2. exec' \in [Turns -> Execs] /\ ExecsOK' /\ NotYetBegun'
  BY <1>1, ExecStep
<1> QED BY <1>2 DEF TInv, TypeOK, SteersPlaced, queueVars

LEMMA FaultCounted == TInv /\ Fault => faults' \in 0..MaxFaults
  BY BoundsAssumption DEF TInv, TypeOK, Fault

LEMMA InterruptTyped == ASSUME TInv, NEW s \in Servers, Interrupt(s) PROVE TInv'
<1> DEFINE t == active[s]
<1>1. t \in Turns
  BY DEF Interrupt, TInv, TypeOK
<1>2. faults' \in 0..MaxFaults /\ UNCHANGED <<room, lease, turn, transcript, active, queueVars, asks>>
  BY DEF Interrupt, TInv, TypeOK, budget
<1>3. PICK x \in {"user", "late"} : \E d \in {FALSE, exec[t].drains} :
          Set(t, [exec[t] EXCEPT !.stop = x, !.drains = d])
  BY DEF Interrupt
<1>4. PICK d \in BOOLEAN : Set(t, [exec[t] EXCEPT !.stop = x, !.drains = d])
  BY <1>1, <1>3, AtWork DEF Execs
<1> QED BY <1>1, <1>2, <1>4, SetSame, InterruptedOK, AtWork

LEMMA TimeOutTyped == ASSUME TInv, NEW t \in Turns, TimeOut(t) PROVE TInv'
<1>2. faults' \in 0..MaxFaults /\ UNCHANGED <<room, lease, turn, transcript, active, queueVars, asks>>
  BY DEF TimeOut, TInv, TypeOK, budget
<1>3. Set(t, [exec[t] EXCEPT !.stop = "timeout"])
  BY DEF TimeOut
<1> QED BY <1>2, <1>3, SetSame, FlaggedOK, AtWork

LEMMA NoticeLostTyped == ASSUME TInv, NEW t \in Turns, NoticeLost(t) PROVE TInv'
<1>2. faults' \in 0..MaxFaults
  BY FaultCounted DEF NoticeLost, TInv, TypeOK
<1>3. Set(t, [exec[t] EXCEPT !.lost = TRUE])
  BY DEF NoticeLost
<1>4. UNCHANGED <<room, lease, turn, transcript, active, queueVars, asks>>
  BY DEF NoticeLost
<1> QED BY <1>2, <1>3, <1>4, SetSame, LostOK, AtWork

-----------------------------------------------------------------------------
(* The conversation.                                                       *)

\* The same messages in the same places, in whatever state.
SameEntries(tr2, tr) ==
    /\ tr2 \in Seq(Entries)
    /\ Len(tr2) = Len(tr)
    /\ \A k \in 1..Len(tr) :
          tr2[k].turn = tr[k].turn /\ tr2[k].kind = tr[k].kind /\ tr2[k].n = tr[k].n

\* The messages of tr, then one more of turn t that is not a prompt.
Extends(tr2, tr, t) ==
    /\ tr2 \in Seq(Entries)
    /\ Len(tr2) = Len(tr) + 1
    /\ \A k \in 1..Len(tr) :
          tr2[k].turn = tr[k].turn /\ tr2[k].kind = tr[k].kind /\ tr2[k].n = tr[k].n
    /\ tr2[Len(tr2)].turn = t /\ tr2[Len(tr2)].kind # "prompt"

LEMMA SameItself == ASSUME NEW tr \in Seq(Entries) PROVE SameEntries(tr, tr)
  BY DEF SameEntries

LEMMA EntryTyped ==
    ASSUME NEW t \in Turns, NEW kind \in {"answer", "notice", "prompt", "tool", "result"},
           NEW state \in {"streaming", "complete", "error", "deleted"}, NEW n \in Nat
    PROVE  Entry(t, kind, state, n) \in Entries
  BY DEF Entry, Entries

LEMMA AppendExtends ==
    ASSUME NEW tr \in Seq(Entries), NEW t \in Turns, NEW kind \in {"answer", "notice", "tool", "result"},
           NEW state \in {"streaming", "complete", "error", "deleted"}, NEW n \in Nat
    PROVE  Extends(Append(tr, Entry(t, kind, state, n)), tr, t)
<1> DEFINE e == Entry(t, kind, state, n)
<1>1. e \in Entries
  BY EntryTyped
<1>2. e.turn = t /\ e.kind # "prompt"
  BY DEF Entry
<1> QED BY <1>1, <1>2 DEF Extends

\* A function on the places of a conversation is a conversation.
LEMMA Rewritten ==
    ASSUME NEW tr \in Seq(Entries), NEW tr2, tr2 = [k \in DOMAIN tr |-> tr2[k]],
           \A k \in DOMAIN tr :
              /\ tr2[k] \in Entries
              /\ tr2[k].turn = tr[k].turn /\ tr2[k].kind = tr[k].kind /\ tr2[k].n = tr[k].n
    PROVE  SameEntries(tr2, tr)
<1>1. DOMAIN tr = 1..Len(tr) /\ Len(tr) \in Nat
  OBVIOUS
<1>2. tr2 \in [1..Len(tr) -> Entries]
  BY <1>1
<1>3. tr2 \in Seq(Entries) /\ Len(tr2) = Len(tr)
  BY <1>1, <1>2
<1> QED BY <1>1, <1>3 DEF SameEntries

LEMMA StateOnly ==
    ASSUME NEW e \in Entries, NEW x \in {"streaming", "complete", "error", "deleted"}
    PROVE  /\ [e EXCEPT !.state = x] \in Entries
           /\ [e EXCEPT !.state = x].turn = e.turn
           /\ [e EXCEPT !.state = x].kind = e.kind
           /\ [e EXCEPT !.state = x].n = e.n
  BY DEF Entries

\* Some messages of tr get the state x, and nothing else of them changes.
Restated(tr2, tr, x) ==
    /\ tr2 = [j \in DOMAIN tr |-> tr2[j]]
    /\ \A j \in DOMAIN tr : tr2[j] = tr[j] \/ tr2[j] = [tr[j] EXCEPT !.state = x]

LEMMA RestatedSame ==
    ASSUME NEW tr \in Seq(Entries), NEW tr2, NEW x \in {"streaming", "complete", "error", "deleted"},
           Restated(tr2, tr, x)
    PROVE  SameEntries(tr2, tr)
<1> SUFFICES ASSUME NEW j \in DOMAIN tr
             PROVE  /\ tr2[j] \in Entries
                    /\ tr2[j].turn = tr[j].turn /\ tr2[j].kind = tr[j].kind /\ tr2[j].n = tr[j].n
  BY Rewritten DEF Restated
<1>0. tr2[j] = tr[j] \/ tr2[j] = [tr[j] EXCEPT !.state = x]
  BY DEF Restated
<1>1. tr[j] \in Entries
  OBVIOUS
<1>2. CASE tr2[j] = tr[j]
  BY <1>1, <1>2
<1>3. CASE tr2[j] = [tr[j] EXCEPT !.state = x]
  <2> DEFINE f == [tr[j] EXCEPT !.state = x]
  <2>1. f \in Entries /\ f.turn = tr[j].turn /\ f.kind = tr[j].kind /\ f.n = tr[j].n
    BY <1>1, StateOnly
  <2>2. tr2[j] = f
    BY <1>3
  <2> HIDE DEF f
  <2> QED BY <2>1, <2>2
<1> QED BY <1>0, <1>2, <1>3

LEMMA FinalizedSame ==
    ASSUME transcript \in Seq(Entries), NEW t \in Turns, NEW n \in Nat,
           NEW x \in {"complete", "error"}, Finalizable(t, n, x)
    PROVE  SameEntries(Finalized(t, n, x), transcript)
<1> DEFINE k == SegmentOf(t, n)
           tr2 == Finalized(t, n, x)
<1>1. k \in DOMAIN transcript
  BY DEF Finalizable, SegmentOf, AnswersOf
<1>2. \A j \in DOMAIN transcript : transcript[j] \in Entries
  OBVIOUS
<1>3. tr2 = [transcript EXCEPT ![k].state = x]
  BY DEF Finalized
<1>4. \A j \in DOMAIN transcript :
         tr2[j] = IF j = k THEN [transcript[j] EXCEPT !.state = x] ELSE transcript[j]
  BY <1>3
<1>5. tr2 = [j \in DOMAIN transcript |-> tr2[j]]
  BY <1>3
<1>6. \A j \in DOMAIN transcript :
         /\ tr2[j] \in Entries
         /\ tr2[j].turn = transcript[j].turn /\ tr2[j].kind = transcript[j].kind
         /\ tr2[j].n = transcript[j].n
  <2> TAKE j \in DOMAIN transcript
  <2>1. CASE j = k
    <3>1. tr2[j] = [transcript[j] EXCEPT !.state = x]
      BY <1>4, <2>1
    <3>2. transcript[j] \in Entries /\ x \in {"streaming", "complete", "error", "deleted"}
      BY <1>2
    <3> DEFINE e == transcript[j]
    <3>3. /\ [e EXCEPT !.state = x] \in Entries
          /\ [e EXCEPT !.state = x].turn = e.turn
          /\ [e EXCEPT !.state = x].kind = e.kind
          /\ [e EXCEPT !.state = x].n = e.n
      <4> HIDE DEF e
      <4> QED BY <3>2, StateOnly DEF e
    <3> QED BY <3>1, <3>3
  <2>2. CASE j # k
    BY <1>2, <1>4, <2>2
  <2> QED BY <2>1, <2>2
<1> QED BY <1>5, <1>6, Rewritten

LEMMA WithoutSame ==
    ASSUME NEW tr \in Seq(Entries), NEW t \in Turns, NEW drop
    PROVE  SameEntries(Without(tr, t, drop), tr)
<1> DEFINE tr2 == Without(tr, t, drop)
<1>1. Restated(tr2, tr, "deleted")
  BY DEF Without, Restated
<1>2. "deleted" \in {"streaming", "complete", "error", "deleted"}
  OBVIOUS
<1> QED BY <1>1, <1>2, RestatedSame

LEMMA SameTransitive ==
    ASSUME NEW a, NEW b, NEW c \in Seq(Entries), SameEntries(b, c), SameEntries(a, b)
    PROVE  SameEntries(a, c)
  BY DEF SameEntries

LEMMA SameExtends ==
    ASSUME NEW a, NEW b, NEW c \in Seq(Entries), NEW t, Extends(b, c, t), SameEntries(a, b)
    PROVE  Extends(a, c, t)
  BY DEF SameEntries, Extends

-----------------------------------------------------------------------------
(* What a step may do to the lease, the turns, the conversation and the    *)
(* queue.                                                                  *)

\* Claims are only given up, and rows only appear when a turn begins.
Shrinks ==
    /\ \A u \in Turns : ClaimHeld(u)' => ClaimHeld(u) /\ room' = room
    /\ \A u \in Turns : turn'[u].status = "none" <=> turn[u].status = "none"

\* No message is added.
Lets == Shrinks /\ UNCHANGED input /\ SameEntries(transcript', transcript)

\* The holder adds a message.
Writes(t) ==
    /\ ClaimHeld(t) /\ Shrinks /\ UNCHANGED input
    /\ Extends(transcript', transcript, t)

\* The holder takes a steering input.
Takes(t, i) ==
    /\ ClaimHeld(t) /\ UNCHANGED <<room, lease, turn>>
    /\ input[i] = "steering" /\ input' = [input EXCEPT ![i] = t]
    /\ transcript' = Append(transcript, Entry(t, "prompt", "complete", i))

\* An input is queued, cancelled or handed on.
Hands(i, x) ==
    /\ UNCHANGED <<room, lease, turn, transcript>>
    /\ input' = [input EXCEPT ![i] = x]
    /\ \/ input[i] = "absent" /\ x = "queued"
       \/ input[i] = "queued" /\ x = "cancelled"
       \/ {input[i], x} \subseteq {"queued", "starting", "steering"}

\* A turn begins.
Begins(t) ==
    /\ turn[t].status = "none"
    /\ CanCommence(t) /\ Commence(t)

Effect ==
    \/ Lets
    \/ \E t \in Turns : Writes(t) \/ Begins(t)
    \/ \E t \in Turns, i \in Inputs : Takes(t, i)
    \/ \E i \in Inputs, x \in {"queued", "starting", "steering", "cancelled"} : Hands(i, x)

LEMMA Undisturbed == UNCHANGED <<room, lease, turn>> => Shrinks
  BY DEF Shrinks, ClaimHeld

LEMMA QuietLets ==
    TInv /\ UNCHANGED <<room, lease, turn, transcript, input>> => Lets
  BY Undisturbed, SameItself DEF Lets, TInv, TypeOK

LEMMA NoClaimWithoutLease == lease' = NoLease => \A u \in Turns : ~ClaimHeld(u)'
  BY TurnsAssumption DEF NoLease, ClaimHeld

\* A lease that is given up or expires takes claims away.
LEMMA LeaseGone ==
    ASSUME TInv, lease' = NoLease \/ lease' = [lease EXCEPT !.live = FALSE], UNCHANGED turn
    PROVE  Shrinks /\ lease' \in [turn : Turns \union {NoTurn}, fence : Nat, live : BOOLEAN]
<1>1. lease \in [turn : Turns \union {NoTurn}, fence : Nat, live : BOOLEAN]
  BY DEF TInv, TypeOK
<1>2. \A u \in Turns : ~ClaimHeld(u)'
  <2>1. CASE lease' = NoLease
    BY <2>1, NoClaimWithoutLease
  <2>2. CASE lease' = [lease EXCEPT !.live = FALSE]
    BY <1>1, <2>2 DEF ClaimHeld
  <2> QED BY <2>1, <2>2
<1>3. lease' \in [turn : Turns \union {NoTurn}, fence : Nat, live : BOOLEAN]
  <2>1. NoLease \in [turn : Turns \union {NoTurn}, fence : Nat, live : BOOLEAN]
    BY DEF NoLease
  <2>2. \A b \in BOOLEAN :
           [lease EXCEPT !.live = b] \in [turn : Turns \union {NoTurn}, fence : Nat, live : BOOLEAN]
    BY <1>1
  <2> QED BY <2>1, <2>2
<1> QED BY <1>2, <1>3 DEF Shrinks

\* A turn that is closed.
LEMMA CloseStep ==
    ASSUME TInv, NEW t \in Turns, NEW f \in Execs, ExecOK(f), f.pc \notin Before, Set(t, f),
           turn[t].status = "running",
           NEW status \in {"complete", "cancelled", "error"}, NEW tr \in Seq(Entries),
           Close(t, status, tr), faults' \in 0..MaxFaults, UNCHANGED <<active, queueVars, asks>>
    PROVE  TInv' /\ Shrinks
<1>1. turn \in [Turns -> [status : TurnStatuses, fence : Nat]]
      /\ status \in TurnStatuses /\ status # "none"
  BY DEF TInv, TypeOK, TurnStatuses
<1>2. turn' = [turn EXCEPT ![t] = [turn[t] EXCEPT !.status = status]]
  BY DEF Close
<1>3. [turn[t] EXCEPT !.status = status] \in [status : TurnStatuses, fence : Nat]
      /\ [turn[t] EXCEPT !.status = status].status = status
  BY <1>1
<1>4. turn' \in [Turns -> [status : TurnStatuses, fence : Nat]]
  BY <1>1, <1>2, <1>3
<1>5. \A u \in Turns : turn'[u] = IF u = t THEN [turn[t] EXCEPT !.status = status] ELSE turn[u]
  BY <1>1, <1>2
<1>6. \A u \in Turns : turn'[u].status = "none" <=> turn[u].status = "none"
  BY <1>1, <1>3, <1>5
<1>7. exec' \in [Turns -> Execs] /\ ExecsOK' /\ NotYetBegun'
  BY <1>6, ExecStep
<1>8. lease' = NoLease /\ transcript' = tr /\ room' \in {"idle", "error"}
  BY DEF Close
<1>9. lease' \in [turn : Turns \union {NoTurn}, fence : Nat, live : BOOLEAN]
  BY <1>8 DEF NoLease
<1>10. TInv'
  BY <1>4, <1>7, <1>8, <1>9 DEF TInv, TypeOK, SteersPlaced, queueVars
<1>11. Shrinks
  BY <1>6, <1>8, NoClaimWithoutLease DEF Shrinks
<1> QED BY <1>10, <1>11

-----------------------------------------------------------------------------
(* The actions of an execution that may write messages.                    *)

\* An event is in progress only while a turn runs or ends.
LEMMA EventAfterBegin ==
    ASSUME TInv, NEW t \in Turns, exec[t].event # "none"
    PROVE  exec[t].pc \notin Before \union {"preparing"}
  BY AtWork DEF ExecOK

\* One of the holder's writes, or a refused one.
LEMMA HandlerStep ==
    ASSUME TInv, NEW t \in Turns, NEW f \in Execs, ExecOK(f), Set(t, f), f.pc \notin Before,
           \/ SameEntries(transcript', transcript)
           \/ ClaimHeld(t) /\ Extends(transcript', transcript, t),
           UNCHANGED <<room, lease, turn, active, queueVars, budget>>
    PROVE  TInv' /\ (Lets \/ Writes(t))
<1>1. transcript' \in Seq(Entries)
  BY DEF SameEntries, Extends
<1>2. TInv'
  BY <1>1, TranscriptStep
<1>3. Shrinks /\ UNCHANGED input
  BY Undisturbed DEF queueVars
<1> QED BY <1>2, <1>3 DEF Lets, Writes

LEMMA ThrowsStep ==
    ASSUME TInv, NEW t \in Turns, exec[t].event # "none", HandlerThrows(t),
           UNCHANGED <<room, lease, turn, active, queueVars, budget>>
    PROVE  TInv' /\ (Lets \/ Writes(t))
<1> DEFINE e == exec[t]
<1>1. e \in Execs /\ ExecOK(e) /\ e.pc \notin Before \union {"preparing"}
  BY AtWork, EventAfterBegin
<1>2. PICK p : p = (IF e.pc = "working" THEN "failing" ELSE e.pc)
  OBVIOUS
<1>3. p \in Pcs /\ p \notin Before \union {"preparing", "working"}
  BY <1>1, <1>2 DEF Execs, Pcs, Failing, Before
<1> DEFINE f == [e EXCEPT !.event = "none", !.pc = p]
<1>4. Set(t, f)
  BY <1>2 DEF HandlerThrows
<1>5. f \in Execs /\ ExecOK(f) /\ f.pc \notin Before
  BY <1>1, <1>3 DEF Execs, ExecOK, Before
<1>6. SameEntries(transcript', transcript)
  BY SameItself DEF HandlerThrows, TInv, TypeOK
<1> QED BY <1>4, <1>5, <1>6, HandlerStep

LEMMA SealSegmentStep == ASSUME TInv, NEW t \in Turns, SealSegment(t) PROVE TInv' /\ (Lets \/ Writes(t))
<1> DEFINE e == exec[t]
           f == [e EXCEPT !.text = "sealed"]
<1>1. CASE ClaimHeld(t) /\ Finalizable(t, e.seg, "complete")
  <2>1. transcript' = Finalized(t, e.seg, "complete") /\ Set(t, f)
    BY <1>1 DEF SealSegment
  <2>2. e \in Execs /\ ExecOK(e) /\ e.pc \notin Before /\ e.seg \in Nat
    BY AtWork, EventAfterBegin DEF SealSegment, Execs, Segments
  <2>3. f \in Execs /\ ExecOK(f) /\ f.pc \notin Before
    BY <2>2 DEF Execs, ExecOK
  <2>4. SameEntries(transcript', transcript)
    BY <1>1, <2>1, <2>2, FinalizedSame DEF TInv, TypeOK
  <2> QED BY <2>1, <2>3, <2>4, HandlerStep DEF SealSegment
<1>2. CASE ~(ClaimHeld(t) /\ Finalizable(t, e.seg, "complete"))
  BY <1>2, ThrowsStep DEF SealSegment
<1> QED BY <1>1, <1>2

LEMMA NewSegmentStep == ASSUME TInv, NEW t \in Turns, NewSegment(t) PROVE TInv' /\ (Lets \/ Writes(t))
<1> DEFINE e == exec[t]
           n == e.seg + 1
           f == [e EXCEPT !.event = "none", !.seg = n, !.text = "unsealed",
                          !.more = FALSE, !.shown = @ \union {n}]
<1>1. CASE ClaimHeld(t)
  <2>1. transcript' = Append(transcript, Entry(t, "answer", "streaming", n)) /\ Set(t, f)
    BY <1>1 DEF NewSegment
  <2>2. e \in Execs /\ ExecOK(e) /\ e.pc \notin Before /\ e.event = "text"
    BY AtWork, EventAfterBegin DEF NewSegment
  <2>3. n \in Segments /\ n \in Nat /\ n <= e.tools + 1
    BY <2>2, BoundsAssumption DEF Execs, ExecOK, Segments
  <2>4. e.shown \union {n} \in SUBSET Segments
    BY <2>2, <2>3 DEF Execs
  <2>5. f \in Execs /\ ExecOK(f) /\ f.pc \notin Before
    <3>1. PICK b \in BOOLEAN : b = FALSE
      OBVIOUS
    <3> DEFINE g == [e EXCEPT !.event = "none", !.seg = n, !.text = "unsealed",
                          !.more = b, !.shown = @ \union {n}]
    <3>2. g \in Execs
      <4> HIDE DEF n
      <4> QED BY <2>2, <2>3, <2>4 DEF Execs
    <3>3. ExecOK(g) /\ g.pc \notin Before
      <4> HIDE DEF n
      <4> QED BY <2>2, <2>3, <3>1, <3>2 DEF ExecOK, Execs
    <3> QED BY <3>1, <3>2, <3>3
  <2>6. Extends(transcript', transcript, t)
    BY <2>1, <2>3, AppendExtends DEF TInv, TypeOK
  <2> QED BY <1>1, <2>1, <2>5, <2>6, HandlerStep DEF NewSegment
<1>2. CASE ~ClaimHeld(t)
  BY <1>2, ThrowsStep DEF NewSegment
<1> QED BY <1>1, <1>2

LEMMA RecordToolStep == ASSUME TInv, NEW t \in Turns, RecordTool(t) PROVE TInv' /\ (Lets \/ Writes(t))
<1> DEFINE e == exec[t]
           n == e.tools + 1
           f == [e EXCEPT !.event = "none", !.tool = TRUE, !.tools = n]
<1>1. CASE ClaimHeld(t)
  <2>1. transcript' = Append(transcript, Entry(t, "tool", "complete", n)) /\ Set(t, f)
    BY <1>1 DEF RecordTool
  <2>2. e \in Execs /\ ExecOK(e) /\ e.pc \notin Before /\ e.event = "tool"
    BY AtWork, EventAfterBegin DEF RecordTool
  <2>3. n \in 0..MaxTools /\ n \in Nat
    BY <2>2, BoundsAssumption DEF Execs, ExecOK
  <2>4. f \in Execs /\ ExecOK(f) /\ f.pc \notin Before
    <3>1. e.tools \in Nat /\ e.seg \in Nat
      BY <2>2 DEF Execs, Segments
    <3>2. \A b \in BOOLEAN : [e EXCEPT !.event = "none", !.tool = b, !.tools = n] \in Execs
      <4> HIDE DEF n
      <4> QED BY <2>2, <2>3 DEF Execs
    <3>3. f \in Execs
      BY <3>2
    <3>4. /\ f.pc = e.pc /\ f.server = e.server /\ f.seg = e.seg /\ f.more = e.more
          /\ f.event = "none" /\ f.tools = n
      BY <2>2 DEF Execs
    <3> QED BY <2>2, <3>1, <3>3, <3>4 DEF ExecOK
  <2>5. Extends(transcript', transcript, t)
    BY <2>1, <2>3, AppendExtends DEF TInv, TypeOK
  <2> QED BY <1>1, <2>1, <2>4, <2>5, HandlerStep DEF RecordTool
<1>2. CASE ~ClaimHeld(t)
  BY <1>2, ThrowsStep DEF RecordTool
<1> QED BY <1>1, <1>2

LEMMA RecordResultStep == ASSUME TInv, NEW t \in Turns, RecordResult(t) PROVE TInv' /\ (Lets \/ Writes(t))
<1> DEFINE e == exec[t]
           f == [e EXCEPT !.event = "none", !.tool = FALSE]
<1>1. CASE ClaimHeld(t)
  <2>1. transcript' = Append(transcript, Entry(t, "result", "complete", e.tools)) /\ Set(t, f)
    BY <1>1 DEF RecordResult
  <2>2. e \in Execs /\ ExecOK(e) /\ e.pc \notin Before /\ e.event = "result" /\ e.tools \in Nat
    BY AtWork, EventAfterBegin DEF RecordResult, Execs
  <2>3. \A b \in BOOLEAN :
           LET g == [e EXCEPT !.event = "none", !.tool = b] IN
           g \in Execs /\ ExecOK(g) /\ g.pc \notin Before
    BY <2>2 DEF Execs, ExecOK
  <2>4. Extends(transcript', transcript, t)
    BY <2>1, <2>2, AppendExtends DEF TInv, TypeOK
  <2> QED BY <1>1, <2>1, <2>3, <2>4, HandlerStep DEF RecordResult
<1>2. CASE ~ClaimHeld(t)
  BY <1>2, ThrowsStep DEF RecordResult
<1> QED BY <1>1, <1>2

LEMMA RecordSteerStep ==
    ASSUME TInv, NEW t \in Turns, RecordSteer(t)
    PROVE  TInv' /\ (Lets \/ \E i \in Inputs : Takes(t, i))
<1> DEFINE e == exec[t]
           i == e.steered
           f == [e EXCEPT !.event = "none", !.steered = NoInput, !.pending = @ \ {i}]
           g == [e EXCEPT !.event = "none", !.steered = NoInput]
<1>1. e \in Execs /\ ExecOK(e) /\ e.pc \notin Before /\ e.event = "steer"
  BY AtWork, EventAfterBegin DEF RecordSteer
<1>2. CASE i \in e.pending /\ active[e.server] = t /\ ClaimHeld(t) /\ input[i] = "steering"
  <2>1. /\ transcript' = Append(transcript, Entry(t, "prompt", "complete", i))
        /\ input' = [input EXCEPT ![i] = t]
        /\ Set(t, f)
        /\ UNCHANGED <<room, lease, turn, active, drain, steer, budget>>
    BY <1>2 DEF RecordSteer
  <2>2. i \in Inputs /\ i \in Nat /\ e.pending \ {i} \in SUBSET Inputs
    BY <1>1, <1>2, InputsAssumption DEF Execs
  <2>3. f \in Execs /\ ExecOK(f) /\ f.pc \notin Before
    <3>1. f \in Execs
      <4> HIDE DEF i
      <4> QED BY <1>1, <2>2 DEF Execs
    <3>2. /\ f.pc = e.pc /\ f.server = e.server /\ f.seg = e.seg /\ f.more = e.more
          /\ f.event = "none" /\ f.tools = e.tools
      BY <1>1 DEF Execs
    <3> QED BY <1>1, <3>1, <3>2 DEF ExecOK
  <2>4. transcript' \in Seq(Entries)
    BY <2>1, <2>2, EntryTyped DEF TInv, TypeOK
  <2>5. input' \in [Inputs -> {"absent", "queued", "starting", "steering", "cancelled"} \union Turns]
    BY <2>1, <2>2 DEF TInv, TypeOK
  <2>6. exec' \in [Turns -> Execs] /\ ExecsOK' /\ NotYetBegun'
    BY <2>1, <2>3, ExecStep
  <2>7. TInv'
    BY <2>1, <2>4, <2>5, <2>6 DEF TInv, TypeOK, SteersPlaced, budget
  <2>8. Takes(t, i)
    BY <1>2, <2>1 DEF Takes
  <2> QED BY <2>2, <2>7, <2>8
<1>3. CASE ~(i \in e.pending /\ active[e.server] = t /\ ClaimHeld(t) /\ input[i] = "steering")
  <2>1. Set(t, g) /\ UNCHANGED <<transcript, input>>
    BY <1>3 DEF RecordSteer
  <2>2. g \in Execs /\ ExecOK(g) /\ g.pc \notin Before
    <3>1. g \in Execs
      BY <1>1 DEF Execs
    <3>2. /\ g.pc = e.pc /\ g.server = e.server /\ g.seg = e.seg /\ g.more = e.more
          /\ g.event = "none" /\ g.tools = e.tools
      BY <1>1 DEF Execs
    <3> QED BY <1>1, <3>1, <3>2 DEF ExecOK
  <2>3. UNCHANGED <<room, lease, turn, transcript, active, queueVars, budget>>
    BY <2>1 DEF RecordSteer, queueVars
  <2>4. TInv'
    BY <2>1, <2>2, <2>3, ExecOnly
  <2> QED BY <2>3, <2>4, QuietLets DEF queueVars
<1> QED BY <1>2, <1>3

LEMMA FlushMissingStep == ASSUME TInv, NEW t \in Turns, FlushMissing(t) PROVE TInv' /\ (Lets \/ Writes(t))
<1> DEFINE e == exec[t]
           f == [e EXCEPT !.tool = FALSE]
<1>1. e \in Execs /\ ExecOK(e) /\ e.pc = "finalizing" /\ e.tools \in Nat
  BY AtWork DEF FlushMissing, Execs
<1>2. CASE ClaimHeld(t)
  <2>1. transcript' = Append(transcript, Entry(t, "result", "complete", e.tools)) /\ Set(t, f)
    BY <1>2 DEF FlushMissing
  <2>2. \A b \in BOOLEAN :
           LET g == [e EXCEPT !.tool = b] IN g \in Execs /\ ExecOK(g) /\ g.pc \notin Before
    BY <1>1 DEF Execs, ExecOK, Before
  <2>3. Extends(transcript', transcript, t)
    BY <1>1, <2>1, AppendExtends DEF TInv, TypeOK
  <2> QED BY <1>2, <2>1, <2>2, <2>3, HandlerStep DEF FlushMissing
<1>3. CASE ~ClaimHeld(t)
  <2>1. UNCHANGED <<room, lease, turn, transcript, active, queueVars, budget>> /\ Fails(t)
    BY <1>3 DEF FlushMissing
  <2>2. TInv'
    BY <1>1, <2>1, FailsTyped DEF Before
  <2> QED BY <2>1, <2>2, QuietLets DEF queueVars
<1> QED BY <1>2, <1>3

\* The finally block.
LEMMA UnwoundOK ==
    ASSUME TInv, NEW t \in Turns, exec[t].pc \notin Before
    PROVE  /\ Unwound(t, exec[t]) \in Execs /\ ExecOK(Unwound(t, exec[t]))
           /\ Unwound(t, exec[t]).pc \notin Before
<1> DEFINE e == exec[t]
<1>1. e \in Execs /\ ExecOK(e) /\ e.pc # "none"
  BY AtWork DEF Before
<1>2. PICK b \in BOOLEAN : b = (active[e.server] = t /\ e.stop \notin {"user", "late"})
  OBVIOUS
<1>3. Unwound(t, e) = [e EXCEPT !.pc = "ending", !.drains = b]
  BY <1>2 DEF Unwound
<1>4. [e EXCEPT !.pc = "ending", !.drains = b] \in Execs
      /\ ExecOK([e EXCEPT !.pc = "ending", !.drains = b])
      /\ [e EXCEPT !.pc = "ending", !.drains = b].pc \notin Before
  <2> DEFINE f == [e EXCEPT !.pc = "ending", !.drains = b]
  <2>1. "ending" \in Pcs /\ "ending" \notin Before \union {"preparing", "working"}
    BY DEF Pcs, Unwinding, Before
  <2>2. f \in Execs
    BY <1>1, <2>1 DEF Execs
  <2>3. /\ f.pc = "ending" /\ f.server = e.server /\ f.seg = e.seg /\ f.more = e.more
        /\ f.event = e.event /\ f.tools = e.tools
    BY <1>1 DEF Execs
  <2> QED BY <1>1, <2>1, <2>2, <2>3 DEF ExecOK
<1> QED BY <1>3, <1>4

LEMMA FailSealStep == ASSUME TInv, NEW t \in Turns, FailSeal(t) PROVE TInv' /\ (Lets \/ Writes(t))
<1> DEFINE e == exec[t]
           stop == IF e.lost /\ e.stop = "user" THEN "late" ELSE e.stop
           f == [e EXCEPT !.pc = "flushing", !.stop = stop]
           g == [e EXCEPT !.pc = "flushing", !.text = "sealed"]
<1>1. e \in Execs /\ ExecOK(e) /\ e.pc = "failing" /\ e.seg \in Nat
  BY AtWork DEF FailSeal, Execs, Segments
<1>2. /\ f \in Execs /\ ExecOK(f) /\ f.pc \notin Before
      /\ g \in Execs /\ ExecOK(g) /\ g.pc \notin Before
  <2>1. "flushing" \in Pcs /\ "flushing" \notin Before
    BY DEF Pcs, Failing, Before
  <2>2. f \in Execs /\ ExecOK(f) /\ f.pc \notin Before
    <3>1. stop \in {"no", "user", "late", "timeout"}
      BY <1>1 DEF Execs
    <3> HIDE DEF stop
    <3>2. f \in Execs
      BY <1>1, <2>1, <3>1 DEF Execs
    <3>3. /\ f.pc = "flushing" /\ f.server = e.server /\ f.seg = e.seg /\ f.more = e.more
          /\ f.event = e.event /\ f.tools = e.tools
      BY <1>1 DEF Execs
    <3> QED BY <1>1, <2>1, <3>2, <3>3 DEF ExecOK, Before
  <2>3. g \in Execs /\ ExecOK(g) /\ g.pc \notin Before
    <3>1. g \in Execs
      BY <1>1, <2>1 DEF Execs
    <3>2. /\ g.pc = "flushing" /\ g.server = e.server /\ g.seg = e.seg /\ g.more = e.more
          /\ g.event = e.event /\ g.tools = e.tools
      BY <1>1 DEF Execs
    <3> QED BY <1>1, <2>1, <3>1, <3>2 DEF ExecOK, Before
  <2> QED BY <2>2, <2>3
<1>3. Unwound(t, e) \in Execs /\ ExecOK(Unwound(t, e)) /\ Unwound(t, e).pc \notin Before
  BY <1>1, UnwoundOK DEF Before
<1>4. \/ (Set(t, f) \/ Set(t, Unwound(t, e))) /\ UNCHANGED transcript
      \/ /\ Finalizable(t, e.seg, "complete")
         /\ transcript' = Finalized(t, e.seg, "complete")
         /\ Set(t, g)
  BY DEF FailSeal
<1>5. SameEntries(transcript', transcript)
  BY <1>1, <1>4, SameItself, FinalizedSame DEF TInv, TypeOK
<1>6. UNCHANGED <<room, lease, turn, active, queueVars, budget>>
  BY DEF FailSeal
<1> QED BY <1>2, <1>3, <1>4, <1>5, <1>6, HandlerStep

LEMMA FailFlushStep == ASSUME TInv, NEW t \in Turns, FailFlush(t) PROVE TInv' /\ (Lets \/ Writes(t))
<1> DEFINE e == exec[t]
           f == [e EXCEPT !.pc = "erring"]
<1>1. e \in Execs /\ ExecOK(e) /\ e.pc = "flushing" /\ e.tools \in Nat
  BY AtWork DEF FailFlush, Execs
<1>2. f \in Execs /\ ExecOK(f) /\ f.pc \notin Before
  BY <1>1 DEF Execs, ExecOK, Pcs, Failing, Before
<1>3. \A b \in BOOLEAN :
         LET g == [e EXCEPT !.pc = "erring", !.tool = b] IN
         g \in Execs /\ ExecOK(g) /\ g.pc \notin Before
  <2> SUFFICES ASSUME NEW b \in BOOLEAN
               PROVE  LET g == [f EXCEPT !.tool = b] IN
                      g \in Execs /\ ExecOK(g) /\ g.pc \notin Before
    BY <1>1 DEF Execs
  <2> DEFINE g == [f EXCEPT !.tool = b]
  <2> HIDE DEF f
  <2>1. g \in Execs /\ g.pc = f.pc
    BY <1>2 DEF Execs
  <2>2. g.server = f.server /\ g.seg = f.seg /\ g.tools = f.tools /\ g.event = f.event /\ g.more = f.more
    BY <1>2 DEF Execs
  <2> HIDE DEF g
  <2>3. ExecOK(g) /\ g.pc \notin Before
    BY <1>2, <2>1, <2>2 DEF ExecOK
  <2> QED BY <2>1, <2>3 DEF g
<1>4. \/ Set(t, f) /\ UNCHANGED transcript
      \/ /\ ClaimHeld(t)
         /\ transcript' = Append(transcript, Entry(t, "result", "complete", e.tools))
         /\ Set(t, [e EXCEPT !.pc = "erring", !.tool = FALSE])
  BY DEF FailFlush
<1>5. UNCHANGED <<room, lease, turn, active, queueVars, budget>>
  BY DEF FailFlush
<1>6. CASE Set(t, f) /\ UNCHANGED transcript
  <2>1. SameEntries(transcript', transcript)
    BY <1>6, SameItself DEF TInv, TypeOK
  <2> QED BY <1>2, <1>5, <1>6, <2>1, HandlerStep
<1>7. CASE /\ ClaimHeld(t)
           /\ transcript' = Append(transcript, Entry(t, "result", "complete", e.tools))
           /\ Set(t, [e EXCEPT !.pc = "erring", !.tool = FALSE])
  <2>1. Extends(transcript', transcript, t)
    BY <1>1, <1>7, AppendExtends DEF TInv, TypeOK
  <2> QED BY <1>3, <1>5, <1>7, <2>1, HandlerStep
<1> QED BY <1>4, <1>6, <1>7

LEMMA FinishCompleteStep == ASSUME TInv, NEW t \in Turns, FinishComplete(t) PROVE TInv' /\ Lets
<1> DEFINE e == exec[t]
           visible == e.shown # {}
           obsolete == visible /\ Obsolete(t, e.seg, "complete")
           tr == IF visible /\ ~obsolete THEN Finalized(t, e.seg, "complete") ELSE transcript
           status == IF obsolete THEN "cancelled" ELSE "complete"
           f == [e EXCEPT !.pc = "failing"]
           g == [e EXCEPT !.pc = "failing", !.lost = TRUE]
<1>1. e \in Execs /\ ExecOK(e) /\ e.pc = "finalizing" /\ e.seg \in Nat /\ e.pc \notin Before
  BY AtWork DEF FinishComplete, Execs, Segments, Before
<1>2. f \in Execs /\ ExecOK(f) /\ f.pc \notin Before
  BY <1>1, FailsOK
<1>3. g \in Execs /\ ExecOK(g) /\ g.pc \notin Before
  <2>1. g = [f EXCEPT !.lost = TRUE]
    BY <1>1 DEF Execs
  <2> HIDE DEF f
  <2> QED BY <1>2, <2>1, LostOK
<1>4. Unwound(t, e) \in Execs /\ ExecOK(Unwound(t, e)) /\ Unwound(t, e).pc \notin Before
  BY <1>1, UnwoundOK
<1>5. UNCHANGED <<active, queueVars, asks>>
  BY DEF FinishComplete
<1>6. \/ (Set(t, f) \/ Set(t, g)) /\ UNCHANGED <<room, lease, turn, transcript, faults>>
      \/ /\ ClaimHeld(t) /\ Close(t, status, Without(tr, t, Empty(t)))
         /\ (Set(t, Unwound(t, e)) /\ UNCHANGED faults) \/ (Fault /\ Set(t, f))
  BY DEF FinishComplete, Fails
<1>7. CASE (Set(t, f) \/ Set(t, g)) /\ UNCHANGED <<room, lease, turn, transcript, faults>>
  <2>1. UNCHANGED <<room, lease, turn, transcript, active, queueVars, budget>>
    BY <1>5, <1>7 DEF budget
  <2>2. TInv'
    BY <1>2, <1>3, <1>7, <2>1, ExecOnly
  <2> QED BY <2>1, <2>2, QuietLets DEF queueVars
<1>8. CASE /\ ClaimHeld(t) /\ Close(t, status, Without(tr, t, Empty(t)))
           /\ (Set(t, Unwound(t, e)) /\ UNCHANGED faults) \/ (Fault /\ Set(t, f))
  <2>1. SameEntries(tr, transcript)
    BY <1>1, SameItself, FinalizedSame DEF Obsolete, TInv, TypeOK
  <2>2. transcript \in Seq(Entries) /\ tr \in Seq(Entries)
    BY <2>1 DEF SameEntries, TInv, TypeOK
  <2>3. SameEntries(Without(tr, t, Empty(t)), transcript)
    <3> HIDE DEF tr
    <3> QED BY <2>1, <2>2, WithoutSame, SameTransitive
  <2>4. faults' \in 0..MaxFaults
    BY <1>8, FaultCounted DEF TInv, TypeOK
  <2>5. PICK h \in Execs : ExecOK(h) /\ h.pc \notin Before /\ Set(t, h)
    BY <1>2, <1>4, <1>8
  <2>6. turn[t].status = "running" /\ status \in {"complete", "cancelled", "error"}
    BY <1>8 DEF ClaimHeld
  <2>7. Without(tr, t, Empty(t)) \in Seq(Entries)
    BY <2>3 DEF SameEntries
  <2>8. TInv' /\ Shrinks
    <3> HIDE DEF tr, status
    <3> QED BY <1>5, <1>8, <2>4, <2>5, <2>6, <2>7, CloseStep
  <2> QED BY <1>5, <1>8, <2>3, <2>8 DEF Lets, Close, queueVars
<1> QED BY <1>6, <1>7, <1>8

LEMMA FinishErrorStep == ASSUME TInv, NEW t \in Turns, FinishError(t) PROVE TInv' /\ (Lets \/ Writes(t))
<1> DEFINE e == exec[t]
           reuse == e.seg = 1 /\ e.shown = {} /\ e.tools = 0
           obsolete == reuse /\ Obsolete(t, 1, "error")
           drop == IF reuse THEN {} ELSE Empty(t)
           tr == IF ~reuse THEN Append(transcript, Entry(t, "notice", "error", 0))
                 ELSE IF obsolete THEN transcript ELSE Finalized(t, 1, "error")
           status == IF obsolete \/ e.stop = "user" THEN "cancelled" ELSE "error"
           h == Unwound(t, e)
<1>1. e \in Execs /\ ExecOK(e) /\ e.pc = "erring" /\ e.pc \notin Before
  BY AtWork DEF FinishError, Before
<1>2. h \in Execs /\ ExecOK(h) /\ h.pc \notin Before
  BY <1>1, UnwoundOK
<1>3. UNCHANGED <<active, queueVars, budget>> /\ Set(t, h)
  BY DEF FinishError
<1>4. CASE ClaimHeld(t) /\ CanClose(t, tr, drop)
  <2>1. Close(t, status, Without(tr, t, drop))
    BY <1>4 DEF FinishError
  <2>2. transcript \in Seq(Entries)
    BY DEF TInv, TypeOK
  <2>3. IF reuse THEN SameEntries(tr, transcript) ELSE Extends(tr, transcript, t)
    BY <2>2, SameItself, FinalizedSame, AppendExtends DEF Obsolete
  <2>4. tr \in Seq(Entries)
    BY <2>3 DEF SameEntries, Extends
  <2>5. SameEntries(Without(tr, t, drop), tr)
    <3> HIDE DEF tr, drop
    <3> QED BY <2>4, WithoutSame
  <2>6. IF reuse THEN SameEntries(transcript', transcript) ELSE Extends(transcript', transcript, t)
    <3>1. transcript' = Without(tr, t, drop)
      BY <2>1 DEF Close
    <3> HIDE DEF tr, drop, reuse
    <3> QED BY <2>2, <2>3, <2>5, <3>1, SameTransitive, SameExtends
  <2>7. turn[t].status = "running" /\ status \in {"complete", "cancelled", "error"}
    BY <1>4 DEF ClaimHeld
  <2>8. faults' \in 0..MaxFaults /\ UNCHANGED <<active, queueVars, asks>>
    BY <1>3 DEF TInv, TypeOK, budget
  <2>9. Without(tr, t, drop) \in Seq(Entries)
    BY <2>5 DEF SameEntries
  <2>10. TInv' /\ Shrinks
    <3> HIDE DEF tr, status, h, drop
    <3> QED BY <1>2, <1>3, <2>1, <2>7, <2>8, <2>9, CloseStep
  <2> QED BY <1>4, <2>6, <2>8, <2>10 DEF Lets, Writes, queueVars
<1>5. CASE ~(ClaimHeld(t) /\ CanClose(t, tr, drop))
  <2>1. UNCHANGED <<room, lease, turn, transcript, active, queueVars, budget>>
    BY <1>3, <1>5 DEF FinishError
  <2>2. TInv'
    BY <1>2, <1>3, <2>1, ExecOnly
  <2> QED BY <2>1, <2>2, QuietLets DEF queueVars
<1> QED BY <1>4, <1>5

-----------------------------------------------------------------------------
(* The queue, the drains and the steers.                                   *)

InputStates == {"absent", "queued", "starting", "steering", "cancelled"} \union Turns
Drains == [step : {"idle", "claiming", "claimed", "starting", "settling"}, input : Inputs \union {NoInput}]
SteerSteps == [step : {"none", "marked", "sent", "refused"}, server : Servers \union {NoServer}]

LEMMA QueueTypes ==
    ASSUME TInv
    PROVE  input \in [Inputs -> InputStates] /\ drain \in [Servers -> Drains]
           /\ steer \in [Inputs -> SteerSteps] /\ active \in [Servers -> Turns \union {NoTurn}]
  BY DEF TInv, TypeOK, InputStates, Drains, SteerSteps

\* The next input of the queue exists.
LEMMA LeastInput ==
    ASSUME NEW S \in SUBSET Nat, S # {}
    PROVE  \E x \in S : \A y \in S : x <= y
<1> DEFINE R == {ss \in Nat \X Nat : ss[1] < ss[2]}
<1>1. IsWellFoundedOn(R, Nat)
  BY NatLessThanWellFounded DEF OpToRel
<1>2. PICK x \in S : \A y \in S : ~ (<<y, x>> \in R)
  BY <1>1, WFMin
<1>3. ASSUME NEW y \in S PROVE x <= y
  <2>1. x \in Nat /\ y \in Nat /\ <<y, x>> \in Nat \X Nat
    OBVIOUS
  <2>2. <<y, x>>[1] = y /\ <<y, x>>[2] = x
    OBVIOUS
  <2>3. y < x => <<y, x>> \in R
    BY <2>1, <2>2
  <2> QED BY <1>2, <2>1, <2>3
<1> QED BY <1>3

\* Steps of the queue that leave the executions alone.
LEMMA QueueStep ==
    ASSUME TInv, input' \in [Inputs -> InputStates], drain' \in [Servers -> Drains],
           steer' \in [Inputs -> SteerSteps], SteersPlaced',
           UNCHANGED <<room, lease, turn, transcript, exec, active, budget>>
    PROVE  TInv'
  BY DEF TInv, TypeOK, InputStates, Drains, SteerSteps, ExecsOK, NotYetBegun, budget

\* Steps of the queue that move one execution.
LEMMA QueueExecStep ==
    ASSUME TInv, input' \in [Inputs -> InputStates], drain' \in [Servers -> Drains],
           steer' \in [Inputs -> SteerSteps], SteersPlaced',
           exec' \in [Turns -> Execs], ExecsOK', NotYetBegun',
           active' \in [Servers -> Turns \union {NoTurn}], asks' \in 0..MaxAsks,
           UNCHANGED <<room, lease, turn, transcript, faults>>
    PROVE  TInv'
  BY DEF TInv, TypeOK, InputStates, Drains, SteerSteps

LEMMA NoDrainTyped == NoDrain \in Drains
  BY DEF NoDrain, Drains

LEMMA SettlingTyped ==
    ASSUME NEW d \in Drains, NEW x \in {"idle", "claiming", "claimed", "starting", "settling"}
    PROVE  [d EXCEPT !.step = x] \in Drains
  BY DEF Drains

LEMMA ScheduledTyped ==
    ASSUME TInv, NEW s \in Servers, NEW a
    PROVE  Scheduled(s, a) \in Drains
<1>1. drain[s] \in Drains
  BY QueueTypes
<1>2. [NoDrain EXCEPT !.step = "claiming"] \in Drains
  BY NoDrainTyped, SettlingTyped
<1> QED BY <1>1, <1>2 DEF Scheduled

LEMMA DrainUpdate ==
    ASSUME TInv, NEW s, NEW d, s \in Servers => d \in Drains
    PROVE  [drain EXCEPT ![s] = d] \in [Servers -> Drains]
  BY QueueTypes

LEMMA InputUpdate ==
    ASSUME TInv, NEW i, NEW x \in InputStates
    PROVE  [input EXCEPT ![i] = x] \in [Inputs -> InputStates]
  BY QueueTypes

LEMMA QueueTyped == ASSUME TInv, NEW s \in Servers, NEW i \in Inputs, Queue(s, i) PROVE TInv' /\ Hands(i, "queued")
<1>1. input' \in [Inputs -> InputStates]
  BY InputUpdate DEF Queue, InputStates
<1>2. drain' \in [Servers -> Drains]
  BY ScheduledTyped, DrainUpdate DEF Queue
<1>3. steer' \in [Inputs -> SteerSteps] /\ SteersPlaced'
  BY QueueTypes DEF Queue, TInv, SteersPlaced
<1>4. TInv'
  BY <1>1, <1>2, <1>3, QueueStep DEF Queue
<1> QED BY <1>4 DEF Queue, Hands

LEMMA CancelTyped == ASSUME TInv, NEW i \in Inputs, Cancel(i) PROVE TInv' /\ Hands(i, "cancelled")
<1>1. input' \in [Inputs -> InputStates]
  BY InputUpdate DEF Cancel, InputStates
<1>2. drain' \in [Servers -> Drains] /\ steer' \in [Inputs -> SteerSteps] /\ SteersPlaced'
  BY QueueTypes DEF Cancel, TInv, SteersPlaced
<1>3. TInv'
  BY <1>1, <1>2, QueueStep DEF Cancel
<1> QED BY <1>3 DEF Cancel, Hands

LEMMA HandsQuietly ==
    ASSUME TInv, UNCHANGED <<room, lease, turn, transcript, input>>
    PROVE  Effect
  BY QuietLets DEF Effect

LEMMA ClaimTyped == ASSUME TInv, NEW s \in Servers, Claim(s) PROVE TInv' /\ Effect
<1> DEFINE queued == {i \in Inputs : input[i] = "queued"}
<1>1. steer' \in [Inputs -> SteerSteps] /\ SteersPlaced'
  BY QueueTypes DEF Claim, TInv, SteersPlaced
<1>2. CASE active[s] # NoTurn \/ queued = {}
  <2>1. drain' = [drain EXCEPT ![s] = NoDrain] /\ UNCHANGED input
    BY <1>2 DEF Claim
  <2>2. drain' \in [Servers -> Drains] /\ input' \in [Inputs -> InputStates]
    BY <2>1, NoDrainTyped, DrainUpdate, QueueTypes
  <2>3. TInv'
    BY <1>1, <2>2, QueueStep DEF Claim
  <2> QED BY <2>1, <2>3, HandsQuietly DEF Claim
<1>3. CASE ~(active[s] # NoTurn \/ queued = {})
  <2> DEFINE i == CHOOSE j \in queued : \A k \in queued : j <= k
  <2>1. queued \in SUBSET Nat /\ queued # {}
    BY <1>3, InputsAssumption
  <2>2. i \in queued
    BY <2>1, LeastInput
  <2>3. /\ input' = [input EXCEPT ![i] = "starting"]
        /\ drain' = [drain EXCEPT ![s] = [step |-> "claimed", input |-> i]]
    BY <1>3 DEF Claim
  <2> HIDE DEF i
  <2>4. [step |-> "claimed", input |-> i] \in Drains
    BY <2>2 DEF Drains
  <2>5. drain' \in [Servers -> Drains] /\ input' \in [Inputs -> InputStates]
    BY <2>3, <2>4, DrainUpdate, InputUpdate DEF InputStates
  <2>6. TInv'
    BY <1>1, <2>5, QueueStep DEF Claim
  <2>7. Hands(i, "starting")
    BY <2>2, <2>3 DEF Hands, Claim
  <2> QED BY <2>2, <2>6, <2>7 DEF Effect
<1> QED BY <1>2, <1>3

\* A fresh execution.
LEMMA CalledOK ==
    ASSUME NEW s \in Servers, NEW i \in Inputs \union {NoInput}
    PROVE  LET f == [NoExec EXCEPT !.pc = "called", !.server = s, !.input = i] IN
           f \in Execs /\ ExecOK(f) /\ f.pc = "called" /\ f.input = i
<1> DEFINE f == [NoExec EXCEPT !.pc = "called", !.server = s, !.input = i]
<1>1. NoExec \in Execs /\ ExecOK(NoExec)
  BY NoExecOK DEF ExecOK
<1>2. "called" \in Pcs
  BY DEF Pcs, Before
<1>3. f \in Execs
  <2> HIDE DEF NoExec
  <2> QED BY <1>1, <1>2 DEF Execs
<1>4. /\ f.pc = "called" /\ f.server = s /\ f.seg = 1 /\ f.more = FALSE
      /\ f.event = "none" /\ f.tools = 0 /\ f.input = i
  BY DEF NoExec
<1>5. ExecOK(f)
  BY <1>3, <1>4 DEF ExecOK
<1> QED BY <1>3, <1>4, <1>5

LEMMA AskedOK ==
    ASSUME NEW s \in Servers
    PROVE  LET f == [NoExec EXCEPT !.pc = "called", !.server = s] IN
           f \in Execs /\ ExecOK(f) /\ f.pc = "called" /\ f.input = NoInput
<1> DEFINE f == [NoExec EXCEPT !.pc = "called", !.server = s]
<1>1. NoExec \in Execs /\ ExecOK(NoExec)
  BY NoExecOK DEF ExecOK
<1>2. "called" \in Pcs
  BY DEF Pcs, Before
<1>3. f \in Execs
  <2> HIDE DEF NoExec
  <2> QED BY <1>1, <1>2 DEF Execs
<1>4. /\ f.pc = "called" /\ f.server = s /\ f.seg = 1 /\ f.more = FALSE
      /\ f.event = "none" /\ f.tools = 0 /\ f.input = NoInput
  BY DEF NoExec
<1>5. ExecOK(f)
  BY <1>3, <1>4 DEF ExecOK
<1> QED BY <1>3, <1>4, <1>5

LEMMA FreeTurn == ASSUME TInv, NEW t \in FreeTurns PROVE t \in Turns /\ turn[t].status = "none"
  BY DEF TInv, NotYetBegun, FreeTurns, Before

LEMMA AskTyped == ASSUME TInv, NEW s \in Servers, Ask(s) PROVE TInv' /\ Effect
<1>1. PICK t \in FreeTurns : Set(t, [NoExec EXCEPT !.pc = "called", !.server = s])
  BY DEF Ask
<1> DEFINE f == [NoExec EXCEPT !.pc = "called", !.server = s]
<1>2. f \in Execs /\ ExecOK(f) /\ f.pc = "called"
  BY AskedOK
<1>4. exec' \in [Turns -> Execs] /\ ExecsOK' /\ NotYetBegun'
  BY <1>1, <1>2, FreeTurn, ExecStep DEF Ask
<1>5. asks' \in 0..MaxAsks
  BY BoundsAssumption DEF Ask, TInv, TypeOK
<1>6. input' \in [Inputs -> InputStates] /\ drain' \in [Servers -> Drains]
      /\ steer' \in [Inputs -> SteerSteps] /\ active' \in [Servers -> Turns \union {NoTurn}]
      /\ SteersPlaced'
  BY QueueTypes DEF Ask, queueVars, TInv, SteersPlaced
<1>7. TInv'
  BY <1>4, <1>5, <1>6, QueueExecStep DEF Ask
<1> QED BY <1>7, HandsQuietly DEF Ask, queueVars

LEMMA StartClaimedTyped == ASSUME TInv, NEW s \in Servers, StartClaimed(s) PROVE TInv' /\ Effect
<1>1. /\ input' \in [Inputs -> InputStates]
      /\ steer' \in [Inputs -> SteerSteps] /\ SteersPlaced'
  BY QueueTypes DEF StartClaimed, TInv, SteersPlaced
<1>2. drain[s] \in Drains
  BY QueueTypes
<1>3. \A x \in {"starting", "settling"} : [drain EXCEPT ![s].step = x] \in [Servers -> Drains]
  BY <1>2, SettlingTyped, DrainUpdate
<1>4. drain' \in [Servers -> Drains]
  BY <1>3 DEF StartClaimed
<1>5. CASE active[s] # NoTurn
  <2>1. TInv'
    BY <1>1, <1>4, <1>5, QueueStep DEF StartClaimed
  <2> QED BY <2>1, HandsQuietly DEF StartClaimed
<1>6. CASE active[s] = NoTurn
  <2> DEFINE f == [NoExec EXCEPT !.pc = "called", !.server = s, !.input = drain[s].input]
  <2>1. PICK t \in FreeTurns : Set(t, f)
    BY <1>6 DEF StartClaimed
  <2>2. drain[s].input \in Inputs \union {NoInput}
    BY <1>2 DEF Drains
  <2>3. f \in Execs /\ ExecOK(f) /\ f.pc = "called"
    BY <2>2, CalledOK
  <2>4. exec' \in [Turns -> Execs] /\ ExecsOK' /\ NotYetBegun'
    <3> HIDE DEF f
    <3> QED BY <2>1, <2>3, FreeTurn, ExecStep DEF StartClaimed
  <2>5. active' \in [Servers -> Turns \union {NoTurn}] /\ asks' \in 0..MaxAsks
    BY DEF StartClaimed, TInv, TypeOK, budget
  <2>6. UNCHANGED <<room, lease, turn, transcript, input, faults>>
    BY DEF StartClaimed, budget
  <2>7. TInv'
    BY <1>1, <1>4, <2>4, <2>5, <2>6, QueueExecStep
  <2> QED BY <2>6, <2>7, HandsQuietly
<1> QED BY <1>5, <1>6

LEMMA SettleTyped == ASSUME TInv, NEW s \in Servers, Settle(s) PROVE TInv' /\ Effect
<1> DEFINE i == drain[s].input
<1>1. steer' \in [Inputs -> SteerSteps] /\ SteersPlaced'
  BY QueueTypes DEF Settle, TInv, SteersPlaced
<1>2. drain' \in [Servers -> Drains]
  BY NoDrainTyped, DrainUpdate DEF Settle
<1>3. input' = (IF input[i] = "starting" THEN [input EXCEPT ![i] = "queued"] ELSE input)
  BY DEF Settle
<1>4. input' \in [Inputs -> InputStates]
  BY <1>3, InputUpdate, QueueTypes DEF InputStates
<1>5. TInv'
  BY <1>1, <1>2, <1>4, QueueStep DEF Settle
<1>6. CASE input[i] = "starting" /\ i \in Inputs
  <2>1. Hands(i, "queued")
    BY <1>3, <1>6 DEF Hands, Settle
  <2> QED BY <1>5, <1>6, <2>1 DEF Effect
<1>7. CASE input[i] # "starting" \/ i \notin Inputs
  <2>1. UNCHANGED input
    BY <1>3, <1>7, QueueTypes
  <2> QED BY <1>5, <2>1, HandsQuietly DEF Settle
<1> QED BY <1>6, <1>7

LEMMA SteerMarkTyped ==
    ASSUME TInv, NEW s \in Servers, NEW i \in Inputs, SteerMark(s, i)
    PROVE  TInv' /\ Hands(i, "steering")
<1>1. input' \in [Inputs -> InputStates]
  BY InputUpdate DEF SteerMark, InputStates
<1>2. drain' \in [Servers -> Drains]
  BY QueueTypes DEF SteerMark
<1>3. [step |-> "marked", server |-> s] \in SteerSteps
  BY DEF SteerSteps
<1>4. steer' \in [Inputs -> SteerSteps]
  BY <1>3, QueueTypes DEF SteerMark
<1>5. SteersPlaced'
  BY QueueTypes DEF SteerMark, TInv, SteersPlaced
<1>6. TInv'
  BY <1>1, <1>2, <1>4, <1>5, QueueStep DEF SteerMark
<1> QED BY <1>6 DEF SteerMark, Hands

\* A steer that is over, or that stands elsewhere.
LEMMA SteerUpdate ==
    ASSUME TInv, NEW i \in Inputs,
           \/ steer' = [steer EXCEPT ![i] = NoSteer]
           \/ steer[i].step # "none" /\ \E x \in {"sent", "refused"} : steer' = [steer EXCEPT ![i].step = x]
    PROVE  steer' \in [Inputs -> SteerSteps] /\ SteersPlaced'
<1>1. steer \in [Inputs -> SteerSteps] /\ \A j \in Inputs : steer[j] \in SteerSteps
  BY QueueTypes
<1>2. CASE steer' = [steer EXCEPT ![i] = NoSteer]
  <2>1. NoSteer \in SteerSteps /\ NoSteer.step = "none"
    BY DEF NoSteer, SteerSteps
  <2> QED BY <1>1, <1>2, <2>1 DEF TInv, SteersPlaced
<1>3. ASSUME steer[i].step # "none", NEW x \in {"sent", "refused"}, steer' = [steer EXCEPT ![i].step = x]
      PROVE  steer' \in [Inputs -> SteerSteps] /\ SteersPlaced'
  <2>1. [steer[i] EXCEPT !.step = x] \in SteerSteps /\ [steer[i] EXCEPT !.step = x].server = steer[i].server
    BY <1>1 DEF SteerSteps
  <2>2. steer' = [steer EXCEPT ![i] = [steer[i] EXCEPT !.step = x]]
    BY <1>3
  <2>3. steer' \in [Inputs -> SteerSteps]
    BY <1>1, <2>1, <2>2
  <2>4. \A j \in Inputs : steer'[j].server = steer[j].server /\ (j # i => steer'[j] = steer[j])
    BY <1>1, <2>1, <2>2
  <2>5. SteersPlaced'
    BY <1>3, <2>4 DEF TInv, SteersPlaced
  <2> QED BY <2>3, <2>5
<1> QED BY <1>2, <1>3

LEMMA SteerSendTyped == ASSUME TInv, NEW i \in Inputs, SteerSend(i) PROVE TInv' /\ Effect
<1> DEFINE t == active[steer[i].server]
           e == exec[t]
           f == [e EXCEPT !.pending = @ \union {i}, !.got = @ \union {i}]
<1>1. steer[i].step # "none" /\ steer[i].server \in Servers
  BY DEF SteerSend, TInv, SteersPlaced
<1>2. steer' \in [Inputs -> SteerSteps] /\ SteersPlaced'
  BY <1>1, SteerUpdate DEF SteerSend
<1>3. input' \in [Inputs -> InputStates] /\ drain' \in [Servers -> Drains]
      /\ active' \in [Servers -> Turns \union {NoTurn}] /\ asks' \in 0..MaxAsks
  BY QueueTypes DEF SteerSend, TInv, TypeOK, budget
<1>4. UNCHANGED <<room, lease, turn, transcript, input, active, faults, budget>>
  BY DEF SteerSend, budget
<1>5. CASE t # NoTurn /\ e.pc = "working"
  <2>1. t \in Turns
    BY <1>1, <1>5, QueueTypes
  <2>2. e \in Execs /\ ExecOK(e) /\ e.pc \notin Before
    BY <1>5, <2>1, AtWork DEF Before
  <2>3. e.pending \union {i} \in SUBSET Inputs /\ e.got \union {i} \in SUBSET Inputs
    BY <2>2 DEF Execs
  <2>4. f \in Execs /\ ExecOK(f) /\ f.pc \notin Before
    <3> HIDE DEF e
    <3>1. f \in Execs
      BY <2>2, <2>3 DEF Execs
    <3>2. /\ f.pc = e.pc /\ f.server = e.server /\ f.seg = e.seg /\ f.more = e.more
          /\ f.event = e.event /\ f.tools = e.tools
      BY <2>2 DEF Execs
    <3> QED BY <2>2, <3>1, <3>2 DEF ExecOK
  <2>5. Set(t, f)
    BY <1>5 DEF SteerSend
  <2>6. exec' \in [Turns -> Execs] /\ ExecsOK' /\ NotYetBegun'
    <3> HIDE DEF f, t
    <3> QED BY <1>4, <2>1, <2>4, <2>5, ExecStep
  <2>7. TInv'
    BY <1>2, <1>3, <1>4, <2>6, QueueExecStep
  <2> QED BY <1>4, <2>7, HandsQuietly
<1>6. CASE ~(t # NoTurn /\ e.pc = "working")
  <2>1. UNCHANGED exec
    BY <1>6 DEF SteerSend
  <2>2. TInv'
    BY <1>2, <1>3, <1>4, <2>1, QueueStep
  <2> QED BY <1>4, <2>2, HandsQuietly
<1> QED BY <1>5, <1>6

LEMMA SteerAcceptedTyped == ASSUME TInv, NEW i \in Inputs, SteerAccepted(i) PROVE TInv' /\ Effect
<1>1. steer' \in [Inputs -> SteerSteps] /\ SteersPlaced'
  BY SteerUpdate DEF SteerAccepted
<1>2. input' \in [Inputs -> InputStates] /\ drain' \in [Servers -> Drains]
  BY QueueTypes DEF SteerAccepted
<1>3. TInv'
  BY <1>1, <1>2, QueueStep DEF SteerAccepted
<1> QED BY <1>3, HandsQuietly DEF SteerAccepted

\* Many executions may change, but not their places.
LEMMA ExecsStep ==
    ASSUME TInv, exec' = [t \in Turns |-> exec'[t]],
           \A t \in Turns :
              /\ exec'[t] \in Execs /\ ExecOK(exec'[t])
              /\ exec'[t].pc \in Before => exec[t].pc \in Before,
           UNCHANGED turn
    PROVE  exec' \in [Turns -> Execs] /\ ExecsOK' /\ NotYetBegun'
<1>1. exec' \in [Turns -> Execs]
  OBVIOUS
<1>2. ExecsOK'
  BY DEF ExecsOK
<1>3. NotYetBegun'
  BY DEF TInv, NotYetBegun
<1> QED BY <1>1, <1>2, <1>3

LEMMA SteerRefusedTyped == ASSUME TInv, NEW i \in Inputs, SteerRefused(i) PROVE TInv' /\ Effect
<1>1. steer' \in [Inputs -> SteerSteps] /\ SteersPlaced'
  BY SteerUpdate DEF SteerRefused
<1>2. input' \in [Inputs -> InputStates] /\ drain' \in [Servers -> Drains]
      /\ active' \in [Servers -> Turns \union {NoTurn}] /\ asks' \in 0..MaxAsks
  BY QueueTypes DEF SteerRefused, TInv, TypeOK, budget
<1>3. PICK late \in BOOLEAN :
         exec' = [t \in Turns |->
                    [exec[t] EXCEPT !.pending = @ \ {i}, !.got = IF late THEN @ ELSE @ \ {i}]]
  BY DEF SteerRefused
<1>4. ASSUME NEW t \in Turns
      PROVE  /\ exec'[t] \in Execs /\ ExecOK(exec'[t])
             /\ exec'[t].pc \in Before => exec[t].pc \in Before
  <2> DEFINE e == exec[t]
  <2>1. e \in Execs /\ ExecOK(e)
    BY AtWork
  <2>2. PICK got \in SUBSET Inputs : got = (IF late THEN e.got ELSE e.got \ {i})
    BY <2>1 DEF Execs
  <2>3. PICK pending \in SUBSET Inputs : pending = e.pending \ {i}
    BY <2>1 DEF Execs
  <2>4. exec'[t] = [e EXCEPT !.pending = pending, !.got = got]
    BY <1>3, <2>2, <2>3
  <2> DEFINE f == [e EXCEPT !.pending = pending, !.got = got]
  <2>5. f \in Execs
    <3> HIDE DEF e
    <3> QED BY <2>1 DEF Execs
  <2>6. /\ f.pc = e.pc /\ f.server = e.server /\ f.seg = e.seg /\ f.more = e.more
        /\ f.event = e.event /\ f.tools = e.tools
    <3> HIDE DEF e
    <3> QED BY <2>1 DEF Execs
  <2>7. ExecOK(f)
    BY <2>1, <2>5, <2>6 DEF ExecOK
  <2> QED BY <2>4, <2>5, <2>6, <2>7
<1>5. UNCHANGED <<room, lease, turn, transcript, input, active, faults>>
      /\ exec' = [t \in Turns |-> exec'[t]]
  BY <1>3 DEF SteerRefused, budget
<1>6. exec' \in [Turns -> Execs] /\ ExecsOK' /\ NotYetBegun'
  BY <1>4, <1>5, ExecsStep
<1>7. TInv'
  BY <1>1, <1>2, <1>5, <1>6, QueueExecStep
<1> QED BY <1>5, <1>7, HandsQuietly

LEMMA SteerSettleTyped == ASSUME TInv, NEW i \in Inputs, SteerSettle(i) PROVE TInv' /\ Effect
<1> DEFINE s == steer[i].server
<1>1. steer' \in [Inputs -> SteerSteps] /\ SteersPlaced'
  BY SteerUpdate DEF SteerSettle
<1>2. s \in Servers
  BY DEF SteerSettle, TInv, SteersPlaced
<1>3. drain' \in [Servers -> Drains]
  BY <1>2, ScheduledTyped, DrainUpdate DEF SteerSettle
<1>4. input' = (IF input[i] = "steering" THEN [input EXCEPT ![i] = "queued"] ELSE input)
  BY DEF SteerSettle
<1>5. input' \in [Inputs -> InputStates]
  BY <1>4, InputUpdate, QueueTypes DEF InputStates
<1>6. TInv'
  BY <1>1, <1>3, <1>5, QueueStep DEF SteerSettle
<1>7. CASE input[i] = "steering"
  <2>1. Hands(i, "queued")
    BY <1>4, <1>7 DEF Hands, SteerSettle
  <2> QED BY <1>6, <2>1 DEF Effect
<1>8. CASE input[i] # "steering"
  BY <1>4, <1>6, <1>8, HandsQuietly DEF SteerSettle
<1> QED BY <1>7, <1>8

LEMMA RequeueStaleTyped == ASSUME TInv, NEW i \in Inputs, RequeueStale(i) PROVE TInv' /\ Effect
<1>1. input' \in [Inputs -> InputStates]
  BY InputUpdate DEF RequeueStale, InputStates
<1>2. faults' \in 0..MaxFaults
  BY FaultCounted DEF RequeueStale, TInv, TypeOK
<1>3. UNCHANGED <<room, lease, turn, transcript, exec, active, drain, steer, asks>>
  BY DEF RequeueStale
<1>4. TInv'
  BY <1>1, <1>2, <1>3 DEF TInv, TypeOK, InputStates, ExecsOK, NotYetBegun, SteersPlaced
<1>5. Hands(i, "queued")
  BY DEF Hands, RequeueStale
<1> QED BY <1>4, <1>5 DEF Effect

LEMMA ResumeTyped == ASSUME TInv, NEW s \in Servers, Resume(s) PROVE TInv' /\ Effect
<1>1. drain' \in [Servers -> Drains]
  BY ScheduledTyped, DrainUpdate DEF Resume
<1>2. input' \in [Inputs -> InputStates] /\ steer' \in [Inputs -> SteerSteps] /\ SteersPlaced'
  BY QueueTypes DEF Resume, TInv, SteersPlaced
<1>3. TInv'
  BY <1>1, <1>2, QueueStep DEF Resume
<1> QED BY <1>3, HandsQuietly DEF Resume

-----------------------------------------------------------------------------
(* Beginning and leaving.                                                  *)

LEMMA RequeueSteerTyped == ASSUME TInv, NEW t \in Turns, RequeueSteer(t) PROVE TInv' /\ Effect
<1> DEFINE e == exec[t]
<1>1. PICK i \in e.pending :
         /\ input' = IF input[i] = "steering" THEN [input EXCEPT ![i] = "queued"] ELSE input
         /\ Set(t, [e EXCEPT !.pending = @ \ {i}])
  BY DEF RequeueSteer
<1> DEFINE f == [e EXCEPT !.pending = @ \ {i}]
<1>2. e \in Execs /\ ExecOK(e) /\ e.pc \notin Before
  BY AtWork DEF RequeueSteer, Before
<1>3. i \in Inputs /\ e.pending \ {i} \in SUBSET Inputs
  BY <1>2 DEF Execs
<1>4. f \in Execs /\ ExecOK(f) /\ f.pc \notin Before
  <2>1. f \in Execs
    <3> HIDE DEF e
    <3> QED BY <1>2, <1>3 DEF Execs
  <2>2. /\ f.pc = e.pc /\ f.server = e.server /\ f.seg = e.seg /\ f.more = e.more
        /\ f.event = e.event /\ f.tools = e.tools
    BY <1>2 DEF Execs
  <2> QED BY <1>2, <2>1, <2>2 DEF ExecOK
<1>5. UNCHANGED <<room, lease, turn, transcript, active, drain, steer, budget>>
  BY DEF RequeueSteer
<1>6. exec' \in [Turns -> Execs] /\ ExecsOK' /\ NotYetBegun'
  <2> HIDE DEF f
  <2> QED BY <1>1, <1>4, <1>5, ExecStep DEF f
<1>7. input' \in [Inputs -> InputStates]
  BY <1>1, InputUpdate, QueueTypes DEF InputStates
<1>8. TInv'
  BY <1>5, <1>6, <1>7 DEF TInv, TypeOK, InputStates, SteersPlaced, budget
<1>9. CASE input[i] = "steering"
  <2>1. Hands(i, "queued")
    BY <1>1, <1>5, <1>9 DEF Hands
  <2> QED BY <1>3, <1>8, <2>1 DEF Effect
<1>10. CASE input[i] # "steering"
  BY <1>1, <1>5, <1>8, <1>10, HandsQuietly
<1> QED BY <1>9, <1>10

LEMMA LeaveTyped == ASSUME TInv, NEW t \in Turns, Leave(t) PROVE TInv' /\ Effect
<1> DEFINE f == [exec[t] EXCEPT !.pc = "releasing"]
<1>1. exec[t] \in Execs /\ ExecOK(exec[t]) /\ exec[t].pc # "none"
  BY AtWork DEF Leave, Before
<1>2. f \in Execs /\ ExecOK(f) /\ f.pc \notin Before
  BY <1>1, MovesOK DEF Pcs, Unwinding, Before
<1>3. UNCHANGED <<room, lease, turn, transcript, queueVars, budget>> /\ Set(t, f)
  BY DEF Leave
<1>4. exec' \in [Turns -> Execs] /\ ExecsOK' /\ NotYetBegun'
  BY <1>2, <1>3, ExecStep
<1>5. active' \in [Servers -> Turns \union {NoTurn}]
  BY QueueTypes DEF Leave
<1>6. TInv'
  BY <1>3, <1>4, <1>5 DEF TInv, TypeOK, SteersPlaced, queueVars, budget
<1> QED BY <1>3, <1>6, HandsQuietly DEF queueVars

LEMMA ReleaseTyped == ASSUME TInv, NEW t \in Turns, Release(t) PROVE TInv' /\ Effect
<1> DEFINE f == [exec[t] EXCEPT !.pc = "done"]
           s == exec[t].server
<1>1. exec[t] \in Execs /\ ExecOK(exec[t]) /\ exec[t].pc # "none" /\ s \in Servers
  BY AtWork DEF Release, Before
<1>2. f \in Execs /\ ExecOK(f) /\ f.pc \notin Before
  BY <1>1, MovesOK DEF Pcs, Before
<1>3. UNCHANGED <<room, turn, transcript, input, active, steer, budget>> /\ Set(t, f)
  BY DEF Release
<1>4. exec' \in [Turns -> Execs] /\ ExecsOK' /\ NotYetBegun'
  BY <1>2, <1>3, ExecStep
<1>5. drain' \in [Servers -> Drains]
  BY <1>1, ScheduledTyped, DrainUpdate, QueueTypes DEF Release
<1>6. lease' = NoLease \/ lease' = lease
  BY DEF Release
<1>7. Shrinks /\ lease' \in [turn : Turns \union {NoTurn}, fence : Nat, live : BOOLEAN]
  <2>1. CASE lease' = NoLease
    BY <1>3, <2>1, LeaseGone
  <2>2. CASE lease' = lease
    BY <1>3, <2>2, Undisturbed DEF TInv, TypeOK
  <2> QED BY <1>6, <2>1, <2>2
<1>8. TInv'
  BY <1>3, <1>4, <1>5, <1>7 DEF TInv, TypeOK, SteersPlaced, Drains, budget
<1>9. Lets
  BY <1>3, <1>7, SameItself DEF Lets, TInv, TypeOK
<1> QED BY <1>8, <1>9 DEF Effect

\* The transaction that begins a turn.
LEMMA CommenceTyped ==
    ASSUME TInv, NEW t \in Turns, exec[t].pc = "called", Commence(t)
    PROVE  /\ room' = "running"
           /\ lease' \in [turn : Turns \union {NoTurn}, fence : Nat, live : BOOLEAN]
           /\ turn' \in [Turns -> [status : TurnStatuses, fence : Nat]]
           /\ transcript' \in Seq(Entries)
           /\ input' \in [Inputs -> InputStates]
           /\ turn[t].status = "none"
           /\ turn'[t].status = "running" /\ \A u \in Turns \ {t} : turn'[u] = turn[u]
<1> DEFINE i == exec[t].input
           fence == IF lease.turn = NoTurn THEN 1 ELSE lease.fence + 1
           prompt == IF i = NoInput THEN <<>> ELSE <<Entry(t, "prompt", "complete", i)>>
<1>1. fence \in Nat
  BY DEF TInv, TypeOK
<1>2. i \in Inputs \union {NoInput} /\ Inputs \subseteq Nat
  BY InputsAssumption, AtWork DEF Execs
<1>3. /\ lease' = [turn |-> t, fence |-> fence, live |-> TRUE]
      /\ turn' = [turn EXCEPT ![t] = [status |-> "running", fence |-> fence]]
      /\ room' = "running"
      /\ transcript' = transcript \o prompt \o <<Entry(t, "answer", "streaming", 1)>>
      /\ input' = IF i = NoInput THEN input ELSE [input EXCEPT ![i] = t]
  BY DEF Commence
<1>4. lease' \in [turn : Turns \union {NoTurn}, fence : Nat, live : BOOLEAN]
  BY <1>1, <1>3
<1>5. /\ turn' \in [Turns -> [status : TurnStatuses, fence : Nat]]
      /\ turn'[t].status = "running" /\ \A u \in Turns \ {t} : turn'[u] = turn[u]
  <2> HIDE DEF fence
  <2>1. [status |-> "running", fence |-> fence] \in [status : TurnStatuses, fence : Nat]
    BY <1>1 DEF TurnStatuses
  <2> QED BY <1>3, <2>1 DEF TInv, TypeOK
<1>6. transcript' \in Seq(Entries)
  <2>1. Entry(t, "answer", "streaming", 1) \in Entries
    BY EntryTyped
  <2>2. prompt \in Seq(Entries)
    <3>1. CASE i = NoInput
      BY <3>1
    <3>2. CASE i # NoInput
      <4>1. i \in Nat
        BY <1>2, <3>2
      <4>2. Entry(t, "prompt", "complete", i) \in Entries
        BY <4>1, EntryTyped
      <4> QED BY <3>2, <4>2
    <3> QED BY <3>1, <3>2
  <2> HIDE DEF prompt
  <2> QED BY <1>3, <2>1, <2>2 DEF TInv, TypeOK
<1>7. input' \in [Inputs -> InputStates]
  BY <1>3, InputUpdate, QueueTypes DEF InputStates
<1>8. turn[t].status = "none"
  BY DEF TInv, NotYetBegun, Before
<1> QED BY <1>3, <1>4, <1>5, <1>6, <1>7, <1>8

LEMMA BeginTyped == ASSUME TInv, NEW t \in Turns, Begin(t) PROVE TInv' /\ Effect
<1> DEFINE e == exec[t]
           s == e.server
           f == [e EXCEPT !.pc = "preparing"]
<1>1. e \in Execs /\ ExecOK(e) /\ e.pc = "called" /\ s \in Servers
  BY AtWork DEF Begin, ExecOK
<1>2. UNCHANGED <<steer, budget>>
  BY DEF Begin
<1>3. CASE /\ CanCommence(t) /\ Commence(t) /\ Set(t, f)
           /\ active' = [active EXCEPT ![s] = t]
           /\ drain' = IF e.input = NoInput THEN drain ELSE [drain EXCEPT ![s] = NoDrain]
  <2>1. /\ room' = "running"
        /\ lease' \in [turn : Turns \union {NoTurn}, fence : Nat, live : BOOLEAN]
        /\ turn' \in [Turns -> [status : TurnStatuses, fence : Nat]]
        /\ transcript' \in Seq(Entries)
        /\ input' \in [Inputs -> InputStates]
        /\ turn[t].status = "none" /\ \A u \in Turns \ {t} : turn'[u] = turn[u]
    BY <1>1, <1>3, CommenceTyped
  <2>2. f \in Execs /\ ExecOK(f) /\ f.pc \notin Before
    BY <1>1 DEF Execs, ExecOK, Pcs, Working, Before
  <2>3. exec' \in [Turns -> Execs] /\ ExecsOK' /\ NotYetBegun'
    BY <1>3, <2>1, <2>2, ExecStep
  <2>4. active' \in [Servers -> Turns \union {NoTurn}] /\ drain' \in [Servers -> Drains]
    BY <1>3, QueueTypes, NoDrainTyped, DrainUpdate
  <2>5. TInv'
    BY <1>2, <2>1, <2>3, <2>4 DEF TInv, TypeOK, InputStates, Drains, SteersPlaced, budget
  <2>6. Begins(t)
    BY <1>3, <2>1 DEF Begins
  <2> QED BY <2>5, <2>6 DEF Effect
<1>4. CASE Refuse(t) /\ UNCHANGED <<room, lease, turn, transcript, input, active>>
  <2>1. Set(t, NoExec) /\ turn[t].status = "none"
    BY <1>1, <1>4 DEF Refuse, TInv, NotYetBegun, Before
  <2>2. NoExec \in Execs /\ ExecOK(NoExec)
    BY NoExecOK DEF ExecOK
  <2>3. exec' \in [Turns -> Execs] /\ ExecsOK' /\ NotYetBegun'
    BY <1>4, <2>1, <2>2, ExecStep
  <2>4. [drain[s] EXCEPT !.step = "settling"] \in Drains
    BY <1>1, QueueTypes, SettlingTyped
  <2>5. drain' \in [Servers -> Drains]
    BY <1>4, <2>4, DrainUpdate, QueueTypes DEF Refuse
  <2>6. TInv'
    BY <1>2, <1>4, <2>3, <2>5 DEF TInv, TypeOK, Drains, SteersPlaced, budget
  <2> QED BY <1>4, <2>6, HandsQuietly
<1> QED BY <1>3, <1>4 DEF Begin

LEMMA BeginUnacknowledgedTyped ==
    ASSUME TInv, NEW t \in Turns, BeginUnacknowledged(t) PROVE TInv' /\ Effect
<1> DEFINE e == exec[t]
           s == e.server
           f == [e EXCEPT !.pc = "done"]
<1>1. e \in Execs /\ ExecOK(e) /\ e.pc = "called" /\ s \in Servers
  BY AtWork DEF BeginUnacknowledged, ExecOK
<1>2. /\ UNCHANGED <<active, steer, asks>> /\ CanCommence(t) /\ Commence(t) /\ Set(t, f)
      /\ drain' = IF e.input = NoInput THEN drain ELSE [drain EXCEPT ![s].step = "settling"]
  BY DEF BeginUnacknowledged
<1>3. /\ room' = "running"
      /\ lease' \in [turn : Turns \union {NoTurn}, fence : Nat, live : BOOLEAN]
      /\ turn' \in [Turns -> [status : TurnStatuses, fence : Nat]]
      /\ transcript' \in Seq(Entries)
      /\ input' \in [Inputs -> InputStates]
      /\ turn[t].status = "none" /\ \A u \in Turns \ {t} : turn'[u] = turn[u]
  BY <1>1, <1>2, CommenceTyped
<1>4. f \in Execs /\ ExecOK(f) /\ f.pc \notin Before
  BY <1>1, MovesOK DEF Pcs, Before
<1>5. exec' \in [Turns -> Execs] /\ ExecsOK' /\ NotYetBegun'
  BY <1>2, <1>3, <1>4, ExecStep
<1>6. [drain[s] EXCEPT !.step = "settling"] \in Drains
  BY <1>1, QueueTypes, SettlingTyped
<1>7. drain' \in [Servers -> Drains]
  BY <1>2, <1>6, DrainUpdate, QueueTypes
<1>8. faults' \in 0..MaxFaults
  BY FaultCounted DEF BeginUnacknowledged
<1>9. TInv'
  BY <1>2, <1>3, <1>5, <1>7, <1>8 DEF TInv, TypeOK, InputStates, Drains, SteersPlaced
<1>10. Begins(t)
  BY <1>2, <1>3 DEF Begins
<1> QED BY <1>9, <1>10 DEF Effect

-----------------------------------------------------------------------------
(* Faults and recovery.                                                    *)

LEMMA LeaseExpiresTyped == ASSUME TInv, LeaseExpires PROVE TInv' /\ Effect
<1>1. lease' = [lease EXCEPT !.live = FALSE]
      /\ UNCHANGED <<room, turn, transcript, exec, active, queueVars, asks>>
  BY DEF LeaseExpires
<1>2. Shrinks /\ lease' \in [turn : Turns \union {NoTurn}, fence : Nat, live : BOOLEAN]
  BY <1>1, LeaseGone
<1>3. faults' \in 0..MaxFaults
  BY FaultCounted DEF LeaseExpires, TInv, TypeOK
<1>4. TInv'
  BY <1>1, <1>2, <1>3 DEF TInv, TypeOK, ExecsOK, NotYetBegun, SteersPlaced, queueVars
<1>5. Lets
  BY <1>1, <1>2, SameItself DEF Lets, TInv, TypeOK, queueVars
<1> QED BY <1>4, <1>5 DEF Effect

LEMMA CrashTyped == ASSUME TInv, NEW s \in Servers, Crash(s) PROVE TInv' /\ Effect
<1>1. exec' = [t \in Turns |->
           IF exec[t].server # s \/ exec[t].pc = "done" THEN exec[t]
           ELSE IF exec[t].pc = "called" THEN NoExec
           ELSE [exec[t] EXCEPT !.pc = "gone", !.event = "none", !.steered = NoInput,
                                !.pending = {}, !.got = {}]]
  BY DEF Crash
<1>2. ASSUME NEW t \in Turns
      PROVE  /\ exec'[t] \in Execs /\ ExecOK(exec'[t])
             /\ exec'[t].pc \in Before => exec[t].pc \in Before
  <2> DEFINE e == exec[t]
             f == [e EXCEPT !.pc = "gone", !.event = "none", !.steered = NoInput,
                            !.pending = {}, !.got = {}]
  <2>1. e \in Execs /\ ExecOK(e)
    BY AtWork
  <2>2. exec'[t] \in {e, NoExec, f}
    BY <1>1
  <2>3. CASE exec'[t] = e
    BY <2>1, <2>3
  <2>4. CASE exec'[t] = NoExec /\ e.pc = "called"
    BY <2>4, NoExecOK DEF Before, ExecOK
  <2>5. CASE exec'[t] = f /\ e.server = s
    <3>1. "gone" \in Pcs /\ "gone" \notin Before /\ {} \in SUBSET Inputs
      BY DEF Pcs, Before
    <3>2. f \in Execs
      <4> HIDE DEF e
      <4> QED BY <2>1, <3>1 DEF Execs
    <3>3. /\ f.pc = "gone" /\ f.server = e.server /\ f.seg = e.seg
          /\ f.more = e.more /\ f.event = "none" /\ f.tools = e.tools
      <4> HIDE DEF e
      <4> QED BY <2>1 DEF Execs
    <3>4. ExecOK(f)
      BY <2>1, <2>5, <3>1, <3>2, <3>3 DEF ExecOK
    <3> QED BY <2>5, <3>1, <3>2, <3>3, <3>4
  <2> QED BY <1>1, <2>3, <2>4, <2>5
<1>3. UNCHANGED <<room, lease, turn, transcript, input, asks>>
      /\ exec' = [t \in Turns |-> exec'[t]]
  BY <1>1 DEF Crash
<1>4. exec' \in [Turns -> Execs] /\ ExecsOK' /\ NotYetBegun'
  BY <1>2, <1>3, ExecsStep
<1>5. active' \in [Servers -> Turns \union {NoTurn}] /\ drain' \in [Servers -> Drains]
  BY QueueTypes, NoDrainTyped, DrainUpdate DEF Crash
<1>6. steer' \in [Inputs -> SteerSteps] /\ SteersPlaced'
  <2>1. NoSteer \in SteerSteps /\ NoSteer.step = "none"
    BY DEF NoSteer, SteerSteps
  <2>2. steer' = [i \in Inputs |-> IF steer[i].server = s THEN NoSteer ELSE steer[i]]
    BY DEF Crash
  <2> QED BY <2>1, <2>2, QueueTypes DEF TInv, SteersPlaced
<1>7. faults' \in 0..MaxFaults
  BY FaultCounted DEF Crash
<1>8. TInv'
  BY <1>3, <1>4, <1>5, <1>6, <1>7 DEF TInv, TypeOK, Drains, SteerSteps
<1> QED BY <1>3, <1>8, HandsQuietly

LEMMA FailInterruptedTyped == ASSUME TInv, FailInterrupted PROVE TInv' /\ Effect
<1> DEFINE failed == {t \in Turns : turn[t].status = "running" /\ ~(lease.turn = t /\ lease.live)}
<1>1. /\ turn' = [t \in Turns |-> IF t \in failed THEN [turn[t] EXCEPT !.status = "error"] ELSE turn[t]]
      /\ lease' = IF lease.turn \in failed THEN NoLease ELSE lease
      /\ transcript' = [k \in DOMAIN transcript |->
             IF transcript[k].turn \in failed /\ transcript[k].state = "streaming"
             THEN [transcript[k] EXCEPT !.state = "error"] ELSE transcript[k]]
      /\ UNCHANGED <<room, exec, active, queueVars, budget>>
  BY DEF FailInterrupted
<1>2. \A t \in Turns : turn[t] \in [status : TurnStatuses, fence : Nat]
  BY DEF TInv, TypeOK
<1>3. ASSUME NEW t \in Turns
      PROVE  /\ turn'[t] \in [status : TurnStatuses, fence : Nat]
             /\ turn'[t].status = "none" <=> turn[t].status = "none"
             /\ t \in failed => turn'[t].status = "error"
             /\ t \notin failed => turn'[t] = turn[t]
  <2>1. CASE t \in failed
    <3>1. turn'[t] = [turn[t] EXCEPT !.status = "error"]
      BY <1>1, <2>1
    <3>2. [turn[t] EXCEPT !.status = "error"] \in [status : TurnStatuses, fence : Nat]
          /\ [turn[t] EXCEPT !.status = "error"].status = "error"
      BY <1>2 DEF TurnStatuses
    <3> QED BY <2>1, <3>1, <3>2
  <2>2. CASE t \notin failed
    BY <1>1, <1>2, <2>2
  <2> QED BY <2>1, <2>2
<1>4. turn' \in [Turns -> [status : TurnStatuses, fence : Nat]]
  BY <1>1, <1>3
<1>5. lease' \in [turn : Turns \union {NoTurn}, fence : Nat, live : BOOLEAN]
  <2>1. NoLease \in [turn : Turns \union {NoTurn}, fence : Nat, live : BOOLEAN]
    BY DEF NoLease
  <2> QED BY <1>1, <2>1 DEF TInv, TypeOK
<1>6. SameEntries(transcript', transcript)
  <2>1. transcript \in Seq(Entries) /\ "error" \in {"streaming", "complete", "error", "deleted"}
    BY DEF TInv, TypeOK
  <2>2. Restated(transcript', transcript, "error")
    BY <1>1 DEF Restated
  <2> QED BY <2>1, <2>2, RestatedSame
<1>7. ASSUME NEW u \in Turns, ClaimHeld(u)' PROVE ClaimHeld(u) /\ room' = room
  <2>1. u \notin failed
    BY <1>3, <1>7 DEF ClaimHeld
  <2>2. turn'[u] = turn[u]
    BY <1>3, <2>1
  <2>3. lease' # NoLease
    BY <1>7, NoClaimWithoutLease
  <2>4. lease' = lease
    BY <1>1, <2>3
  <2> QED BY <1>1, <1>7, <2>2, <2>4 DEF ClaimHeld
<1>8. Shrinks
  BY <1>3, <1>7 DEF Shrinks
<1>9. transcript' \in Seq(Entries)
  BY <1>6 DEF SameEntries
<1>10. TInv'
  BY <1>1, <1>3, <1>4, <1>5, <1>9 DEF TInv, TypeOK, ExecsOK, NotYetBegun, SteersPlaced, queueVars, budget
<1>11. Lets
  BY <1>1, <1>6, <1>8 DEF Lets, queueVars
<1> QED BY <1>10, <1>11 DEF Effect

LEMMA RecoverRoomTyped == ASSUME TInv, RecoverRoom PROVE TInv' /\ Effect
<1>1. lease' = NoLease /\ room' = "error" /\ UNCHANGED <<turn, transcript, exec, active, queueVars, budget>>
  BY DEF RecoverRoom
<1>2. Shrinks /\ lease' \in [turn : Turns \union {NoTurn}, fence : Nat, live : BOOLEAN]
  BY <1>1, LeaseGone
<1>3. TInv'
  BY <1>1, <1>2 DEF TInv, TypeOK, ExecsOK, NotYetBegun, SteersPlaced, queueVars, budget
<1>4. Lets
  BY <1>1, <1>2, SameItself DEF Lets, TInv, TypeOK, queueVars
<1> QED BY <1>3, <1>4 DEF Effect

LEMMA FailOrphansTyped == ASSUME TInv, NEW t \in Turns, FailOrphans(t) PROVE TInv' /\ Effect
<1>1. transcript' = [k \in DOMAIN transcript |->
           IF k \in Streaming(t) THEN [transcript[k] EXCEPT !.state = "error"] ELSE transcript[k]]
  BY DEF FailOrphans
<1>2. UNCHANGED <<room, lease, turn, exec, active, queueVars, asks>>
  BY DEF FailOrphans
<1>3. SameEntries(transcript', transcript)
  <2>1. transcript \in Seq(Entries) /\ "error" \in {"streaming", "complete", "error", "deleted"}
    BY DEF TInv, TypeOK
  <2>2. Restated(transcript', transcript, "error")
    BY <1>1 DEF Restated
  <2> QED BY <2>1, <2>2, RestatedSame
<1>4. faults' \in 0..MaxFaults
  BY FaultCounted DEF FailOrphans, TInv, TypeOK
<1>5. transcript' \in Seq(Entries)
  BY <1>3 DEF SameEntries
<1>6. TInv'
  BY <1>2, <1>4, <1>5 DEF TInv, TypeOK, ExecsOK, NotYetBegun, SteersPlaced, queueVars
<1>7. Lets
  BY <1>2, <1>3, Undisturbed DEF Lets, queueVars
<1> QED BY <1>6, <1>7 DEF Effect

-----------------------------------------------------------------------------
(* Every step keeps the types and has one of the effects.                  *)

LEMMA InitTyped == Init => TInv
<1> SUFFICES ASSUME Init PROVE TInv
  OBVIOUS
<1>1. NoExec \in Execs /\ ExecOK(NoExec) /\ NoExec.pc = "none"
  BY NoExecOK DEF ExecOK, NoExec
<1>2. exec \in [Turns -> Execs] /\ ExecsOK
  <2> HIDE DEF NoExec
  <2> QED BY <1>1 DEF Init, ExecsOK
<1>3. NotYetBegun
  BY DEF Init, NotYetBegun
<1>4. NoSteer \in SteerSteps /\ NoSteer.step = "none" /\ NoDrain \in Drains
  BY NoDrainTyped DEF NoSteer, SteerSteps
<1>5. steer \in [Inputs -> SteerSteps] /\ SteersPlaced /\ drain \in [Servers -> Drains]
  BY <1>4 DEF Init, SteersPlaced
<1>6. lease \in [turn : Turns \union {NoTurn}, fence : Nat, live : BOOLEAN]
  BY DEF Init, NoLease
<1>7. turn \in [Turns -> [status : TurnStatuses, fence : Nat]]
  BY DEF Init, TurnStatuses
<1>8. transcript \in Seq(Entries) /\ room = "idle" /\ asks = 0 /\ faults = 0
      /\ input \in [Inputs -> InputStates] /\ active \in [Servers -> Turns \union {NoTurn}]
  BY DEF Init, InputStates
<1>9. 0 \in 0..MaxAsks /\ 0 \in 0..MaxFaults
  BY BoundsAssumption
<1> QED BY <1>2, <1>3, <1>5, <1>6, <1>7, <1>8, <1>9 DEF TInv, TypeOK, InputStates, SteerSteps, Drains

LEMMA QuietMoves ==
    ASSUME TInv, NEW t \in Turns,
           \/ Prepare(t) \/ Stop(t) \/ WorkFails(t) \/ Arrive(t) \/ AgentEnds(t)
           \/ TimeOut(t) \/ NoticeLost(t)
    PROVE  TInv' /\ Effect
<1>1. TInv'
  BY PrepareTyped, StopTyped, WorkFailsTyped, ArriveTyped, AgentEndsTyped, TimeOutTyped, NoticeLostTyped
<1>2. UNCHANGED <<room, lease, turn, transcript, input>>
  BY DEF Prepare, Stop, WorkFails, Arrive, AgentEnds, TimeOut, NoticeLost, queueVars
<1> QED BY <1>1, <1>2, HandsQuietly

LEMMA EndsEffect == ASSUME TInv, NEW t \in Turns, Ends(t) PROVE TInv' /\ Effect
<1>1. CASE Begin(t) \/ RequeueSteer(t) \/ Leave(t) \/ Release(t)
  BY <1>1, BeginTyped, RequeueSteerTyped, LeaveTyped, ReleaseTyped
<1>2. CASE Prepare(t) \/ Stop(t)
  BY <1>2, QuietMoves
<1>3. CASE FlushMissing(t) \/ FinishComplete(t) \/ FailSeal(t) \/ FailFlush(t) \/ FinishError(t)
  <2>1. TInv' /\ (Lets \/ Writes(t))
    BY <1>3, FlushMissingStep, FinishCompleteStep, FailSealStep, FailFlushStep, FinishErrorStep
  <2> QED BY <2>1 DEF Effect
<1> QED BY <1>1, <1>2, <1>3 DEF Ends

LEMMA HandlerEffect == ASSUME TInv, NEW t \in Turns, Handler(t) PROVE TInv' /\ Effect
<1>1. TInv' /\ (Lets \/ Writes(t) \/ \E i \in Inputs : Takes(t, i))
  BY SealSegmentStep, NewSegmentStep, RecordToolStep, RecordResultStep, RecordSteerStep DEF Handler
<1> QED BY <1>1 DEF Effect

LEMMA StepEffects == ASSUME TInv, Next PROVE TInv' /\ Effect
<1>1. ASSUME NEW s \in Servers,
             \/ Ask(s) \/ Interrupt(s) \/ Crash(s)
             \/ Claim(s) \/ StartClaimed(s) \/ Settle(s) \/ Resume(s)
      PROVE  TInv' /\ Effect
  <2>1. CASE Interrupt(s)
    <3>1. UNCHANGED <<room, lease, turn, transcript, input>>
      BY <2>1 DEF Interrupt, queueVars
    <3> QED BY <2>1, <3>1, InterruptTyped, HandsQuietly
  <2> QED BY <1>1, <2>1, AskTyped, CrashTyped, ClaimTyped, StartClaimedTyped, SettleTyped, ResumeTyped
<1>2. ASSUME NEW s \in Servers, NEW i \in Inputs, Queue(s, i) \/ SteerMark(s, i)
      PROVE  TInv' /\ Effect
  <2>1. TInv' /\ (Hands(i, "queued") \/ Hands(i, "steering"))
    BY <1>2, QueueTyped, SteerMarkTyped
  <2> QED BY <2>1 DEF Effect
<1>3. ASSUME NEW t \in Turns,
             \/ Ends(t) \/ Handler(t) \/ Arrive(t) \/ WorkFails(t) \/ AgentEnds(t)
             \/ BeginUnacknowledged(t) \/ TimeOut(t) \/ NoticeLost(t)
      PROVE  TInv' /\ Effect
  BY <1>3, EndsEffect, HandlerEffect, QuietMoves, BeginUnacknowledgedTyped
<1>4. ASSUME NEW i \in Inputs,
             \/ Cancel(i) \/ SteerSend(i) \/ SteerAccepted(i)
             \/ SteerRefused(i) \/ SteerSettle(i) \/ RequeueStale(i)
      PROVE  TInv' /\ Effect
  <2>1. CASE Cancel(i)
    <3>1. TInv' /\ Hands(i, "cancelled")
      BY <2>1, CancelTyped
    <3> QED BY <3>1 DEF Effect
  <2> QED BY <1>4, <2>1, SteerSendTyped, SteerAcceptedTyped, SteerRefusedTyped, SteerSettleTyped,
             RequeueStaleTyped
<1>5. CASE LeaseExpires
  BY <1>5, LeaseExpiresTyped
<1>6. CASE Recovery
  BY <1>6, FailInterruptedTyped, RecoverRoomTyped, FailOrphansTyped DEF Recovery
<1> QED BY <1>1, <1>2, <1>3, <1>4, <1>5, <1>6 DEF Next

LEMMA StutterTyped == ASSUME TInv, UNCHANGED vars PROVE TInv'
  BY DEF TInv, TypeOK, ExecsOK, NotYetBegun, SteersPlaced, vars

LEMMA AlwaysTyped == Spec => []TInv
<1>1. TInv /\ [Next]_vars => TInv'
  BY StepEffects, StutterTyped
<1> QED BY InitTyped, <1>1, PTL DEF Spec

\* Rows, messages, queue, maps and executions keep their types: no statement
\* writes a status that the tables do not have, and no event handler counts more
\* segments than it saw tool calls.
THEOREM TypeCorrect == Spec => []TypeOK
<1>1. TInv => TypeOK
  BY DEF TInv
<1> QED BY AlwaysTyped, <1>1, PTL

-----------------------------------------------------------------------------
(* The room runs under its holder.                                         *)

LEMMA ShrinksOrBegins == ASSUME Effect PROVE Shrinks \/ \E t \in Turns : Begins(t)
  BY Undisturbed DEF Effect, Lets, Writes, Takes, Hands

\* While a turn holds the room's live lease the room shows that it is running,
\* whatever finishes, recovers or releases late.
THEOREM RoomRunsUnderHolder == Spec => []RunningRoom
<1>1. Init => RunningRoom
  BY TurnsAssumption DEF Init, RunningRoom, ClaimHeld
<1>2. TInv /\ RunningRoom /\ Next => RunningRoom'
  <2> SUFFICES ASSUME TInv, RunningRoom, Next PROVE RunningRoom'
    OBVIOUS
  <2>1. Shrinks \/ \E t \in Turns : Begins(t)
    BY StepEffects, ShrinksOrBegins
  <2>2. CASE Shrinks
    BY <2>2 DEF Shrinks, RunningRoom
  <2>3. CASE \E t \in Turns : Begins(t)
    BY <2>3 DEF Begins, Commence, RunningRoom
  <2> QED BY <2>1, <2>2, <2>3
<1>3. RunningRoom /\ UNCHANGED vars => RunningRoom'
  BY DEF RunningRoom, ClaimHeld, vars
<1>4. TInv /\ RunningRoom /\ [Next]_vars => RunningRoom'
  BY <1>2, <1>3
<1> QED BY <1>1, <1>4, AlwaysTyped, PTL DEF Spec

-----------------------------------------------------------------------------
(* The messages of two turns are never interleaved.                        *)

\* What t wrote ends the conversation, or it wrote nothing.
ComesLast(t, tr) ==
    \A j, k \in 1..Len(tr) : j < k /\ tr[j].turn = t => tr[k].turn = t

Nothing(t, tr) == \A k \in 1..Len(tr) : tr[k].turn # t

Apart(tr) ==
    \A i, j, k \in 1..Len(tr) :
        i < j /\ j < k /\ tr[i].turn = tr[k].turn => tr[j].turn = tr[i].turn

ConversationInv ==
    /\ \A t \in Turns : ClaimHeld(t) => ComesLast(t, transcript)
    /\ \A t \in Turns : turn[t].status = "none" => Nothing(t, transcript)
    /\ Apart(transcript)

\* The conversation goes on with messages of t, or not at all.
GoesOn(tr2, tr, t) ==
    /\ tr \in Seq(Entries) /\ tr2 \in Seq(Entries)
    /\ Len(tr2) >= Len(tr)
    /\ \A k \in 1..Len(tr) : tr2[k].turn = tr[k].turn
    /\ \A k \in 1..Len(tr2) : k > Len(tr) => tr2[k].turn = t

LEMMA GoesOnLast ==
    ASSUME NEW tr2, NEW tr, NEW t, GoesOn(tr2, tr, t), ComesLast(t, tr)
    PROVE  ComesLast(t, tr2)
<1> SUFFICES ASSUME NEW j \in 1..Len(tr2), NEW k \in 1..Len(tr2), j < k, tr2[j].turn = t
             PROVE  tr2[k].turn = t
  BY DEF ComesLast
<1>1. Len(tr) \in Nat /\ Len(tr2) \in Nat /\ j \in Nat /\ k \in Nat
  BY DEF GoesOn
<1>2. CASE k > Len(tr)
  BY <1>2 DEF GoesOn
<1>3. CASE k <= Len(tr)
  <2>1. j \in 1..Len(tr) /\ k \in 1..Len(tr)
    BY <1>1, <1>3
  <2> QED BY <2>1 DEF GoesOn, ComesLast
<1> QED BY <1>1, <1>2, <1>3

LEMMA GoesOnApart ==
    ASSUME NEW tr2, NEW tr, NEW t, GoesOn(tr2, tr, t), ComesLast(t, tr), Apart(tr)
    PROVE  Apart(tr2)
<1> SUFFICES ASSUME NEW i \in 1..Len(tr2), NEW j \in 1..Len(tr2), NEW k \in 1..Len(tr2),
                    i < j, j < k, tr2[i].turn = tr2[k].turn
             PROVE  tr2[j].turn = tr2[i].turn
  BY DEF Apart
<1>1. Len(tr) \in Nat /\ Len(tr2) \in Nat /\ i \in Nat /\ j \in Nat /\ k \in Nat
  BY DEF GoesOn
<1>2. CASE k > Len(tr)
  <2>1. tr2[i].turn = t
    BY <1>2 DEF GoesOn
  <2>2. ComesLast(t, tr2)
    BY GoesOnLast
  <2> QED BY <2>1, <2>2 DEF ComesLast
<1>3. CASE k <= Len(tr)
  <2>1. i \in 1..Len(tr) /\ j \in 1..Len(tr) /\ k \in 1..Len(tr)
    BY <1>1, <1>3
  <2> QED BY <2>1 DEF GoesOn, Apart
<1> QED BY <1>1, <1>2, <1>3

LEMMA GoesOnNothing ==
    ASSUME NEW tr2, NEW tr, NEW t, NEW u, u # t, GoesOn(tr2, tr, t), Nothing(u, tr)
    PROVE  Nothing(u, tr2)
<1> SUFFICES ASSUME NEW k \in 1..Len(tr2) PROVE tr2[k].turn # u
  BY DEF Nothing
<1>1. Len(tr) \in Nat /\ k \in Nat
  BY DEF GoesOn
<1>2. CASE k > Len(tr)
  BY <1>2 DEF GoesOn
<1>3. CASE k <= Len(tr)
  <2>1. k \in 1..Len(tr)
    BY <1>1, <1>3
  <2> QED BY <2>1 DEF GoesOn, Nothing
<1> QED BY <1>1, <1>2, <1>3

LEMMA NothingIsLast ==
    ASSUME NEW t, NEW tr, Nothing(t, tr)
    PROVE  ComesLast(t, tr)
  BY DEF Nothing, ComesLast

\* The same messages.
LEMMA SameConversation ==
    ASSUME NEW tr2, NEW tr \in Seq(Entries), SameEntries(tr2, tr)
    PROVE  /\ \A t : ComesLast(t, tr) => ComesLast(t, tr2)
           /\ \A t : Nothing(t, tr) => Nothing(t, tr2)
           /\ Apart(tr) => Apart(tr2)
  BY DEF SameEntries, ComesLast, Nothing, Apart

\* Only one turn holds the claim.
LEMMA OneHolder == \A t, u \in Turns : ClaimHeld(t) /\ ClaimHeld(u) => t = u
  BY DEF ClaimHeld

\* The holder goes on.
LEMMA HolderGoesOn ==
    ASSUME TInv, ConversationInv, Shrinks, NEW t \in Turns, ClaimHeld(t),
           GoesOn(transcript', transcript, t)
    PROVE  ConversationInv'
<1>1. ComesLast(t, transcript)
  BY DEF ConversationInv
<1>2. \A u \in Turns : ClaimHeld(u)' => ComesLast(u, transcript')
  <2> SUFFICES ASSUME NEW u \in Turns, ClaimHeld(u)' PROVE ComesLast(u, transcript')
    OBVIOUS
  <2>1. u = t
    BY OneHolder DEF Shrinks
  <2> QED BY <1>1, <2>1, GoesOnLast
<1>3. \A u \in Turns : turn'[u].status = "none" => Nothing(u, transcript')
  <2> SUFFICES ASSUME NEW u \in Turns, turn'[u].status = "none" PROVE Nothing(u, transcript')
    OBVIOUS
  <2>1. turn[u].status = "none" /\ u # t
    BY DEF Shrinks, ClaimHeld
  <2>2. Nothing(u, transcript)
    BY <2>1 DEF ConversationInv
  <2> QED BY <2>1, <2>2, GoesOnNothing
<1>4. Apart(transcript')
  BY <1>1, GoesOnApart DEF ConversationInv
<1> QED BY <1>2, <1>3, <1>4 DEF ConversationInv

\* A turn begins.
LEMMA NewcomerGoesOn ==
    ASSUME TInv, TInv', ConversationInv, NEW t \in Turns, Begins(t),
           GoesOn(transcript', transcript, t)
    PROVE  ConversationInv'
<1>1. /\ lease'.turn = t /\ turn'[t].status = "running"
      /\ \A u \in Turns : u # t => turn'[u] = turn[u]
  BY DEF Begins, Commence, TInv, TypeOK
<1>2. Nothing(t, transcript) /\ ComesLast(t, transcript)
  BY NothingIsLast DEF Begins, ConversationInv
<1>3. \A u \in Turns : ClaimHeld(u)' => ComesLast(u, transcript')
  <2> SUFFICES ASSUME NEW u \in Turns, ClaimHeld(u)' PROVE ComesLast(u, transcript')
    OBVIOUS
  <2>1. u = t
    BY <1>1 DEF ClaimHeld
  <2> QED BY <1>2, <2>1, GoesOnLast
<1>4. \A u \in Turns : turn'[u].status = "none" => Nothing(u, transcript')
  <2> SUFFICES ASSUME NEW u \in Turns, turn'[u].status = "none" PROVE Nothing(u, transcript')
    OBVIOUS
  <2>1. u # t /\ turn[u].status = "none"
    BY <1>1
  <2>2. Nothing(u, transcript)
    BY <2>1 DEF ConversationInv
  <2> QED BY <2>1, <2>2, GoesOnNothing
<1>5. Apart(transcript')
  BY <1>2, GoesOnApart DEF ConversationInv
<1> QED BY <1>3, <1>4, <1>5 DEF ConversationInv

LEMMA ExtendsGoesOn ==
    ASSUME NEW tr \in Seq(Entries), NEW tr2, NEW t, Extends(tr2, tr, t)
    PROVE  GoesOn(tr2, tr, t)
<1>1. Len(tr) \in Nat /\ Len(tr2) = Len(tr) + 1 /\ tr2 \in Seq(Entries)
  BY DEF Extends
<1>2. \A k \in 1..Len(tr2) : k > Len(tr) => k = Len(tr2)
  BY <1>1
<1> QED BY <1>1, <1>2 DEF Extends, GoesOn

LEMMA TakesGoesOn ==
    ASSUME TInv, NEW t \in Turns, NEW i \in Inputs, Takes(t, i)
    PROVE  GoesOn(transcript', transcript, t)
<1> DEFINE e == Entry(t, "prompt", "complete", i)
<1>1. e \in Entries /\ e.turn = t
  BY EntryTyped, InputsAssumption DEF Entry
<1>2. transcript' = Append(transcript, e) /\ transcript \in Seq(Entries)
  BY DEF Takes, TInv, TypeOK
<1>3. Len(transcript) \in Nat /\ Len(transcript') = Len(transcript) + 1 /\ transcript' \in Seq(Entries)
      /\ transcript'[Len(transcript) + 1] = e
      /\ \A k \in 1..Len(transcript) : transcript'[k] = transcript[k]
  <2> HIDE DEF e
  <2> QED BY <1>1, <1>2
<1> QED BY <1>1, <1>2, <1>3 DEF GoesOn

LEMMA BeginsGoesOn ==
    ASSUME TInv, NEW t \in Turns, exec[t].input \in Inputs \union {NoInput}, Begins(t)
    PROVE  GoesOn(transcript', transcript, t)
<1> DEFINE i == exec[t].input
           e == Entry(t, "prompt", "complete", i)
           a == Entry(t, "answer", "streaming", 1)
<1>1. a \in Entries /\ a.turn = t
  BY EntryTyped DEF Entry
<1>2. transcript \in Seq(Entries)
  BY DEF TInv, TypeOK
<1>3. CASE i = NoInput
  <2>1. transcript' = transcript \o <<>> \o <<a>>
    BY <1>3 DEF Begins, Commence
  <2> HIDE DEF a
  <2>2. Len(transcript) \in Nat /\ Len(transcript') = Len(transcript) + 1 /\ transcript' \in Seq(Entries)
        /\ transcript'[Len(transcript) + 1] = a
        /\ \A k \in 1..Len(transcript) : transcript'[k] = transcript[k]
    BY <1>1, <1>2, <2>1
  <2> QED BY <1>1, <1>2, <2>2 DEF GoesOn
<1>4. CASE i # NoInput
  <2>1. transcript' = transcript \o <<e>> \o <<a>>
    BY <1>4 DEF Begins, Commence
  <2>2. i \in Nat
    BY <1>4, InputsAssumption
  <2>3. e \in Entries /\ e.turn = t
    BY <2>2, EntryTyped DEF Entry
  <2> HIDE DEF a, e
  <2>4. Len(transcript) \in Nat /\ Len(transcript') = Len(transcript) + 2 /\ transcript' \in Seq(Entries)
        /\ transcript'[Len(transcript) + 1] = e /\ transcript'[Len(transcript) + 2] = a
        /\ \A k \in 1..Len(transcript) : transcript'[k] = transcript[k]
    BY <1>1, <1>2, <2>1, <2>3
  <2> QED BY <1>1, <1>2, <2>3, <2>4 DEF GoesOn
<1> QED BY <1>3, <1>4

LEMMA ConversationStep == ASSUME TInv, ConversationInv, Next PROVE ConversationInv'
<1>1. TInv' /\ Effect
  BY StepEffects
<1>2. transcript \in Seq(Entries)
  BY DEF TInv, TypeOK
<1>3. ASSUME Shrinks, SameEntries(transcript', transcript) PROVE ConversationInv'
  BY <1>2, <1>3, SameConversation DEF Shrinks, ConversationInv
<1>4. CASE Lets
  BY <1>3, <1>4 DEF Lets
<1>5. ASSUME NEW t \in Turns, Writes(t) PROVE ConversationInv'
  BY <1>2, <1>5, ExtendsGoesOn, HolderGoesOn DEF Writes
<1>6. ASSUME NEW t \in Turns, Begins(t) PROVE ConversationInv'
  <2>1. exec[t].input \in Inputs \union {NoInput}
    BY AtWork DEF Execs
  <2> QED BY <1>1, <1>6, <2>1, BeginsGoesOn, NewcomerGoesOn
<1>7. ASSUME NEW t \in Turns, NEW i \in Inputs, Takes(t, i) PROVE ConversationInv'
  <2>1. Shrinks /\ ClaimHeld(t)
    BY <1>7, Undisturbed DEF Takes
  <2> QED BY <1>7, <2>1, TakesGoesOn, HolderGoesOn
<1>8. ASSUME NEW i, NEW x, Hands(i, x) PROVE ConversationInv'
  <2>1. Shrinks /\ SameEntries(transcript', transcript)
    BY <1>2, <1>8, Undisturbed, SameItself DEF Hands
  <2> QED BY <1>3, <2>1
<1> QED BY <1>1, <1>4, <1>5, <1>6, <1>7, <1>8 DEF Effect

\* Delayed work of a turn never lands in the conversation after another turn has
\* begun: what a turn wrote stands together, whoever crashed, expired or came late.
THEOREM TurnsStandTogether == Spec => []TurnsDoNotInterleave
<1>1. Init => ConversationInv
  <2> SUFFICES ASSUME Init PROVE ConversationInv
    OBVIOUS
  <2>1. transcript = <<>> /\ Len(transcript) = 0
    BY DEF Init
  <2> QED BY <2>1 DEF ConversationInv, ComesLast, Nothing, Apart
<1>2. ConversationInv /\ UNCHANGED vars => ConversationInv'
  BY DEF ConversationInv, ClaimHeld, vars
<1>3. TInv /\ ConversationInv /\ [Next]_vars => ConversationInv'
  BY <1>2, ConversationStep
<1>4. TInv /\ ConversationInv => TurnsDoNotInterleave
  <2> SUFFICES ASSUME TInv, ConversationInv PROVE TurnsDoNotInterleave
    OBVIOUS
  <2>1. DOMAIN transcript = 1..Len(transcript)
    BY DEF TInv, TypeOK
  <2> QED BY <2>1 DEF ConversationInv, Apart, TurnsDoNotInterleave
<1> QED BY <1>1, <1>3, <1>4, AlwaysTyped, PTL DEF Spec

-----------------------------------------------------------------------------
(* An input is used once.                                                  *)

Prompts(i, tr) == {k \in 1..Len(tr) : tr[k].kind = "prompt" /\ tr[k].n = i}

OnceInv ==
    \A i \in Inputs :
        IF input[i] \in Turns
        THEN \E k \in Prompts(i, transcript) :
                Prompts(i, transcript) = {k} /\ transcript[k].turn = input[i]
        ELSE Prompts(i, transcript) = {}

WaitingStates == {"absent", "queued", "starting", "steering", "cancelled"}

LEMMA WaitingIsNoTurn == \A x \in WaitingStates : x \notin Turns
  BY TurnsAssumption DEF WaitingStates

\* No prompt comes, and no input is used.
LEMMA NoPrompt ==
    ASSUME OnceInv,
           \A k \in 1..Len(transcript) : transcript'[k].turn = transcript[k].turn,
           \A i \in Inputs : Prompts(i, transcript') = Prompts(i, transcript),
           \A i \in Inputs : input'[i] = input[i] \/ (input[i] \notin Turns /\ input'[i] \notin Turns)
    PROVE  OnceInv'
<1> SUFFICES ASSUME NEW i \in Inputs
             PROVE  IF input'[i] \in Turns
                    THEN \E k \in Prompts(i, transcript') :
                            Prompts(i, transcript') = {k} /\ transcript'[k].turn = input'[i]
                    ELSE Prompts(i, transcript') = {}
  BY DEF OnceInv
<1>1. CASE input'[i] \in Turns
  <2>1. input'[i] = input[i]
    BY <1>1
  <2>2. PICK k \in Prompts(i, transcript) :
           Prompts(i, transcript) = {k} /\ transcript[k].turn = input[i]
    BY <1>1, <2>1 DEF OnceInv
  <2>3. k \in 1..Len(transcript)
    BY DEF Prompts
  <2> QED BY <1>1, <2>1, <2>2, <2>3
<1>2. CASE input'[i] \notin Turns
  BY <1>2 DEF OnceInv
<1> QED BY <1>1, <1>2

\* The prompt of an unused input comes, in the turn that the input is given to.
LEMMA OnePrompt ==
    ASSUME OnceInv, NEW t \in Turns, NEW i \in Inputs, NEW p,
           input[i] \notin Turns, input'[i] = t, transcript'[p].turn = t,
           \A k \in 1..Len(transcript) : transcript'[k].turn = transcript[k].turn,
           Prompts(i, transcript') = Prompts(i, transcript) \union {p},
           \A j \in Inputs \ {i} :
              input'[j] = input[j] /\ Prompts(j, transcript') = Prompts(j, transcript)
    PROVE  OnceInv'
<1>1. Prompts(i, transcript') = {p}
  BY DEF OnceInv
<1> SUFFICES ASSUME NEW j \in Inputs
             PROVE  IF input'[j] \in Turns
                    THEN \E k \in Prompts(j, transcript') :
                            Prompts(j, transcript') = {k} /\ transcript'[k].turn = input'[j]
                    ELSE Prompts(j, transcript') = {}
  BY DEF OnceInv
<1>2. CASE j = i
  BY <1>1, <1>2
<1>3. CASE j # i /\ input'[j] \in Turns
  <2>1. input'[j] = input[j] /\ Prompts(j, transcript') = Prompts(j, transcript)
    BY <1>3
  <2>2. PICK k \in Prompts(j, transcript) :
           Prompts(j, transcript) = {k} /\ transcript[k].turn = input[j]
    BY <1>3, <2>1 DEF OnceInv
  <2>3. k \in 1..Len(transcript)
    BY DEF Prompts
  <2> QED BY <1>3, <2>1, <2>2, <2>3
<1>4. CASE j # i /\ input'[j] \notin Turns
  BY <1>4 DEF OnceInv
<1> QED BY <1>2, <1>3, <1>4

LEMMA SamePrompts ==
    ASSUME NEW tr \in Seq(Entries), NEW tr2, SameEntries(tr2, tr)
    PROVE  /\ \A k \in 1..Len(tr) : tr2[k].turn = tr[k].turn
           /\ \A i : Prompts(i, tr2) = Prompts(i, tr)
  BY DEF SameEntries, Prompts

LEMMA ExtendsPrompts ==
    ASSUME NEW tr \in Seq(Entries), NEW tr2, NEW t, Extends(tr2, tr, t)
    PROVE  /\ \A k \in 1..Len(tr) : tr2[k].turn = tr[k].turn
           /\ \A i : Prompts(i, tr2) = Prompts(i, tr)
<1>1. Len(tr) \in Nat /\ Len(tr2) = Len(tr) + 1
  BY DEF Extends
<1>2. ASSUME NEW i, NEW k \in 1..Len(tr2)
      PROVE  (tr2[k].kind = "prompt" /\ tr2[k].n = i)
                <=> (k \in 1..Len(tr) /\ tr[k].kind = "prompt" /\ tr[k].n = i)
  <2>1. CASE k \in 1..Len(tr)
    BY <2>1 DEF Extends
  <2>2. CASE k = Len(tr2)
    BY <1>1, <2>2 DEF Extends
  <2> QED BY <1>1, <2>1, <2>2
<1>3. 1..Len(tr) \subseteq 1..Len(tr2)
  BY <1>1
<1>4. \A i : Prompts(i, tr2) = Prompts(i, tr)
  BY <1>2, <1>3 DEF Prompts
<1> QED BY <1>4 DEF Extends

\* A prompt, and then perhaps the first answer.
LEMMA PromptAppended ==
    ASSUME NEW tr \in Seq(Entries), NEW tr2 \in Seq(Entries), NEW i \in Inputs,
           Len(tr2) > Len(tr), \A k \in 1..Len(tr) : tr2[k] = tr[k],
           tr2[Len(tr) + 1].kind = "prompt", tr2[Len(tr) + 1].n = i,
           \A k \in 1..Len(tr2) : k > Len(tr) + 1 => tr2[k].kind # "prompt"
    PROVE  /\ Prompts(i, tr2) = Prompts(i, tr) \union {Len(tr) + 1}
           /\ \A j \in Inputs \ {i} : Prompts(j, tr2) = Prompts(j, tr)
<1> DEFINE p == Len(tr) + 1
<1>1. Len(tr) \in Nat /\ Len(tr2) \in Nat /\ p \in 1..Len(tr2) /\ 1..Len(tr) \subseteq 1..Len(tr2)
  OBVIOUS
<1>2. \A k \in 1..Len(tr2) : k \in 1..Len(tr) \/ k = p \/ k > p
  BY <1>1
<1>3. ASSUME NEW j, NEW k \in 1..Len(tr2)
      PROVE  (tr2[k].kind = "prompt" /\ tr2[k].n = j)
                <=> (k \in 1..Len(tr) /\ tr[k].kind = "prompt" /\ tr[k].n = j) \/ (k = p /\ j = i)
  <2>1. CASE k \in 1..Len(tr)
    <3>1. k # p
      BY <1>1, <2>1
    <3> QED BY <2>1, <3>1
  <2>2. CASE k = p
    <3>1. k \notin 1..Len(tr)
      BY <1>1, <2>2
    <3> QED BY <2>2, <3>1
  <2>3. CASE k > p
    <3>1. k \notin 1..Len(tr) /\ k # p
      BY <1>1, <2>3
    <3> QED BY <2>3, <3>1
  <2> QED BY <1>2, <2>1, <2>2, <2>3
<1> HIDE DEF p
<1>4. Prompts(i, tr2) = Prompts(i, tr) \union {p}
  <2>1. \A k \in 1..Len(tr2) : k \in Prompts(i, tr2) <=> k \in Prompts(i, tr) \/ k = p
    BY <1>3 DEF Prompts
  <2>2. Prompts(i, tr2) \subseteq 1..Len(tr2) /\ Prompts(i, tr) \subseteq 1..Len(tr2)
    BY <1>1 DEF Prompts
  <2> QED BY <1>1, <2>1, <2>2
<1>5. \A j \in Inputs \ {i} : Prompts(j, tr2) = Prompts(j, tr)
  BY <1>1, <1>3 DEF Prompts
<1> QED BY <1>4, <1>5 DEF p

LEMMA TakesOnce ==
    ASSUME TInv, OnceInv, NEW t \in Turns, NEW i \in Inputs, Takes(t, i)
    PROVE  OnceInv'
<1> DEFINE e == Entry(t, "prompt", "complete", i)
           p == Len(transcript) + 1
<1>1. e \in Entries /\ e.turn = t /\ e.kind = "prompt" /\ e.n = i
  BY EntryTyped, InputsAssumption DEF Entry
<1>2. transcript' = Append(transcript, e) /\ transcript \in Seq(Entries)
  BY DEF Takes, TInv, TypeOK
<1>3. /\ transcript' \in Seq(Entries) /\ Len(transcript') = p /\ transcript'[p] = e
      /\ Len(transcript) \in Nat
      /\ \A k \in 1..Len(transcript) : transcript'[k] = transcript[k]
  <2> HIDE DEF e
  <2> QED BY <1>1, <1>2
<1>4. /\ Prompts(i, transcript') = Prompts(i, transcript) \union {p}
      /\ \A j \in Inputs \ {i} : Prompts(j, transcript') = Prompts(j, transcript)
  <2>1. Len(transcript') > Len(transcript)
    BY <1>3
  <2>2. \A k \in 1..Len(transcript') : k > p => transcript'[k].kind # "prompt"
    BY <1>3
  <2>3. transcript'[p].kind = "prompt" /\ transcript'[p].n = i
    BY <1>1, <1>3
  <2>4. transcript \in Seq(Entries)
    BY <1>2
  <2> HIDE DEF e
  <2> QED BY ZenonT(60), <2>4, <1>3, <2>1, <2>2, <2>3, PromptAppended
<1>5. input[i] \notin Turns /\ input'[i] = t /\ \A j \in Inputs \ {i} : input'[j] = input[j]
  BY WaitingIsNoTurn, QueueTypes DEF Takes, WaitingStates
<1> QED BY <1>1, <1>3, <1>4, <1>5, OnePrompt

LEMMA BeginsOnce ==
    ASSUME TInv, OnceInv, NEW t \in Turns, Begins(t)
    PROVE  OnceInv'
<1> DEFINE i == exec[t].input
           e == Entry(t, "prompt", "complete", i)
           a == Entry(t, "answer", "streaming", 1)
           p == Len(transcript) + 1
<1>1. a \in Entries /\ a.turn = t /\ a.kind = "answer"
  BY EntryTyped DEF Entry
<1>2. transcript \in Seq(Entries) /\ Len(transcript) \in Nat
  BY DEF TInv, TypeOK
<1>3. CASE i = NoInput
  <2>1. transcript' = transcript \o <<>> \o <<a>> /\ UNCHANGED input
    BY <1>3 DEF Begins, Commence
  <2>2. Extends(transcript', transcript, t)
    <3> HIDE DEF a
    <3>1. /\ Len(transcript') = Len(transcript) + 1 /\ transcript' \in Seq(Entries)
          /\ transcript'[Len(transcript) + 1] = a
          /\ \A k \in 1..Len(transcript) : transcript'[k] = transcript[k]
      BY <1>1, <1>2, <2>1
    <3> QED BY <1>1, <3>1 DEF Extends
  <2> QED BY <1>2, <2>1, <2>2, ExtendsPrompts, NoPrompt
<1>4. CASE i # NoInput
  <2>1. /\ transcript' = transcript \o <<e>> \o <<a>>
        /\ input' = [input EXCEPT ![i] = t] /\ input[i] = "starting"
    BY <1>4 DEF Begins, Commence, CanCommence
  <2>2. i \in Inputs /\ i \in Nat
    BY <1>4, AtWork, InputsAssumption DEF Execs
  <2>3. e \in Entries /\ e.turn = t /\ e.kind = "prompt" /\ e.n = i
    BY <2>2, EntryTyped DEF Entry
  <2>4. /\ transcript' \in Seq(Entries) /\ Len(transcript') = p + 1
        /\ transcript'[p] = e /\ transcript'[p + 1] = a
        /\ \A k \in 1..Len(transcript) : transcript'[k] = transcript[k]
    <3> HIDE DEF a, e
    <3> QED BY <1>1, <1>2, <2>1, <2>3
  <2>5. /\ Prompts(i, transcript') = Prompts(i, transcript) \union {p}
        /\ \A j \in Inputs \ {i} : Prompts(j, transcript') = Prompts(j, transcript)
    <3>1. Len(transcript') > Len(transcript)
      BY <1>2, <2>4
    <3>2. \A k \in 1..Len(transcript') : k > p => transcript'[k].kind # "prompt"
      <4>1. \A k \in 1..Len(transcript') : k > p => k = p + 1
        BY <1>2, <2>4
      <4> QED BY <1>1, <2>4, <4>1
    <3>3. transcript'[p].kind = "prompt" /\ transcript'[p].n = i
      BY <2>3, <2>4
    <3> HIDE DEF a, e, i
    <3> QED BY ZenonT(60), <1>2, <2>2, <2>4, <3>1, <3>2, <3>3, PromptAppended
  <2>6. input[i] \notin Turns /\ input'[i] = t /\ \A j \in Inputs \ {i} : input'[j] = input[j]
    BY <2>1, <2>2, WaitingIsNoTurn, QueueTypes DEF WaitingStates
  <2> HIDE DEF a, e, i
  <2> QED BY <2>2, <2>3, <2>4, <2>5, <2>6, OnePrompt
<1> QED BY <1>3, <1>4

LEMMA OnceStep == ASSUME TInv, OnceInv, Next PROVE OnceInv'
<1>1. Effect
  BY StepEffects
<1>2. transcript \in Seq(Entries)
  BY DEF TInv, TypeOK
<1>3. CASE Lets
  BY <1>2, <1>3, SamePrompts, NoPrompt DEF Lets
<1>4. ASSUME NEW t \in Turns, Writes(t) PROVE OnceInv'
  BY <1>2, <1>4, ExtendsPrompts, NoPrompt DEF Writes
<1>5. ASSUME NEW t \in Turns, Begins(t) PROVE OnceInv'
  BY <1>5, BeginsOnce
<1>6. ASSUME NEW t \in Turns, NEW i \in Inputs, Takes(t, i) PROVE OnceInv'
  BY <1>6, TakesOnce
<1>7. ASSUME NEW i \in Inputs, NEW x \in {"queued", "starting", "steering", "cancelled"}, Hands(i, x)
      PROVE  OnceInv'
  <2>1. input[i] \notin Turns /\ x \notin Turns
    BY <1>7, WaitingIsNoTurn DEF Hands, WaitingStates
  <2>2. \A j \in Inputs : input'[j] = input[j] \/ (input[j] \notin Turns /\ input'[j] \notin Turns)
    BY <1>7, <2>1, QueueTypes DEF Hands
  <2> QED BY <1>7, <2>2, NoPrompt DEF Hands
<1> QED BY <1>1, <1>3, <1>4, <1>5, <1>6, <1>7 DEF Effect

\* A queued input stands in the conversation once if a turn used it, and not at all
\* otherwise, however often it was claimed, steered, requeued and claimed again.
THEOREM InputsUsedOnce == Spec => []UsedOnce
<1>1. Init => OnceInv
  <2> SUFFICES ASSUME Init PROVE OnceInv
    OBVIOUS
  <2>1. transcript = <<>> /\ Len(transcript) = 0 /\ \A i \in Inputs : input[i] = "absent"
    BY DEF Init
  <2>2. \A i \in Inputs : Prompts(i, transcript) = {}
    BY <2>1 DEF Prompts
  <2> QED BY <2>1, <2>2, WaitingIsNoTurn DEF OnceInv, WaitingStates
<1>2. OnceInv /\ UNCHANGED vars => OnceInv'
  BY DEF OnceInv, vars
<1>3. TInv /\ OnceInv /\ [Next]_vars => OnceInv'
  BY <1>2, OnceStep
<1>4. TInv /\ OnceInv => UsedOnce
  <2> SUFFICES ASSUME TInv, OnceInv PROVE UsedOnce
    OBVIOUS
  <2>1. DOMAIN transcript = 1..Len(transcript)
    BY DEF TInv, TypeOK
  <2> QED BY <2>1 DEF OnceInv, Prompts, UsedOnce
<1> QED BY <1>1, <1>3, <1>4, AlwaysTyped, PTL DEF Spec

-----------------------------------------------------------------------------
(* A closed turn is clean.                                                 *)

\* A message keeps its place: it never starts streaming again, and a result that
\* is complete stays as it is.
KeptEntry(e2, e) ==
    /\ e2.turn = e.turn /\ e2.kind = e.kind /\ e2.n = e.n
    /\ e2.state = "streaming" => e.state = "streaming"
    /\ e.kind = "result" /\ e.state = "complete" => e2 = e

Kept(tr2, tr) ==
    /\ tr2 \in Seq(Entries) /\ Len(tr) <= Len(tr2)
    /\ \A k \in 1..Len(tr) : KeptEntry(tr2[k], tr[k])

CleanStep(u) ==
    /\ Streaming(u) = {} => Streaming(u)' = {}
    /\ Dangling(u) = {} => Dangling(u)' = {}

\* Every turn stays open, or stays closed and is no less clean, or is closed clean.
Cleanly ==
    \A u \in Turns :
        \/ turn'[u].status \in {"none", "running"}
        \/ turn'[u].status = turn[u].status /\ CleanStep(u)
        \/ Streaming(u)' = {} /\ (turn'[u].status = "error" \/ Dangling(u)' = {})

LEMMA KeptIsClean ==
    ASSUME transcript \in Seq(Entries), Kept(transcript', transcript), NEW u \in Turns,
           \A k \in DOMAIN transcript' :
              k \notin DOMAIN transcript /\ transcript'[k].turn = u
                 => transcript'[k].kind \notin {"answer", "tool"}
    PROVE  CleanStep(u)
<1>1. DOMAIN transcript = 1..Len(transcript) /\ DOMAIN transcript' = 1..Len(transcript')
      /\ Len(transcript) \in Nat /\ Len(transcript') \in Nat
      /\ DOMAIN transcript \subseteq DOMAIN transcript'
  BY DEF Kept
<1>2. \A k \in DOMAIN transcript : KeptEntry(transcript'[k], transcript[k])
  BY <1>1 DEF Kept
<1>3. ASSUME Streaming(u) = {}, NEW k \in DOMAIN transcript',
             transcript'[k].turn = u, transcript'[k].kind = "answer", transcript'[k].state = "streaming"
      PROVE  FALSE
  <2>1. k \in DOMAIN transcript
    BY <1>3
  <2>2. k \in Streaming(u)
    BY <1>2, <1>3, <2>1 DEF KeptEntry, Streaming, AnswersOf
  <2> QED BY <1>3, <2>2
<1>4. ASSUME Dangling(u) = {}, NEW k \in DOMAIN transcript',
             transcript'[k].turn = u, transcript'[k].kind = "tool"
      PROVE  \E j \in DOMAIN transcript' :
                transcript'[j] = Entry(u, "result", "complete", transcript'[k].n)
  <2>1. k \in DOMAIN transcript
    BY <1>4
  <2>2. transcript[k].turn = u /\ transcript[k].kind = "tool" /\ transcript[k].n = transcript'[k].n
    BY <1>2, <1>4, <2>1 DEF KeptEntry
  <2>3. PICK j \in DOMAIN transcript :
           transcript[j] = Entry(u, "result", "complete", transcript[k].n)
    BY <1>4, <2>1, <2>2 DEF Dangling
  <2>4. transcript'[j] = transcript[j]
    BY <1>2, <2>3 DEF KeptEntry, Entry
  <2> QED BY <1>1, <2>2, <2>3, <2>4
<1>5. Streaming(u) = {} => Streaming(u)' = {}
  BY <1>3 DEF Streaming, AnswersOf
<1>6. Dangling(u) = {} => Dangling(u)' = {}
  BY <1>4 DEF Dangling
<1> QED BY <1>5, <1>6 DEF CleanStep

\* What is rewritten is not a complete result, and does not stream afterwards.
LEMMA RestatedKept ==
    ASSUME NEW tr \in Seq(Entries), NEW tr2, NEW x \in {"complete", "error", "deleted"},
           tr2 = [j \in DOMAIN tr |-> tr2[j]],
           \A j \in DOMAIN tr :
              \/ tr2[j] = tr[j]
              \/ /\ tr2[j] = [tr[j] EXCEPT !.state = x]
                 /\ tr[j].kind # "result" \/ tr[j].state # "complete"
    PROVE  Kept(tr2, tr)
<1>1. SameEntries(tr2, tr)
  <2>1. Restated(tr2, tr, x)
    BY DEF Restated
  <2> QED BY <2>1, RestatedSame
<1>2. ASSUME NEW k \in 1..Len(tr) PROVE KeptEntry(tr2[k], tr[k])
  <2>1. tr[k] \in Entries /\ k \in DOMAIN tr
    OBVIOUS
  <2>2. CASE tr2[k] = tr[k]
    BY <2>2 DEF KeptEntry
  <2>3. CASE /\ tr2[k] = [tr[k] EXCEPT !.state = x]
             /\ tr[k].kind # "result" \/ tr[k].state # "complete"
    <3>1. tr2[k].state = x
      BY <2>1, <2>3 DEF Entries
    <3> QED BY <1>1, <2>3, <3>1 DEF KeptEntry, SameEntries
  <2> QED BY <2>1, <2>2, <2>3
<1>3. Len(tr) <= Len(tr2) /\ tr2 \in Seq(Entries)
  BY <1>1 DEF SameEntries
<1> QED BY <1>2, <1>3 DEF Kept

LEMMA KeptTransitive ==
    ASSUME NEW a, NEW b, NEW c \in Seq(Entries), Kept(b, c), Kept(a, b)
    PROVE  Kept(a, c)
<1>1. Len(c) \in Nat /\ Len(b) \in Nat /\ Len(a) \in Nat /\ 1..Len(c) \subseteq 1..Len(b)
  BY DEF Kept
<1>2. ASSUME NEW k \in 1..Len(c) PROVE KeptEntry(a[k], c[k])
  BY <1>1 DEF Kept, KeptEntry
<1> QED BY <1>1, <1>2 DEF Kept

LEMMA AppendKept ==
    ASSUME NEW tr \in Seq(Entries), NEW e \in Entries
    PROVE  /\ Kept(Append(tr, e), tr)
           /\ \A k \in DOMAIN Append(tr, e) : k \notin DOMAIN tr => Append(tr, e)[k] = e
  BY DEF Kept, KeptEntry

LEMMA FinalizedKept ==
    ASSUME transcript \in Seq(Entries), NEW t \in Turns, NEW n \in Nat,
           NEW x \in {"complete", "error"}, Finalizable(t, n, x)
    PROVE  Kept(Finalized(t, n, x), transcript)
<1> DEFINE k == SegmentOf(t, n)
           tr2 == Finalized(t, n, x)
<1>1. k \in AnswersOf(t)
  BY DEF Finalizable, SegmentOf
<1>2. k \in DOMAIN transcript /\ transcript[k].kind = "answer"
  BY <1>1 DEF AnswersOf
<1>3. tr2 = [transcript EXCEPT ![k].state = x]
  BY DEF Finalized
<1>4. tr2 = [j \in DOMAIN transcript |-> tr2[j]]
  BY <1>3
<1>5. \A j \in DOMAIN transcript :
         tr2[j] = transcript[j] \/ (j = k /\ tr2[j] = [transcript[j] EXCEPT !.state = x])
  BY <1>3
<1> HIDE DEF tr2, k
<1> QED BY <1>2, <1>4, <1>5, RestatedKept DEF tr2

LEMMA WithoutKept ==
    ASSUME NEW tr \in Seq(Entries), NEW t \in Turns, NEW drop
    PROVE  Kept(Without(tr, t, drop), tr)
<1> DEFINE tr2 == Without(tr, t, drop)
<1>1. tr2 = [j \in DOMAIN tr |-> tr2[j]]
  BY DEF Without
<1>2. \A j \in DOMAIN tr :
         tr2[j] = tr[j] \/ (tr2[j] = [tr[j] EXCEPT !.state = "deleted"] /\ tr[j].kind = "answer")
  BY DEF Without
<1> HIDE DEF tr2
<1> QED BY <1>1, <1>2, RestatedKept DEF tr2

LEMMA QuietIsClean == UNCHANGED <<turn, transcript>> => Cleanly
  BY DEF Cleanly, CleanStep, Streaming, AnswersOf, Dangling

\* The holder rewrites its answer or adds a message.
LEMMA HolderIsClean ==
    ASSUME TInv, NEW t \in Turns, ClaimHeld(t), UNCHANGED turn, Kept(transcript', transcript),
           \A k \in DOMAIN transcript' : k \notin DOMAIN transcript => transcript'[k].turn = t
    PROVE  Cleanly
<1>1. turn'[t].status = "running"
  BY DEF ClaimHeld
<1>2. \A u \in Turns \ {t} : CleanStep(u)
  BY KeptIsClean DEF TInv, TypeOK
<1> QED BY <1>1, <1>2 DEF Cleanly

LEMMA HolderAppends ==
    ASSUME TInv, NEW t \in Turns, ClaimHeld(t), UNCHANGED turn,
           NEW kind \in {"answer", "prompt", "tool", "result"},
           NEW state \in {"streaming", "complete"}, NEW n \in Nat,
           transcript' = Append(transcript, Entry(t, kind, state, n))
    PROVE  Cleanly
<1>1. Entry(t, kind, state, n) \in Entries /\ Entry(t, kind, state, n).turn = t
  BY EntryTyped DEF Entry
<1>2. transcript \in Seq(Entries)
  BY DEF TInv, TypeOK
<1> QED BY <1>1, <1>2, AppendKept, HolderIsClean

LEMMA HolderSeals ==
    ASSUME TInv, NEW t \in Turns, ClaimHeld(t), UNCHANGED turn,
           NEW n \in Nat, Finalizable(t, n, "complete"), transcript' = Finalized(t, n, "complete")
    PROVE  Cleanly
<1>1. transcript \in Seq(Entries)
  BY DEF TInv, TypeOK
<1>2. Kept(transcript', transcript)
  BY <1>1, FinalizedKept
<1>3. DOMAIN transcript' = DOMAIN transcript
  BY DEF Finalized
<1> QED BY <1>2, <1>3, HolderIsClean

LEMMA HandlerIsClean == ASSUME TInv, NEW t \in Turns, Handler(t) PROVE Cleanly
<1>1. exec[t].seg \in Nat /\ exec[t].tools \in Nat
  BY AtWork DEF Execs, Segments
<1>2. UNCHANGED turn
  BY DEF Handler, SealSegment, NewSegment, RecordTool, RecordResult, RecordSteer
<1>3. CASE UNCHANGED transcript
  BY <1>2, <1>3, QuietIsClean
<1>4. CASE transcript' # transcript
  <2>1. CASE SealSegment(t)
    BY <1>1, <1>2, <1>4, <2>1, HolderSeals DEF SealSegment, HandlerThrows
  <2>2. CASE NewSegment(t)
    <3>1. exec[t].seg + 1 \in Nat
      BY <1>1
    <3> QED BY <1>2, <1>4, <2>2, <3>1, HolderAppends DEF NewSegment, HandlerThrows
  <2>3. CASE RecordTool(t)
    <3>1. exec[t].tools + 1 \in Nat
      BY <1>1
    <3> QED BY <1>2, <1>4, <2>3, <3>1, HolderAppends DEF RecordTool, HandlerThrows
  <2>4. CASE RecordResult(t)
    BY <1>1, <1>2, <1>4, <2>4, HolderAppends DEF RecordResult, HandlerThrows
  <2>5. CASE RecordSteer(t)
    <3>1. exec[t].steered \in Inputs \union {NoInput}
      BY AtWork DEF Execs
    <3>2. exec[t].steered \in Nat
      BY <3>1, InputsAssumption DEF NoInput
    <3> QED BY <1>2, <1>4, <2>5, <3>2, HolderAppends DEF RecordSteer
  <2> QED BY <2>1, <2>2, <2>3, <2>4, <2>5 DEF Handler
<1> QED BY <1>3, <1>4

LEMMA FlushIsClean ==
    ASSUME TInv, NEW t \in Turns, FlushMissing(t) \/ FailSeal(t) \/ FailFlush(t) PROVE Cleanly
<1>1. exec[t].seg \in Nat /\ exec[t].tools \in Nat
  BY AtWork DEF Execs, Segments
<1>2. UNCHANGED turn
  BY DEF FlushMissing, FailSeal, FailFlush
<1>3. CASE UNCHANGED transcript
  BY <1>2, <1>3, QuietIsClean
<1>4. CASE transcript' # transcript
  <2>1. CASE FlushMissing(t)
    BY <1>1, <1>2, <1>4, <2>1, HolderAppends DEF FlushMissing
  <2>2. CASE FailSeal(t)
    BY <1>1, <1>2, <1>4, <2>2, HolderSeals DEF FailSeal
  <2>3. CASE FailFlush(t)
    BY <1>1, <1>2, <1>4, <2>3, HolderAppends DEF FailFlush
  <2> QED BY <2>1, <2>2, <2>3
<1> QED BY <1>3, <1>4

\* A turn that begins streams, but it is running.
LEMMA BeginsClean == ASSUME TInv, NEW t \in Turns, exec[t].pc = "called", Commence(t) PROVE Cleanly
<1> DEFINE i == exec[t].input
           prompt == IF i = NoInput THEN <<>> ELSE <<Entry(t, "prompt", "complete", i)>>
           a == Entry(t, "answer", "streaming", 1)
<1>1. /\ turn'[t].status = "running" /\ \A u \in Turns \ {t} : turn'[u] = turn[u]
      /\ transcript \in Seq(Entries)
  BY CommenceTyped DEF TInv, TypeOK
<1>2. transcript' = transcript \o prompt \o <<a>>
  BY DEF Commence
<1>3. a \in Entries /\ a.turn = t
  BY EntryTyped DEF Entry
<1>4. prompt \in Seq(Entries) /\ \A k \in DOMAIN prompt : prompt[k].turn = t
  <2>1. CASE i = NoInput
    BY <2>1
  <2>2. CASE i # NoInput
    <3>1. i \in Nat
      BY AtWork, InputsAssumption, <2>2 DEF Execs
    <3>2. Entry(t, "prompt", "complete", i) \in Entries /\ Entry(t, "prompt", "complete", i).turn = t
      BY <3>1, EntryTyped DEF Entry
    <3> DEFINE e == Entry(t, "prompt", "complete", i)
    <3>3. prompt = <<e>>
      BY <2>2
    <3> HIDE DEF e, prompt
    <3> QED BY <3>2, <3>3 DEF e
  <2> QED BY <2>1, <2>2
<1> HIDE DEF prompt, a
<1>5. Kept(transcript', transcript)
  <2>1. transcript' \in Seq(Entries) /\ Len(transcript) <= Len(transcript')
    BY <1>1, <1>2, <1>3, <1>4
  <2>2. \A k \in 1..Len(transcript) : transcript'[k] = transcript[k]
    BY <1>1, <1>2, <1>3, <1>4
  <2> QED BY <2>1, <2>2 DEF Kept, KeptEntry
<1>6. \A k \in DOMAIN transcript' : k \notin DOMAIN transcript => transcript'[k].turn = t
  BY <1>1, <1>2, <1>3, <1>4
<1>7. \A u \in Turns \ {t} : CleanStep(u)
  BY <1>1, <1>5, <1>6, KeptIsClean
<1> QED BY <1>1, <1>7 DEF Cleanly

\* What finishCodeAgentTurn looks for before it closes a turn.
LEMMA CloseIsClean ==
    ASSUME TInv, NEW t \in Turns, NEW status \in {"complete", "cancelled", "error"},
           NEW tr \in Seq(Entries), NEW drop, Kept(tr, transcript),
           \A k \in DOMAIN tr : k \notin DOMAIN transcript => tr[k].kind = "notice" /\ tr[k].turn = t,
           CanClose(t, tr, drop), Close(t, status, Without(tr, t, drop))
    PROVE  Cleanly
<1>1. transcript' = Without(tr, t, drop) /\ turn' = [turn EXCEPT ![t].status = status]
  BY DEF Close
<1>2. transcript \in Seq(Entries)
  BY DEF TInv, TypeOK
<1>3. Kept(transcript', tr) /\ Kept(transcript', transcript)
  BY <1>1, <1>2, WithoutKept, KeptTransitive
<1>4. DOMAIN transcript' = DOMAIN tr
  BY <1>1 DEF Without
<1>5. \A k \in DOMAIN transcript' : k \notin DOMAIN transcript =>
         transcript'[k].kind = "notice" /\ transcript'[k].turn = t
  <2>1. \A k \in DOMAIN tr : KeptEntry(transcript'[k], tr[k])
    BY <1>3 DEF Kept
  <2> QED BY <1>4, <2>1 DEF KeptEntry
<1>6. \A u \in Turns : CleanStep(u)
  BY <1>2, <1>3, <1>5, KeptIsClean
<1>7. Dangling(t)' = {}
  BY <1>6 DEF CleanStep, CanClose
<1>8. Streaming(t)' = {}
  <2> SUFFICES ASSUME NEW k \in DOMAIN tr, transcript'[k].turn = t,
                      transcript'[k].kind = "answer", transcript'[k].state = "streaming"
               PROVE  FALSE
    BY <1>4 DEF Streaming, AnswersOf
  <2>1. KeptEntry(transcript'[k], tr[k])
    BY <1>3 DEF Kept
  <2>2. tr[k].turn = t /\ tr[k].kind = "answer" /\ tr[k].n \in drop
    BY <2>1 DEF KeptEntry, CanClose
  <2>3. transcript'[k] = [tr[k] EXCEPT !.state = "deleted"] /\ tr[k] \in Entries
    BY <1>1, <2>2 DEF Without
  <2> QED BY <2>3 DEF Entries
<1>9. \A u \in Turns \ {t} : turn'[u] = turn[u]
  BY <1>1 DEF TInv, TypeOK
<1> QED BY <1>6, <1>7, <1>8, <1>9 DEF Cleanly

LEMMA FinishCompleteIsClean == ASSUME TInv, NEW t \in Turns, FinishComplete(t) PROVE Cleanly
<1> DEFINE e == exec[t]
           visible == e.shown # {}
           obsolete == visible /\ Obsolete(t, e.seg, "complete")
           tr == IF visible /\ ~obsolete THEN Finalized(t, e.seg, "complete") ELSE transcript
           status == IF obsolete THEN "cancelled" ELSE "complete"
<1>1. e.seg \in Nat /\ transcript \in Seq(Entries)
  BY AtWork DEF Execs, Segments, TInv, TypeOK
<1>2. \/ UNCHANGED <<turn, transcript>>
      \/ CanClose(t, tr, Empty(t)) /\ Close(t, status, Without(tr, t, Empty(t)))
  BY DEF FinishComplete
<1>3. Kept(tr, transcript)
  BY <1>1, FinalizedKept DEF Obsolete, Kept, KeptEntry
<1>4. DOMAIN tr = DOMAIN transcript
  BY DEF Finalized
<1>5. tr \in Seq(Entries) /\ status \in {"complete", "cancelled", "error"}
  BY <1>3 DEF Kept
<1> HIDE DEF tr, status
<1> QED BY <1>2, <1>3, <1>4, <1>5, QuietIsClean, CloseIsClean

LEMMA FinishErrorIsClean == ASSUME TInv, NEW t \in Turns, FinishError(t) PROVE Cleanly
<1> DEFINE e == exec[t]
           reuse == e.seg = 1 /\ e.shown = {} /\ e.tools = 0
           obsolete == reuse /\ Obsolete(t, 1, "error")
           drop == IF reuse THEN {} ELSE Empty(t)
           notice == Entry(t, "notice", "error", 0)
           tr == IF ~reuse THEN Append(transcript, notice)
                 ELSE IF obsolete THEN transcript ELSE Finalized(t, 1, "error")
           status == IF obsolete \/ e.stop = "user" THEN "cancelled" ELSE "error"
<1>1. transcript \in Seq(Entries)
  BY DEF TInv, TypeOK
<1>2. \/ UNCHANGED <<turn, transcript>>
      \/ CanClose(t, tr, drop) /\ Close(t, status, Without(tr, t, drop))
  BY DEF FinishError
<1>3. notice \in Entries /\ notice.kind = "notice" /\ notice.turn = t
  BY EntryTyped DEF Entry
<1>4. /\ Kept(tr, transcript)
      /\ \A k \in DOMAIN tr : k \notin DOMAIN transcript => tr[k].kind = "notice" /\ tr[k].turn = t
  <2>1. CASE ~reuse
    <3>1. tr = Append(transcript, notice)
      BY <2>1
    <3> HIDE DEF tr, notice
    <3> QED BY <1>1, <1>3, <3>1, AppendKept
  <2>2. CASE reuse /\ obsolete
    <3>1. tr = transcript
      BY <2>2
    <3> HIDE DEF tr
    <3> QED BY <1>1, <3>1 DEF Kept, KeptEntry
  <2>3. CASE reuse /\ ~obsolete
    <3>1. tr = Finalized(t, 1, "error") /\ Finalizable(t, 1, "error")
      BY <2>3 DEF Obsolete
    <3>2. DOMAIN tr = DOMAIN transcript
      BY <3>1 DEF Finalized
    <3> HIDE DEF tr
    <3> QED BY <1>1, <3>1, <3>2, FinalizedKept
  <2> QED BY <2>1, <2>2, <2>3
<1>5. tr \in Seq(Entries) /\ status \in {"complete", "cancelled", "error"}
  BY <1>4 DEF Kept
<1> HIDE DEF tr, status, drop
<1> QED BY <1>2, <1>4, <1>5, QuietIsClean, CloseIsClean

\* The recovery closes a turn without a claim and its streams with it.
LEMMA FailInterruptedIsClean == ASSUME TInv, FailInterrupted PROVE Cleanly
<1> DEFINE failed == {t \in Turns : turn[t].status = "running" /\ ~(lease.turn = t /\ lease.live)}
<1>1. /\ turn' = [t \in Turns |-> IF t \in failed THEN [turn[t] EXCEPT !.status = "error"] ELSE turn[t]]
      /\ transcript' = [k \in DOMAIN transcript |->
             IF transcript[k].turn \in failed /\ transcript[k].state = "streaming"
             THEN [transcript[k] EXCEPT !.state = "error"] ELSE transcript[k]]
  BY DEF FailInterrupted
<1>2. transcript \in Seq(Entries) /\ turn \in [Turns -> [status : TurnStatuses, fence : Nat]]
  BY DEF TInv, TypeOK
<1>3. Kept(transcript', transcript)
  BY <1>1, <1>2, RestatedKept
<1>4. \A u \in Turns : CleanStep(u)
  BY <1>1, <1>2, <1>3, KeptIsClean
<1>5. ASSUME NEW u \in Turns, u \in failed PROVE Streaming(u)' = {} /\ turn'[u].status = "error"
  <2>1. turn'[u].status = "error"
    BY <1>1, <1>2, <1>5
  <2>2. ASSUME NEW k \in DOMAIN transcript', transcript'[k].turn = u, transcript'[k].state = "streaming"
        PROVE  FALSE
    <3>1. k \in DOMAIN transcript /\ transcript[k] \in Entries
      BY <1>1, <1>2, <2>2
    <3>2. KeptEntry(transcript'[k], transcript[k])
      <4>1. k \in 1..Len(transcript)
        BY <1>2, <3>1
      <4> QED BY <1>3, <4>1 DEF Kept
    <3>3. transcript'[k] = [transcript[k] EXCEPT !.state = "error"]
      BY <1>1, <1>5, <2>2, <3>1, <3>2 DEF KeptEntry
    <3> QED BY <2>2, <3>1, <3>3 DEF Entries
  <2> QED BY <2>1, <2>2 DEF Streaming, AnswersOf
<1>6. \A u \in Turns : u \notin failed => turn'[u] = turn[u]
  BY <1>1
<1> HIDE DEF failed
<1> QED BY <1>4, <1>5, <1>6 DEF Cleanly

LEMMA FailOrphansIsClean == ASSUME TInv, NEW t \in Turns, FailOrphans(t) PROVE Cleanly
<1>1. /\ UNCHANGED turn
      /\ transcript' = [k \in DOMAIN transcript |->
           IF k \in Streaming(t) THEN [transcript[k] EXCEPT !.state = "error"] ELSE transcript[k]]
  BY DEF FailOrphans
<1>2. transcript \in Seq(Entries)
  BY DEF TInv, TypeOK
<1>3. \A k \in Streaming(t) : transcript[k].kind = "answer"
  BY DEF Streaming, AnswersOf
<1>4. Kept(transcript', transcript)
  BY <1>1, <1>2, <1>3, RestatedKept
<1>5. \A u \in Turns : CleanStep(u)
  BY <1>1, <1>2, <1>4, KeptIsClean
<1> QED BY <1>1, <1>5 DEF Cleanly

LEMMA EndsIsClean == ASSUME TInv, NEW t \in Turns, Ends(t) PROVE Cleanly
<1>1. CASE Begin(t)
  BY <1>1, BeginsClean, QuietIsClean DEF Begin
<1>2. CASE Prepare(t) \/ Stop(t) \/ RequeueSteer(t) \/ Leave(t) \/ Release(t)
  BY <1>2, QuietIsClean DEF Prepare, Stop, RequeueSteer, Leave, Release
<1> QED BY <1>1, <1>2, FlushIsClean, FinishCompleteIsClean, FinishErrorIsClean DEF Ends

LEMMA StepIsClean == ASSUME TInv, Next PROVE Cleanly
<1>1. ASSUME NEW s \in Servers,
             \/ Ask(s) \/ Interrupt(s) \/ Crash(s)
             \/ Claim(s) \/ StartClaimed(s) \/ Settle(s) \/ Resume(s)
      PROVE  Cleanly
  <2>1. CASE Ask(s) \/ Interrupt(s)
    BY <2>1, QuietIsClean DEF Ask, Interrupt
  <2>2. CASE Crash(s) \/ Claim(s)
    BY <2>2, QuietIsClean DEF Crash, Claim
  <2>3. CASE StartClaimed(s) \/ Settle(s)
    BY <2>3, QuietIsClean DEF StartClaimed, Settle
  <2>4. CASE Resume(s)
    BY <2>4, QuietIsClean DEF Resume
  <2> QED BY <1>1, <2>1, <2>2, <2>3, <2>4
<1>2. ASSUME NEW s \in Servers, NEW i \in Inputs, Queue(s, i) \/ SteerMark(s, i)
      PROVE  Cleanly
  BY <1>2, QuietIsClean DEF Queue, SteerMark
<1>3. ASSUME NEW t \in Turns,
             \/ Ends(t) \/ Handler(t) \/ Arrive(t) \/ WorkFails(t) \/ AgentEnds(t)
             \/ BeginUnacknowledged(t) \/ TimeOut(t) \/ NoticeLost(t)
      PROVE  Cleanly
  <2>1. CASE BeginUnacknowledged(t)
    BY <2>1, BeginsClean DEF BeginUnacknowledged
  <2>2. CASE Arrive(t) \/ WorkFails(t) \/ AgentEnds(t) \/ TimeOut(t) \/ NoticeLost(t)
    <3>1. CASE Arrive(t) \/ WorkFails(t)
      BY <3>1, QuietIsClean DEF Arrive, WorkFails
    <3>2. CASE AgentEnds(t) \/ TimeOut(t)
      BY <3>2, QuietIsClean DEF AgentEnds, TimeOut
    <3>3. CASE NoticeLost(t)
      BY <3>3, QuietIsClean DEF NoticeLost
    <3> QED BY <2>2, <3>1, <3>2, <3>3
  <2> QED BY <1>3, <2>1, <2>2, EndsIsClean, HandlerIsClean
<1>4. ASSUME NEW i \in Inputs,
             \/ Cancel(i) \/ SteerSend(i) \/ SteerAccepted(i)
             \/ SteerRefused(i) \/ SteerSettle(i) \/ RequeueStale(i)
      PROVE  Cleanly
  <2>1. CASE Cancel(i) \/ SteerSend(i)
    BY <2>1, QuietIsClean DEF Cancel, SteerSend
  <2>2. CASE SteerAccepted(i) \/ SteerRefused(i)
    BY <2>2, QuietIsClean DEF SteerAccepted, SteerRefused
  <2>3. CASE SteerSettle(i) \/ RequeueStale(i)
    BY <2>3, QuietIsClean DEF SteerSettle, RequeueStale
  <2> QED BY <1>4, <2>1, <2>2, <2>3
<1>5. CASE LeaseExpires \/ RecoverRoom
  BY <1>5, QuietIsClean DEF LeaseExpires, RecoverRoom
<1> QED BY <1>1, <1>2, <1>3, <1>4, <1>5, FailInterruptedIsClean, FailOrphansIsClean DEF Next, Recovery

\* A turn that is over streams nothing, and if it ended well or was stopped every
\* tool call has its result: finishCodeAgentTurn looks before it closes, the
\* recovery closes the streams with the turn, and nobody writes without the claim.
THEOREM ClosedTurnsAreClean == Spec => []ClosedTurnIsClean
<1>1. Init => ClosedTurnIsClean
  BY DEF Init, ClosedTurnIsClean
<1>2. ASSUME TInv, ClosedTurnIsClean, [Next]_vars PROVE ClosedTurnIsClean'
  <2>1. Cleanly
    BY <1>2, StepIsClean, QuietIsClean DEF vars
  <2> SUFFICES ASSUME NEW u \in Turns
               PROVE  /\ turn'[u].status \notin {"none", "running"} => Streaming(u)' = {}
                      /\ turn'[u].status \in {"complete", "cancelled"} => Dangling(u)' = {}
    BY DEF ClosedTurnIsClean
  <2>2. CASE turn'[u].status = turn[u].status /\ CleanStep(u)
    BY <1>2, <2>2 DEF ClosedTurnIsClean, CleanStep
  <2> QED BY <2>1, <2>2 DEF Cleanly
<1> QED BY <1>1, <1>2, AlwaysTyped, PTL DEF Spec

-----------------------------------------------------------------------------
(* Turn taking.                                                            *)

LEMMA PlaceIs ==
    ASSUME NEW t \in Turns, ClaimHeld(t)
    PROVE  Place = t
  BY DEF Place, ClaimHeld

LEMMA PlaceIsNone == (\A t \in Turns : ~ClaimHeld(t)) => Place = NoTurn
  BY DEF Place

LEMMA GivenWaits ==
    /\ GivenOf("absent") = "absent"
    /\ \A x \in {"queued", "starting", "steering"} : GivenOf(x) = "waiting"
    /\ GivenOf("cancelled") = "withdrawn"
    /\ \A t \in Turns : GivenOf(t) = t
  BY TurnsAssumption DEF GivenOf

LEMMA GivenUpdate ==
    ASSUME TInv, NEW i \in Inputs, NEW x, input' = [input EXCEPT ![i] = x]
    PROVE  Given' = [Given EXCEPT ![i] = GivenOf(x)] /\ Given[i] = GivenOf(input[i])
<1>1. input' = [j \in Inputs |-> IF j = i THEN x ELSE input[j]]
  BY QueueTypes
<1>2. Given' = [j \in Inputs |-> IF j = i THEN GivenOf(x) ELSE GivenOf(input[j])]
  BY <1>1 DEF Given, GivenOf
<1> QED BY <1>2 DEF Given

LEMMA TurnTakingInit == Init => Abstract!Init
<1> SUFFICES ASSUME Init PROVE Abstract!Init
  OBVIOUS
<1>1. Place = NoTurn
  BY TurnsAssumption, PlaceIsNone DEF Init, NoLease, ClaimHeld
<1>2. Past = {}
  BY DEF Init, Past
<1>3. Given = [i \in Inputs |-> "absent"]
  BY GivenWaits DEF Init, Given
<1> QED BY <1>1, <1>2, <1>3 DEF Abstract!Init

\* A claim that is given up closes the place.
LEMMA ShrinksAbstractly ==
    ASSUME TInv, Shrinks, Given' = Given
    PROVE  Abstract!Next \/ UNCHANGED Abstract!vars
<1>1. Past' = Past
  BY DEF Shrinks, Past
<1>2. CASE \E t \in Turns : ClaimHeld(t)'
  <2>1. PICK t \in Turns : ClaimHeld(t)'
    BY <1>2
  <2>2. ClaimHeld(t)
    BY <2>1 DEF Shrinks
  <2>3. Place = t
    BY <2>2, PlaceIs
  <2>4. Place' = t
    BY <2>1 DEF Place, ClaimHeld
  <2> QED BY <1>1, <2>3, <2>4 DEF Abstract!vars
<1>3. CASE ~ \E t \in Turns : ClaimHeld(t)'
  <2>1. Place' = NoTurn
    BY <1>3 DEF Place
  <2>2. CASE Place = NoTurn
    BY <1>1, <2>1, <2>2 DEF Abstract!vars
  <2>3. CASE Place # NoTurn
    BY <1>1, <2>1, <2>3 DEF Abstract!Next, Abstract!Close
  <2> QED BY <2>2, <2>3
<1> QED BY <1>2, <1>3

LEMMA BeginsAbstractly ==
    ASSUME TInv, TInv', NEW t \in Turns, Begins(t)
    PROVE  Abstract!Open(t)
<1> DEFINE i == exec[t].input
<1>1. Place = NoTurn
  <2>1. \A u \in Turns : ~ClaimHeld(u)
    BY TurnsAssumption DEF Begins, CanCommence, ClaimHeld
  <2> QED BY <2>1, PlaceIsNone
<1>2. PICK fence :
         /\ lease' = [turn |-> t, fence |-> fence, live |-> TRUE]
         /\ turn' = [turn EXCEPT ![t] = [status |-> "running", fence |-> fence]]
         /\ input' = IF i = NoInput THEN input ELSE [input EXCEPT ![i] = t]
  BY DEF Begins, Commence
<1>3. turn'[t] = [status |-> "running", fence |-> fence] /\ \A u \in Turns \ {t} : turn'[u] = turn[u]
  BY <1>2 DEF TInv, TypeOK
<1>4. ClaimHeld(t)'
  BY <1>2, <1>3 DEF ClaimHeld
<1>5. Place' = t
  BY <1>4 DEF Place, ClaimHeld
<1>6. t \notin Past /\ Past' = Past \union {t}
  BY <1>3 DEF Past, Begins
<1>7. Given' = Given \/ \E j \in Inputs : Given[j] = "waiting" /\ Given' = [Given EXCEPT ![j] = t]
  <2>1. CASE i = NoInput
    BY <1>2, <2>1 DEF Given, GivenOf
  <2>2. CASE i # NoInput
    <3>1. i \in Inputs
      BY <2>2, AtWork DEF Execs
    <3>2. input[i] = "starting" /\ input' = [input EXCEPT ![i] = t]
      BY <1>2, <2>2 DEF Begins, CanCommence
    <3>3. Given' = [Given EXCEPT ![i] = GivenOf(t)] /\ Given[i] = GivenOf(input[i])
      BY <3>1, <3>2, GivenUpdate
    <3>4. GivenOf(t) = t /\ GivenOf(input[i]) = "waiting"
      BY <3>2, GivenWaits
    <3> QED BY <3>1, <3>3, <3>4
  <2> QED BY <2>1, <2>2
<1> QED BY <1>1, <1>5, <1>6, <1>7 DEF Abstract!Open

LEMMA TakesAbstractly ==
    ASSUME TInv, NEW t \in Turns, NEW i \in Inputs, Takes(t, i)
    PROVE  Abstract!Take(i)
<1>1. Place = t /\ Place # NoTurn
  BY PlaceIs, TurnsAssumption DEF Takes
<1>2. Place' = Place /\ Past' = Past
  BY DEF Takes, Place, ClaimHeld, Past
<1>3. Given' = [Given EXCEPT ![i] = t] /\ Given[i] = "waiting"
  <2>1. input[i] = "steering" /\ input' = [input EXCEPT ![i] = t]
    BY DEF Takes
  <2>2. Given' = [Given EXCEPT ![i] = GivenOf(t)] /\ Given[i] = GivenOf(input[i])
    BY <2>1, GivenUpdate
  <2>3. GivenOf(t) = t /\ GivenOf(input[i]) = "waiting"
    BY <2>1, GivenWaits
  <2> QED BY <2>2, <2>3
<1> QED BY <1>1, <1>2, <1>3 DEF Abstract!Take

LEMMA HandsAbstractly ==
    ASSUME TInv, NEW i \in Inputs, NEW x, Hands(i, x)
    PROVE  Abstract!Next \/ UNCHANGED Abstract!vars
<1>1. Place' = Place /\ Past' = Past
  BY DEF Hands, Place, ClaimHeld, Past
<1>2. Given' = [Given EXCEPT ![i] = GivenOf(x)] /\ Given[i] = GivenOf(input[i])
  BY GivenUpdate DEF Hands
<1>3. CASE input[i] = "absent" /\ x = "queued"
  <2>1. Abstract!Submit(i)
    BY <1>1, <1>2, <1>3, GivenWaits DEF Abstract!Submit
  <2> QED BY <2>1 DEF Abstract!Next
<1>4. CASE input[i] = "queued" /\ x = "cancelled"
  <2>1. Abstract!Withdraw(i)
    BY <1>1, <1>2, <1>4, GivenWaits DEF Abstract!Withdraw
  <2> QED BY <2>1 DEF Abstract!Next
<1>5. CASE {input[i], x} \subseteq {"queued", "starting", "steering"}
  <2>1. GivenOf(x) = Given[i]
    BY <1>2, <1>5, GivenWaits
  <2>2. Given' = Given
    BY <1>2, <2>1 DEF Given
  <2> QED BY <1>1, <2>2 DEF Abstract!vars
<1> QED BY <1>3, <1>4, <1>5 DEF Hands

LEMMA TurnTakingStep == ASSUME TInv, Next PROVE Abstract!Next \/ UNCHANGED Abstract!vars
<1>1. TInv' /\ Effect
  BY StepEffects
<1>2. ASSUME Shrinks, UNCHANGED input PROVE Abstract!Next \/ UNCHANGED Abstract!vars
  <2>1. Given' = Given
    BY <1>2 DEF Given, GivenOf
  <2> QED BY <1>2, <2>1, ShrinksAbstractly
<1>3. CASE Lets
  BY <1>2, <1>3 DEF Lets
<1>4. ASSUME NEW t \in Turns, Writes(t) PROVE Abstract!Next \/ UNCHANGED Abstract!vars
  BY <1>2, <1>4 DEF Writes
<1>5. ASSUME NEW t \in Turns, Begins(t) PROVE Abstract!Next
  BY <1>1, <1>5, BeginsAbstractly DEF Abstract!Next
<1>6. ASSUME NEW t \in Turns, NEW i \in Inputs, Takes(t, i) PROVE Abstract!Next
  BY <1>6, TakesAbstractly DEF Abstract!Next
<1>7. ASSUME NEW i \in Inputs, NEW x, Hands(i, x) PROVE Abstract!Next \/ UNCHANGED Abstract!vars
  BY <1>7, HandsAbstractly
<1> QED BY <1>1, <1>3, <1>4, <1>5, <1>6, <1>7 DEF Effect

\* The lease, the turns and the queue implement turn taking: one turn at a time has
\* the place, none gets it back, and an input goes to the turn that has it.
THEOREM TurnsTakeTurns == Spec => ImplementsTurnTaking
<1>1. TInv /\ UNCHANGED vars => UNCHANGED Abstract!vars
  BY DEF vars, Abstract!vars, Place, Past, Given, GivenOf, ClaimHeld
<1>2. TInv /\ [Next]_vars => [Abstract!Next]_(Abstract!vars)
  BY <1>1, TurnTakingStep
<1> QED BY <1>2, TurnTakingInit, AlwaysTyped, PTL DEF Spec, ImplementsTurnTaking, Abstract!Spec

=============================================================================
