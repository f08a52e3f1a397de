--------------------------- MODULE CodeAgentTurn ---------------------------
(***************************************************************************)
(* Agent turns in one workspace room of RoomTalk.                          *)
(*                                                                         *)
(* PostgreSQL holds the room's status, its lease (code_agent_room_leases), *)
(* the turns (room_agent_turns) and the messages, among them the queued    *)
(* inputs.  Every server keeps an in-process map of active turns, drains   *)
(* the queue and runs startTurn; a singleton pass repairs what crashed     *)
(* servers left behind.                                                    *)
(*                                                                         *)
(* One transaction is one action.  Between two of them anything else may   *)
(* happen: another server's turn, an interrupt, the turn's deadline, the   *)
(* expiry of its lease or a crash.  A live holder renews its lease long    *)
(* before it expires, so losing it takes a unit of the fault budget, as    *)
(* does a crash, a commit without acknowledgement and a failed renewal.    *)
(***************************************************************************)
EXTENDS Naturals, Sequences, SequencesExt, FiniteSets

CONSTANTS
    Servers,    \* application instances
    Turns,      \* turn ids
    Inputs,     \* queued inputs: numbers in the order of their positions
    NoTurn,     \* no turn: no lease row, no active turn
    NoServer,   \* a turn id that no server uses
    MaxTools,   \* bound on the tool calls of a turn
    MaxAsks,    \* bound on the turns asked for without the queue
    MaxExtras,  \* bound on asked turns and tool calls together
    Steers,     \* the inputs a user may steer with
    MaxFaults   \* bound on crashes, lost leases and lost acknowledgements

NoInput == 0

ASSUME InputsAssumption == Inputs \subseteq Nat \ {NoInput} /\ IsFiniteSet(Inputs)
ASSUME TurnsAssumption ==
    /\ IsFiniteSet(Turns) /\ NoTurn \notin Turns
    /\ Turns \cap Inputs = {}
    /\ Turns \cap {"absent", "queued", "starting", "steering", "cancelled"} = {}
ASSUME ServersAssumption == NoServer \notin Servers
ASSUME BoundsAssumption ==
    /\ {MaxTools, MaxAsks, MaxExtras, MaxFaults} \subseteq Nat
    /\ Steers \subseteq Inputs

VARIABLES
    room,       \* rooms.code_agent_status
    lease,      \* the room's row of code_agent_room_leases
    turn,       \* room_agent_turns
    transcript, \* the room's messages in the order of their positions
    input,      \* the queued inputs
    exec,       \* the execution of startTurn for each turn id
    active,     \* activeTurns of each server
    drain,      \* queueDrains of each server and what drainQueuedTurn does
    steer,      \* the steerQueuedTurn request for each input
    asks,       \* turns asked for so far
    faults      \* faults so far

vars == <<room, lease, turn, transcript, input, exec, active, drain, steer, asks, faults>>
queueVars == <<input, drain, steer>>
budget == <<asks, faults>>

TurnStatuses == {"none", "running", "complete", "cancelled", "error"}
Segments == 1..(MaxTools + 1)
Entries == [turn : Turns, kind : {"answer", "notice", "prompt", "tool", "result"},
            state : {"streaming", "complete", "error", "deleted"}, n : Nat]

\* Where startTurn stands.  "gone" is an execution whose server crashed.
Before == {"none", "called"}
Working == {"preparing", "working", "finalizing"}
Failing == {"failing", "flushing", "erring"}
Unwinding == {"ending", "releasing"}
Pcs == Before \union Working \union Failing \union Unwinding \union {"done", "gone"}

Execs == [pc : Pcs, server : Servers \union {NoServer}, input : Inputs \union {NoInput},
          lost : BOOLEAN, stop : {"no", "user", "late", "timeout"},
          seg : Segments, text : {"empty", "unsealed", "sealed"}, more : BOOLEAN,
          shown : SUBSET Segments, tool : BOOLEAN, tools : 0..MaxTools,
          event : {"none", "text", "tool", "result", "steer"},
          steered : Inputs \union {NoInput},
          pending : SUBSET Inputs, got : SUBSET Inputs, drains : BOOLEAN]

TypeOK ==
    /\ room \in {"idle", "running", "error"}
    /\ lease \in [turn : Turns \union {NoTurn}, fence : Nat, live : BOOLEAN]
    /\ turn \in [Turns -> [status : TurnStatuses, fence : Nat]]
    /\ transcript \in Seq(Entries)
    /\ input \in [Inputs -> {"absent", "queued", "starting", "steering", "cancelled"} \union Turns]
    /\ exec \in [Turns -> Execs]
    /\ active \in [Servers -> Turns \union {NoTurn}]
    /\ drain \in [Servers -> [step : {"idle", "claiming", "claimed", "starting", "settling"},
                              input : Inputs \union {NoInput}]]
    /\ steer \in [Inputs -> [step : {"none", "marked", "sent", "refused"},
                             server : Servers \union {NoServer}]]
    /\ asks \in 0..MaxAsks
    /\ faults \in 0..MaxFaults

NoLease == [turn |-> NoTurn, fence |-> 0, live |-> FALSE]
NoExec == [pc |-> "none", server |-> NoServer, input |-> NoInput, lost |-> FALSE,
           stop |-> "no", seg |-> 1, text |-> "empty", more |-> FALSE, shown |-> {},
           tool |-> FALSE, tools |-> 0, event |-> "none", steered |-> NoInput, pending |-> {}, got |-> {},
           drains |-> FALSE]
NoDrain == [step |-> "idle", input |-> NoInput]
NoSteer == [step |-> "none", server |-> NoServer]

Init ==
    /\ room = "idle"
    /\ lease = NoLease
    /\ turn = [t \in Turns |-> [status |-> "none", fence |-> 0]]
    /\ transcript = <<>>
    /\ input = [i \in Inputs |-> "absent"]
    /\ exec = [t \in Turns |-> NoExec]
    /\ active = [s \in Servers |-> NoTurn]
    /\ drain = [s \in Servers |-> NoDrain]
    /\ steer = [i \in Inputs |-> NoSteer]
    /\ asks = 0
    /\ faults = 0

Fault == faults < MaxFaults /\ faults' = faults + 1
Set(t, e) == exec' = [exec EXCEPT ![t] = e]

(***************************************************************************)
(* The messages of a turn                                                  *)
(***************************************************************************)
Entry(t, kind, state, n) == [turn |-> t, kind |-> kind, state |-> state, n |-> n]
AnswersOf(t) == {k \in DOMAIN transcript : transcript[k].turn = t /\ transcript[k].kind = "answer"}
SegmentOf(t, n) == CHOOSE k \in AnswersOf(t) : transcript[k].n = n
Streaming(t) == {k \in AnswersOf(t) : transcript[k].state = "streaming"}
Dangling(t) ==
    {k \in DOMAIN transcript :
        /\ transcript[k].turn = t /\ transcript[k].kind = "tool"
        /\ ~ \E j \in DOMAIN transcript :
               transcript[j] = Entry(t, "result", "complete", transcript[k].n)}

\* Mutant of ClaimHeld: the claim is recognised by its fence alone.
ClaimHeld_ByFence(t) ==
    /\ turn[t].status = "running"
    /\ lease.fence = turn[t].fence
    /\ lease.live

\* lockCodeAgentTurnClaim: the turn is running and the room's live lease is its own.
ClaimHeld(t) ==
    /\ turn[t].status = "running"
    /\ lease.turn = t
    /\ lease.fence = turn[t].fence
    /\ lease.live

\* Whether finalizing segment n with the given state is accepted.
Finalizable(t, n, state) ==
    /\ \E k \in AnswersOf(t) : transcript[k].n = n
    /\ transcript[SegmentOf(t, n)].state \in {"streaming", state}

Finalized(t, n, state) == [transcript EXCEPT ![SegmentOf(t, n)].state = state]

(***************************************************************************)
(* Starting a turn                                                         *)
(***************************************************************************)
\* scheduleQueuedTurn, as the drain record of server s when a is its active turn.
Scheduled(s, a) ==
    IF a = NoTurn /\ drain[s].step = "idle" THEN [NoDrain EXCEPT !.step = "claiming"] ELSE drain[s]

Extras == asks + FoldFunction(LAMBDA e, n : e.tools + n, 0, exec)

FreeTurns == {t \in Turns : exec[t].pc = "none"}

\* A user asks for a turn; startTurn sees no active turn on its server.
Ask(s) ==
    /\ asks < MaxAsks /\ Extras < MaxExtras
    /\ active[s] = NoTurn
    /\ \E t \in FreeTurns :
           Set(t, [NoExec EXCEPT !.pc = "called", !.server = s])
    /\ asks' = asks + 1
    /\ UNCHANGED <<room, lease, turn, transcript, active, queueVars, faults>>

\* startTurn returns without having persisted anything; a drain settles its input.
Refuse(t) ==
    LET s == exec[t].server IN
    /\ Set(t, NoExec)
    /\ drain' = IF exec[t].input = NoInput THEN drain
                ELSE [drain EXCEPT ![s].step = "settling"]

\* The transaction of beginCodeAgentTurn: its effect on the database.
Commence(t) ==
    LET i == exec[t].input
        fence == IF lease.turn = NoTurn THEN 1 ELSE lease.fence + 1
        prompt == IF i = NoInput THEN <<>> ELSE <<Entry(t, "prompt", "complete", i)>>
    IN
    /\ lease' = [turn |-> t, fence |-> fence, live |-> TRUE]
    /\ turn' = [turn EXCEPT ![t] = [status |-> "running", fence |-> fence]]
    /\ room' = "running"
    /\ transcript' = transcript \o prompt \o <<Entry(t, "answer", "streaming", 1)>>
    /\ input' = IF i = NoInput THEN input ELSE [input EXCEPT ![i] = t]

\* Mutant of CanCommence: the queued input is not looked at again.
CanCommence_AnyInput(t) == lease.turn = NoTurn \/ ~lease.live

CanCommence(t) ==
    /\ exec[t].input # NoInput => input[exec[t].input] = "starting"
    /\ lease.turn = NoTurn \/ ~lease.live

Begin(t) ==
    LET s == exec[t].server IN
    /\ exec[t].pc = "called"
    /\ \/ /\ CanCommence(t)
          /\ Commence(t)
          /\ Set(t, [exec[t] EXCEPT !.pc = "preparing"])
          /\ active' = [active EXCEPT ![s] = t]
          /\ drain' = IF exec[t].input = NoInput THEN drain ELSE [drain EXCEPT ![s] = NoDrain]
       \/ /\ ~CanCommence(t)
          /\ Refuse(t)
          /\ UNCHANGED <<room, lease, turn, transcript, input, active>>
    /\ UNCHANGED <<steer, budget>>

\* The start commits, but its acknowledgement is lost: the server takes it for failed.
BeginUnacknowledged(t) ==
    /\ exec[t].pc = "called"
    /\ CanCommence(t)
    /\ Fault
    /\ Commence(t)
    /\ Set(t, [exec[t] EXCEPT !.pc = "done"])
    /\ drain' = IF exec[t].input = NoInput THEN drain
                ELSE [drain EXCEPT ![exec[t].server].step = "settling"]
    /\ UNCHANGED <<active, steer, asks>>

(***************************************************************************)
(* Running a turn                                                          *)
(***************************************************************************)
Stopped(t) == exec[t].lost \/ exec[t].stop # "no"
Fails(t) == Set(t, [exec[t] EXCEPT !.pc = "failing"])

\* Context, sandbox and runner are prepared: hasActiveCodeAgentRoomLease is the last check.
Prepare(t) ==
    /\ exec[t].pc = "preparing"
    /\ IF ~Stopped(t) /\ lease.turn = t /\ lease.live
       THEN Set(t, [exec[t] EXCEPT !.pc = "working"])
       ELSE Set(t, [exec[t] EXCEPT !.pc = "failing",
                                   !.lost = @ \/ lease.turn # t \/ ~lease.live])
    /\ UNCHANGED <<room, lease, turn, transcript, active, queueVars, budget>>

\* No prompt, no sandbox, or an error of the agent.
WorkFails(t) ==
    /\ exec[t].pc \in {"preparing", "working"}
    /\ exec[t].event = "none"
    /\ Fails(t)
    /\ UNCHANGED <<room, lease, turn, transcript, active, queueVars, budget>>

\* The runner is stopped, or the deadline wins the race against it: then the
\* handler of an event that is in progress is not waited for.
Stop(t) ==
    /\ exec[t].pc = "working"
    /\ Stopped(t)
    /\ exec[t].event = "none" \/ exec[t].stop = "timeout"
    /\ Fails(t)
    /\ UNCHANGED <<room, lease, turn, transcript, active, queueVars, budget>>

\* handleRunnerEvent is entered for an event of the agent.
Arrive(t) ==
    /\ exec[t].pc = "working"
    /\ exec[t].event = "none"
    /\ exec[t].stop # "timeout"
    /\ \/ /\ ~exec[t].more
          /\ exec[t].text = "empty"
          /\ Set(t, [exec[t] EXCEPT !.text = "unsealed", !.shown = @ \union {exec[t].seg}])
       \/ /\ exec[t].more
          /\ Set(t, [exec[t] EXCEPT !.event = "text"])
       \/ /\ ~exec[t].tool
          /\ exec[t].tools < MaxTools /\ Extras < MaxExtras
          /\ Set(t, [exec[t] EXCEPT !.event = "tool", !.more = TRUE])
       \/ /\ exec[t].tool
          /\ Set(t, [exec[t] EXCEPT !.event = "result"])
       \/ \E i \in exec[t].got :
             Set(t, [exec[t] EXCEPT !.event = "steer", !.steered = i, !.got = @ \ {i}])
    /\ UNCHANGED <<room, lease, turn, transcript, active, queueVars, budget>>

\* A handler whose write was refused throws: the run ends with that error.
HandlerThrows(t) ==
    /\ Set(t, [exec[t] EXCEPT !.event = "none", !.pc = IF @ = "working" THEN "failing" ELSE @])
    /\ UNCHANGED transcript

\* Text after a tool call: the segment before it is sealed, then a new one appended.
SealSegment(t) ==
    /\ exec[t].event = "text"
    /\ exec[t].text = "unsealed"
    /\ IF ClaimHeld(t) /\ Finalizable(t, exec[t].seg, "complete")
       THEN /\ transcript' = Finalized(t, exec[t].seg, "complete")
            /\ Set(t, [exec[t] EXCEPT !.text = "sealed"])
       ELSE HandlerThrows(t)
    /\ UNCHANGED <<room, lease, turn, active, queueVars, budget>>

NewSegment(t) ==
    /\ exec[t].event = "text"
    /\ exec[t].text # "unsealed"
    /\ IF ClaimHeld(t)
       THEN LET n == exec[t].seg + 1 IN
            /\ transcript' = Append(transcript, Entry(t, "answer", "streaming", n))
            /\ Set(t, [exec[t] EXCEPT !.event = "none", !.seg = n, !.text = "unsealed",
                                      !.more = FALSE, !.shown = @ \union {n}])
       ELSE HandlerThrows(t)
    /\ UNCHANGED <<room, lease, turn, active, queueVars, budget>>

RecordTool(t) ==
    /\ exec[t].event = "tool"
    /\ IF ClaimHeld(t)
       THEN /\ transcript' = Append(transcript, Entry(t, "tool", "complete", exec[t].tools + 1))
            /\ Set(t, [exec[t] EXCEPT !.event = "none", !.tool = TRUE, !.tools = @ + 1])
       ELSE HandlerThrows(t)
    /\ UNCHANGED <<room, lease, turn, active, queueVars, budget>>

RecordResult(t) ==
    /\ exec[t].event = "result"
    /\ IF ClaimHeld(t)
       THEN /\ transcript' = Append(transcript, Entry(t, "result", "complete", exec[t].tools))
            /\ Set(t, [exec[t] EXCEPT !.event = "none", !.tool = FALSE])
       ELSE HandlerThrows(t)
    /\ UNCHANGED <<room, lease, turn, active, queueVars, budget>>

\* Mutant of RecordSteer: whatever became of the input, it is recorded.
RecordSteer_AnyState(t) ==
    LET i == exec[t].steered IN
    /\ exec[t].event = "steer"
    /\ IF ClaimHeld(t)
       THEN /\ transcript' = Append(transcript, Entry(t, "prompt", "complete", i))
            /\ input' = [input EXCEPT ![i] = t]
       ELSE UNCHANGED <<transcript, input>>
    /\ Set(t, [exec[t] EXCEPT !.event = "none", !.steered = NoInput, !.pending = @ \ {i}])
    /\ UNCHANGED <<room, lease, turn, active, drain, steer, budget>>

\* The agent has inserted a steered input: materializeCodeAgentQueuedMessageForTurn.
RecordSteer(t) ==
    LET i == exec[t].steered IN
    /\ exec[t].event = "steer"
    /\ IF i \in exec[t].pending /\ active[exec[t].server] = t
          /\ ClaimHeld(t) /\ input[i] = "steering"
       THEN /\ transcript' = Append(transcript, Entry(t, "prompt", "complete", i))
            /\ input' = [input EXCEPT ![i] = t]
            /\ Set(t, [exec[t] EXCEPT !.event = "none", !.steered = NoInput,
                                      !.pending = @ \ {i}])
       ELSE /\ Set(t, [exec[t] EXCEPT !.event = "none", !.steered = NoInput])
            /\ UNCHANGED <<transcript, input>>
    /\ UNCHANGED <<room, lease, turn, active, drain, steer, budget>>

\* The final event.  A response without text and tools is an error.
AgentEnds(t) ==
    /\ exec[t].pc = "working"
    /\ exec[t].event = "none"
    /\ Set(t, [exec[t] EXCEPT
           !.pc = IF Stopped(t) \/ (exec[t].shown = {} /\ exec[t].tools = 0)
                  THEN "failing" ELSE "finalizing"])
    /\ UNCHANGED <<room, lease, turn, transcript, active, queueVars, budget>>

(***************************************************************************)
(* Ending a turn                                                           *)
(***************************************************************************)
Empty(t) == (1..exec[t].seg) \ exec[t].shown

\* Mutant of CanClose: tool calls without a result are not looked for.
CanClose_AnyTools(t, tr, drop) ==
    /\ \A n \in drop : \E k \in DOMAIN tr : tr[k] = Entry(t, "answer", "streaming", n)
    /\ \A k \in DOMAIN tr :
           tr[k].turn = t /\ tr[k].state = "streaming" => tr[k].n \in drop

\* finishCodeAgentTurn refuses to close a turn that leaves, in the messages tr, a
\* streaming segment outside drop or a tool call without result, or whose empty
\* segments are no longer what they were.
CanClose(t, tr, drop) ==
    /\ \A n \in drop : \E k \in DOMAIN tr : tr[k] = Entry(t, "answer", "streaming", n)
    /\ \A k \in DOMAIN tr :
           tr[k].turn = t /\ tr[k].state = "streaming" => tr[k].n \in drop
    /\ Dangling(t) = {}

\* A deleted message leaves a gap in the positions.
Without(tr, t, drop) ==
    [k \in DOMAIN tr |->
        IF tr[k].turn = t /\ tr[k].kind = "answer" /\ tr[k].n \in drop
        THEN [tr[k] EXCEPT !.state = "deleted"] ELSE tr[k]]

Close(t, status, tr) ==
    /\ turn' = [turn EXCEPT ![t].status = status]
    /\ room' = IF status = "error" THEN "error" ELSE "idle"
    /\ lease' = NoLease
    /\ transcript' = tr

\* The finally block, and whether it will drain the queue.
Unwound(t, e) == [e EXCEPT !.pc = "ending",
                           !.drains = active[e.server] = t /\ e.stop \notin {"user", "late"}]

FlushMissing(t) ==
    /\ exec[t].pc = "finalizing"
    /\ exec[t].tool
    /\ IF ClaimHeld(t)
       THEN /\ transcript' = Append(transcript, Entry(t, "result", "complete", exec[t].tools))
            /\ Set(t, [exec[t] EXCEPT !.tool = FALSE])
       ELSE Fails(t) /\ UNCHANGED transcript
    /\ UNCHANGED <<room, lease, turn, active, queueVars, budget>>

\* The last segment is obsolete when the recovery of orphaned streams was there first.
Obsolete(t, n, state) == ~Finalizable(t, n, state)

FinishComplete(t) ==
    LET visible == exec[t].shown # {}
        obsolete == visible /\ Obsolete(t, exec[t].seg, "complete")
        tr == IF visible /\ ~obsolete THEN Finalized(t, exec[t].seg, "complete") ELSE transcript
    IN
    /\ exec[t].pc = "finalizing"
    /\ ~exec[t].tool
    /\ IF Stopped(t)
       THEN Fails(t) /\ UNCHANGED <<room, lease, turn, transcript, faults>>
       ELSE IF ~ClaimHeld(t)
       THEN /\ Set(t, [exec[t] EXCEPT !.pc = "failing", !.lost = TRUE])
            /\ UNCHANGED <<room, lease, turn, transcript, faults>>
       ELSE IF ~CanClose(t, tr, Empty(t))
       THEN Fails(t) /\ UNCHANGED <<room, lease, turn, transcript, faults>>
       ELSE /\ Close(t, IF obsolete THEN "cancelled" ELSE "complete", Without(tr, t, Empty(t)))
            /\ \/ Set(t, Unwound(t, exec[t])) /\ UNCHANGED faults
               \/ Fault /\ Fails(t)
    /\ UNCHANGED <<active, queueVars, asks>>

\* The catch block: a lost lease outweighs an interrupt, and the open segment is
\* sealed.  If that is refused the error escapes, and the turn is never finished.
FailSeal(t) ==
    /\ exec[t].pc = "failing"
    /\ IF exec[t].lost \/ exec[t].text # "unsealed"
       THEN /\ Set(t, [exec[t] EXCEPT !.pc = "flushing",
                           !.stop = IF exec[t].lost /\ @ = "user" THEN "late" ELSE @])
            /\ UNCHANGED transcript
       ELSE IF ClaimHeld(t) /\ Finalizable(t, exec[t].seg, "complete")
       THEN /\ transcript' = Finalized(t, exec[t].seg, "complete")
            /\ Set(t, [exec[t] EXCEPT !.pc = "flushing", !.text = "sealed"])
       ELSE Set(t, Unwound(t, exec[t])) /\ UNCHANGED transcript
    /\ UNCHANGED <<room, lease, turn, active, queueVars, budget>>

\* flushInterruptedToolCalls; its errors are caught.
FailFlush(t) ==
    /\ exec[t].pc = "flushing"
    /\ IF ~exec[t].lost /\ exec[t].tool /\ ClaimHeld(t)
       THEN /\ transcript' = Append(transcript, Entry(t, "result", "complete", exec[t].tools))
            /\ Set(t, [exec[t] EXCEPT !.pc = "erring", !.tool = FALSE])
       ELSE Set(t, [exec[t] EXCEPT !.pc = "erring"]) /\ UNCHANGED transcript
    /\ UNCHANGED <<room, lease, turn, active, queueVars, budget>>

\* The turn is closed with an error: in its only segment if nothing was shown yet,
\* in a message of its own otherwise.  A refusal leaves the turn to the recovery.
FinishError(t) ==
    LET reuse == exec[t].seg = 1 /\ exec[t].shown = {} /\ exec[t].tools = 0
        obsolete == reuse /\ Obsolete(t, 1, "error")
        drop == IF reuse THEN {} ELSE Empty(t)
        tr == IF ~reuse THEN Append(transcript, Entry(t, "notice", "error", 0))
              ELSE IF obsolete THEN transcript ELSE Finalized(t, 1, "error")
    IN
    /\ exec[t].pc = "erring"
    /\ IF ClaimHeld(t) /\ CanClose(t, tr, drop)
       THEN Close(t, IF obsolete \/ exec[t].stop = "user" THEN "cancelled" ELSE "error",
                  Without(tr, t, drop))
       ELSE UNCHANGED <<room, lease, turn, transcript>>
    /\ Set(t, Unwound(t, exec[t]))
    /\ UNCHANGED <<active, queueVars, budget>>

\* requeuePendingSteers, one input at a time.
RequeueSteer(t) ==
    /\ exec[t].pc = "ending"
    /\ active[exec[t].server] = t
    /\ \E i \in exec[t].pending :
           /\ input' = IF input[i] = "steering" THEN [input EXCEPT ![i] = "queued"] ELSE input
           /\ Set(t, [exec[t] EXCEPT !.pending = @ \ {i}])
    /\ UNCHANGED <<room, lease, turn, transcript, active, drain, steer, budget>>

Leave(t) ==
    LET s == exec[t].server IN
    /\ exec[t].pc = "ending"
    /\ active[s] = t => exec[t].pending = {}
    /\ active' = IF active[s] = t THEN [active EXCEPT ![s] = NoTurn] ELSE active
    /\ Set(t, [exec[t] EXCEPT !.pc = "releasing"])
    /\ UNCHANGED <<room, lease, turn, transcript, queueVars, budget>>

\* releaseCodeAgentRoomLease, then the queue is drained unless the user interrupted.
Release(t) ==
    LET s == exec[t].server IN
    /\ exec[t].pc = "releasing"
    /\ lease' = IF lease.turn = t /\ lease.fence = turn[t].fence THEN NoLease ELSE lease
    /\ drain' = IF exec[t].drains THEN [drain EXCEPT ![s] = Scheduled(s, active[s])] ELSE drain
    /\ Set(t, [exec[t] EXCEPT !.pc = "done"])
    /\ UNCHANGED <<room, turn, transcript, input, active, steer, budget>>

(***************************************************************************)
(* Interrupts, deadlines, lost leases, crashes                             *)
(***************************************************************************)
\* Once the catch block has begun the interrupt comes too late to decide how the
\* turn ends, but it may still keep the finally block from draining the queue.
Interrupt(s) ==
    LET t == active[s]
        stop == IF exec[t].pc \in {"flushing", "erring", "ending"} THEN "late" ELSE "user"
    IN
    /\ t # NoTurn
    /\ ~Stopped(t)
    /\ \E d \in {FALSE, exec[t].drains} :
           Set(t, [exec[t] EXCEPT !.stop = stop, !.drains = d])
    /\ UNCHANGED <<room, lease, turn, transcript, active, queueVars, budget>>

TimeOut(t) ==
    /\ exec[t].pc \in Working
    /\ active[exec[t].server] = t
    /\ ~Stopped(t)
    /\ Set(t, [exec[t] EXCEPT !.stop = "timeout"])
    /\ UNCHANGED <<room, lease, turn, transcript, active, queueVars, budget>>

\* A heartbeat is refused because the lease is gone, or fails although it is not.
NoticeLost(t) ==
    /\ exec[t].pc \in Working \union Failing
    /\ ~exec[t].lost
    /\ \/ ~(lease.turn = t /\ lease.live) /\ UNCHANGED faults
       \/ Fault
    /\ Set(t, [exec[t] EXCEPT !.lost = TRUE])
    /\ UNCHANGED <<room, lease, turn, transcript, active, queueVars, asks>>

LeaseExpires ==
    /\ lease.turn # NoTurn
    /\ lease.live
    /\ \/ exec[lease.turn].pc \in {"done", "gone"} /\ UNCHANGED faults
       \/ exec[lease.turn].pc \notin {"done", "gone"} /\ Fault
    /\ lease' = [lease EXCEPT !.live = FALSE]
    /\ UNCHANGED <<room, turn, transcript, exec, active, queueVars, asks>>

\* The server stops and comes back without its maps.
Crash(s) ==
    /\ Fault
    /\ exec' = [t \in Turns |->
           IF exec[t].server # s \/ exec[t].pc = "done" THEN exec[t]
           ELSE IF exec[t].pc = "called" THEN NoExec
           ELSE [exec[t] EXCEPT !.pc = "gone", !.event = "none", !.steered = NoInput, !.pending = {}, !.got = {}]]
    /\ active' = [active EXCEPT ![s] = NoTurn]
    /\ drain' = [drain EXCEPT ![s] = NoDrain]
    /\ steer' = [i \in Inputs |-> IF steer[i].server = s THEN NoSteer ELSE steer[i]]
    /\ UNCHANGED <<room, lease, turn, transcript, input, asks>>

(***************************************************************************)
(* The queue                                                               *)
(***************************************************************************)
\* queueTurn
Queue(s, i) ==
    /\ input[i] = "absent"
    /\ \A j \in Inputs : j < i => input[j] # "absent"
    /\ input' = [input EXCEPT ![i] = "queued"]
    /\ drain' = [drain EXCEPT ![s] = Scheduled(s, active[s])]
    /\ UNCHANGED <<room, lease, turn, transcript, exec, active, steer, budget>>

Cancel(i) ==
    /\ input[i] = "queued"
    /\ input' = [input EXCEPT ![i] = "cancelled"]
    /\ UNCHANGED <<room, lease, turn, transcript, exec, active, drain, steer, budget>>

\* drainQueuedTurn: claimNextCodeAgentQueuedMessage
Claim(s) ==
    LET queued == {i \in Inputs : input[i] = "queued"} IN
    /\ drain[s].step = "claiming"
    /\ IF active[s] # NoTurn \/ queued = {}
       THEN drain' = [drain EXCEPT ![s] = NoDrain] /\ UNCHANGED input
       ELSE LET i == CHOOSE j \in queued : \A k \in queued : j <= k IN
            /\ input' = [input EXCEPT ![i] = "starting"]
            /\ drain' = [drain EXCEPT ![s] = [step |-> "claimed", input |-> i]]
    /\ UNCHANGED <<room, lease, turn, transcript, exec, active, steer, budget>>

\* drainQueuedTurn: startTurn, up to its look at the active turns
StartClaimed(s) ==
    /\ drain[s].step = "claimed"
    /\ IF active[s] # NoTurn
       THEN drain' = [drain EXCEPT ![s].step = "settling"] /\ UNCHANGED exec
       ELSE /\ drain' = [drain EXCEPT ![s].step = "starting"]
            /\ \E t \in FreeTurns :
                   Set(t, [NoExec EXCEPT !.pc = "called", !.server = s, !.input = drain[s].input])
    /\ UNCHANGED <<room, lease, turn, transcript, input, active, steer, budget>>

\* Mutant of Settle: a refused input keeps its claim.
Settle_KeepsClaim(s) ==
    /\ drain[s].step = "settling"
    /\ drain' = [drain EXCEPT ![s] = [NoDrain EXCEPT !.input = drain[s].input]]
    /\ UNCHANGED <<room, lease, turn, transcript, input, exec, active, steer, budget>>

\* settleClaimedQueuedTurn after a refusal; then the drain is over.
Settle(s) ==
    LET i == drain[s].input IN
    /\ drain[s].step = "settling"
    /\ input' = IF input[i] = "starting" THEN [input EXCEPT ![i] = "queued"] ELSE input
    /\ drain' = [drain EXCEPT ![s] = NoDrain]
    /\ UNCHANGED <<room, lease, turn, transcript, exec, active, steer, budget>>

(***************************************************************************)
(* Steering with a queued input                                            *)
(***************************************************************************)
SteerMark(s, i) ==
    /\ i \in Steers
    /\ input[i] = "queued"
    /\ steer[i].step = "none"
    /\ input' = [input EXCEPT ![i] = "steering"]
    /\ steer' = [steer EXCEPT ![i] = [step |-> "marked", server |-> s]]
    /\ UNCHANGED <<room, lease, turn, transcript, exec, active, drain, budget>>

\* steerTurn: the control request reaches the agent if one is running here.
SteerSend(i) ==
    LET t == active[steer[i].server] IN
    /\ steer[i].step = "marked"
    /\ IF t # NoTurn /\ exec[t].pc = "working"
       THEN /\ Set(t, [exec[t] EXCEPT !.pending = @ \union {i}, !.got = @ \union {i}])
            /\ steer' = [steer EXCEPT ![i].step = "sent"]
       ELSE steer' = [steer EXCEPT ![i].step = "refused"] /\ UNCHANGED exec
    /\ UNCHANGED <<room, lease, turn, transcript, input, active, drain, budget>>

SteerAccepted(i) ==
    /\ steer[i].step = "sent"
    /\ steer' = [steer EXCEPT ![i] = NoSteer]
    /\ UNCHANGED <<room, lease, turn, transcript, input, exec, active, drain, budget>>

\* The agent refuses, or its answer is late: then it may have the input all the same.
SteerRefused(i) ==
    /\ steer[i].step = "sent"
    /\ steer' = [steer EXCEPT ![i].step = "refused"]
    /\ \E late \in BOOLEAN :
           exec' = [t \in Turns |->
               [exec[t] EXCEPT !.pending = @ \ {i}, !.got = IF late THEN @ ELSE @ \ {i}]]
    /\ UNCHANGED <<room, lease, turn, transcript, input, active, drain, budget>>

SteerSettle(i) ==
    LET s == steer[i].server IN
    /\ steer[i].step = "refused"
    /\ input' = IF input[i] = "steering" THEN [input EXCEPT ![i] = "queued"] ELSE input
    /\ steer' = [steer EXCEPT ![i] = NoSteer]
    /\ drain' = [drain EXCEPT ![s] = Scheduled(s, active[s])]
    /\ UNCHANGED <<room, lease, turn, transcript, exec, active, budget>>

(***************************************************************************)
(* The recovery pass                                                       *)
(***************************************************************************)
LiveLease == lease.turn # NoTurn /\ lease.live

\* Mutant of FailInterrupted: it writes a status that the turns do not have.
FailInterrupted_OtherStatus ==
    LET failed == {t \in Turns : turn[t].status = "running" /\ ~(lease.turn = t /\ lease.live)} IN
    /\ failed # {}
    /\ turn' = [t \in Turns |->
           IF t \in failed THEN [turn[t] EXCEPT !.status = "interrupted"] ELSE turn[t]]
    /\ lease' = IF lease.turn \in failed THEN NoLease ELSE lease
    /\ UNCHANGED <<room, transcript, exec, active, queueVars, budget>>

\* failInterruptedRoomAgentTurns
FailInterrupted ==
    LET failed == {t \in Turns : turn[t].status = "running" /\ ~(lease.turn = t /\ lease.live)} IN
    /\ failed # {}
    /\ turn' = [t \in Turns |-> IF t \in failed THEN [turn[t] EXCEPT !.status = "error"] ELSE turn[t]]
    /\ lease' = IF lease.turn \in failed THEN NoLease ELSE lease
    /\ transcript' = [k \in DOMAIN transcript |->
           IF transcript[k].turn \in failed /\ transcript[k].state = "streaming"
           THEN [transcript[k] EXCEPT !.state = "error"] ELSE transcript[k]]
    /\ UNCHANGED <<room, exec, active, queueVars, budget>>

\* Mutants of RecoverRoom: the lease is not looked at; or only an expired one is found.
RecoverRoom_AnyLease ==
    /\ room = "running"
    /\ room' = "error"
    /\ UNCHANGED <<lease, turn, transcript, exec, active, queueVars, budget>>

RecoverRoom_InnerJoin ==
    /\ room = "running"
    /\ lease.turn # NoTurn /\ ~lease.live
    /\ room' = "error"
    /\ lease' = NoLease
    /\ UNCHANGED <<turn, transcript, exec, active, queueVars, budget>>

\* recoverInterruptedCodeAgentRoomStates
RecoverRoom ==
    /\ room = "running"
    /\ ~LiveLease
    /\ room' = "error"
    /\ lease' = NoLease
    /\ UNCHANGED <<turn, transcript, exec, active, queueVars, budget>>

\* failOrphanedStreamingMessages: the stream's owner stopped, or was paused.
FailOrphans(t) ==
    /\ Streaming(t) # {}
    /\ \/ exec[t].pc = "gone" /\ UNCHANGED faults
       \/ exec[t].pc # "gone" /\ Fault
    /\ transcript' = [k \in DOMAIN transcript |->
           IF k \in Streaming(t) THEN [transcript[k] EXCEPT !.state = "error"] ELSE transcript[k]]
    /\ UNCHANGED <<room, lease, turn, exec, active, queueVars, asks>>

\* recoverStaleCodeAgentQueuedMessages: an input becomes stale under somebody who
\* still handles it only if that server was paused.
Handled(i) ==
    \/ \E s \in Servers : drain[s].input = i
    \/ steer[i].step # "none"
    \/ \E t \in Turns : i \in exec[t].pending

RequeueStale(i) ==
    /\ input[i] \in {"starting", "steering"}
    /\ ~LiveLease
    /\ \/ ~Handled(i) /\ UNCHANGED faults
       \/ Handled(i) /\ Fault
    /\ input' = [input EXCEPT ![i] = "queued"]
    /\ UNCHANGED <<room, lease, turn, transcript, exec, active, drain, steer, asks>>

\* resumeQueuedTurns
Resume(s) ==
    /\ \E i \in Inputs : input[i] = "queued"
    /\ drain[s] # Scheduled(s, active[s])
    /\ drain' = [drain EXCEPT ![s] = Scheduled(s, active[s])]
    /\ UNCHANGED <<room, lease, turn, transcript, input, exec, active, steer, budget>>

(***************************************************************************)
(* The specification                                                       *)
(***************************************************************************)
Handler(t) == SealSegment(t) \/ NewSegment(t) \/ RecordTool(t) \/ RecordResult(t) \/ RecordSteer(t)

Ends(t) ==
    \/ Begin(t) \/ Prepare(t) \/ Stop(t) \/ FlushMissing(t)
    \/ FinishComplete(t) \/ FailSeal(t) \/ FailFlush(t) \/ FinishError(t)
    \/ RequeueSteer(t) \/ Leave(t) \/ Release(t)

Recovery == FailInterrupted \/ RecoverRoom \/ (\E t \in Turns : FailOrphans(t))

Next ==
    \/ \E s \in Servers : \/ Ask(s) \/ Interrupt(s) \/ Crash(s)
                           \/ Claim(s) \/ StartClaimed(s) \/ Settle(s) \/ Resume(s)
    \/ \E s \in Servers, i \in Inputs : Queue(s, i) \/ SteerMark(s, i)
    \/ \E t \in Turns : \/ Ends(t) \/ Handler(t) \/ Arrive(t) \/ WorkFails(t) \/ AgentEnds(t)
                         \/ BeginUnacknowledged(t) \/ TimeOut(t) \/ NoticeLost(t)
    \/ \E i \in Inputs : \/ Cancel(i) \/ SteerSend(i) \/ SteerAccepted(i)
                          \/ SteerRefused(i) \/ SteerSettle(i) \/ RequeueStale(i)
    \/ LeaseExpires
    \/ Recovery

Spec == Init /\ [][Next]_vars

\* A turn has a deadline, so the agent itself need never end.  What a lost
\* acknowledgement, a crash or a refused write leaves behind expires, and the
\* recovery pass and the drains come again.  No user need ever do anything.
Fairness ==
    /\ \A t \in Turns : /\ WF_vars(Ends(t))
                        /\ WF_vars(Handler(t))
                        /\ WF_vars(TimeOut(t))
    /\ \A s \in Servers : /\ WF_vars(Claim(s) \/ StartClaimed(s) \/ Settle(s))
                          /\ WF_vars(Resume(s))
    /\ \A i \in Inputs : /\ WF_vars(SteerSend(i) \/ SteerAccepted(i) \/ SteerSettle(i))
                         /\ WF_vars(faults' = faults /\ RequeueStale(i))
    /\ WF_vars(faults' = faults /\ LeaseExpires)
    /\ WF_vars(FailInterrupted)
    /\ WF_vars(RecoverRoom)

LiveSpec == Spec /\ Fairness

(***************************************************************************)
(* Properties                                                              *)
(***************************************************************************)
\* Delayed work of a turn never lands in the conversation after another turn has
\* begun: the messages of two turns are never interleaved
\* (lockCodeAgentTurnClaim, and the fence that beginCodeAgentTurn takes).
TurnsDoNotInterleave ==
    \A i, j, k \in DOMAIN transcript :
        i < j /\ j < k /\ transcript[i].turn = transcript[k].turn
            => transcript[j].turn = transcript[i].turn

\* While a turn holds the room's live lease the room shows that it is running: no
\* late commit of another turn and no recovery pass turns it idle under the holder.
RunningRoom ==
    \A t \in Turns : ClaimHeld(t) => room = "running"

\* A turn that is over leaves no answer streaming, and one that ended well or was
\* stopped leaves no tool call without a result, whichever of the turn's own
\* commit and the recovery passes came first.
ClosedTurnIsClean ==
    \A t \in Turns :
        /\ turn[t].status \notin {"none", "running"} => Streaming(t) = {}
        /\ turn[t].status \in {"complete", "cancelled"} => Dangling(t) = {}

\* An input that a turn used stands in the conversation exactly once, as a prompt
\* of that turn, and an input that none used does not stand there: not after a
\* lost acknowledgement, a late steer, a stale claim or a crash.
UsedOnce ==
    \A i \in Inputs :
        LET prompts == {k \in DOMAIN transcript :
                            transcript[k].kind = "prompt" /\ transcript[k].n = i}
        IN  IF input[i] \in Turns
            THEN \E k \in prompts : prompts = {k} /\ transcript[k].turn = input[i]
            ELSE prompts = {}

\* What TurnTaking's variables stand for: the place is the live lease with a running
\* turn under it, the past is every turn that has a row, and an input that is
\* queued, claimed or being steered waits.
Place == IF \E t \in Turns : ClaimHeld(t) THEN lease.turn ELSE NoTurn
Past == {t \in Turns : turn[t].status # "none"}
GivenOf(x) ==
    CASE x = "absent" -> "absent"
      [] x \in {"queued", "starting", "steering"} -> "waiting"
      [] x = "cancelled" -> "withdrawn"
      [] OTHER -> x
Given == [i \in Inputs |-> GivenOf(input[i])]

Abstract == INSTANCE TurnTaking WITH place <- Place, past <- Past, given <- Given

\* The room's lease, its turns and its queue implement turn taking: at most one
\* turn has the place, a turn that lost it never gets it back, and an input goes
\* to the turn that has the place.
ImplementsTurnTaking == Abstract!Spec

\* Every input that was queued is given to a turn in the end, unless it is
\* cancelled: no crash, refusal or race of drains leaves it claimed for ever.
InputsAreServed ==
    \A i \in Inputs : input[i] # "absent" ~> input[i] \in Turns \union {"cancelled"}

\* Once the room or a turn of it is running, there comes a moment at which neither is:
\* a crash between any two steps leaves nothing that only looks alive.
RoomRests ==
    room = "running" \/ (\E t \in Turns : turn[t].status = "running")
        ~> room # "running" /\ \A t \in Turns : turn[t].status # "running"
=============================================================================
