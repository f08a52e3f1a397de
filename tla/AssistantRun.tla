---------------------------- MODULE AssistantRun ----------------------------
(***************************************************************************)
(* The durable assistant-run pipeline of RoomTalk.                         *)
(*                                                                         *)
(* PostgreSQL holds the run (assistant_runs), its placeholder message      *)
(* (room_messages), the dispatch intent (task_dispatch_outbox), the room's *)
(* AI cost and the account's credit.  Redis holds one BullMQ job per run.  *)
(* Relays move dispatch intents to the queue, workers claim a run under a  *)
(* lease and a generation, call the provider, stage the terminal payload   *)
(* and project it; a reconciler repairs the queue from PostgreSQL.         *)
(*                                                                         *)
(* One PostgreSQL transaction is one action.  A process may stop, lose its *)
(* lease, lose an acknowledgement or see a statement fail between any two  *)
(* of them; each such event takes one unit of the fault budget.            *)
(***************************************************************************)
EXTENDS Integers, FiniteSets, FiniteSetsExt

CONSTANTS
    Runs,        \* run ids (integers, the reconciler's cursor orders them)
    Workers,     \* execution slots of the worker processes
    Relays,      \* dispatch relays, one per application instance
    Process,     \* [Workers -> processes]: slots of a process share a worker id
    NoProcess,   \* lease_owner IS NULL
    NoWorker,    \* the job has no live holder
    NoTerminal,  \* terminal_payload IS NULL
    Costs,       \* the costs a provider answer may have
    Billed,      \* the runs with a billing account on a paid tier
    Credit,      \* the account's available_usd at the start
    MaxAttempts, \* ASSISTANT_RUN_WORKER_MAX_ATTEMPTS
    BatchSize,   \* candidates of one reconciliation
    MaxFaults    \* bound on crashes, pauses, losses and failed statements

Processes == {Process[w] : w \in Workers}
NoRun == 0

ASSUME RunsAssumption == Runs \subseteq Nat \ {0} /\ IsFiniteSet(Runs)
ASSUME ProcessAssumption == DOMAIN Process = Workers /\ NoProcess \notin Processes
ASSUME WorkerAssumption == NoWorker \notin Workers
ASSUME MoneyAssumption == Costs \subseteq Nat /\ Billed \subseteq Runs /\ Credit \in Nat
ASSUME BoundAssumption ==
    MaxAttempts \in Nat /\ BatchSize \in Nat \ {0} /\ MaxFaults \in Nat

VARIABLES
    run,       \* assistant_runs
    message,   \* the status of each run's placeholder
    dispatch,  \* task_dispatch_outbox
    job,       \* the BullMQ job of each run
    worker,    \* the execution slots
    relay,     \* the relays
    recon,     \* the queue reconciler
    account,   \* account_credit_balances of the billing account
    roomTotal, \* room_ai_cost_totals of the room
    calls,     \* history: the generations under which the provider was called
    faults     \* faults so far

vars == <<run, message, dispatch, job, worker, relay, recon, account,
          roomTotal, calls, faults>>
queueVars == <<dispatch, job, relay, recon>>
moneyVars == <<account, roomTotal>>

Active == {"queued", "running", "finalizing"}
Closed == {"complete", "error", "cancelled"}
RunStatuses == {"none"} \union Active \union Closed
Outcomes == {"complete", "error"}
Answers == [outcome : Outcomes, cost : Costs \union {0}]
Payloads == [outcome : Outcomes, cost : Costs \union {0}, gen : Nat]

ASSUME TerminalAssumption == NoTerminal \notin Payloads

\* The states in which a slot holds a claim of processAssistantRunJob.
Holding == {"claimed", "calling", "answered", "staged", "failing"}
PcStates == {"idle", "taken"} \union Holding

RunRows == [status : RunStatuses, generation : Nat, attempt : Nat,
            owner : Processes \union {NoProcess}, lease : {"none", "live", "expired"},
            payload : Payloads \union {NoTerminal}, charged : Nat, credit : Nat]
DispatchRows == [status : {"none", "pending", "processing", "dispatched"},
                 attempts : Nat, lockedBy : Relays \union {NoProcess},
                 lockExpired : BOOLEAN]
Jobs == [state : {"none", "waiting", "active", "completed", "failed", "removed"},
         holder : Workers \union {NoWorker}]
Slots == [pc : PcStates, run : Runs \union {NoRun}, gen : Nat, attempt : Nat,
          answer : Answers \union {NoTerminal}, lost : BOOLEAN]
Ticks == [batch : SUBSET Runs, attempt : [Runs -> Nat], added : Runs \union {NoRun}]

TypeOK ==
    /\ run \in [Runs -> RunRows]
    /\ message \in [Runs -> {"absent", "streaming", "complete", "error", "deleted"}]
    /\ dispatch \in [Runs -> DispatchRows]
    /\ job \in [Runs -> Jobs]
    /\ worker \in [Workers -> Slots]
    /\ relay \in [Relays -> Ticks]
    /\ recon \in [batch : SUBSET Runs, after : Runs \union {NoRun}]
    /\ account \in [available : Nat, usage : Nat]
    /\ roomTotal \in Nat
    /\ calls \in [Runs -> SUBSET Nat]
    /\ faults \in 0..MaxFaults

NewRun == [status |-> "none", generation |-> 0, attempt |-> 0,
           owner |-> NoProcess, lease |-> "none", payload |-> NoTerminal,
           charged |-> 0, credit |-> 0]
IdleWorker == [pc |-> "idle", run |-> NoRun, gen |-> 0, attempt |-> 0,
               answer |-> NoTerminal, lost |-> FALSE]
IdleRelay == [batch |-> {}, attempt |-> [r \in Runs |-> 0], added |-> NoRun]

Init ==
    /\ run = [r \in Runs |-> NewRun]
    /\ message = [r \in Runs |-> "absent"]
    /\ dispatch = [r \in Runs |-> [status |-> "none", attempts |-> 0,
                                   lockedBy |-> NoProcess, lockExpired |-> FALSE]]
    /\ job = [r \in Runs |-> [state |-> "none", holder |-> NoWorker]]
    /\ worker = [w \in Workers |-> IdleWorker]
    /\ relay = [d \in Relays |-> IdleRelay]
    /\ recon = [batch |-> {}, after |-> NoRun]
    /\ account = [available |-> Credit, usage |-> 0]
    /\ roomTotal = 0
    /\ calls = [r \in Runs |-> {}]
    /\ faults = 0

Fault == faults < MaxFaults /\ faults' = faults + 1

-----------------------------------------------------------------------------
(* Acceptance and deletion: the socket handlers' transactions.             *)

\* createAssistantRunWithMessage: placeholder, run and dispatch intent commit
\* together.
AcceptRun(r) ==
    /\ run[r].status = "none"
    /\ run' = [run EXCEPT ![r].status = "queued"]
    /\ message' = [message EXCEPT ![r] = "streaming"]
    /\ dispatch' = [dispatch EXCEPT ![r].status = "pending"]
    /\ UNCHANGED <<job, worker, relay, recon, moneyVars, calls, faults>>

\* The dispatch row once the run is closed: settle_terminal_assistant_run_dispatch.
SettledDispatch(d) ==
    [d EXCEPT !.status = "dispatched", !.lockedBy = NoProcess, !.lockExpired = FALSE]

\* The run once it is closed with the given status: its lease goes.
ClosedRun(rec, status) ==
    [rec EXCEPT !.status = status, !.owner = NoProcess, !.lease = "none"]

\* Mutant of DeletePlaceholder: without the cancelling trigger.
DeletePlaceholder_KeepsRun(r) ==
    /\ message[r] \in {"streaming", "complete", "error"}
    /\ message' = [message EXCEPT ![r] = "deleted"]
    /\ UNCHANGED <<run, queueVars, worker, moneyVars, calls, faults>>

\* deleteMessageById and the truncations: deleting the placeholder fires
\* cancel_assistant_run_for_deleted_message, which cancels an active run and
\* through it settles the dispatch row.
DeletePlaceholder(r) ==
    /\ message[r] \in {"streaming", "complete", "error"}
    /\ message' = [message EXCEPT ![r] = "deleted"]
    /\ IF run[r].status \in Active
       THEN /\ run' = [run EXCEPT ![r] = ClosedRun(@, "cancelled")]
            /\ dispatch' = [dispatch EXCEPT ![r] = SettledDispatch(@)]
       ELSE UNCHANGED <<run, dispatch>>
    /\ UNCHANGED <<job, worker, relay, recon, moneyVars, calls, faults>>

-----------------------------------------------------------------------------
(* The dispatch relay: one tick claims a batch and hands it over one by one. *)

DispatchClaimable(r) ==
    /\ run[r].status \in Active
    /\ \/ dispatch[r].status = "pending"
       \/ dispatch[r].status = "processing" /\ dispatch[r].lockExpired

\* claimTaskDispatches, called by a relay whose last tick is over.
RelayClaim(d) ==
    LET claimed == {r \in Runs : DispatchClaimable(r)} IN
    /\ relay[d].batch = {}
    /\ claimed # {}
    /\ dispatch' = [r \in Runs |->
           IF r \in claimed
           THEN [status |-> "processing", attempts |-> dispatch[r].attempts + 1,
                 lockedBy |-> d, lockExpired |-> FALSE]
           ELSE dispatch[r]]
    /\ relay' = [relay EXCEPT ![d] =
           [batch |-> claimed, added |-> NoRun,
            attempt |-> [r \in Runs |-> IF r \in claimed THEN dispatch[r].attempts + 1 ELSE 0]]]
    /\ UNCHANGED <<run, message, job, worker, recon, moneyVars, calls, faults>>

\* queue.add with jobId = run id: BullMQ ignores an id it still knows.
Enqueued(j) ==
    IF j.state \in {"none", "removed"} THEN [state |-> "waiting", holder |-> NoWorker] ELSE j

RelayAdd(d, r) ==
    /\ r \in relay[d].batch
    /\ relay[d].added = NoRun
    /\ job' = [job EXCEPT ![r] = Enqueued(@)]
    /\ relay' = [relay EXCEPT ![d].added = r]
    /\ UNCHANGED <<run, message, dispatch, worker, recon, moneyVars, calls, faults>>

\* The dispatch row is still claimed by this tick of relay d.
DispatchFence(d, r) ==
    /\ dispatch[r].status = "processing"
    /\ dispatch[r].lockedBy = d
    /\ dispatch[r].attempts = relay[d].attempt[r]

\* The relay is done with r: the next dispatch of its batch follows.
RelayNext(d, r) ==
    relay' = [relay EXCEPT ![d].batch = @ \ {r}, ![d].added = NoRun,
                           ![d].attempt[r] = 0]

\* Mutant of RelayMark: the row may be marked before the job is added.
RelayMark_BeforeAdd(d, r) ==
    /\ r \in relay[d].batch
    /\ relay[d].added \in {NoRun, r}
    /\ dispatch' = IF DispatchFence(d, r)
                   THEN [dispatch EXCEPT ![r] = SettledDispatch(@)]
                   ELSE dispatch
    /\ RelayNext(d, r)
    /\ UNCHANGED <<run, message, job, worker, recon, moneyVars, calls, faults>>

\* markTaskDispatchDispatched
RelayMark(d, r) ==
    /\ relay[d].added = r
    /\ r \in Runs
    /\ dispatch' = IF DispatchFence(d, r)
                   THEN [dispatch EXCEPT ![r] = SettledDispatch(@)]
                   ELSE dispatch
    /\ RelayNext(d, r)
    /\ UNCHANGED <<run, message, job, worker, recon, moneyVars, calls, faults>>

\* dispatch() catches an error of queue.add (whose effect may have reached
\* Redis) or of the mark, and releases its claim: releaseTaskDispatch.
RelayFail(d, r) ==
    /\ Fault
    /\ r \in relay[d].batch
    /\ relay[d].added \in {NoRun, r}
    /\ \/ job' = job
       \/ job' = [job EXCEPT ![r] = Enqueued(@)]
    /\ dispatch' = IF DispatchFence(d, r)
                   THEN [dispatch EXCEPT ![r].status = "pending", ![r].lockedBy = NoProcess,
                                         ![r].lockExpired = FALSE]
                   ELSE dispatch
    /\ RelayNext(d, r)
    /\ UNCHANGED <<run, message, worker, recon, moneyVars, calls>>

\* The application instance stops; its claims stay until their lock expires.
RelayCrash(d) ==
    /\ Fault
    /\ relay[d].batch # {}
    /\ relay' = [relay EXCEPT ![d] = IdleRelay]
    /\ UNCHANGED <<run, message, dispatch, job, worker, recon, moneyVars, calls>>

\* lockMs pass.  While the claiming tick still runs this is a pause of that
\* relay, and counts as a fault.
DispatchLockExpires(r) ==
    /\ dispatch[r].status = "processing"
    /\ ~dispatch[r].lockExpired
    /\ IF \E d \in Relays : r \in relay[d].batch /\ DispatchFence(d, r)
       THEN Fault
       ELSE UNCHANGED faults
    /\ dispatch' = [dispatch EXCEPT ![r].lockExpired = TRUE]
    /\ UNCHANGED <<run, message, job, worker, relay, recon, moneyVars, calls>>

-----------------------------------------------------------------------------
(* The queue reconciler.                                                   *)

\* Mutant of ReconcilePage: the cursor is not rewound after a short page.
ReconcilePage_NeverRewinds ==
    LET candidates == {r \in Runs : /\ run[r].status \in Active
                                    /\ dispatch[r].status = "dispatched"
                                    /\ r > recon.after}
        page == {r \in candidates :
                    Cardinality({q \in candidates : q <= r}) <= BatchSize}
    IN
    /\ recon.batch = {}
    /\ \E last \in page : /\ \A q \in page : q <= last
                          /\ recon' = [batch |-> page, after |-> last]
    /\ UNCHANGED <<run, message, dispatch, job, worker, relay, moneyVars, calls, faults>>

\* readActiveDispatchedTaskDispatches: a page of active, dispatched runs in run
\* id order after the cursor; the page's end is the next cursor when it is full.
ReconcilePage ==
    LET candidates == {r \in Runs : /\ run[r].status \in Active
                                    /\ dispatch[r].status = "dispatched"
                                    /\ r > recon.after}
        page == {r \in candidates :
                    Cardinality({q \in candidates : q <= r}) <= BatchSize}
    IN
    /\ recon.batch = {}
    /\ IF Cardinality(page) = BatchSize
       THEN \E last \in page : /\ \A q \in page : q <= last
                               /\ recon' = [batch |-> page, after |-> last]
       ELSE recon' = [batch |-> page, after |-> NoRun]
    /\ recon' # recon
    /\ UNCHANGED <<run, message, dispatch, job, worker, relay, moneyVars, calls, faults>>

\* reconcileDispatch: add a missing job, retry a finished one, leave a healthy
\* one alone.
ReconcileDispatch(r) ==
    /\ r \in recon.batch
    /\ \A q \in recon.batch : r <= q
    /\ job' = [job EXCEPT ![r] =
           IF @.state \in {"completed", "failed"}
           THEN [state |-> "waiting", holder |-> NoWorker]
           ELSE Enqueued(@)]
    /\ recon' = [recon EXCEPT !.batch = @ \ {r}]
    /\ UNCHANGED <<run, message, dispatch, worker, relay, moneyVars, calls, faults>>

-----------------------------------------------------------------------------
(* BullMQ, from how the worker and the relay use it.                       *)

\* The worker takes a waiting job.
TakeJob(w, r) ==
    /\ worker[w].pc = "idle"
    /\ job[r].state = "waiting"
    /\ job' = [job EXCEPT ![r] = [state |-> "active", holder |-> w]]
    /\ worker' = [worker EXCEPT ![w] = [IdleWorker EXCEPT !.pc = "taken", !.run = r]]
    /\ UNCHANGED <<run, message, dispatch, relay, recon, moneyVars, calls, faults>>

\* The slot's attempt ends: the job moves only if the slot still holds it.
EndAttempt(w, states) ==
    LET r == worker[w].run IN
    /\ worker' = [worker EXCEPT ![w] = IdleWorker]
    /\ \E s \in states :
           job' = IF job[r].state = "active" /\ job[r].holder = w
                  THEN [job EXCEPT ![r] = [state |-> s, holder |-> NoWorker]]
                  ELSE job

Completes(w) == EndAttempt(w, {"completed"})
\* A failed attempt goes back to the queue, or fails for good when its attempts
\* are used up.
FailsAttempt(w) == EndAttempt(w, {"waiting", "failed"})

\* An active job whose lock is not renewed is stalled: it waits again, or fails
\* past maxStalledCount.  With a live holder that is a pause of the process.
JobStalls(r) ==
    /\ job[r].state = "active"
    /\ IF job[r].holder = NoWorker THEN UNCHANGED faults ELSE Fault
    /\ \E s \in {"waiting", "failed"} :
           job' = [job EXCEPT ![r] = [state |-> s, holder |-> NoWorker]]
    /\ UNCHANGED <<run, message, dispatch, worker, relay, recon, moneyVars, calls>>

\* removeOnComplete and removeOnFail evict finished jobs.
EvictJob(r) ==
    /\ job[r].state \in {"completed", "failed"}
    /\ job' = [job EXCEPT ![r] = [state |-> "removed", holder |-> NoWorker]]
    /\ UNCHANGED <<run, message, dispatch, worker, relay, recon, moneyVars, calls, faults>>

\* Redis loses a job (eviction, restart without persistence, failover).
LoseJob(r) ==
    /\ Fault
    /\ job[r].state \in {"waiting", "active"}
    /\ job' = [job EXCEPT ![r] = [state |-> "removed", holder |-> NoWorker]]
    /\ UNCHANGED <<run, message, dispatch, worker, relay, recon, moneyVars, calls>>

-----------------------------------------------------------------------------
(* The worker: processAssistantRunJob around executeAssistantRun.          *)

\* claimAssistantRunById's candidate.
Claimable(r) ==
    \/ run[r].status = "queued"
    \/ run[r].status \in {"running", "finalizing"} /\ run[r].lease # "live"

\* Mutants of ClaimedRun: a takeover keeps the generation, or is not an attempt.
ClaimedRun_SameGeneration(rec, w) ==
    [rec EXCEPT !.status = IF @ = "finalizing" THEN @ ELSE "running",
                !.generation = IF rec.status = "queued" THEN @ + 1 ELSE @,
                !.attempt = IF rec.status = "finalizing" THEN @ ELSE @ + 1,
                !.owner = Process[w], !.lease = "live"]
ClaimedRun_FreeTakeover(rec, w) ==
    [rec EXCEPT !.status = IF @ = "finalizing" THEN @ ELSE "running",
                !.generation = @ + 1,
                !.attempt = IF rec.status = "queued" THEN @ + 1 ELSE @,
                !.owner = Process[w], !.lease = "live"]

\* Its UPDATE: a fresh generation, a fresh lease; an attempt is counted only for
\* an execution.
ClaimedRun(rec, w) ==
    LET projecting == rec.status = "finalizing" IN
    [rec EXCEPT !.status = IF projecting THEN "finalizing" ELSE "running",
                !.generation = @ + 1,
                !.attempt = IF projecting THEN @ ELSE @ + 1,
                !.owner = Process[w], !.lease = "live"]

\* providerAdmission has no slot for the run: the job is delayed and comes back.
AdmissionDefers(w) ==
    /\ worker[w].pc = "taken"
    /\ run[worker[w].run].status \in Active
    /\ EndAttempt(w, {"waiting"})
    /\ UNCHANGED <<run, message, dispatch, relay, recon, moneyVars, calls, faults>>

\* The job's run is closed (or the claim finds it closed): nothing is executed.
FindTerminal(w) ==
    /\ worker[w].pc = "taken"
    /\ run[worker[w].run].status \in Closed
    /\ Completes(w)
    /\ UNCHANGED <<run, message, dispatch, relay, recon, moneyVars, calls, faults>>

\* Mutant of ClaimRun: every claim executes, whatever was staged.
ClaimRun_AlwaysExecutes(w) ==
    LET r == worker[w].run IN
    /\ worker[w].pc = "taken"
    /\ Claimable(r)
    /\ run' = [run EXCEPT ![r] = ClaimedRun(@, w)]
    /\ worker' = [worker EXCEPT ![w].pc = "claimed", ![w].gen = run[r].generation + 1,
                                ![w].attempt = run'[r].attempt]
    /\ UNCHANGED <<message, moneyVars, queueVars, calls, faults>>

ClaimRun(w) ==
    LET r == worker[w].run IN
    /\ worker[w].pc = "taken"
    /\ Claimable(r)
    /\ run' = [run EXCEPT ![r] = ClaimedRun(@, w)]
    /\ \/ /\ worker' = [worker EXCEPT ![w] =
                 [@ EXCEPT !.pc = IF run[r].status = "finalizing" THEN "staged" ELSE "claimed",
                           !.gen = run[r].generation + 1,
                           !.attempt = run'[r].attempt]]
          /\ UNCHANGED <<job, faults>>
       \* the claim commits but its answer is lost: nobody releases it
       \/ Fault /\ FailsAttempt(w)
    /\ UNCHANGED <<message, dispatch, relay, recon, moneyVars, calls>>

\* AssistantRunClaimUnavailableError: another generation holds a live lease.
ClaimUnavailable(w) ==
    /\ worker[w].pc = "taken"
    /\ run[worker[w].run].status \in Active
    /\ ~Claimable(worker[w].run)
    /\ FailsAttempt(w)
    /\ UNCHANGED <<run, message, dispatch, relay, recon, moneyVars, calls, faults>>

\* The row still carries the slot's claim token.
HasToken(w) ==
    LET rec == run[worker[w].run] IN
    rec.owner = Process[w] /\ rec.generation = worker[w].gen

\* Every await of executeAssistantRun is followed by signal.throwIfAborted: once
\* the lease is known to be lost the attempt fails and nothing is released.
Abort(w) ==
    /\ worker[w].pc \in Holding
    /\ worker[w].lost
    /\ FailsAttempt(w)
    /\ UNCHANGED <<run, message, dispatch, relay, recon, moneyVars, calls, faults>>

Live(w, pc) == worker[w].pc = pc /\ ~worker[w].lost

\* The provider is asked, unless this claim is one attempt too many: then the
\* terminal is an error that cost nothing.
CallProvider(w) ==
    LET r == worker[w].run IN
    /\ Live(w, "claimed")
    /\ IF worker[w].attempt > MaxAttempts
       THEN /\ worker' = [worker EXCEPT ![w].pc = "answered",
                                        ![w].answer = [outcome |-> "error", cost |-> 0]]
            /\ UNCHANGED calls
       ELSE /\ worker' = [worker EXCEPT ![w].pc = "calling"]
            /\ calls' = [calls EXCEPT ![r] = @ \union {worker[w].gen}]
    /\ UNCHANGED <<run, message, moneyVars, queueVars, faults>>

\* The stream ends, normally or with an error: either way it is a terminal.
ProviderAnswers(w) ==
    /\ Live(w, "calling")
    /\ \E a \in [outcome : Outcomes, cost : Costs] :
           worker' = [worker EXCEPT ![w].pc = "answered", ![w].answer = a]
    /\ UNCHANGED <<run, message, moneyVars, queueVars, calls, faults>>

StagedRun(rec, w) ==
    [rec EXCEPT !.status = "finalizing",
                !.payload = [outcome |-> worker[w].answer.outcome,
                             cost |-> worker[w].answer.cost, gen |-> worker[w].gen]]

\* Mutant of Stage: the UPDATE is not fenced by the claim token.
Stage_NoFence(w) ==
    LET r == worker[w].run IN
    /\ Live(w, "answered")
    /\ IF run[r].status \in {"running", "finalizing"}
       THEN /\ run' = [run EXCEPT ![r] = StagedRun(@, w)]
            /\ worker' = [worker EXCEPT ![w].pc = "staged"]
            /\ UNCHANGED job
       ELSE Completes(w) /\ UNCHANGED run
    /\ UNCHANGED <<message, dispatch, relay, recon, moneyVars, calls, faults>>

\* stageAssistantRunTerminal, under the token but not under the lease's expiry.
\* A stale token discards the answer and ends the job normally.
Stage(w) ==
    LET r == worker[w].run IN
    /\ Live(w, "answered")
    /\ IF run[r].status = "running" /\ HasToken(w)
       THEN /\ run' = [run EXCEPT ![r] = StagedRun(@, w)]
            /\ \/ worker' = [worker EXCEPT ![w].pc = "staged"] /\ UNCHANGED faults
               \* committed, but the acknowledgement is lost: the executor throws
               \/ Fault /\ worker' = [worker EXCEPT ![w].pc = "failing"]
            /\ UNCHANGED job
       ELSE Completes(w) /\ UNCHANGED <<run, faults>>
    /\ UNCHANGED <<message, dispatch, relay, recon, moneyVars, calls>>

\* The part of a run's cost that the account's credit covers.
CreditApplied(r, cost) ==
    IF r \notin Billed THEN 0
    ELSE IF account.available < cost THEN account.available ELSE cost

\* Mutant of ApplyTerminal: the room total is overwritten, not incremented.
ApplyTerminal_Overwrites(r) ==
    LET p == run[r].payload
        applied == CreditApplied(r, p.cost)
    IN
    /\ message' = [message EXCEPT ![r] = p.outcome]
    /\ roomTotal' = p.cost
    /\ account' = [available |-> account.available - applied,
                   usage |-> account.usage + (IF r \in Billed THEN p.cost ELSE 0)]
    /\ run' = [run EXCEPT ![r] = [ClosedRun(@, p.outcome) EXCEPT !.charged = p.cost,
                                                               !.credit = applied]]
    /\ dispatch' = [dispatch EXCEPT ![r] = SettledDispatch(@)]

\* The accepted projection: placeholder, room total, usage event, balance, run
\* and (by the trigger) dispatch row in one transaction.
ApplyTerminal(r) ==
    LET p == run[r].payload
        applied == CreditApplied(r, p.cost)
    IN
    /\ message' = [message EXCEPT ![r] = p.outcome]
    /\ roomTotal' = roomTotal + p.cost
    /\ account' = [available |-> account.available - applied,
                   usage |-> account.usage + (IF r \in Billed THEN p.cost ELSE 0)]
    /\ run' = [run EXCEPT ![r] = [ClosedRun(@, p.outcome) EXCEPT !.charged = p.cost,
                                                               !.credit = applied]]
    /\ dispatch' = [dispatch EXCEPT ![r] = SettledDispatch(@)]

\* The placeholder no longer streams: the run is cancelled and nothing charged.
ObsoleteTerminal(r) ==
    /\ run' = [run EXCEPT ![r] = ClosedRun(@, "cancelled")]
    /\ dispatch' = [dispatch EXCEPT ![r] = SettledDispatch(@)]
    /\ UNCHANGED <<message, moneyVars>>

\* Mutant of Project: any holder projects what it finds staged.
Project_NoFence(w) ==
    LET r == worker[w].run IN
    /\ Live(w, "staged")
    /\ IF run[r].payload # NoTerminal
       THEN IF message[r] = "streaming" THEN ApplyTerminal(r) ELSE ObsoleteTerminal(r)
       ELSE UNCHANGED <<run, message, dispatch, moneyVars>>
    /\ Completes(w)
    /\ UNCHANGED <<relay, recon, calls, faults>>

\* projectAssistantRunTerminal: stale, obsolete and applied all end the job
\* normally, unless the acknowledgement is lost.
Project(w) ==
    LET r == worker[w].run IN
    /\ Live(w, "staged")
    /\ IF run[r].status = "finalizing" /\ HasToken(w)
       THEN IF message[r] = "streaming" THEN ApplyTerminal(r) ELSE ObsoleteTerminal(r)
       ELSE UNCHANGED <<run, message, dispatch, moneyVars>>
    /\ \/ Completes(w) /\ UNCHANGED faults
       \/ Fault /\ worker' = [worker EXCEPT ![w].pc = "failing"] /\ UNCHANGED job
    /\ UNCHANGED <<relay, recon, calls>>

\* Staging or projecting throws and rolls back (a lost connection, a deadlock
\* victim); whatever throws before is caught and becomes an answer.
ExecutionThrows(w) ==
    /\ Fault
    /\ worker[w].pc \in {"answered", "staged"}
    /\ ~worker[w].lost
    /\ worker' = [worker EXCEPT ![w].pc = "failing"]
    /\ UNCHANGED <<run, message, moneyVars, queueVars, calls>>

\* Mutant of ReleaseClaim: whatever the run became, it is queued again.
ReleaseClaim_NoFence(w) ==
    /\ Live(w, "failing")
    /\ run' = [run EXCEPT ![worker[w].run].status = "queued",
                          ![worker[w].run].owner = NoProcess,
                          ![worker[w].run].lease = "none"]
    /\ FailsAttempt(w)
    /\ UNCHANGED <<message, dispatch, relay, recon, moneyVars, calls, faults>>

\* The catch of processAssistantRunJob: releaseAssistantRunClaim, then rethrow.
\* A release that throws leaves the claim to its expiry.
ReleaseClaim(w) ==
    LET r == worker[w].run IN
    /\ Live(w, "failing")
    /\ \/ /\ run' = IF run[r].status \in {"running", "finalizing"} /\ HasToken(w)
                    THEN [run EXCEPT ![r].status = IF @ = "running" THEN "queued" ELSE @,
                                     ![r].owner = NoProcess, ![r].lease = "none"]
                    ELSE run
          /\ UNCHANGED faults
       \/ Fault /\ UNCHANGED run
    /\ FailsAttempt(w)
    /\ UNCHANGED <<message, dispatch, relay, recon, moneyVars, calls>>

\* renewAssistantRunLease on the timer; a lost token aborts the execution.
RenewLease(w) ==
    LET r == worker[w].run IN
    /\ worker[w].pc \in Holding
    /\ ~worker[w].lost
    /\ IF run[r].status \in {"running", "finalizing"} /\ HasToken(w)
       THEN /\ run[r].lease = "expired"
            /\ run' = [run EXCEPT ![r].lease = "live"]
            /\ UNCHANGED worker
       ELSE /\ worker' = [worker EXCEPT ![w].lost = TRUE]
            /\ UNCHANGED run
    /\ UNCHANGED <<message, moneyVars, queueVars, calls, faults>>

\* The renewal's statement fails: the claim is intact but given up for lost.
RenewThrows(w) ==
    /\ Fault
    /\ worker[w].pc \in Holding
    /\ ~worker[w].lost
    /\ worker' = [worker EXCEPT ![w].lost = TRUE]
    /\ UNCHANGED <<run, message, moneyVars, queueVars, calls>>

\* leaseMs pass without a renewal.  While the claiming slot still runs and
\* renews, this is a pause of its process.
LeaseExpires(r) ==
    /\ run[r].lease = "live"
    /\ IF \E w \in Workers : /\ worker[w].pc \in Holding /\ ~worker[w].lost
                             /\ worker[w].run = r /\ HasToken(w)
       THEN Fault
       ELSE UNCHANGED faults
    /\ run' = [run EXCEPT ![r].lease = "expired"]
    /\ UNCHANGED <<message, worker, moneyVars, queueVars, calls>>

\* The slot's process dies; its job stays active without a holder.
WorkerCrash(w) ==
    /\ Fault
    /\ worker[w].pc # "idle"
    /\ worker' = [worker EXCEPT ![w] = IdleWorker]
    /\ job' = [r \in Runs |-> IF job[r].holder = w THEN [job[r] EXCEPT !.holder = NoWorker]
                                                  ELSE job[r]]
    /\ UNCHANGED <<run, message, dispatch, relay, recon, moneyVars, calls>>

-----------------------------------------------------------------------------

UserStep(r) == AcceptRun(r) \/ DeletePlaceholder(r)

RelayStep(d) ==
    \/ RelayClaim(d)
    \/ \E r \in Runs : RelayAdd(d, r) \/ RelayMark(d, r)

ReconcilerStep == ReconcilePage \/ \E r \in Runs : ReconcileDispatch(r)

WorkerStep(w) ==
    \/ FindTerminal(w) \/ ClaimRun(w) \/ ClaimUnavailable(w) \/ Abort(w)
    \/ CallProvider(w) \/ ProviderAnswers(w) \/ Stage(w) \/ Project(w)
    \/ ReleaseClaim(w)

TimeStep(r) == DispatchLockExpires(r) \/ LeaseExpires(r) \/ JobStalls(r)

FaultStep ==
    \/ \E d \in Relays : RelayCrash(d) \/ \E r \in Runs : RelayFail(d, r)
    \/ \E w \in Workers : ExecutionThrows(w) \/ RenewThrows(w) \/ WorkerCrash(w)
    \/ \E r \in Runs : LoseJob(r)

Next ==
    \/ \E r \in Runs : UserStep(r) \/ TimeStep(r) \/ EvictJob(r)
    \/ \E d \in Relays : RelayStep(d)
    \/ ReconcilerStep
    \/ \E w \in Workers : \/ WorkerStep(w) \/ AdmissionDefers(w) \/ RenewLease(w)
                          \/ \E r \in Runs : TakeJob(w, r)
    \/ FaultStep

Spec == Init /\ [][Next]_vars

\* Timers tick, processes restart and queues deliver: each loop of the code is
\* weakly fair.  A slot is strongly fair, because a job that is deferred by
\* admission again and again is admitted in the end.  Users and faults owe
\* nothing.
Fairness ==
    /\ \A d \in Relays : WF_vars(RelayStep(d))
    /\ WF_vars(ReconcilerStep)
    /\ \A w \in Workers : SF_vars(WorkerStep(w) /\ UNCHANGED faults)
    /\ \A w \in Workers, r \in Runs : SF_vars(TakeJob(w, r))
    /\ \A w \in Workers : WF_vars(RenewLease(w))
    /\ \A r \in Runs : WF_vars(TimeStep(r) /\ UNCHANGED faults)

FairSpec == Spec /\ Fairness

-----------------------------------------------------------------------------
(* Safety.                                                                 *)

\* A placeholder streams exactly as long as its run is active: no active run has
\* lost its placeholder (so validate_assistant_run_message_identity never raises
\* and the obsolete branch is only a guard), and no message streams for ever.
PlaceholderTracksRun ==
    \A r \in Runs : message[r] = "streaming" <=> run[r].status \in Active

\* A closed run and its message agree on one terminal, whatever crashed, stalled
\* or was repeated on the way: the staged answer was shown and charged, or the
\* placeholder was deleted and nothing was charged.
TerminalAgreesWithMessage ==
    \A r \in Runs :
        /\ run[r].status \in Outcomes =>
               /\ message[r] \in {run[r].payload.outcome, "deleted"}
               /\ run[r].status = run[r].payload.outcome
               /\ run[r].charged = run[r].payload.cost
        /\ run[r].status \notin Outcomes => run[r].charged = 0 /\ run[r].credit = 0

Charges == [r \in Runs |-> run[r].charged]
CreditsUsed == [r \in Runs |-> run[r].credit]
BilledCharges == [r \in Runs |-> IF r \in Billed THEN run[r].charged ELSE 0]

\* The room's AI cost and the account's balance and usage are exactly what the
\* runs record as charged: no projection is ever counted twice or lost, and
\* credit is never overdrawn.
MoneyIsAccountedFor ==
    /\ roomTotal = SumFunctionOnSet(Charges, Runs)
    /\ account.available + SumFunctionOnSet(CreditsUsed, Runs) = Credit
    /\ account.usage = SumFunctionOnSet(BilledCharges, Runs)

\* Once a terminal payload is staged the provider is not called under any later
\* generation: recovery only projects.
NoProviderCallAfterStaging ==
    \A r \in Runs : run[r].payload # NoTerminal =>
        \A g \in calls[r] : g <= run[r].payload.gen

\* Provider calls of a run are bounded by the attempt budget, however many
\* generations crashes and takeovers consume.
ProviderCallsAreBounded ==
    \A r \in Runs : Cardinality(calls[r]) <= MaxAttempts

\* Two slots never hold the valid token of one run, even slots that share a
\* worker id: at most one execution can still write to it.
OneTokenHolder ==
    \A v, w \in Workers :
        /\ v # w
        /\ worker[v].pc \in Holding /\ worker[w].pc \in Holding
        /\ worker[v].run = worker[w].run
        => ~(HasToken(v) /\ HasToken(w))

\* A dispatch row of an active run says "dispatched" only if a job was handed to
\* BullMQ: otherwise nothing but the reconciler would ever run it.
DispatchedWasEnqueued ==
    \A r \in Runs : dispatch[r].status = "dispatched" /\ run[r].status \in Active
        => job[r].state # "none"

\* A terminal payload is staged once, by the generation then holding the run,
\* and never replaced: an old generation's answer is discarded.
StagedOnceByTheHolder ==
    [][\A r \in Runs : run'[r].payload # run[r].payload =>
           /\ run[r].payload = NoTerminal
           /\ run'[r].payload.gen = run[r].generation]_vars

\* A closed run never changes again, and a deleted or finished placeholder never
\* streams again.
ClosedRunsStayClosed ==
    [][\A r \in Runs :
          /\ run[r].status \in Closed => run'[r] = run[r]
          /\ message[r] \notin {"absent", "streaming"} => message'[r] # "streaming"]_vars

-----------------------------------------------------------------------------
(* Liveness.                                                               *)

\* Every accepted run is eventually complete, error or cancelled: whatever was
\* lost (a relay, a worker, an acknowledgement, the job in Redis), some loop
\* finds the run again.
AcceptedRunsClose ==
    \A r \in Runs : run[r].status \in Active ~> run[r].status \in Closed

-----------------------------------------------------------------------------
(* Refinement: the run ledger.                                             *)

PhaseOf(rec) ==
    CASE rec.status = "none" -> "absent"
      [] rec.status \in {"queued", "running"} -> "open"
      [] rec.status = "finalizing" -> "decided"
      [] rec.status \in Outcomes -> "settled"
      [] rec.status = "cancelled" -> "void"

ResultOf(rec) ==
    IF rec.payload = NoTerminal THEN NoTerminal
    ELSE [outcome |-> rec.payload.outcome, cost |-> rec.payload.cost]

LedgerPhase == [r \in Runs |-> PhaseOf(run[r])]
LedgerResult == [r \in Runs |-> ResultOf(run[r])]

Ledger == INSTANCE RunLedger WITH
    phase <- LedgerPhase, result <- LedgerResult, shown <- message,
    total <- roomTotal, NoResult <- NoTerminal

\* The pipeline implements the ledger: through all its claims, retries and
\* recoveries a run is decided once and settled once, or voided.
ImplementsLedger == Ledger!Spec
=============================================================================
