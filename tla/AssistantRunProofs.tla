------------------------- MODULE AssistantRunProofs -------------------------
(***************************************************************************)
(* Theorems about AssistantRun, for every value of its constants: types    *)
(* and tokens, rows and placeholders, money, provider calls, the ledger    *)
(* that the pipeline implements, and the queue.                            *)
(***************************************************************************)
EXTENDS AssistantRun, FiniteSums

-----------------------------------------------------------------------------
(* Types.                                                                  *)

\* What a slot's program counter says about its registers.
SlotWF ==
    \A w \in Workers :
        /\ worker[w].pc # "idle" => worker[w].run \in Runs
        /\ worker[w].pc = "answered" => worker[w].answer \in Answers

\* A run has a payload exactly when it was staged.
RunWF ==
    \A r \in Runs :
        /\ run[r].status \in {"finalizing", "complete", "error"} => run[r].payload \in Payloads
        /\ run[r].status \in {"none", "queued", "running"} => run[r].payload = NoTerminal

TInv == TypeOK /\ SlotWF /\ RunWF

LEMMA IdleSlot == IdleWorker \in Slots
  BY DEF IdleWorker, Slots, PcStates

LEMMA EndAttemptTypes ==
    ASSUME TypeOK, NEW w \in Workers, NEW states \in SUBSET {"waiting", "completed", "failed"},
           EndAttempt(w, states)
    PROVE  worker' = [worker EXCEPT ![w] = IdleWorker] /\ job' \in [Runs -> Jobs]
<1> DEFINE r == worker[w].run
<1>1. worker' = [worker EXCEPT ![w] = IdleWorker]
  BY DEF EndAttempt
<1>2. PICK s \in states :
         job' = IF job[r].state = "active" /\ job[r].holder = w
                THEN [job EXCEPT ![r] = [state |-> s, holder |-> NoWorker]]
                ELSE job
  BY DEF EndAttempt
<1>3. [state |-> s, holder |-> NoWorker] \in Jobs
  BY DEF Jobs
<1>4. job' \in [Runs -> Jobs]
  BY <1>2, <1>3 DEF TypeOK
<1> QED BY <1>1, <1>4

LEMMA StatusRow ==
    ASSUME NEW rec \in RunRows, NEW s \in RunStatuses
    PROVE  [rec EXCEPT !.status = s] \in RunRows
  BY DEF RunRows

LEMMA LeaseRow ==
    ASSUME NEW rec \in RunRows, NEW l \in {"live", "expired"}
    PROVE  [rec EXCEPT !.lease = l] \in RunRows
  BY DEF RunRows

LEMMA ClosedRow ==
    ASSUME NEW rec \in RunRows, NEW s \in Closed
    PROVE  /\ ClosedRun(rec, s) \in RunRows
           /\ ClosedRun(rec, s).status = s
           /\ ClosedRun(rec, s).lease = "none"
           /\ ClosedRun(rec, s).generation = rec.generation
           /\ ClosedRun(rec, s).attempt = rec.attempt
           /\ ClosedRun(rec, s).payload = rec.payload
           /\ ClosedRun(rec, s).charged = rec.charged
           /\ ClosedRun(rec, s).credit = rec.credit
<1>1. s \in RunStatuses
  BY DEF RunStatuses
<1> QED BY <1>1 DEF RunRows, ClosedRun

LEMMA ClaimedRow ==
    ASSUME NEW rec \in RunRows, NEW w \in Workers
    PROVE  /\ ClaimedRun(rec, w) \in RunRows
           /\ ClaimedRun(rec, w).generation = rec.generation + 1
           /\ ClaimedRun(rec, w).payload = rec.payload
<1>1. Process[w] \in Processes /\ {"running", "finalizing"} \subseteq RunStatuses
  BY DEF Processes, RunStatuses, Active
<1>2. CASE rec.status = "finalizing"
  <2>1. ClaimedRun(rec, w) =
            [rec EXCEPT !.status = "finalizing", !.generation = @ + 1, !.attempt = @,
                        !.owner = Process[w], !.lease = "live"]
    BY <1>2 DEF ClaimedRun
  <2>2. rec.generation + 1 \in Nat
    BY DEF RunRows
  <2> QED BY ZenonT(60), <1>1, <2>1, <2>2 DEF RunRows
<1>3. CASE rec.status # "finalizing"
  <2>1. ClaimedRun(rec, w) =
            [rec EXCEPT !.status = "running", !.generation = @ + 1, !.attempt = @ + 1,
                        !.owner = Process[w], !.lease = "live"]
    BY <1>3 DEF ClaimedRun
  <2>2. rec.generation + 1 \in Nat /\ rec.attempt + 1 \in Nat
    BY DEF RunRows
  <2> QED BY ZenonT(60), <1>1, <2>1, <2>2 DEF RunRows
<1> QED BY <1>2, <1>3

LEMMA StagedRow ==
    ASSUME NEW rec \in RunRows, NEW w \in Workers
    PROVE  /\ StagedRun(rec, w).generation = rec.generation
           /\ StagedRun(rec, w).attempt = rec.attempt
           /\ StagedRun(rec, w).status = "finalizing"
           /\ StagedRun(rec, w).lease = rec.lease
           /\ StagedRun(rec, w).charged = rec.charged
           /\ StagedRun(rec, w).credit = rec.credit
           /\ StagedRun(rec, w).payload = [outcome |-> worker[w].answer.outcome,
                                           cost |-> worker[w].answer.cost,
                                           gen |-> worker[w].gen]
  BY DEF RunRows, StagedRun

LEMMA SettledRow ==
    ASSUME NEW rec \in DispatchRows
    PROVE  SettledDispatch(rec) \in DispatchRows
  BY DEF DispatchRows, SettledDispatch

\* What a projection leaves well formed.
ProjectionTyped ==
    /\ run' \in [Runs -> RunRows]
    /\ message' \in [Runs -> {"absent", "streaming", "complete", "error", "deleted"}]
    /\ dispatch' \in [Runs -> DispatchRows]
    /\ account' \in [available : Nat, usage : Nat]
    /\ roomTotal' \in Nat
    /\ RunWF'

\* Credit covers at most the balance and at most the cost.
LEMMA CreditIsCapped ==
    ASSUME TypeOK, NEW r, NEW cost \in Nat
    PROVE  /\ CreditApplied(r, cost) \in Nat
           /\ CreditApplied(r, cost) <= account.available
           /\ CreditApplied(r, cost) <= cost
  BY DEF TypeOK, CreditApplied

\* The accepted projection closes the run with its payload's outcome and cost.
LEMMA ApplyRow ==
    ASSUME TInv, NEW r \in Runs, run[r].status = "finalizing", ApplyTerminal(r)
    PROVE  LET p == run[r].payload IN
           /\ p \in Payloads
           /\ p.outcome \in Outcomes
           /\ p.cost \in Nat
           /\ \E row \in RunRows :
                  /\ run' = [run EXCEPT ![r] = row]
                  /\ row.status = p.outcome
                  /\ row.lease = "none"
                  /\ row.payload = p
                  /\ row.charged = p.cost
                  /\ row.generation = run[r].generation
                  /\ row.attempt = run[r].attempt
<1> DEFINE p == run[r].payload
           applied == CreditApplied(r, p.cost)
           row == [ClosedRun(run[r], p.outcome) EXCEPT !.charged = p.cost, !.credit = applied]
<1>0. p \in Payloads
  BY DEF TInv, RunWF
<1>0a. p.outcome \in Outcomes /\ p.cost \in Costs \union {0}
  BY <1>0 DEF Payloads
<1>0b. Costs \union {0} \subseteq Nat
  BY MoneyAssumption
<1>1. p.outcome \in Outcomes /\ p.cost \in Nat
  BY <1>0a, <1>0b
<1>2. applied \in Nat
  BY <1>1, CreditIsCapped DEF TInv
<1>3. run[r] \in RunRows
  BY DEF TInv, TypeOK
<1>4. p.outcome \in Closed
  BY <1>1 DEF Outcomes, Closed
<1>5. ClosedRun(run[r], p.outcome) \in RunRows
  BY <1>3, <1>4, ClosedRow
<1>6. /\ row \in RunRows /\ row.status = p.outcome /\ row.payload = p /\ row.lease = "none"
      /\ row.charged = p.cost /\ row.generation = run[r].generation
      /\ row.attempt = run[r].attempt
  BY <1>1, <1>2, <1>5, <1>3 DEF RunRows, ClosedRun
<1>7. run' = [run EXCEPT ![r] = row]
  BY DEF ApplyTerminal
<1> QED BY <1>0, <1>1, <1>6, <1>7

LEMMA ApplyTypes ==
    ASSUME TInv, NEW r \in Runs, run[r].status = "finalizing", ApplyTerminal(r)
    PROVE  ProjectionTyped
<1> DEFINE p == run[r].payload
           applied == CreditApplied(r, p.cost)
<1>1. p \in Payloads /\ p.outcome \in Outcomes /\ p.cost \in Nat
  BY ApplyRow
<1>2. applied \in Nat /\ applied <= account.available
  BY <1>1, CreditIsCapped DEF TInv
<1>3. dispatch[r] \in DispatchRows
  BY DEF TInv, TypeOK
<1>4. PICK row \in RunRows : /\ run' = [run EXCEPT ![r] = row]
                             /\ row.status = p.outcome /\ row.payload = p
  BY ApplyRow
<1>5. run' \in [Runs -> RunRows]
  BY <1>4 DEF TInv, TypeOK
<1>6. message' \in [Runs -> {"absent", "streaming", "complete", "error", "deleted"}]
  BY <1>1 DEF ApplyTerminal, TInv, TypeOK, Outcomes
<1>7. dispatch' \in [Runs -> DispatchRows]
  BY <1>3, SettledRow DEF ApplyTerminal, TInv, TypeOK
<1>8. account' \in [available : Nat, usage : Nat] /\ roomTotal' \in Nat
  BY <1>1, <1>2 DEF ApplyTerminal, TInv, TypeOK
<1>9. RunWF'
  BY <1>1, <1>4 DEF TInv, TypeOK, RunWF, Outcomes
<1> QED BY <1>5, <1>6, <1>7, <1>8, <1>9 DEF ProjectionTyped

LEMMA ObsoleteTypes ==
    ASSUME TInv, NEW r \in Runs, ObsoleteTerminal(r)
    PROVE  ProjectionTyped
<1>1. run[r] \in RunRows /\ dispatch[r] \in DispatchRows
  BY DEF TInv, TypeOK
<1>2. /\ ClosedRun(run[r], "cancelled") \in RunRows
      /\ ClosedRun(run[r], "cancelled").status = "cancelled"
  BY <1>1, ClosedRow DEF Closed
<1>3. run' \in [Runs -> RunRows]
  BY <1>2 DEF ObsoleteTerminal, TInv, TypeOK
<1>4. dispatch' \in [Runs -> DispatchRows]
  BY <1>1, SettledRow DEF ObsoleteTerminal, TInv, TypeOK
<1>5. RunWF'
  BY <1>2 DEF ObsoleteTerminal, TInv, TypeOK, RunWF
<1> QED BY <1>3, <1>4, <1>5 DEF ProjectionTyped, ObsoleteTerminal, TInv, TypeOK, moneyVars

LEMMA TypeStep == ASSUME TInv, Next PROVE TInv'
<1>AcceptRun. ASSUME NEW r \in Runs, AcceptRun(r) PROVE TInv'
  <2> USE <1>AcceptRun
  <2>row. run[r] \in RunRows /\ dispatch[r] \in DispatchRows
    BY DEF TInv, TypeOK
  <2>st. "queued" \in RunStatuses
    BY DEF RunStatuses, Active
  <2>run. run' \in [Runs -> RunRows]
    BY <2>row, <2>st, StatusRow DEF TInv, TypeOK, AcceptRun
  <2>message. message' \in [Runs -> {"absent", "streaming", "complete", "error", "deleted"}]
    BY DEF TInv, TypeOK, AcceptRun
  <2>dispatch. dispatch' \in [Runs -> DispatchRows]
    BY DEF TInv, TypeOK, AcceptRun, DispatchRows
  <2>u. UNCHANGED <<job, worker, relay, recon, account, roomTotal, calls, faults>>
    BY DEF AcceptRun, queueVars, moneyVars
  <2>s. SlotWF'
    BY <2>u DEF TInv, SlotWF
  <2>r. RunWF'
    BY DEF TInv, TypeOK, RunWF, AcceptRun, RunRows
  <2> QED BY <2>run, <2>message, <2>dispatch, <2>u, <2>s, <2>r DEF TInv, TypeOK
<1>DeletePlaceholder. ASSUME NEW r \in Runs, DeletePlaceholder(r) PROVE TInv'
  <2> USE <1>DeletePlaceholder
  <2>row. run[r] \in RunRows /\ dispatch[r] \in DispatchRows
    BY DEF TInv, TypeOK
  <2>cl. ClosedRun(run[r], "cancelled") \in RunRows /\ ClosedRun(run[r],
      "cancelled").status = "cancelled"
    BY <2>row, ClosedRow DEF Closed
  <2>se. SettledDispatch(dispatch[r]) \in DispatchRows
    BY <2>row, SettledRow
  <2>run. run' \in [Runs -> RunRows]
    BY <2>cl DEF TInv, TypeOK, DeletePlaceholder
  <2>message. message' \in [Runs -> {"absent", "streaming", "complete", "error", "deleted"}]
    BY DEF TInv, TypeOK, DeletePlaceholder
  <2>dispatch. dispatch' \in [Runs -> DispatchRows]
    BY <2>se DEF TInv, TypeOK, DeletePlaceholder
  <2>u. UNCHANGED <<job, worker, relay, recon, account, roomTotal, calls, faults>>
    BY DEF DeletePlaceholder, queueVars, moneyVars
  <2>s. SlotWF'
    BY <2>u DEF TInv, SlotWF
  <2>r. RunWF'
    BY <2>cl DEF TInv, TypeOK, RunWF, DeletePlaceholder
  <2> QED BY <2>run, <2>message, <2>dispatch, <2>u, <2>s, <2>r DEF TInv, TypeOK
<1>RelayClaim. ASSUME NEW d \in Relays, RelayClaim(d) PROVE TInv'
  <2> USE <1>RelayClaim
  <2>dispatch. dispatch' \in [Runs -> DispatchRows]
    BY DEF TInv, TypeOK, RelayClaim, DispatchRows
  <2>relay. relay' \in [Relays -> Ticks]
    BY DEF TInv, TypeOK, RelayClaim, DispatchRows, Ticks
  <2>u. UNCHANGED <<run, message, job, worker, recon, account, roomTotal, calls, faults>>
    BY DEF RelayClaim, queueVars, moneyVars
  <2>s. SlotWF'
    BY <2>u DEF TInv, SlotWF
  <2>r. RunWF'
    BY <2>u DEF TInv, RunWF
  <2> QED BY <2>dispatch, <2>relay, <2>u, <2>s, <2>r DEF TInv, TypeOK
<1>RelayAdd. ASSUME NEW d \in Relays, NEW r \in Runs, RelayAdd(d, r) PROVE TInv'
  <2> USE <1>RelayAdd
  <2>job. job' \in [Runs -> Jobs]
    BY DEF TInv, TypeOK, RelayAdd, Enqueued, Jobs
  <2>relay. relay' \in [Relays -> Ticks]
    BY DEF TInv, TypeOK, RelayAdd, Ticks
  <2>u. UNCHANGED <<run, message, dispatch, worker, recon, account, roomTotal, calls, faults>>
    BY DEF RelayAdd, queueVars, moneyVars
  <2>s. SlotWF'
    BY <2>u DEF TInv, SlotWF
  <2>r. RunWF'
    BY <2>u DEF TInv, RunWF
  <2> QED BY <2>job, <2>relay, <2>u, <2>s, <2>r DEF TInv, TypeOK
<1>RelayMark. ASSUME NEW d \in Relays, NEW r \in Runs, RelayMark(d, r) PROVE TInv'
  <2> USE <1>RelayMark
  <2>row. run[r] \in RunRows /\ dispatch[r] \in DispatchRows
    BY DEF TInv, TypeOK
  <2>se. SettledDispatch(dispatch[r]) \in DispatchRows
    BY <2>row, SettledRow
  <2>ti. [relay[d] EXCEPT !.batch = @ \ {r}, !.added = NoRun, !.attempt[r] = 0] \in Ticks
    BY ZenonT(60) DEF TInv, TypeOK, Ticks
  <2>di. dispatch' = dispatch \/ dispatch' = [dispatch EXCEPT ![r] = SettledDispatch(@)]
    BY DEF RelayMark
  <2>dispatch. dispatch' \in [Runs -> DispatchRows]
    BY <2>di, <2>se DEF TInv, TypeOK
  <2>relay. relay' \in [Relays -> Ticks]
    BY <2>ti DEF TInv, TypeOK, RelayMark, RelayNext
  <2>u. UNCHANGED <<run, message, job, worker, recon, account, roomTotal, calls, faults>>
    BY DEF RelayMark, queueVars, moneyVars
  <2>s. SlotWF'
    BY <2>u DEF TInv, SlotWF
  <2>r. RunWF'
    BY <2>u DEF TInv, RunWF
  <2> QED BY <2>dispatch, <2>relay, <2>u, <2>s, <2>r DEF TInv, TypeOK
<1>RelayFail. ASSUME NEW d \in Relays, NEW r \in Runs, RelayFail(d, r) PROVE TInv'
  <2> USE <1>RelayFail
  <2>ti. [relay[d] EXCEPT !.batch = @ \ {r}, !.added = NoRun, !.attempt[r] = 0] \in Ticks
    BY ZenonT(60) DEF TInv, TypeOK, Ticks
  <2>di. \/ dispatch' = dispatch
         \/ dispatch' = [dispatch EXCEPT ![r].status = "pending", ![r].lockedBy = NoProcess,
                                     ![r].lockExpired = FALSE]
    BY DEF RelayFail
  <2>dispatch. dispatch' \in [Runs -> DispatchRows]
    BY <2>di DEF TInv, TypeOK, DispatchRows
  <2>job. job' \in [Runs -> Jobs]
    BY DEF TInv, TypeOK, RelayFail, Enqueued, Jobs
  <2>relay. relay' \in [Relays -> Ticks]
    BY <2>ti DEF TInv, TypeOK, RelayFail, RelayNext
  <2>faults. faults' \in 0..MaxFaults
    BY BoundAssumption DEF TInv, TypeOK, RelayFail, Fault
  <2>u. UNCHANGED <<run, message, worker, recon, account, roomTotal, calls>>
    BY DEF RelayFail, queueVars, moneyVars
  <2>s. SlotWF'
    BY <2>u DEF TInv, SlotWF
  <2>r. RunWF'
    BY <2>u DEF TInv, RunWF
  <2> QED BY <2>dispatch, <2>job, <2>relay, <2>faults, <2>u, <2>s, <2>r DEF TInv, TypeOK
<1>RelayCrash. ASSUME NEW d \in Relays, RelayCrash(d) PROVE TInv'
  <2> USE <1>RelayCrash
  <2>relay. relay' \in [Relays -> Ticks]
    BY DEF TInv, TypeOK, RelayCrash, IdleRelay, NoRun, Ticks
  <2>faults. faults' \in 0..MaxFaults
    BY BoundAssumption DEF TInv, TypeOK, RelayCrash, Fault
  <2>u. UNCHANGED <<run, message, dispatch, job, worker, recon, account, roomTotal, calls>>
    BY DEF RelayCrash, queueVars, moneyVars
  <2>s. SlotWF'
    BY <2>u DEF TInv, SlotWF
  <2>r. RunWF'
    BY <2>u DEF TInv, RunWF
  <2> QED BY <2>relay, <2>faults, <2>u, <2>s, <2>r DEF TInv, TypeOK
<1>DispatchLockExpires. ASSUME NEW r \in Runs, DispatchLockExpires(r) PROVE TInv'
  <2> USE <1>DispatchLockExpires
  <2>row. run[r] \in RunRows /\ dispatch[r] \in DispatchRows
    BY DEF TInv, TypeOK
  <2>lo. [dispatch[r] EXCEPT !.lockExpired = TRUE] \in DispatchRows
    BY <2>row DEF DispatchRows
  <2>dispatch. dispatch' \in [Runs -> DispatchRows]
    BY <2>lo DEF TInv, TypeOK, DispatchLockExpires
  <2>faults. faults' \in 0..MaxFaults
    BY BoundAssumption DEF TInv, TypeOK, DispatchLockExpires, Fault
  <2>u. UNCHANGED <<run, message, job, worker, relay, recon, account, roomTotal, calls>>
    BY DEF DispatchLockExpires, queueVars, moneyVars
  <2>s. SlotWF'
    BY <2>u DEF TInv, SlotWF
  <2>r. RunWF'
    BY <2>u DEF TInv, RunWF
  <2> QED BY <2>dispatch, <2>faults, <2>u, <2>s, <2>r DEF TInv, TypeOK
<1>ReconcilePage. ASSUME ReconcilePage PROVE TInv'
  <2> USE <1>ReconcilePage
  <2>pg. PICK page \in SUBSET Runs, after \in Runs \union {NoRun} : recon' = [batch |-> page,
      after |-> after]
    BY DEF ReconcilePage
  <2>recon. recon' \in [batch : SUBSET Runs, after : Runs \union {NoRun}]
    BY <2>pg DEF TInv, TypeOK
  <2>u. UNCHANGED <<run, message, dispatch, job, worker, relay, account, roomTotal, calls, faults>>
    BY DEF ReconcilePage, queueVars, moneyVars
  <2>s. SlotWF'
    BY <2>u DEF TInv, SlotWF
  <2>r. RunWF'
    BY <2>u DEF TInv, RunWF
  <2> QED BY <2>recon, <2>u, <2>s, <2>r DEF TInv, TypeOK
<1>ReconcileDispatch. ASSUME NEW r \in Runs, ReconcileDispatch(r) PROVE TInv'
  <2> USE <1>ReconcileDispatch
  <2>job. job' \in [Runs -> Jobs]
    BY DEF TInv, TypeOK, ReconcileDispatch, Enqueued, Jobs
  <2>recon. recon' \in [batch : SUBSET Runs, after : Runs \union {NoRun}]
    BY DEF TInv, TypeOK, ReconcileDispatch
  <2>u. UNCHANGED <<run, message, dispatch, worker, relay, account, roomTotal, calls, faults>>
    BY DEF ReconcileDispatch, queueVars, moneyVars
  <2>s. SlotWF'
    BY <2>u DEF TInv, SlotWF
  <2>r. RunWF'
    BY <2>u DEF TInv, RunWF
  <2> QED BY <2>job, <2>recon, <2>u, <2>s, <2>r DEF TInv, TypeOK
<1>TakeJob. ASSUME NEW w \in Workers, NEW r \in Runs, TakeJob(w, r) PROVE TInv'
  <2> USE <1>TakeJob
  <2>job. job' \in [Runs -> Jobs]
    BY DEF TInv, TypeOK, TakeJob, Jobs
  <2>worker. worker' \in [Workers -> Slots]
    BY DEF TInv, TypeOK, TakeJob, IdleWorker, Slots, PcStates
  <2>u. UNCHANGED <<run, message, dispatch, relay, recon, account, roomTotal, calls, faults>>
    BY DEF TakeJob, queueVars, moneyVars
  <2>s. SlotWF'
    BY DEF TInv, TypeOK, SlotWF, TakeJob, IdleWorker
  <2>r. RunWF'
    BY <2>u DEF TInv, RunWF
  <2> QED BY <2>job, <2>worker, <2>u, <2>s, <2>r DEF TInv, TypeOK
<1>JobStalls. ASSUME NEW r \in Runs, JobStalls(r) PROVE TInv'
  <2> USE <1>JobStalls
  <2>job. job' \in [Runs -> Jobs]
    BY DEF TInv, TypeOK, JobStalls, Jobs
  <2>faults. faults' \in 0..MaxFaults
    BY BoundAssumption DEF TInv, TypeOK, JobStalls, Fault
  <2>u. UNCHANGED <<run, message, dispatch, worker, relay, recon, account, roomTotal, calls>>
    BY DEF JobStalls, queueVars, moneyVars
  <2>s. SlotWF'
    BY <2>u DEF TInv, SlotWF
  <2>r. RunWF'
    BY <2>u DEF TInv, RunWF
  <2> QED BY <2>job, <2>faults, <2>u, <2>s, <2>r DEF TInv, TypeOK
<1>EvictJob. ASSUME NEW r \in Runs, EvictJob(r) PROVE TInv'
  <2> USE <1>EvictJob
  <2>job. job' \in [Runs -> Jobs]
    BY DEF TInv, TypeOK, EvictJob, Jobs
  <2>u. UNCHANGED <<run, message, dispatch, worker, relay, recon, account, roomTotal, calls,
      faults>>
    BY DEF EvictJob, queueVars, moneyVars
  <2>s. SlotWF'
    BY <2>u DEF TInv, SlotWF
  <2>r. RunWF'
    BY <2>u DEF TInv, RunWF
  <2> QED BY <2>job, <2>u, <2>s, <2>r DEF TInv, TypeOK
<1>LoseJob. ASSUME NEW r \in Runs, LoseJob(r) PROVE TInv'
  <2> USE <1>LoseJob
  <2>job. job' \in [Runs -> Jobs]
    BY DEF TInv, TypeOK, LoseJob, Jobs
  <2>faults. faults' \in 0..MaxFaults
    BY BoundAssumption DEF TInv, TypeOK, LoseJob, Fault
  <2>u. UNCHANGED <<run, message, dispatch, worker, relay, recon, account, roomTotal, calls>>
    BY DEF LoseJob, queueVars, moneyVars
  <2>s. SlotWF'
    BY <2>u DEF TInv, SlotWF
  <2>r. RunWF'
    BY <2>u DEF TInv, RunWF
  <2> QED BY <2>job, <2>faults, <2>u, <2>s, <2>r DEF TInv, TypeOK
<1>FindTerminal. ASSUME NEW w \in Workers, FindTerminal(w) PROVE TInv'
  <2> USE <1>FindTerminal
  <2>a. worker' = [worker EXCEPT ![w] = IdleWorker] /\ job' \in [Runs -> Jobs]
    BY EndAttemptTypes DEF TInv, FindTerminal, Completes
  <2>job. job' \in [Runs -> Jobs]
    BY <2>a
  <2>worker. worker' \in [Workers -> Slots]
    BY <2>a, IdleSlot DEF TInv, TypeOK
  <2>u. UNCHANGED <<run, message, dispatch, relay, recon, account, roomTotal, calls, faults>>
    BY DEF FindTerminal, queueVars, moneyVars
  <2>s. SlotWF'
    BY <2>a DEF TInv, TypeOK, SlotWF, IdleWorker
  <2>r. RunWF'
    BY <2>u DEF TInv, RunWF
  <2> QED BY <2>job, <2>worker, <2>u, <2>s, <2>r DEF TInv, TypeOK
<1>ClaimUnavailable. ASSUME NEW w \in Workers, ClaimUnavailable(w) PROVE TInv'
  <2> USE <1>ClaimUnavailable
  <2>a. worker' = [worker EXCEPT ![w] = IdleWorker] /\ job' \in [Runs -> Jobs]
    BY EndAttemptTypes DEF TInv, ClaimUnavailable, FailsAttempt
  <2>job. job' \in [Runs -> Jobs]
    BY <2>a
  <2>worker. worker' \in [Workers -> Slots]
    BY <2>a, IdleSlot DEF TInv, TypeOK
  <2>u. UNCHANGED <<run, message, dispatch, relay, recon, account, roomTotal, calls, faults>>
    BY DEF ClaimUnavailable, queueVars, moneyVars
  <2>s. SlotWF'
    BY <2>a DEF TInv, TypeOK, SlotWF, IdleWorker
  <2>r. RunWF'
    BY <2>u DEF TInv, RunWF
  <2> QED BY <2>job, <2>worker, <2>u, <2>s, <2>r DEF TInv, TypeOK
<1>Abort. ASSUME NEW w \in Workers, Abort(w) PROVE TInv'
  <2> USE <1>Abort
  <2>a. worker' = [worker EXCEPT ![w] = IdleWorker] /\ job' \in [Runs -> Jobs]
    BY EndAttemptTypes DEF TInv, Abort, FailsAttempt
  <2>job. job' \in [Runs -> Jobs]
    BY <2>a
  <2>worker. worker' \in [Workers -> Slots]
    BY <2>a, IdleSlot DEF TInv, TypeOK
  <2>u. UNCHANGED <<run, message, dispatch, relay, recon, account, roomTotal, calls, faults>>
    BY DEF Abort, queueVars, moneyVars
  <2>s. SlotWF'
    BY <2>a DEF TInv, TypeOK, SlotWF, IdleWorker
  <2>r. RunWF'
    BY <2>u DEF TInv, RunWF
  <2> QED BY <2>job, <2>worker, <2>u, <2>s, <2>r DEF TInv, TypeOK
<1>AdmissionDefers. ASSUME NEW w \in Workers, AdmissionDefers(w) PROVE TInv'
  <2> USE <1>AdmissionDefers
  <2>a. worker' = [worker EXCEPT ![w] = IdleWorker] /\ job' \in [Runs -> Jobs]
    BY EndAttemptTypes DEF TInv, AdmissionDefers
  <2>job. job' \in [Runs -> Jobs]
    BY <2>a
  <2>worker. worker' \in [Workers -> Slots]
    BY <2>a, IdleSlot DEF TInv, TypeOK
  <2>u. UNCHANGED <<run, message, dispatch, relay, recon, account, roomTotal, calls, faults>>
    BY DEF AdmissionDefers, queueVars, moneyVars
  <2>s. SlotWF'
    BY <2>a DEF TInv, TypeOK, SlotWF, IdleWorker
  <2>r. RunWF'
    BY <2>u DEF TInv, RunWF
  <2> QED BY <2>job, <2>worker, <2>u, <2>s, <2>r DEF TInv, TypeOK
<1>CallProvider. ASSUME NEW w \in Workers, CallProvider(w) PROVE TInv'
  <2> USE <1>CallProvider
  <2>sl. worker[w] \in Slots
    BY DEF TInv, TypeOK
  <2>w1. [worker[w] EXCEPT !.pc = "answered", !.answer = [outcome |-> "error",
      cost |-> 0]] \in Slots
    BY <2>sl DEF Slots, PcStates, Holding, Answers, Outcomes
  <2>w2. [worker[w] EXCEPT !.pc = "calling"] \in Slots
    BY <2>sl DEF Slots, PcStates, Holding
  <2>worker. worker' \in [Workers -> Slots]
    BY ZenonT(60), <2>w1, <2>w2 DEF TInv, TypeOK, CallProvider
  <2>calls. calls' \in [Runs -> SUBSET Nat]
    BY DEF TInv, TypeOK, CallProvider, Live, Slots, SlotWF
  <2>u. UNCHANGED <<run, message, dispatch, job, relay, recon, account, roomTotal, faults>>
    BY DEF CallProvider, queueVars, moneyVars
  <2>s. SlotWF'
    BY DEF TInv, TypeOK, SlotWF, CallProvider, Live, Answers, Outcomes, Slots
  <2>r. RunWF'
    BY <2>u DEF TInv, RunWF
  <2> QED BY <2>worker, <2>calls, <2>u, <2>s, <2>r DEF TInv, TypeOK
<1>ProviderAnswers. ASSUME NEW w \in Workers, ProviderAnswers(w) PROVE TInv'
  <2> USE <1>ProviderAnswers
  <2>sl. worker[w] \in Slots
    BY DEF TInv, TypeOK
  <2>w1. PICK a \in [outcome : Outcomes, cost : Costs] :
           worker' = [worker EXCEPT ![w].pc = "answered", ![w].answer = a]
    BY DEF ProviderAnswers
  <2>w2. a \in Answers /\ [worker[w] EXCEPT !.pc = "answered", !.answer = a] \in Slots
    BY <2>sl DEF Slots, PcStates, Holding, Answers
  <2>worker. worker' \in [Workers -> Slots]
    BY <2>w1, <2>w2 DEF TInv, TypeOK
  <2>u. UNCHANGED <<run, message, dispatch, job, relay, recon, account, roomTotal, calls, faults>>
    BY DEF ProviderAnswers, queueVars, moneyVars
  <2>s. SlotWF'
    BY <2>sl, <2>w1, <2>w2 DEF TInv, TypeOK, SlotWF, ProviderAnswers, Live, Slots
  <2>r. RunWF'
    BY <2>u DEF TInv, RunWF
  <2> QED BY <2>worker, <2>u, <2>s, <2>r DEF TInv, TypeOK
<1>ExecutionThrows. ASSUME NEW w \in Workers, ExecutionThrows(w) PROVE TInv'
  <2> USE <1>ExecutionThrows
  <2>worker. worker' \in [Workers -> Slots]
    BY DEF TInv, TypeOK, ExecutionThrows, Slots, PcStates, Holding
  <2>faults. faults' \in 0..MaxFaults
    BY BoundAssumption DEF TInv, TypeOK, ExecutionThrows, Fault
  <2>u. UNCHANGED <<run, message, dispatch, job, relay, recon, account, roomTotal, calls>>
    BY DEF ExecutionThrows, queueVars, moneyVars
  <2>s. SlotWF'
    BY DEF TInv, TypeOK, SlotWF, ExecutionThrows, Holding, Slots
  <2>r. RunWF'
    BY <2>u DEF TInv, RunWF
  <2> QED BY <2>worker, <2>faults, <2>u, <2>s, <2>r DEF TInv, TypeOK
<1>RenewThrows. ASSUME NEW w \in Workers, RenewThrows(w) PROVE TInv'
  <2> USE <1>RenewThrows
  <2>sl. worker[w] \in Slots
    BY DEF TInv, TypeOK
  <2>w1. [worker[w] EXCEPT !.lost = TRUE] \in Slots
    BY <2>sl DEF Slots
  <2>worker. worker' \in [Workers -> Slots]
    BY <2>w1 DEF TInv, TypeOK, RenewThrows
  <2>faults. faults' \in 0..MaxFaults
    BY BoundAssumption DEF TInv, TypeOK, RenewThrows, Fault
  <2>u. UNCHANGED <<run, message, dispatch, job, relay, recon, account, roomTotal, calls>>
    BY DEF RenewThrows, queueVars, moneyVars
  <2>s. SlotWF'
    BY DEF TInv, TypeOK, SlotWF, RenewThrows, Holding, Slots
  <2>r. RunWF'
    BY <2>u DEF TInv, RunWF
  <2> QED BY <2>worker, <2>faults, <2>u, <2>s, <2>r DEF TInv, TypeOK
<1>RenewLease. ASSUME NEW w \in Workers, RenewLease(w) PROVE TInv'
  <2> USE <1>RenewLease
  <2>sl. worker[w] \in Slots
    BY DEF TInv, TypeOK
  <2>w1. [worker[w] EXCEPT !.lost = TRUE] \in Slots
    BY <2>sl DEF Slots
  <2>q. worker[w].run \in Runs /\ run[worker[w].run] \in RunRows
    BY DEF TInv, TypeOK, SlotWF, RenewLease, Holding
  <2>lr. [run[worker[w].run] EXCEPT !.lease = "live"] \in RunRows
    BY <2>q, LeaseRow
  <2>rn. run' = run \/ run' = [run EXCEPT ![worker[w].run].lease = "live"]
    BY DEF RenewLease
  <2>wk. worker' = worker \/ worker' = [worker EXCEPT ![w].lost = TRUE]
    BY DEF RenewLease
  <2>run. run' \in [Runs -> RunRows]
    BY <2>rn, <2>q, <2>lr DEF TInv, TypeOK
  <2>worker. worker' \in [Workers -> Slots]
    BY <2>wk, <2>w1 DEF TInv, TypeOK
  <2>u. UNCHANGED <<message, dispatch, job, relay, recon, account, roomTotal, calls, faults>>
    BY DEF RenewLease, queueVars, moneyVars
  <2>s. SlotWF'
    BY <2>wk, <2>sl DEF TInv, TypeOK, SlotWF, Slots
  <2>r. RunWF'
    BY <2>rn DEF TInv, TypeOK, RunWF, RunRows
  <2> QED BY <2>run, <2>worker, <2>u, <2>s, <2>r DEF TInv, TypeOK
<1>LeaseExpires. ASSUME NEW r \in Runs, LeaseExpires(r) PROVE TInv'
  <2> USE <1>LeaseExpires
  <2>row. run[r] \in RunRows /\ dispatch[r] \in DispatchRows
    BY DEF TInv, TypeOK
  <2>run. run' \in [Runs -> RunRows]
    BY <2>row, LeaseRow DEF TInv, TypeOK, LeaseExpires
  <2>faults. faults' \in 0..MaxFaults
    BY BoundAssumption DEF TInv, TypeOK, LeaseExpires, Fault
  <2>u. UNCHANGED <<message, dispatch, job, worker, relay, recon, account, roomTotal, calls>>
    BY DEF LeaseExpires, queueVars, moneyVars
  <2>s. SlotWF'
    BY <2>u DEF TInv, SlotWF
  <2>r. RunWF'
    BY DEF TInv, TypeOK, RunWF, LeaseExpires, RunRows
  <2> QED BY <2>run, <2>faults, <2>u, <2>s, <2>r DEF TInv, TypeOK
<1>WorkerCrash. ASSUME NEW w \in Workers, WorkerCrash(w) PROVE TInv'
  <2> USE <1>WorkerCrash
  <2>job. job' \in [Runs -> Jobs]
    BY DEF TInv, TypeOK, WorkerCrash, Jobs
  <2>worker. worker' \in [Workers -> Slots]
    BY IdleSlot DEF TInv, TypeOK, WorkerCrash
  <2>faults. faults' \in 0..MaxFaults
    BY BoundAssumption DEF TInv, TypeOK, WorkerCrash, Fault
  <2>u. UNCHANGED <<run, message, dispatch, relay, recon, account, roomTotal, calls>>
    BY DEF WorkerCrash, queueVars, moneyVars
  <2>s. SlotWF'
    BY DEF TInv, TypeOK, SlotWF, WorkerCrash, IdleWorker
  <2>r. RunWF'
    BY <2>u DEF TInv, RunWF
  <2> QED BY <2>job, <2>worker, <2>faults, <2>u, <2>s, <2>r DEF TInv, TypeOK
<1>ClaimRun. ASSUME NEW w \in Workers, ClaimRun(w) PROVE TInv'
  <2> USE <1>ClaimRun
  <2>sl. worker[w] \in Slots
    BY DEF TInv, TypeOK
  <2>q. worker[w].run \in Runs /\ run[worker[w].run] \in RunRows /\ worker[w].pc = "taken"
    BY DEF TInv, TypeOK, SlotWF, ClaimRun
  <2>cl. ClaimedRun(run[worker[w].run], w) \in RunRows
    BY <2>q, ClaimedRow
  <2>gn. run[worker[w].run].generation + 1 \in Nat
    BY <2>q DEF RunRows
  <2>ps. {"staged", "claimed"} \subseteq PcStates
    BY DEF PcStates, Holding
  <2>ca. run'[worker[w].run].attempt \in Nat
    BY <2>q, <2>cl DEF TInv, TypeOK, ClaimRun, RunRows
  <2>w1. \A pc \in {"staged", "claimed"} :
           [worker[w] EXCEPT !.pc = pc, !.gen = run[worker[w].run].generation + 1,
                             !.attempt = run'[worker[w].run].attempt] \in Slots
    BY <2>gn, <2>sl, <2>ca, <2>ps DEF Slots
  <2>wk. \/ worker' = [worker EXCEPT ![w] = IdleWorker] /\ job' \in [Runs -> Jobs]
         \/ /\ job' = job
            /\ \E pc \in {"staged", "claimed"} :
                 worker' = [worker EXCEPT ![w] =
                     [@ EXCEPT !.pc = pc, !.gen = run[worker[w].run].generation + 1,
                               !.attempt = run'[worker[w].run].attempt]]
    BY EndAttemptTypes DEF TInv, ClaimRun, FailsAttempt
  <2>run. run' \in [Runs -> RunRows]
    BY <2>cl DEF TInv, TypeOK, ClaimRun
  <2>job. job' \in [Runs -> Jobs]
    BY <2>wk DEF TInv, TypeOK
  <2>worker. worker' \in [Workers -> Slots]
    BY <2>w1, <2>wk, IdleSlot DEF TInv, TypeOK
  <2>faults. faults' \in 0..MaxFaults
    BY BoundAssumption DEF TInv, TypeOK, ClaimRun, Fault
  <2>u. UNCHANGED <<message, dispatch, relay, recon, account, roomTotal, calls>>
    BY DEF ClaimRun, queueVars, moneyVars
  <2>s. SlotWF'
    <3>1. CASE worker' = [worker EXCEPT ![w] = IdleWorker]
      BY <3>1 DEF TInv, TypeOK, SlotWF, IdleWorker
    <3>2. ASSUME NEW pc \in {"staged", "claimed"},
                 worker' = [worker EXCEPT ![w] =
                     [@ EXCEPT !.pc = pc, !.gen = run[worker[w].run].generation + 1,
                               !.attempt = run'[worker[w].run].attempt]]
          PROVE  SlotWF'
      <4>1. /\ worker'[w].pc = pc /\ worker'[w].run = worker[w].run
            /\ \A v \in Workers : v # w => worker'[v] = worker[v]
        BY <3>2, <2>sl DEF TInv, TypeOK, Slots
      <4> QED BY <4>1, <2>q DEF TInv, SlotWF
    <3> QED BY <3>1, <3>2, <2>wk
  <2>r. RunWF'
    BY <2>q DEF TInv, TypeOK, RunWF, ClaimRun, ClaimedRun, RunRows, Claimable
  <2> QED BY <2>run, <2>job, <2>worker, <2>faults, <2>u, <2>s, <2>r DEF TInv, TypeOK
<1>Stage. ASSUME NEW w \in Workers, Stage(w) PROVE TInv'
  <2> USE <1>Stage
  <2>sl. worker[w] \in Slots
    BY DEF TInv, TypeOK
  <2>q. worker[w].run \in Runs /\ run[worker[w].run] \in RunRows /\ worker[w].answer \in Answers
    BY DEF TInv, TypeOK, SlotWF, Stage, Live
  <2>st. StagedRun(run[worker[w].run], w) \in RunRows
    BY <2>q, <2>sl DEF RunRows, StagedRun, RunStatuses, Active, Payloads, Answers, Slots
  <2>rn. run' = run \/ run' = [run EXCEPT ![worker[w].run] = StagedRun(@, w)]
    BY DEF Stage
  <2>wk. \/ worker' = [worker EXCEPT ![w] = IdleWorker] /\ job' \in [Runs -> Jobs]
         \/ job' = job /\ \E pc \in {"staged", "failing"} : worker' = [worker EXCEPT ![w].pc = pc]
    BY EndAttemptTypes DEF TInv, Stage, Completes
  <2>sr. StagedRun(run[worker[w].run], w).status = "finalizing" /\ StagedRun(run[worker[w].run],
      w).payload \in Payloads
    BY <2>q, <2>sl DEF StagedRun, RunRows, Slots, Payloads, Answers
  <2>run. run' \in [Runs -> RunRows]
    BY <2>rn, <2>st DEF TInv, TypeOK
  <2>job. job' \in [Runs -> Jobs]
    BY <2>wk DEF TInv, TypeOK
  <2>worker. worker' \in [Workers -> Slots]
    BY <2>wk, <2>sl, IdleSlot DEF TInv, TypeOK, Slots, PcStates, Holding
  <2>faults. faults' \in 0..MaxFaults
    BY BoundAssumption DEF TInv, TypeOK, Stage, Completes, EndAttempt, Fault
  <2>u. UNCHANGED <<message, dispatch, relay, recon, account, roomTotal, calls>>
    BY DEF Stage, queueVars, moneyVars
  <2>s. SlotWF'
    BY <2>wk, <2>q, <2>sl DEF TInv, TypeOK, SlotWF, IdleWorker, Slots
  <2>r. RunWF'
    BY <2>q, <2>rn, <2>sr DEF TInv, TypeOK, RunWF
  <2> QED BY <2>run, <2>job, <2>worker, <2>faults, <2>u, <2>s, <2>r DEF TInv, TypeOK
<1>ReleaseClaim. ASSUME NEW w \in Workers, ReleaseClaim(w) PROVE TInv'
  <2> USE <1>ReleaseClaim
  <2>q. worker[w].run \in Runs /\ run[worker[w].run] \in RunRows
    BY DEF TInv, TypeOK, SlotWF, ReleaseClaim, Live
  <2>rl. [run[worker[w].run] EXCEPT !.status = IF @ = "running" THEN "queued" ELSE @,
                                  !.owner = NoProcess, !.lease = "none"] \in RunRows
    BY <2>q DEF RunRows, RunStatuses, Active
  <2>rn. \/ run' = run
         \/ run' = [run EXCEPT ![worker[w].run].status = IF @ = "running" THEN "queued" ELSE @,
                            ![worker[w].run].owner = NoProcess, ![worker[w].run].lease = "none"]
    BY DEF ReleaseClaim
  <2>wk. worker' = [worker EXCEPT ![w] = IdleWorker] /\ job' \in [Runs -> Jobs]
    BY EndAttemptTypes DEF TInv, ReleaseClaim, FailsAttempt
  <2>run. run' \in [Runs -> RunRows]
    BY <2>rn, <2>rl DEF TInv, TypeOK
  <2>job. job' \in [Runs -> Jobs]
    BY <2>wk DEF TInv, TypeOK
  <2>worker. worker' \in [Workers -> Slots]
    BY <2>wk, IdleSlot DEF TInv, TypeOK
  <2>faults. faults' \in 0..MaxFaults
    BY BoundAssumption DEF TInv, TypeOK, ReleaseClaim, FailsAttempt, EndAttempt, Fault
  <2>u. UNCHANGED <<message, dispatch, relay, recon, account, roomTotal, calls>>
    BY DEF ReleaseClaim, queueVars, moneyVars
  <2>s. SlotWF'
    BY <2>wk DEF TInv, TypeOK, SlotWF, IdleWorker
  <2>r. RunWF'
    BY <2>q, <2>rn DEF TInv, TypeOK, RunWF, RunRows
  <2> QED BY <2>run, <2>job, <2>worker, <2>faults, <2>u, <2>s, <2>r DEF TInv, TypeOK
<1>Project. ASSUME NEW w \in Workers, Project(w) PROVE TInv'
  <2> USE <1>Project
  <2>sl. worker[w] \in Slots
    BY DEF TInv, TypeOK
  <2>q. worker[w].run \in Runs
    BY DEF TInv, TypeOK, SlotWF, Project, Live
  <2>wk. \/ worker' = [worker EXCEPT ![w] = IdleWorker] /\ job' \in [Runs -> Jobs]
         \/ job' = job /\ worker' = [worker EXCEPT ![w].pc = "failing"]
    BY EndAttemptTypes DEF TInv, Project, Completes
  <2>ro. ProjectionTyped
    BY <2>q, ApplyTypes, ObsoleteTypes DEF Project, ProjectionTyped, moneyVars, TInv, TypeOK, RunWF
  <2>run. run' \in [Runs -> RunRows]
    BY <2>ro DEF ProjectionTyped
  <2>message. message' \in [Runs -> {"absent", "streaming", "complete", "error", "deleted"}]
    BY <2>ro DEF ProjectionTyped
  <2>dispatch. dispatch' \in [Runs -> DispatchRows]
    BY <2>ro DEF ProjectionTyped
  <2>job. job' \in [Runs -> Jobs]
    BY <2>wk DEF TInv, TypeOK
  <2>worker. worker' \in [Workers -> Slots]
    BY <2>wk, <2>sl, IdleSlot DEF TInv, TypeOK, Slots, PcStates, Holding
  <2>account. account' \in [available : Nat, usage : Nat]
    BY <2>ro DEF ProjectionTyped
  <2>roomTotal. roomTotal' \in Nat
    BY <2>ro DEF ProjectionTyped
  <2>faults. faults' \in 0..MaxFaults
    BY BoundAssumption DEF TInv, TypeOK, Project, Completes, EndAttempt, Fault
  <2>u. UNCHANGED <<relay, recon, calls>>
    BY DEF Project, queueVars, moneyVars
  <2>s. SlotWF'
    BY <2>wk, <2>q, <2>sl DEF TInv, TypeOK, SlotWF, IdleWorker, Slots
  <2>r. RunWF'
    BY <2>ro DEF ProjectionTyped
  <2> QED BY <2>run, <2>message, <2>dispatch, <2>job, <2>worker, <2>account, <2>roomTotal,
      <2>faults, <2>u, <2>s, <2>r DEF TInv, TypeOK
<1> QED
  BY <1>AcceptRun, <1>DeletePlaceholder, <1>RelayClaim, <1>RelayAdd, <1>RelayMark, <1>RelayFail,
     <1>RelayCrash, <1>DispatchLockExpires, <1>ReconcilePage, <1>ReconcileDispatch, <1>TakeJob,
     <1>JobStalls, <1>EvictJob, <1>LoseJob, <1>FindTerminal, <1>ClaimUnavailable, <1>Abort,
     <1>AdmissionDefers,      <1>CallProvider, <1>ProviderAnswers, <1>ExecutionThrows, <1>RenewThrows, <1>RenewLease,
     <1>LeaseExpires, <1>WorkerCrash, <1>ClaimRun, <1>Stage, <1>ReleaseClaim, <1>Project
  DEF Next, UserStep, TimeStep, RelayStep, ReconcilerStep, WorkerStep, FaultStep

LEMMA InitType == Init => TInv
  BY RunsAssumption, MoneyAssumption, BoundAssumption, IdleSlot
  DEF Init, TInv, TypeOK, SlotWF, RunWF, RunRows, DispatchRows, Jobs, Ticks, NewRun, IdleWorker,
      IdleRelay, NoRun, RunStatuses

LEMMA TypeStutter == TInv /\ UNCHANGED vars => TInv'
  BY DEF TInv, TypeOK, SlotWF, RunWF, vars

LEMMA TypeInvariant == Spec => []TInv
  BY InitType, TypeStep, TypeStutter, PTL DEF Spec

\* Every reachable state is well typed, whatever the numbers of runs, workers,
\* relays and faults.
THEOREM TypeCorrect == Spec => []TypeOK
<1>1. TInv => TypeOK
  BY DEF TInv
<1> QED BY <1>1, TypeInvariant, PTL

-----------------------------------------------------------------------------
(* What a step may do to the rows and to the slots.                        *)

RowStep ==
    \/ \E r \in Runs : AcceptRun(r) \/ DeletePlaceholder(r) \/ LeaseExpires(r)
    \/ \E w \in Workers :
           ClaimRun(w) \/ Stage(w) \/ Project(w) \/ ReleaseClaim(w) \/ RenewLease(w)

\* Every other step leaves the run rows, the placeholders and the money alone.
LEMMA OtherSteps ==
    ASSUME Next, ~RowStep
    PROVE  UNCHANGED <<run, message, account, roomTotal>>
<1>1. ASSUME NEW d \in Relays, RelayStep(d)
      PROVE  UNCHANGED <<run, message, account, roomTotal>>
  BY <1>1 DEF RelayStep, RelayClaim, RelayAdd, RelayMark, moneyVars
<1>2. ASSUME ReconcilerStep PROVE UNCHANGED <<run, message, account, roomTotal>>
  BY <1>2 DEF ReconcilerStep, ReconcilePage, ReconcileDispatch, moneyVars
<1>3. ASSUME NEW w \in Workers, WorkerStep(w) \/ AdmissionDefers(w)
      PROVE  UNCHANGED <<run, message, account, roomTotal>>
  BY <1>3 DEF RowStep, WorkerStep, FindTerminal, ClaimUnavailable, Abort, AdmissionDefers, CallProvider,
              ProviderAnswers, moneyVars
<1>4. ASSUME NEW r \in Runs, UserStep(r) \/ TimeStep(r) \/ EvictJob(r)
      PROVE  UNCHANGED <<run, message, account, roomTotal>>
  BY <1>4 DEF RowStep, UserStep, TimeStep, DispatchLockExpires, JobStalls, EvictJob, moneyVars
<1>5. ASSUME FaultStep PROVE UNCHANGED <<run, message, account, roomTotal>>
  BY <1>5 DEF FaultStep, RelayCrash, RelayFail, ExecutionThrows, RenewThrows, WorkerCrash,
              LoseJob, moneyVars
<1>6. ASSUME NEW w \in Workers, NEW r \in Runs, TakeJob(w, r)
      PROVE  UNCHANGED <<run, message, account, roomTotal>>
  BY <1>6 DEF TakeJob, moneyVars
<1> QED BY <1>1, <1>2, <1>3, <1>4, <1>5, <1>6 DEF Next, RowStep

\* No slot gains a claim and no run gains a generation.
KeepsTokens ==
    /\ \A r \in Runs : run'[r].generation = run[r].generation
    /\ \A w \in Workers : worker'[w].pc \in Holding =>
           /\ worker[w].pc \in Holding
           /\ worker'[w].run = worker[w].run
           /\ worker'[w].gen = worker[w].gen

\* Only ClaimRun hands out tokens.
LEMMA TokenSteps ==
    ASSUME TInv, Next, \A w \in Workers : ~ClaimRun(w)
    PROVE  KeepsTokens
<1> DEFINE SameSlots == worker' = worker
           IdleNow(w) == worker' = [worker EXCEPT ![w] = IdleWorker]
           SameRows == \A r \in Runs : run'[r].generation = run[r].generation
           Moves(w) == /\ worker[w].pc \in Holding
                       /\ \A v \in Workers : /\ worker'[v].run = worker[v].run
                                             /\ worker'[v].gen = worker[v].gen
                                             /\ v # w => worker'[v] = worker[v]
<1>0. \A w \in Workers : worker[w] \in Slots
  BY DEF TInv, TypeOK
<1>0a. \A r \in Runs : run[r] \in RunRows
  BY DEF TInv, TypeOK
<1>0b. IdleWorker.pc \notin Holding
  BY DEF IdleWorker, Holding
<1>1. ASSUME SameRows, SameSlots PROVE KeepsTokens
  BY <1>1 DEF KeepsTokens
<1>2. ASSUME SameRows, NEW w \in Workers, IdleNow(w) PROVE KeepsTokens
  BY <1>0b, <1>2 DEF KeepsTokens, TInv, TypeOK
<1>3. ASSUME SameRows, NEW w \in Workers, Moves(w) PROVE KeepsTokens
  BY <1>3 DEF KeepsTokens
<1>4. ASSUME run' = run PROVE SameRows
  BY <1>4
<1> HIDE DEF SameRows
<1>AcceptRun. ASSUME NEW r \in Runs, AcceptRun(r) \/ DeletePlaceholder(r) \/ LeaseExpires(r)
      PROVE  KeepsTokens
  <2>1. SameSlots
    BY <1>AcceptRun DEF AcceptRun, DeletePlaceholder, LeaseExpires
  <2>2. SameRows
    <3>1. CASE AcceptRun(r)
      BY <1>0a, <3>1 DEF SameRows, AcceptRun, TInv, TypeOK, RunRows
    <3>2. CASE DeletePlaceholder(r)
      <4>1. run' = run \/ run' = [run EXCEPT ![r] = ClosedRun(@, "cancelled")]
        BY <3>2 DEF DeletePlaceholder
      <4>2. ClosedRun(run[r], "cancelled").generation = run[r].generation
        BY <1>0a, ClosedRow DEF Closed
      <4> QED BY <4>1, <4>2 DEF SameRows, TInv, TypeOK
    <3>3. CASE LeaseExpires(r)
      BY <1>0a, <3>3 DEF SameRows, LeaseExpires, TInv, TypeOK, RunRows
    <3> QED BY <1>AcceptRun, <3>1, <3>2, <3>3
  <2> QED BY <1>1, <2>1, <2>2
<1>Queue. ASSUME \/ \E d \in Relays : RelayStep(d) \/ RelayCrash(d)
                                      \/ \E r \in Runs : RelayFail(d, r)
                 \/ ReconcilerStep
                 \/ \E r \in Runs : \/ DispatchLockExpires(r) \/ JobStalls(r) \/ EvictJob(r)
                                    \/ LoseJob(r)
      PROVE  KeepsTokens
  <2>1. SameSlots /\ run' = run
    BY <1>Queue DEF RelayStep, RelayClaim, RelayAdd, RelayMark, RelayFail, RelayCrash,
           ReconcilerStep, ReconcilePage, ReconcileDispatch, DispatchLockExpires, JobStalls,
           EvictJob, LoseJob
  <2> QED BY <1>1, <1>4, <2>1
<1>TakeJob. ASSUME NEW w \in Workers, NEW r \in Runs, TakeJob(w, r) PROVE KeepsTokens
  <2>1. worker' = [worker EXCEPT ![w] = [IdleWorker EXCEPT !.pc = "taken", !.run = r]]
    BY <1>TakeJob DEF TakeJob
  <2>2. [IdleWorker EXCEPT !.pc = "taken", !.run = r].pc \notin Holding
    BY DEF IdleWorker, Holding
  <2>3. run' = run
    BY <1>TakeJob DEF TakeJob
  <2> QED BY <2>1, <2>2, <2>3 DEF KeepsTokens, TInv, TypeOK
<1>Ends. ASSUME NEW w \in Workers,
                \/ FindTerminal(w) \/ ClaimUnavailable(w)
                \/ Abort(w) \/ AdmissionDefers(w) \/ WorkerCrash(w)
      PROVE  KeepsTokens
  <2>1. IdleNow(w) /\ run' = run
    BY <1>Ends DEF FindTerminal, ClaimUnavailable, Abort, AdmissionDefers, WorkerCrash, Completes, FailsAttempt,
                   EndAttempt
  <2> QED BY <1>2, <1>4, <2>1
<1>CallProvider. ASSUME NEW w \in Workers,
                        \/ CallProvider(w) \/ ProviderAnswers(w)
                        \/ ExecutionThrows(w) \/ RenewThrows(w)
      PROVE  KeepsTokens
  <2>1. run' = run /\ worker[w].pc \in Holding
    BY <1>CallProvider DEF CallProvider, ProviderAnswers, ExecutionThrows, RenewThrows, Live,
                           Holding
  <2>2. Moves(w)
    BY <1>0, <2>1, <1>CallProvider
    DEF CallProvider, ProviderAnswers, ExecutionThrows, RenewThrows, TInv, TypeOK, Slots
  <2> QED BY <1>3, <1>4, <2>1, <2>2
<1>RenewLease. ASSUME NEW w \in Workers, RenewLease(w) PROVE KeepsTokens
  <2>1. worker[w].pc \in Holding
    BY <1>RenewLease DEF RenewLease
  <2>2. Moves(w)
    BY <1>0, <2>1, <1>RenewLease DEF RenewLease, TInv, TypeOK, Slots
  <2>3. SameRows
    BY <1>0a, <1>RenewLease DEF SameRows, RenewLease, TInv, TypeOK, RunRows
  <2> QED BY <1>3, <2>2, <2>3
<1>Stage. ASSUME NEW w \in Workers, Stage(w) PROVE KeepsTokens
  <2>1. worker[w].pc \in Holding
    BY <1>Stage DEF Stage, Live, Holding
  <2>2. IdleNow(w) \/ Moves(w)
    BY <1>0, <2>1, <1>Stage DEF Stage, Completes, EndAttempt, TInv, TypeOK, Slots
  <2>3. SameRows
    <3>1. worker[w].run \in Runs
      BY <2>1 DEF TInv, SlotWF, Holding
    <3>2. run' = run \/ run' = [run EXCEPT ![worker[w].run] = StagedRun(@, w)]
      BY <1>Stage DEF Stage
    <3>3. StagedRun(run[worker[w].run], w).generation = run[worker[w].run].generation
      BY <1>0a, <3>1, StagedRow
    <3> QED BY <3>1, <3>2, <3>3 DEF SameRows, TInv, TypeOK
  <2> QED BY <1>2, <1>3, <2>2, <2>3
<1>Project. ASSUME NEW w \in Workers, Project(w) PROVE KeepsTokens
  <2>1. worker[w].pc \in Holding
    BY <1>Project DEF Project, Live, Holding
  <2>2. IdleNow(w) \/ Moves(w)
    BY <1>0, <2>1, <1>Project DEF Project, Completes, EndAttempt, TInv, TypeOK, Slots
  <2>3. SameRows
    <3> DEFINE r == worker[w].run
    <3>1. r \in Runs
      BY <2>1 DEF TInv, SlotWF, Holding
    <3>2. CASE run[r].status = "finalizing" /\ ApplyTerminal(r)
      BY <3>1, <3>2, ApplyRow DEF SameRows, TInv, TypeOK
    <3>3. CASE ObsoleteTerminal(r)
      <4>1. ClosedRun(run[r], "cancelled").generation = run[r].generation
        BY <1>0a, <3>1, ClosedRow DEF Closed
      <4> QED BY <3>1, <3>3, <4>1 DEF SameRows, ObsoleteTerminal, TInv, TypeOK
    <3>4. CASE run' = run
      BY <3>4 DEF SameRows
    <3> QED BY <1>Project, <3>2, <3>3, <3>4 DEF Project
  <2> QED BY <1>2, <1>3, <2>2, <2>3
<1>ReleaseClaim. ASSUME NEW w \in Workers, ReleaseClaim(w) PROVE KeepsTokens
  <2>1. IdleNow(w)
    BY <1>ReleaseClaim DEF ReleaseClaim, FailsAttempt, EndAttempt
  <2>2. SameRows
    BY <1>0a, <1>ReleaseClaim DEF SameRows, ReleaseClaim, TInv, TypeOK, RunRows
  <2> QED BY <1>2, <2>1, <2>2
<1> QED
  BY <1>AcceptRun, <1>Queue, <1>TakeJob, <1>Ends, <1>CallProvider, <1>RenewLease, <1>Stage,
     <1>Project, <1>ReleaseClaim
  DEF Next, UserStep, TimeStep, WorkerStep, FaultStep

-----------------------------------------------------------------------------
(* Fencing: a run has at most one valid token.                             *)

\* Tokens are never ahead of their run and never issued twice.
TokensUnique ==
    /\ \A w \in Workers : worker[w].pc \in Holding =>
           worker[w].gen <= run[worker[w].run].generation
    /\ \A v, w \in Workers :
           /\ v # w
           /\ worker[v].pc \in Holding /\ worker[w].pc \in Holding
           /\ worker[v].run = worker[w].run
           => worker[v].gen # worker[w].gen

LEMMA ClaimIssuesFreshToken ==
    ASSUME TInv, TokensUnique, NEW w \in Workers, ClaimRun(w)
    PROVE  TokensUnique'
<1> DEFINE r == worker[w].run
<1>1. r \in Runs /\ run[r] \in RunRows /\ worker[w] \in Slots
  BY DEF TInv, TypeOK, SlotWF, ClaimRun
<1>2. run' = [run EXCEPT ![r] = ClaimedRun(run[r], w)]
  BY DEF ClaimRun
<1>3. /\ run'[r].generation = run[r].generation + 1
      /\ \A q \in Runs : q # r => run'[q] = run[q]
  BY <1>1, <1>2, ClaimedRow DEF TInv, TypeOK
<1>4. \A v \in Workers : v # w => worker'[v] = worker[v]
  BY DEF ClaimRun, FailsAttempt, EndAttempt, TInv, TypeOK
<1>5. \/ worker'[w].pc \notin Holding
      \/ worker'[w].run = r /\ worker'[w].gen = run[r].generation + 1
  <2>1. CASE worker' = [worker EXCEPT ![w] = IdleWorker]
    BY <2>1 DEF TInv, TypeOK, IdleWorker, Holding
  <2>2. CASE worker' = [worker EXCEPT ![w] =
                 [@ EXCEPT !.pc = IF run[r].status = "finalizing" THEN "staged" ELSE "claimed",
                           !.gen = run[r].generation + 1,
                           !.attempt = run'[r].attempt]]
    BY <1>1, <2>2 DEF TInv, TypeOK, Slots
  <2> QED BY <2>1, <2>2 DEF ClaimRun, FailsAttempt, EndAttempt
<1>6. \A q \in Runs : /\ run[q].generation \in Nat /\ run'[q].generation \in Nat
                      /\ run[q].generation <= run'[q].generation
  <2>1. \A q \in Runs : run[q].generation \in Nat
    BY DEF TInv, TypeOK, RunRows
  <2> QED BY <1>3, <2>1
<1>7. \A v \in Workers : /\ worker[v].gen \in Nat
                         /\ worker[v].pc \in Holding => worker[v].run \in Runs
  BY DEF TInv, TypeOK, Slots, SlotWF, Holding
<1>8. ASSUME NEW v \in Workers, v # w, worker[v].pc \in Holding
      PROVE  worker[v].gen <= run'[worker[v].run].generation
  <2>1. worker[v].gen <= run[worker[v].run].generation
    BY <1>8 DEF TokensUnique
  <2>2. worker[v].gen \in Nat /\ worker[v].run \in Runs
    BY <1>7, <1>8
  <2>3. /\ run[worker[v].run].generation \in Nat /\ run'[worker[v].run].generation \in Nat
        /\ run[worker[v].run].generation <= run'[worker[v].run].generation
    BY <1>6, <2>2
  <2> QED BY <2>1, <2>2, <2>3
<1>9. \A v \in Workers : worker'[v].pc \in Holding =>
          worker'[v].gen <= run'[worker'[v].run].generation
  BY <1>1, <1>3, <1>4, <1>5, <1>6, <1>8
<1>10. ASSUME NEW v \in Workers, v # w, worker[v].pc \in Holding, worker[v].run = r
       PROVE  worker[v].gen # run[r].generation + 1
  <2>1. worker[v].gen <= run[r].generation
    BY <1>10 DEF TokensUnique
  <2> QED BY <1>1, <1>6, <1>7, <2>1
<1>11. ASSUME NEW u \in Workers, NEW v \in Workers, u # v,
              worker'[u].pc \in Holding, worker'[v].pc \in Holding,
              worker'[u].run = worker'[v].run
       PROVE  worker'[u].gen # worker'[v].gen
  <2>1. CASE u = w
    BY <1>4, <1>5, <1>10, <1>11, <2>1
  <2>2. CASE v = w
    BY <1>4, <1>5, <1>10, <1>11, <2>2
  <2>3. CASE u # w /\ v # w
    BY <1>4, <1>11, <2>3 DEF TokensUnique
  <2> QED BY <2>1, <2>2, <2>3
<1> QED BY <1>9, <1>11 DEF TokensUnique

LEMMA TokensInvariant == Spec => []TokensUnique
<1>1. Init => TokensUnique
  BY DEF Init, TokensUnique, IdleWorker, Holding
<1>2. TInv /\ TokensUnique /\ [Next]_vars => TokensUnique'
  <2> SUFFICES ASSUME TInv, TokensUnique, [Next]_vars PROVE TokensUnique'
    OBVIOUS
  <2>1. CASE UNCHANGED vars
    BY <2>1 DEF vars, TokensUnique
  <2>2. CASE \E w \in Workers : ClaimRun(w)
    BY <2>2, ClaimIssuesFreshToken
  <2>3. CASE Next /\ \A w \in Workers : ~ClaimRun(w)
    <3>1. KeepsTokens
      BY <2>3, TokenSteps
    <3>2. \A w \in Workers : worker[w].pc \in Holding => worker[w].run \in Runs
      BY DEF TInv, SlotWF, Holding
    <3> QED BY <3>1, <3>2 DEF KeepsTokens, TokensUnique
  <2> QED BY <2>1, <2>2, <2>3
<1> QED BY <1>1, <1>2, TypeInvariant, PTL DEF Spec

\* Two slots never hold the valid token of one run, even when they share their
\* process's worker id: the generation of claimAssistantRunById alone fences.
THEOREM AtMostOneTokenHolder == Spec => []OneTokenHolder
<1>1. TokensUnique => OneTokenHolder
  BY DEF TokensUnique, OneTokenHolder, HasToken
<1> QED BY <1>1, TokensInvariant, PTL

-----------------------------------------------------------------------------
(* Rows and placeholders.                                                  *)

\* A run row rec and the status m of its placeholder fit together.
RowOK(rec, m) ==
    /\ m = "streaming" <=> rec.status \in Active
    /\ rec.status = "none" => m = "absent"
    /\ rec.status = "cancelled" => m = "deleted"
    /\ rec.status \in Closed => rec.lease = "none"
    /\ rec.status \in Outcomes =>
           /\ m \in {rec.payload.outcome, "deleted"}
           /\ rec.status = rec.payload.outcome
           /\ rec.charged = rec.payload.cost
    /\ rec.status \notin Outcomes => rec.charged = 0 /\ rec.credit = 0

RowInv == \A r \in Runs : RowOK(run[r], message[r])

\* What a step may do to the row rec and the placeholder m.
RowMoves(rec, m, rec2, m2) ==
    /\ rec.status \in Closed => rec2 = rec
    /\ m \notin {"absent", "streaming"} => m2 # "streaming"
    /\ rec2.payload # rec.payload =>
           rec.payload = NoTerminal /\ rec2.payload.gen = rec.generation

GoodStep ==
    \A r \in Runs : /\ RowOK(run'[r], message'[r])
                    /\ RowMoves(run[r], message[r], run'[r], message'[r])

LEMMA OneRowMoves ==
    ASSUME RowInv, NEW r \in Runs, RowOK(run'[r], message'[r]),
           RowMoves(run[r], message[r], run'[r], message'[r]),
           \A q \in Runs : q # r => run'[q] = run[q] /\ message'[q] = message[q]
    PROVE  GoodStep
<1>1. ASSUME NEW q \in Runs, q # r
      PROVE  RowOK(run'[q], message'[q]) /\ RowMoves(run[q], message[q], run'[q], message'[q])
  <2>1. run'[q] = run[q] /\ message'[q] = message[q]
    BY <1>1
  <2> QED BY <2>1 DEF RowInv, RowMoves
<1> QED BY <1>1 DEF GoodStep

LEMMA NoRowMoves ==
    ASSUME RowInv, UNCHANGED <<run, message>>
    PROVE  GoodStep
  BY DEF RowInv, GoodStep, RowMoves

LEMMA StatusesAreDisjoint ==
    /\ Active \intersect Closed = {}
    /\ Outcomes \subseteq Closed
    /\ "none" \notin Active \union Closed
    /\ "cancelled" \in Closed \ Outcomes
    /\ "queued" \in Active /\ "running" \in Active /\ "finalizing" \in Active
  BY DEF Active, Closed, Outcomes

LEMMA RowSteps ==
    ASSUME TInv, RowInv, Next
    PROVE  GoodStep
<1> USE StatusesAreDisjoint
<1>0. \A r \in Runs : run[r] \in RunRows /\ RowOK(run[r], message[r])
  BY DEF TInv, TypeOK, RowInv
<1>1. ASSUME ~RowStep PROVE GoodStep
  BY <1>1, OtherSteps, NoRowMoves
<1>2. ASSUME NEW r \in Runs, AcceptRun(r) PROVE GoodStep
  <2>1. /\ run' = [run EXCEPT ![r] = [run[r] EXCEPT !.status = "queued"]]
        /\ message' = [message EXCEPT ![r] = "streaming"]
        /\ run[r].status = "none"
    BY <1>2 DEF AcceptRun
  <2>2. /\ run'[r] = [run[r] EXCEPT !.status = "queued"] /\ message'[r] = "streaming"
        /\ \A q \in Runs : q # r => run'[q] = run[q] /\ message'[q] = message[q]
    BY <2>1 DEF TInv, TypeOK
  <2>3. /\ run'[r].status = "queued" /\ run'[r].payload = run[r].payload
        /\ run'[r].charged = run[r].charged /\ run'[r].credit = run[r].credit
    BY <1>0, <2>2 DEF RunRows
  <2>4. RowOK(run'[r], message'[r]) /\ RowMoves(run[r], message[r], run'[r], message'[r])
    BY <1>0, <2>1, <2>2, <2>3 DEF RowOK, RowMoves
  <2> QED BY <2>2, <2>4, OneRowMoves
<1>3. ASSUME NEW r \in Runs, DeletePlaceholder(r) PROVE GoodStep
  <2>1. /\ message' = [message EXCEPT ![r] = "deleted"]
        /\ message[r] \in {"streaming", "complete", "error"}
    BY <1>3 DEF DeletePlaceholder
  <2>2. message'[r] = "deleted" /\ \A q \in Runs : q # r => message'[q] = message[q]
    BY <2>1 DEF TInv, TypeOK
  <2>3. CASE run[r].status \in Active
    <3>1. run' = [run EXCEPT ![r] = ClosedRun(run[r], "cancelled")]
      BY <1>3, <2>3 DEF DeletePlaceholder
    <3>2. run'[r] = ClosedRun(run[r], "cancelled") /\ \A q \in Runs : q # r => run'[q] = run[q]
      BY <3>1 DEF TInv, TypeOK
    <3>3. /\ run'[r].status = "cancelled" /\ run'[r].payload = run[r].payload
          /\ run'[r].charged = run[r].charged /\ run'[r].credit = run[r].credit
          /\ run'[r].lease = "none"
      BY <1>0, <3>2, ClosedRow
    <3>4. RowOK(run'[r], message'[r]) /\ RowMoves(run[r], message[r], run'[r], message'[r])
      BY <1>0, <2>2, <2>3, <3>3 DEF RowOK, RowMoves
    <3> QED BY <2>2, <3>2, <3>4, OneRowMoves
  <2>4. CASE run[r].status \notin Active
    <3>1. run' = run
      BY <1>3, <2>4 DEF DeletePlaceholder
    <3>2. RowOK(run'[r], message'[r]) /\ RowMoves(run[r], message[r], run'[r], message'[r])
      BY <1>0, <2>1, <2>2, <2>4, <3>1 DEF RowOK, RowMoves
    <3> QED BY <2>2, <3>1, <3>2, OneRowMoves
  <2> QED BY <2>3, <2>4
<1>4. ASSUME NEW r \in Runs, LeaseExpires(r) PROVE GoodStep
  <2>1. /\ run' = [run EXCEPT ![r] = [run[r] EXCEPT !.lease = "expired"]]
        /\ message' = message /\ run[r].lease = "live"
    BY <1>4 DEF LeaseExpires
  <2>2. /\ run'[r] = [run[r] EXCEPT !.lease = "expired"]
        /\ \A q \in Runs : q # r => run'[q] = run[q]
    BY <2>1 DEF TInv, TypeOK
  <2>3. /\ run'[r].status = run[r].status /\ run'[r].payload = run[r].payload
        /\ run'[r].charged = run[r].charged /\ run'[r].credit = run[r].credit
    BY <1>0, <2>2 DEF RunRows
  <2>4. RowOK(run'[r], message'[r]) /\ RowMoves(run[r], message[r], run'[r], message'[r])
    BY <1>0, <2>1, <2>3 DEF RowOK, RowMoves
  <2> QED BY <2>1, <2>2, <2>4, OneRowMoves
<1>5. ASSUME NEW w \in Workers, ClaimRun(w) PROVE GoodStep
  <2> DEFINE r == worker[w].run
  <2>1. r \in Runs
    BY <1>5 DEF TInv, SlotWF, ClaimRun
  <2>2. /\ run' = [run EXCEPT ![r] = ClaimedRun(run[r], w)] /\ message' = message
        /\ run[r].status \in Active
    BY <1>5 DEF ClaimRun, Claimable, Active
  <2>3. run'[r] = ClaimedRun(run[r], w) /\ \A q \in Runs : q # r => run'[q] = run[q]
    BY <2>1, <2>2 DEF TInv, TypeOK
  <2>4. /\ run'[r].status \in {"running", "finalizing"} /\ run'[r].payload = run[r].payload
        /\ run'[r].charged = run[r].charged /\ run'[r].credit = run[r].credit
    BY <1>0, <2>1, <2>3 DEF RunRows, ClaimedRun
  <2>5. RowOK(run'[r], message'[r]) /\ RowMoves(run[r], message[r], run'[r], message'[r])
    BY <1>0, <2>1, <2>2, <2>4 DEF RowOK, RowMoves
  <2> QED BY <2>1, <2>2, <2>3, <2>5, OneRowMoves
<1>6. ASSUME NEW w \in Workers, Stage(w) PROVE GoodStep
  <2> DEFINE r == worker[w].run
  <2>1. r \in Runs
    BY <1>6 DEF TInv, SlotWF, Stage, Live
  <2>2. CASE run' = run
    BY <1>6, <2>2, NoRowMoves DEF Stage
  <2>3. CASE run[r].status = "running" /\ HasToken(w)
    <3>1. run' = [run EXCEPT ![r] = StagedRun(run[r], w)] /\ message' = message
      BY <1>6, <2>3 DEF Stage
    <3>2. run'[r] = StagedRun(run[r], w) /\ \A q \in Runs : q # r => run'[q] = run[q]
      BY <2>1, <3>1 DEF TInv, TypeOK
    <3>3. /\ run'[r].status = "finalizing"
          /\ run'[r].payload = [outcome |-> worker[w].answer.outcome,
                                cost |-> worker[w].answer.cost, gen |-> worker[w].gen]
          /\ run'[r].charged = run[r].charged /\ run'[r].credit = run[r].credit
      <4>1. run[r] \in RunRows
        BY <1>0, <2>1
      <4> QED BY <3>2, <4>1, StagedRow
    <3>3a. run'[r].payload.gen = worker[w].gen
      BY <3>3
    <3>4. run[r].payload = NoTerminal /\ run[r].generation = worker[w].gen
      BY <2>1, <2>3 DEF TInv, RunWF, HasToken
    <3>5. RowOK(run'[r], message'[r]) /\ RowMoves(run[r], message[r], run'[r], message'[r])
      BY <1>0, <2>1, <2>3, <3>1, <3>3, <3>3a, <3>4 DEF RowOK, RowMoves
    <3> QED BY <2>1, <3>1, <3>2, <3>5, OneRowMoves
  <2> QED BY <1>6, <2>2, <2>3 DEF Stage
<1>7. ASSUME NEW w \in Workers, Project(w) PROVE GoodStep
  <2> DEFINE r == worker[w].run
  <2>1. r \in Runs
    BY <1>7 DEF TInv, SlotWF, Project, Live
  <2>2. CASE UNCHANGED <<run, message>>
    BY <2>2, NoRowMoves
  <2>3. CASE /\ run[r].status = "finalizing" /\ message[r] = "streaming"
             /\ ApplyTerminal(r)
    <3>1. PICK row \in RunRows :
              /\ run' = [run EXCEPT ![r] = row]
              /\ row.status = run[r].payload.outcome /\ row.lease = "none"
              /\ row.payload = run[r].payload /\ row.charged = run[r].payload.cost
      BY <2>1, <2>3, ApplyRow
    <3>2. run[r].payload.outcome \in Outcomes
      BY <2>1, <2>3, ApplyRow
    <3>3. message' = [message EXCEPT ![r] = run[r].payload.outcome]
      BY <2>3 DEF ApplyTerminal
    <3>4. /\ run'[r] = row /\ message'[r] = run[r].payload.outcome
          /\ \A q \in Runs : q # r => run'[q] = run[q] /\ message'[q] = message[q]
      BY <2>1, <3>1, <3>3 DEF TInv, TypeOK
    <3>5. message'[r] # "streaming"
      BY <3>2, <3>4 DEF Outcomes
    <3>6. RowOK(run'[r], message'[r]) /\ RowMoves(run[r], message[r], run'[r], message'[r])
      BY <2>3, <3>1, <3>2, <3>4, <3>5 DEF RowOK, RowMoves
    <3> QED BY <2>1, <3>4, <3>6, OneRowMoves
  <2>4. CASE run[r].status = "finalizing" /\ message[r] # "streaming"
    BY <1>0, <2>1, <2>4 DEF RowOK
  <2> QED BY <1>7, <2>2, <2>3, <2>4 DEF Project
<1>8. ASSUME NEW w \in Workers, ReleaseClaim(w) \/ RenewLease(w) PROVE GoodStep
  <2> DEFINE r == worker[w].run
  <2>1. r \in Runs
    BY <1>8 DEF TInv, SlotWF, ReleaseClaim, RenewLease, Live, Holding
  <2>2. message' = message
    BY <1>8 DEF ReleaseClaim, RenewLease
  <2>3. CASE run' = run
    BY <2>2, <2>3, NoRowMoves
  <2>4. CASE run' # run
    <3>1. run[r].status \in {"running", "finalizing"} /\ run[r] \in RunRows
      BY <1>0, <1>8, <2>1, <2>4 DEF ReleaseClaim, RenewLease
    <3>2. /\ run'[r].status \in {"queued", "running", "finalizing"}
          /\ run'[r].payload = run[r].payload
          /\ run'[r].charged = run[r].charged /\ run'[r].credit = run[r].credit
          /\ \A q \in Runs : q # r => run'[q] = run[q]
      <4>1. CASE run' = [run EXCEPT ![r] = [run[r] EXCEPT !.lease = "live"]]
        BY <2>1, <3>1, <4>1 DEF TInv, TypeOK, RunRows
      <4>2. CASE run' = [run EXCEPT ![r] = [run[r] EXCEPT
                            !.status = IF run[r].status = "running" THEN "queued"
                                       ELSE run[r].status,
                            !.owner = NoProcess, !.lease = "none"]]
        BY <2>1, <3>1, <4>2 DEF TInv, TypeOK, RunRows
      <4>3. RenewLease(w) => run' = [run EXCEPT ![r] = [run[r] EXCEPT !.lease = "live"]]
        BY <2>4 DEF RenewLease
      <4>4. ReleaseClaim(w) =>
                run' = [run EXCEPT ![r] = [run[r] EXCEPT
                            !.status = IF run[r].status = "running" THEN "queued"
                                       ELSE run[r].status,
                            !.owner = NoProcess, !.lease = "none"]]
        BY <2>4 DEF ReleaseClaim
      <4> QED BY <1>8, <4>1, <4>2, <4>3, <4>4
    <3>3. RowOK(run'[r], message'[r]) /\ RowMoves(run[r], message[r], run'[r], message'[r])
      BY <1>0, <2>1, <2>2, <3>1, <3>2 DEF RowOK, RowMoves
    <3> QED BY <2>1, <2>2, <3>2, <3>3, OneRowMoves
  <2> QED BY <2>3, <2>4
<1> QED BY <1>1, <1>2, <1>3, <1>4, <1>5, <1>6, <1>7, <1>8 DEF RowStep

LEMMA RowsStep == TInv /\ RowInv /\ [Next]_vars => GoodStep
<1>1. ASSUME TInv, RowInv, UNCHANGED vars PROVE GoodStep
  BY <1>1, NoRowMoves DEF vars
<1> QED BY <1>1, RowSteps

LEMMA RowsInvariant == Spec => []RowInv
<1>1. Init => RowInv
  BY StatusesAreDisjoint DEF Init, RowInv, RowOK, NewRun
<1>2. GoodStep => RowInv'
  BY DEF GoodStep, RowInv
<1> QED BY <1>1, <1>2, RowsStep, TypeInvariant, PTL DEF Spec

\* A placeholder streams exactly as long as its run is active: deletion cancels
\* and projection closes in the transaction that changes the message.
THEOREM PlaceholderAgrees == Spec => []PlaceholderTracksRun
<1>1. RowInv => PlaceholderTracksRun
  BY DEF RowInv, RowOK, PlaceholderTracksRun
<1> QED BY <1>1, RowsInvariant, PTL

\* A closed run and its message agree on one terminal: what was staged is what is
\* shown and charged, and a cancelled run is charged nothing.
THEOREM TerminalAgrees == Spec => []TerminalAgreesWithMessage
<1>1. RowInv => TerminalAgreesWithMessage
  BY DEF RowInv, RowOK, TerminalAgreesWithMessage
<1> QED BY <1>1, RowsInvariant, PTL

\* The answer is decided once, by the generation that then holds the run.
THEOREM StagedOnce == Spec => StagedOnceByTheHolder
<1>1. GoodStep => \A r \in Runs : run'[r].payload # run[r].payload =>
           /\ run[r].payload = NoTerminal
           /\ run'[r].payload.gen = run[r].generation
  BY DEF GoodStep, RowMoves
<1> QED BY <1>1, RowsStep, RowsInvariant, TypeInvariant, PTL DEF Spec, StagedOnceByTheHolder

\* A closed run never changes again: no late worker, relay or retry reopens,
\* recharges or reshows it.
THEOREM ClosedForGood == Spec => ClosedRunsStayClosed
<1>1. GoodStep => \A r \in Runs :
          /\ run[r].status \in Closed => run'[r] = run[r]
          /\ message[r] \notin {"absent", "streaming"} => message'[r] # "streaming"
  BY DEF GoodStep, RowMoves
<1> QED BY <1>1, RowsStep, RowsInvariant, TypeInvariant, PTL DEF Spec, ClosedRunsStayClosed

-----------------------------------------------------------------------------
(* Money.                                                                  *)

\* Only an accepted projection settles a run or moves money.
SettlesNothing ==
    /\ UNCHANGED moneyVars
    /\ \A r \in Runs : run'[r].status \in Outcomes => run[r].status \in Outcomes

LEMMA OnlyProjectionSettles ==
    ASSUME TInv, RowInv, Next
    PROVE  \/ SettlesNothing
           \/ \E r \in Runs : run[r].status = "finalizing" /\ ApplyTerminal(r)
<1> USE StatusesAreDisjoint
<1>0. \A r \in Runs : run[r] \in RunRows
  BY DEF TInv, TypeOK
<1>1. ASSUME ~RowStep PROVE SettlesNothing
  BY <1>1, OtherSteps DEF SettlesNothing, moneyVars
<1>2. ASSUME NEW r \in Runs, AcceptRun(r) \/ LeaseExpires(r) PROVE SettlesNothing
  <2>1. /\ UNCHANGED moneyVars /\ \A q \in Runs : q # r => run'[q] = run[q]
    BY <1>2 DEF AcceptRun, LeaseExpires, TInv, TypeOK
  <2>2. run'[r].status \in {"queued", run[r].status}
    BY <1>0, <1>2 DEF AcceptRun, LeaseExpires, TInv, TypeOK, RunRows
  <2> QED BY <2>1, <2>2 DEF SettlesNothing, Outcomes
<1>3. ASSUME NEW r \in Runs, DeletePlaceholder(r) PROVE SettlesNothing
  <2>1. UNCHANGED moneyVars
    BY <1>3 DEF DeletePlaceholder
  <2>2. CASE run' = run
    BY <2>1, <2>2 DEF SettlesNothing
  <2>3. CASE run' = [run EXCEPT ![r] = ClosedRun(run[r], "cancelled")]
    BY <1>0, <2>1, <2>3, ClosedRow DEF SettlesNothing, TInv, TypeOK
  <2> QED BY <1>3, <2>2, <2>3 DEF DeletePlaceholder
<1>4. ASSUME NEW w \in Workers, ClaimRun(w) PROVE SettlesNothing
  <2> DEFINE r == worker[w].run
  <2>1. /\ r \in Runs /\ UNCHANGED moneyVars /\ run[r].status \in Active
        /\ run' = [run EXCEPT ![r] = ClaimedRun(run[r], w)]
    BY <1>4 DEF TInv, SlotWF, ClaimRun, Claimable, Active
  <2>2. run'[r].status \in {"running", "finalizing"} /\ \A q \in Runs : q # r => run'[q] = run[q]
    BY <1>0, <2>1 DEF TInv, TypeOK, RunRows, ClaimedRun
  <2> QED BY <2>1, <2>2 DEF SettlesNothing, Outcomes
<1>5. ASSUME NEW w \in Workers, Stage(w) PROVE SettlesNothing
  <2> DEFINE r == worker[w].run
  <2>1. r \in Runs /\ UNCHANGED moneyVars
    BY <1>5 DEF TInv, SlotWF, Stage, Live
  <2>2. CASE run' = run
    BY <2>1, <2>2 DEF SettlesNothing
  <2>3. CASE run' = [run EXCEPT ![r] = StagedRun(run[r], w)]
    <3>1. run'[r].status = "finalizing" /\ \A q \in Runs : q # r => run'[q] = run[q]
      BY <1>0, <2>1, <2>3 DEF TInv, TypeOK, RunRows, StagedRun
    <3> QED BY <2>1, <3>1 DEF SettlesNothing, Outcomes
  <2> QED BY <1>5, <2>2, <2>3 DEF Stage
<1>6. ASSUME NEW w \in Workers, Project(w)
      PROVE  \/ SettlesNothing
             \/ \E r \in Runs : run[r].status = "finalizing" /\ ApplyTerminal(r)
  <2> DEFINE r == worker[w].run
  <2>1. r \in Runs
    BY <1>6 DEF TInv, SlotWF, Project, Live
  <2>2. CASE run[r].status = "finalizing" /\ ApplyTerminal(r)
    BY <2>1, <2>2
  <2>3. CASE ObsoleteTerminal(r)
    BY <1>0, <2>1, <2>3, ClosedRow DEF ObsoleteTerminal, SettlesNothing, TInv, TypeOK
  <2>4. CASE UNCHANGED <<run, message, dispatch, moneyVars>>
    BY <2>4 DEF SettlesNothing
  <2> QED BY <1>6, <2>2, <2>3, <2>4 DEF Project
<1>7. ASSUME NEW w \in Workers, ReleaseClaim(w) \/ RenewLease(w) PROVE SettlesNothing
  <2> DEFINE r == worker[w].run
  <2>1. r \in Runs /\ UNCHANGED moneyVars
    BY <1>7 DEF TInv, SlotWF, ReleaseClaim, RenewLease, Live, Holding
  <2>2. CASE run' = run
    BY <2>1, <2>2 DEF SettlesNothing
  <2>3. CASE run' # run
    <3>1. \E row : /\ run' = [run EXCEPT ![r] = row]
                   /\ row.status \in {"queued", run[r].status}
      <4>1. CASE RenewLease(w)
        <5>1. run' = [run EXCEPT ![r] = [run[r] EXCEPT !.lease = "live"]]
          BY <2>3, <4>1 DEF RenewLease
        <5>2. [run[r] EXCEPT !.lease = "live"].status = run[r].status
          BY <1>0, <2>1 DEF RunRows
        <5> QED BY <5>1, <5>2
      <4>2. CASE ReleaseClaim(w)
        <5> DEFINE row == [run[r] EXCEPT !.status = IF run[r].status = "running" THEN "queued"
                                                    ELSE run[r].status,
                                         !.owner = NoProcess, !.lease = "none"]
        <5>1. run' = [run EXCEPT ![r] = row]
          BY <2>3, <4>2 DEF ReleaseClaim
        <5>2. row.status \in {"queued", run[r].status}
          BY <1>0, <2>1 DEF RunRows
        <5> QED BY <5>1, <5>2
      <4> QED BY <1>7, <4>1, <4>2
    <3> QED BY <2>1, <3>1 DEF SettlesNothing, TInv, TypeOK, Outcomes
  <2> QED BY <2>2, <2>3
<1> QED BY <1>1, <1>2, <1>3, <1>4, <1>5, <1>6, <1>7 DEF RowStep

LEMMA SummandsOfRuns ==
    ASSUME TInv
    PROVE  /\ \A r \in Runs : /\ Charges[r] \in Int /\ CreditsUsed[r] \in Int
                              /\ BilledCharges[r] \in Int
           /\ SumFunctionOnSet(Charges, Runs) \in Int
           /\ SumFunctionOnSet(CreditsUsed, Runs) \in Int
           /\ SumFunctionOnSet(BilledCharges, Runs) \in Int
           /\ account.available \in Int /\ account.usage \in Int /\ roomTotal \in Int
           /\ Credit \in Int
<1>1. \A r \in Runs : run[r].charged \in Nat /\ run[r].credit \in Nat
  BY DEF TInv, TypeOK, RunRows
<1>2. \A r \in Runs : /\ Charges[r] \in Int /\ CreditsUsed[r] \in Int /\ BilledCharges[r] \in Int
  BY <1>1 DEF Charges, CreditsUsed, BilledCharges
<1>3. account.available \in Int /\ account.usage \in Int /\ roomTotal \in Int /\ Credit \in Int
  BY MoneyAssumption DEF TInv, TypeOK
<1> QED BY <1>2, <1>3, RunsAssumption, SumIsInteger

\* A run that is not settled is charged nothing, so the sums stay.
LEMMA SumsStay ==
    ASSUME RowInv, GoodStep, SettlesNothing, MoneyIsAccountedFor
    PROVE  MoneyIsAccountedFor'
<1>1. \A r \in Runs : run'[r].charged = run[r].charged /\ run'[r].credit = run[r].credit
  BY StatusesAreDisjoint DEF RowInv, RowOK, GoodStep, RowMoves, SettlesNothing
<1>2. Charges' = Charges /\ CreditsUsed' = CreditsUsed /\ BilledCharges' = BilledCharges
  BY <1>1 DEF Charges, CreditsUsed, BilledCharges
<1> QED BY <1>2 DEF SettlesNothing, moneyVars, MoneyIsAccountedFor

\* A projection adds the same cost and the same credit on both sides.
LEMMA ProjectionIsAccounted ==
    ASSUME TInv, TInv', RowInv, NEW r \in Runs, run[r].status = "finalizing", ApplyTerminal(r),
           MoneyIsAccountedFor
    PROVE  MoneyIsAccountedFor'
<1> DEFINE p == run[r].payload
           applied == CreditApplied(r, p.cost)
           row == [ClosedRun(run[r], p.outcome) EXCEPT !.charged = p.cost, !.credit = applied]
           billed == IF r \in Billed THEN p.cost ELSE 0
<1>0. IsFiniteSet(Runs)
  BY RunsAssumption
<1>1. p.cost \in Nat /\ applied \in Nat
  <2>1. p.cost \in Nat
    BY ApplyRow
  <2> QED BY <2>1, CreditIsCapped DEF TInv
<1>2. run[r].charged = 0 /\ run[r].credit = 0
  BY DEF RowInv, RowOK, Outcomes
<1>3. /\ run' = [run EXCEPT ![r] = row]
      /\ roomTotal' = roomTotal + p.cost
      /\ account' = [available |-> account.available - applied, usage |-> account.usage + billed]
  BY DEF ApplyTerminal
<1>4. row.charged = p.cost /\ row.credit = applied
  <2>1. run[r] \in RunRows
    BY DEF TInv, TypeOK
  <2> QED BY <2>1 DEF RunRows, ClosedRun
<1>5. run'[r] = row /\ \A q \in Runs : q # r => run'[q] = run[q]
  BY <1>3 DEF TInv, TypeOK
<1> HIDE DEF row, applied, p
<1>6. /\ Charges[r] = 0 /\ Charges'[r] = p.cost
      /\ CreditsUsed[r] = 0 /\ CreditsUsed'[r] = applied
      /\ BilledCharges[r] = 0 /\ BilledCharges'[r] = billed
  BY <1>2, <1>4, <1>5 DEF Charges, CreditsUsed, BilledCharges
<1>7. \A q \in Runs \ {r} : /\ Charges[q] = Charges'[q] /\ CreditsUsed[q] = CreditsUsed'[q]
                            /\ BilledCharges[q] = BilledCharges'[q]
  BY <1>5 DEF Charges, CreditsUsed, BilledCharges
<1>8. \A q \in Runs : /\ Charges[q] \in Int /\ CreditsUsed[q] \in Int /\ BilledCharges[q] \in Int
                      /\ Charges'[q] \in Int /\ CreditsUsed'[q] \in Int /\ BilledCharges'[q] \in Int
  <2>1. \A q \in Runs : run'[q].charged \in Nat /\ run'[q].credit \in Nat
    BY DEF TInv, TypeOK, RunRows
  <2>2. \A q \in Runs : /\ Charges'[q] \in Int /\ CreditsUsed'[q] \in Int /\ BilledCharges'[q] \in Int
    BY <2>1 DEF Charges, CreditsUsed, BilledCharges
  <2> QED BY <2>2, SummandsOfRuns
<1>9. SumFunctionOnSet(Charges', Runs) = SumFunctionOnSet(Charges, Runs) + Charges'[r] - Charges[r]
  <2>1. \A q \in Runs : Charges[q] \in Int /\ Charges'[q] \in Int
    BY <1>8
  <2>2. \A q \in Runs \ {r} : Charges[q] = Charges'[q]
    BY <1>7
  <2> QED BY <1>0, <2>1, <2>2, SumChanges
<1>10. SumFunctionOnSet(CreditsUsed', Runs)
         = SumFunctionOnSet(CreditsUsed, Runs) + CreditsUsed'[r] - CreditsUsed[r]
  <2>1. \A q \in Runs : CreditsUsed[q] \in Int /\ CreditsUsed'[q] \in Int
    BY <1>8
  <2>2. \A q \in Runs \ {r} : CreditsUsed[q] = CreditsUsed'[q]
    BY <1>7
  <2> QED BY <1>0, <2>1, <2>2, SumChanges
<1>11. SumFunctionOnSet(BilledCharges', Runs)
         = SumFunctionOnSet(BilledCharges, Runs) + BilledCharges'[r] - BilledCharges[r]
  <2>1. \A q \in Runs : BilledCharges[q] \in Int /\ BilledCharges'[q] \in Int
    BY <1>8
  <2>2. \A q \in Runs \ {r} : BilledCharges[q] = BilledCharges'[q]
    BY <1>7
  <2> QED BY <1>0, <2>1, <2>2, SumChanges
<1>12. account'.available = account.available - applied /\ account'.usage = account.usage + billed
  BY <1>3
<1> QED BY <1>1, <1>3, <1>6, <1>9, <1>10, <1>11, <1>12, SummandsOfRuns DEF MoneyIsAccountedFor

\* The room's total and the account are what the runs record, however projections
\* are repeated, taken over or given up.
THEOREM MoneyAccounted == Spec => []MoneyIsAccountedFor
<1>1. Init => MoneyIsAccountedFor
  <2> SUFFICES ASSUME Init PROVE MoneyIsAccountedFor
    OBVIOUS
  <2>1. \A r \in Runs : run[r].charged = 0 /\ run[r].credit = 0
    BY DEF Init, NewRun
  <2>2. /\ Charges = [r \in Runs |-> 0] /\ CreditsUsed = [r \in Runs |-> 0]
        /\ BilledCharges = [r \in Runs |-> 0]
    BY <2>1 DEF Charges, CreditsUsed, BilledCharges
  <2>3. SumFunctionOnSet([r \in Runs |-> 0], Runs) = 0
    BY RunsAssumption, SumOfZeros
  <2> QED BY <2>2, <2>3, MoneyAssumption DEF Init, MoneyIsAccountedFor
<1>2. TInv /\ TInv' /\ RowInv /\ MoneyIsAccountedFor /\ [Next]_vars => MoneyIsAccountedFor'
  <2> SUFFICES ASSUME TInv, TInv', RowInv, MoneyIsAccountedFor, [Next]_vars
               PROVE  MoneyIsAccountedFor'
    OBVIOUS
  <2>1. CASE UNCHANGED vars
    BY <2>1 DEF vars, MoneyIsAccountedFor, Charges, CreditsUsed, BilledCharges
  <2>2. CASE Next
    BY <2>2, OnlyProjectionSettles, ProjectionIsAccounted, RowSteps, SumsStay
  <2> QED BY <2>1, <2>2
<1> QED BY <1>1, <1>2, TypeInvariant, RowsInvariant, PTL DEF Spec

-----------------------------------------------------------------------------
(* Provider calls.                                                         *)

\* The statuses in which nothing was staged yet.
Undecided == {"none", "queued", "running"}

\* Until a run is decided every claim is an attempt, so attempts and generations
\* agree; a slot that may still call the provider, and every call made, carries a
\* generation that is an attempt within the budget and not past the decision.
CallsInv ==
    /\ \A r \in Runs : run[r].status \in Undecided => run[r].attempt = run[r].generation
    /\ \A r \in Runs : \A g \in calls[r] :
           /\ g \in 1..MaxAttempts
           /\ g <= run[r].generation
           /\ run[r].payload # NoTerminal => g <= run[r].payload.gen
    /\ \A w \in Workers : worker[w].pc = "claimed" =>
           /\ worker[w].attempt = worker[w].gen
           /\ worker[w].gen >= 1
           /\ run[worker[w].run].payload # NoTerminal =>
                  worker[w].gen <= run[worker[w].run].payload.gen

RowsKept ==
    \A r \in Runs : /\ run'[r].payload = run[r].payload
                    /\ run'[r].generation = run[r].generation
                    /\ run'[r].attempt = run[r].attempt
                    /\ run'[r].status \in Undecided => run[r].status \in Undecided

ClaimsKept ==
    \A w \in Workers : worker'[w].pc = "claimed" =>
        /\ worker[w].pc = "claimed"
        /\ worker'[w].run = worker[w].run
        /\ worker'[w].gen = worker[w].gen
        /\ worker'[w].attempt = worker[w].attempt

LEMMA OneRowKept ==
    ASSUME TInv, NEW r \in Runs, NEW row, run' = [run EXCEPT ![r] = row],
           row.payload = run[r].payload, row.generation = run[r].generation,
           row.attempt = run[r].attempt,
           row.status \in Undecided => run[r].status \in Undecided
    PROVE  RowsKept
  BY DEF RowsKept, TInv, TypeOK

LEMMA KeptSteps ==
    ASSUME TInv, Next,
           \A w \in Workers : ~ClaimRun(w) /\ ~CallProvider(w) /\ ~Stage(w)
    PROVE  calls' = calls /\ RowsKept /\ ClaimsKept
<1>0. \A r \in Runs : run[r] \in RunRows
  BY DEF TInv, TypeOK
<1>0a. \A w \in Workers : worker[w] \in Slots
  BY DEF TInv, TypeOK
<1>0b. ASSUME run' = run PROVE RowsKept
  BY <1>0b DEF RowsKept
<1>0c. ASSUME worker' = worker PROVE ClaimsKept
  BY <1>0c DEF ClaimsKept
<1>0d. ASSUME NEW w \in Workers, NEW slot, worker' = [worker EXCEPT ![w] = slot],
              slot.pc # "claimed"
       PROVE  ClaimsKept
  BY <1>0d DEF ClaimsKept, TInv, TypeOK
<1>1. ASSUME NEW r \in Runs, AcceptRun(r) \/ DeletePlaceholder(r) \/ LeaseExpires(r)
      PROVE  calls' = calls /\ RowsKept /\ ClaimsKept
  <2>1. calls' = calls /\ worker' = worker
    BY <1>1 DEF AcceptRun, DeletePlaceholder, LeaseExpires
  <2>2. CASE AcceptRun(r)
    <3>1. run' = [run EXCEPT ![r] = [run[r] EXCEPT !.status = "queued"]] /\ run[r].status = "none"
      BY <2>2 DEF AcceptRun
    <3>2. RowsKept
      BY <1>0, <3>1, OneRowKept DEF RunRows, Undecided
    <3> QED BY <2>1, <1>0c, <3>2
  <2>3. CASE DeletePlaceholder(r)
    <3>1. run' = run \/ run' = [run EXCEPT ![r] = ClosedRun(run[r], "cancelled")]
      BY <2>3 DEF DeletePlaceholder
    <3>2. RowsKept
      BY <1>0, <1>0b, <3>1, ClosedRow, OneRowKept DEF Closed, Undecided
    <3> QED BY <2>1, <1>0c, <3>2
  <2>4. CASE LeaseExpires(r)
    <3>1. run' = [run EXCEPT ![r] = [run[r] EXCEPT !.lease = "expired"]]
      BY <2>4 DEF LeaseExpires
    <3>2. RowsKept
      BY <1>0, <3>1, OneRowKept DEF RunRows
    <3> QED BY <2>1, <1>0c, <3>2
  <2> QED BY <1>1, <2>2, <2>3, <2>4
<1>2. ASSUME \/ \E d \in Relays : RelayStep(d) \/ RelayCrash(d)
                                  \/ \E r \in Runs : RelayFail(d, r)
             \/ ReconcilerStep
             \/ \E r \in Runs : \/ DispatchLockExpires(r) \/ JobStalls(r) \/ EvictJob(r)
                                \/ LoseJob(r)
      PROVE  calls' = calls /\ RowsKept /\ ClaimsKept
  <2>1. calls' = calls /\ worker' = worker /\ run' = run
    BY <1>2 DEF RelayStep, RelayClaim, RelayAdd, RelayMark, RelayFail, RelayCrash,
           ReconcilerStep, ReconcilePage, ReconcileDispatch, DispatchLockExpires, JobStalls,
           EvictJob, LoseJob
  <2> QED BY <1>0b, <1>0c, <2>1
<1>3. ASSUME NEW w \in Workers,
             \/ FindTerminal(w) \/ ClaimUnavailable(w) \/ Abort(w) \/ AdmissionDefers(w) \/ WorkerCrash(w)
             \/ ProviderAnswers(w) \/ ExecutionThrows(w)
             \/ \E r \in Runs : TakeJob(w, r)
      PROVE  calls' = calls /\ RowsKept /\ ClaimsKept
  <2>1. calls' = calls /\ run' = run
    BY <1>3 DEF FindTerminal, ClaimUnavailable, Abort, AdmissionDefers, WorkerCrash, ProviderAnswers,
           ExecutionThrows, TakeJob
  <2>2. \E slot : worker' = [worker EXCEPT ![w] = slot] /\ slot.pc # "claimed"
    <3>1. IdleWorker.pc # "claimed"
      BY DEF IdleWorker
    <3>2. CASE \/ FindTerminal(w) \/ ClaimUnavailable(w) \/ Abort(w) \/ AdmissionDefers(w) \/ WorkerCrash(w)
      BY <3>1, <3>2 DEF FindTerminal, ClaimUnavailable, Abort, AdmissionDefers, WorkerCrash, Completes,
                        FailsAttempt, EndAttempt
    <3>3. CASE ProviderAnswers(w)
      <4>1. PICK a \in [outcome : Outcomes, cost : Costs] :
                worker' = [worker EXCEPT ![w].pc = "answered", ![w].answer = a]
        BY <3>3 DEF ProviderAnswers
      <4>2. [worker[w] EXCEPT !.pc = "answered", !.answer = a].pc = "answered"
        BY <1>0a DEF Slots
      <4> QED BY <4>1, <4>2
    <3>4. CASE ExecutionThrows(w)
      <4>1. [worker[w] EXCEPT !.pc = "failing"].pc = "failing"
        BY <1>0a DEF Slots
      <4> QED BY <3>4, <4>1 DEF ExecutionThrows
    <3>5. ASSUME NEW r \in Runs, TakeJob(w, r)
          PROVE  \E slot : worker' = [worker EXCEPT ![w] = slot] /\ slot.pc # "claimed"
      <4>1. [IdleWorker EXCEPT !.pc = "taken", !.run = r].pc = "taken"
        BY DEF IdleWorker
      <4> QED BY <3>5, <4>1 DEF TakeJob
    <3> QED BY <1>3, <3>2, <3>3, <3>4, <3>5
  <2> QED BY <1>0b, <1>0d, <2>1, <2>2
<1>4. ASSUME NEW w \in Workers, RenewThrows(w) \/ RenewLease(w)
      PROVE  calls' = calls /\ RowsKept /\ ClaimsKept
  <2>1. calls' = calls
    BY <1>4 DEF RenewThrows, RenewLease
  <2>2. worker' = worker \/ worker' = [worker EXCEPT ![w].lost = TRUE]
    BY <1>4 DEF RenewThrows, RenewLease
  <2>3. ClaimsKept
    BY <1>0a, <2>2 DEF ClaimsKept, TInv, TypeOK, Slots
  <2>4. worker[w].run \in Runs
    BY <1>4 DEF RenewThrows, RenewLease, TInv, SlotWF, Holding
  <2>5. run' = run \/ run' = [run EXCEPT ![worker[w].run] =
                                  [run[worker[w].run] EXCEPT !.lease = "live"]]
    BY <1>4 DEF RenewThrows, RenewLease
  <2>6. RowsKept
    BY <1>0, <1>0b, <2>4, <2>5, OneRowKept DEF RunRows
  <2> QED BY <2>1, <2>3, <2>6
<1>5. ASSUME NEW w \in Workers, ReleaseClaim(w)
      PROVE  calls' = calls /\ RowsKept /\ ClaimsKept
  <2> DEFINE r == worker[w].run
  <2>1. calls' = calls /\ worker' = [worker EXCEPT ![w] = IdleWorker]
    BY <1>5 DEF ReleaseClaim, FailsAttempt, EndAttempt
  <2>2. ClaimsKept
    <3>1. IdleWorker.pc # "claimed"
      BY DEF IdleWorker
    <3> QED BY <1>0d, <2>1, <3>1
  <2>3. r \in Runs
    BY <1>5 DEF ReleaseClaim, Live, TInv, SlotWF
  <2>4. \/ run' = run
        \/ /\ run[r].status \in {"running", "finalizing"}
           /\ run' = [run EXCEPT ![r] = [run[r] EXCEPT
                         !.status = IF run[r].status = "running" THEN "queued"
                                    ELSE run[r].status,
                         !.owner = NoProcess, !.lease = "none"]]
    BY <1>5 DEF ReleaseClaim
  <2>5. RowsKept
    <3> DEFINE row == [run[r] EXCEPT
                           !.status = IF run[r].status = "running" THEN "queued"
                                      ELSE run[r].status,
                           !.owner = NoProcess, !.lease = "none"]
    <3>1. CASE run' = run
      BY <1>0b, <3>1
    <3>2. CASE run[r].status \in {"running", "finalizing"} /\ run' = [run EXCEPT ![r] = row]
      <4>1. /\ row.payload = run[r].payload /\ row.generation = run[r].generation
            /\ row.attempt = run[r].attempt
        BY <1>0, <2>3 DEF RunRows
      <4>2. row.status \in Undecided => run[r].status \in Undecided
        BY <1>0, <2>3, <3>2 DEF RunRows, Undecided
      <4> QED BY <2>3, <3>2, <4>1, <4>2, OneRowKept
    <3> QED BY <2>4, <3>1, <3>2
  <2> QED BY <2>1, <2>2, <2>5
<1>6. ASSUME NEW w \in Workers, Project(w)
      PROVE  calls' = calls /\ RowsKept /\ ClaimsKept
  <2> DEFINE r == worker[w].run
  <2>1. calls' = calls
    BY <1>6 DEF Project
  <2>2. \/ worker' = [worker EXCEPT ![w] = IdleWorker]
        \/ worker' = [worker EXCEPT ![w] = [worker[w] EXCEPT !.pc = "failing"]]
    BY <1>6 DEF Project, Completes, EndAttempt
  <2>3. IdleWorker.pc # "claimed" /\ [worker[w] EXCEPT !.pc = "failing"].pc # "claimed"
    BY <1>0a DEF IdleWorker, Slots
  <2>4. ClaimsKept
    BY <1>0d, <2>2, <2>3
  <2>5. r \in Runs
    BY <1>6 DEF Project, Live, TInv, SlotWF
  <2>6. CASE run' = run
    BY <1>0b, <2>1, <2>4, <2>6
  <2>7. CASE run[r].status = "finalizing" /\ ApplyTerminal(r)
    <3>1. PICK row \in RunRows :
              /\ run' = [run EXCEPT ![r] = row] /\ row.status = run[r].payload.outcome
              /\ row.payload = run[r].payload /\ row.generation = run[r].generation
              /\ row.attempt = run[r].attempt
      BY <2>5, <2>7, ApplyRow
    <3>2. row.status \notin Undecided
      BY <2>5, <2>7, <3>1, ApplyRow DEF Outcomes, Undecided
    <3>3. RowsKept
      BY <2>5, <3>1, <3>2, OneRowKept
    <3> QED BY <2>1, <2>4, <3>3
  <2>8. CASE ObsoleteTerminal(r)
    <3>1. run' = [run EXCEPT ![r] = ClosedRun(run[r], "cancelled")]
      BY <2>8 DEF ObsoleteTerminal
    <3>2. RowsKept
      BY <1>0, <2>5, <3>1, ClosedRow, OneRowKept DEF Closed, Undecided
    <3> QED BY <2>1, <2>4, <3>2
  <2> QED BY <1>6, <2>6, <2>7, <2>8 DEF Project
<1> QED BY <1>1, <1>2, <1>3, <1>4, <1>5, <1>6
  DEF Next, UserStep, TimeStep, WorkerStep, FaultStep

LEMMA ClaimKeepsCalls ==
    ASSUME TInv, TokensUnique, CallsInv, NEW w \in Workers, ClaimRun(w)
    PROVE  CallsInv'
<1> DEFINE r == worker[w].run
<1>1. r \in Runs /\ run[r] \in RunRows /\ worker[w] \in Slots
  BY DEF TInv, TypeOK, SlotWF, ClaimRun
<1>2. /\ run' = [run EXCEPT ![r] = ClaimedRun(run[r], w)] /\ calls' = calls
      /\ run[r].status \in {"queued", "running", "finalizing"}
  BY DEF ClaimRun, Claimable
<1>3. /\ run'[r].generation = run[r].generation + 1 /\ run'[r].payload = run[r].payload
      /\ \A q \in Runs : q # r => run'[q] = run[q]
  BY <1>1, <1>2, ClaimedRow DEF TInv, TypeOK
<1>4. /\ run'[r].status \in Undecided => run[r].status # "finalizing"
      /\ run[r].status # "finalizing" => /\ run'[r].attempt = run[r].attempt + 1
                                         /\ run[r].payload = NoTerminal
  <2>1. run'[r] = ClaimedRun(run[r], w)
    BY <1>1, <1>2 DEF TInv, TypeOK
  <2>2. run[r].status = "finalizing" => ClaimedRun(run[r], w).status = "finalizing"
    BY <1>1 DEF ClaimedRun, RunRows
  <2>3. run[r].status # "finalizing" => ClaimedRun(run[r], w).attempt = run[r].attempt + 1
    BY <1>1 DEF ClaimedRun, RunRows
  <2>4. run[r].status # "finalizing" => run[r].payload = NoTerminal
    BY <1>1, <1>2 DEF TInv, RunWF
  <2> QED BY <2>1, <2>2, <2>3, <2>4 DEF Undecided
<1>5. \A q \in Runs : run[q].generation \in Nat /\ run[q].attempt \in Nat
  BY DEF TInv, TypeOK, RunRows
<1>6. \A q \in Runs : run'[q].status \in Undecided => run'[q].attempt = run'[q].generation
  <2>1. run[r].status # "finalizing" => run[r].attempt = run[r].generation
    BY <1>1, <1>2 DEF CallsInv, Undecided
  <2> QED BY <1>1, <1>3, <1>4, <1>5, <2>1 DEF CallsInv
<1>7. ASSUME NEW q \in Runs, NEW g \in calls[q]
      PROVE  /\ g \in 1..MaxAttempts /\ g <= run'[q].generation
             /\ run'[q].payload # NoTerminal => g <= run'[q].payload.gen
  <2>1. /\ g \in 1..MaxAttempts /\ g <= run[q].generation
        /\ run[q].payload # NoTerminal => g <= run[q].payload.gen
    BY DEF CallsInv
  <2>2. g \in Nat /\ MaxAttempts \in Nat
    BY <2>1, BoundAssumption
  <2>3. run'[q].payload = run[q].payload
    BY <1>3
  <2>4. g <= run'[q].generation
    BY <1>3, <1>5, <2>1, <2>2
  <2> QED BY <2>1, <2>3, <2>4
<1>8. ASSUME NEW v \in Workers, worker'[v].pc = "claimed"
      PROVE  /\ worker'[v].attempt = worker'[v].gen /\ worker'[v].gen >= 1
             /\ run'[worker'[v].run].payload # NoTerminal =>
                    worker'[v].gen <= run'[worker'[v].run].payload.gen
  <2>1. CASE v = w
    <3>1. worker' # [worker EXCEPT ![w] = IdleWorker]
      BY <1>8, <2>1 DEF TInv, TypeOK, IdleWorker
    <3>2. worker' = [worker EXCEPT ![w] =
               [@ EXCEPT !.pc = IF run[r].status = "finalizing" THEN "staged" ELSE "claimed",
                         !.gen = run[r].generation + 1,
                         !.attempt = run'[r].attempt]]
      BY <3>1 DEF ClaimRun, FailsAttempt, EndAttempt
    <3>3. /\ worker'[w].run = r /\ worker'[w].gen = run[r].generation + 1
          /\ worker'[w].attempt = run'[r].attempt /\ run[r].status # "finalizing"
      BY <1>1, <1>8, <2>1, <3>2 DEF TInv, TypeOK, Slots
    <3>4. run[r].attempt = run[r].generation
      BY <1>1, <1>2, <3>3 DEF CallsInv, Undecided
    <3>5. run'[r].payload = NoTerminal
      BY <1>3, <1>4, <3>3
    <3> QED BY <1>1, <1>4, <1>5, <2>1, <3>3, <3>4, <3>5
  <2>2. CASE v # w
    <3>1. worker'[v] = worker[v]
      BY <2>2 DEF ClaimRun, FailsAttempt, EndAttempt, TInv, TypeOK
    <3>2. worker[v].run \in Runs
      BY <1>8, <3>1 DEF TInv, SlotWF
    <3>3. run'[worker[v].run].payload = run[worker[v].run].payload
      BY <1>3, <3>2
    <3> QED BY <1>8, <3>1, <3>3 DEF CallsInv
  <2> QED BY <2>1, <2>2
<1> QED BY <1>2, <1>6, <1>7, <1>8 DEF CallsInv

LEMMA CallKeepsCalls ==
    ASSUME TInv, TokensUnique, CallsInv, NEW w \in Workers, CallProvider(w)
    PROVE  CallsInv'
<1> DEFINE r == worker[w].run
           g == worker[w].gen
<1>1. r \in Runs /\ worker[w] \in Slots /\ worker[w].pc = "claimed" /\ run' = run
  BY DEF TInv, TypeOK, SlotWF, CallProvider, Live
<1>2. /\ worker[w].attempt = g /\ g >= 1 /\ g <= run[r].generation
      /\ run[r].payload # NoTerminal => g <= run[r].payload.gen
  BY <1>1 DEF CallsInv, TokensUnique, Holding
<1>3. ASSUME NEW v \in Workers, worker'[v].pc = "claimed" PROVE worker'[v] = worker[v]
  BY <1>1, <1>3 DEF CallProvider, TInv, TypeOK, Slots
<1>4. CASE calls' = calls
  BY <1>1, <1>3, <1>4 DEF CallsInv
<1>5. CASE worker[w].attempt <= MaxAttempts /\ calls' = [calls EXCEPT ![r] = @ \union {g}]
  <2>1. g \in 1..MaxAttempts
    BY <1>1, <1>2, <1>5, BoundAssumption DEF Slots
  <2>2. ASSUME NEW q \in Runs, NEW h \in calls'[q]
        PROVE  h \in calls[q] \/ (q = r /\ h = g)
    BY <1>1, <1>5, <2>2 DEF TInv, TypeOK
  <2> QED BY <1>1, <1>2, <1>3, <2>1, <2>2 DEF CallsInv
<1>6. ~(worker[w].attempt > MaxAttempts) => worker[w].attempt <= MaxAttempts
  BY <1>1, BoundAssumption DEF Slots
<1> QED BY <1>4, <1>5, <1>6 DEF CallProvider

LEMMA StageKeepsCalls ==
    ASSUME TInv, TokensUnique, CallsInv, NEW w \in Workers, Stage(w)
    PROVE  CallsInv'
<1> DEFINE r == worker[w].run
<1>1. /\ r \in Runs /\ run[r] \in RunRows /\ worker[w] \in Slots /\ worker[w].pc = "answered"
      /\ calls' = calls
  BY DEF TInv, TypeOK, SlotWF, Stage, Live
<1>2. ASSUME NEW v \in Workers, worker'[v].pc = "claimed" PROVE worker'[v] = worker[v]
  <2>1. CASE v = w
    BY <1>1, <1>2, <2>1
    DEF Stage, Completes, EndAttempt, IdleWorker, TInv, TypeOK, Slots
  <2>2. CASE v # w
    BY <2>2 DEF Stage, Completes, EndAttempt, TInv, TypeOK
  <2> QED BY <2>1, <2>2
<1>3. CASE run' = run
  BY <1>1, <1>2, <1>3 DEF CallsInv
<1>4. CASE HasToken(w) /\ run' = [run EXCEPT ![r] = StagedRun(run[r], w)]
  <2>1. /\ run'[r] = StagedRun(run[r], w)
        /\ \A q \in Runs : q # r => run'[q] = run[q]
    BY <1>1, <1>4 DEF TInv, TypeOK
  <2>2. /\ run'[r].status = "finalizing" /\ run'[r].generation = run[r].generation
        /\ run'[r].payload = [outcome |-> worker[w].answer.outcome,
                              cost |-> worker[w].answer.cost, gen |-> worker[w].gen]
    BY <1>1, <2>1, StagedRow
  <2>3. run'[r].payload.gen = run[r].generation
    BY <1>4, <2>2 DEF HasToken
  <2>4. ASSUME NEW q \in Runs, NEW g \in calls[q]
        PROVE  /\ g \in 1..MaxAttempts /\ g <= run'[q].generation
               /\ run'[q].payload # NoTerminal => g <= run'[q].payload.gen
    BY <2>1, <2>2, <2>3 DEF CallsInv
  <2>5. ASSUME NEW v \in Workers, worker[v].pc = "claimed"
        PROVE  run'[worker[v].run].payload # NoTerminal =>
                   worker[v].gen <= run'[worker[v].run].payload.gen
    <3>1. worker[v].gen <= run[worker[v].run].generation /\ worker[v].run \in Runs
      BY <2>5 DEF TokensUnique, Holding, TInv, SlotWF
    <3> QED BY <2>1, <2>3, <2>5, <3>1 DEF CallsInv
  <2>6. \A q \in Runs : run'[q].status \in Undecided => run'[q].attempt = run'[q].generation
    BY <2>1, <2>2 DEF CallsInv, Undecided
  <2> QED BY <1>1, <1>2, <2>4, <2>5, <2>6 DEF CallsInv
<1> QED BY <1>3, <1>4 DEF Stage

LEMMA CallsInvariant == Spec => []CallsInv
<1>1. Init => CallsInv
  BY DEF Init, CallsInv, NewRun, IdleWorker
<1>2. TInv /\ TokensUnique /\ CallsInv /\ [Next]_vars => CallsInv'
  <2> SUFFICES ASSUME TInv, TokensUnique, CallsInv, [Next]_vars PROVE CallsInv'
    OBVIOUS
  <2>1. CASE UNCHANGED vars
    BY <2>1 DEF vars, CallsInv
  <2>2. CASE \E w \in Workers : ClaimRun(w) \/ CallProvider(w) \/ Stage(w)
    BY <2>2, ClaimKeepsCalls, CallKeepsCalls, StageKeepsCalls
  <2>3. CASE Next /\ \A w \in Workers : ~ClaimRun(w) /\ ~CallProvider(w) /\ ~Stage(w)
    <3>1. calls' = calls /\ RowsKept /\ ClaimsKept
      BY <2>3, KeptSteps
    <3>2. \A w \in Workers : worker[w].pc = "claimed" => worker[w].run \in Runs
      BY DEF TInv, SlotWF
    <3>3. \A r \in Runs : run'[r].status \in Undecided => run'[r].attempt = run'[r].generation
      BY <3>1 DEF RowsKept, CallsInv
    <3>4. \A r \in Runs : \A g \in calls'[r] :
              /\ g \in 1..MaxAttempts /\ g <= run'[r].generation
              /\ run'[r].payload # NoTerminal => g <= run'[r].payload.gen
      BY <3>1 DEF RowsKept, CallsInv
    <3>5. \A w \in Workers : worker'[w].pc = "claimed" =>
              /\ worker'[w].attempt = worker'[w].gen /\ worker'[w].gen >= 1
              /\ run'[worker'[w].run].payload # NoTerminal =>
                     worker'[w].gen <= run'[worker'[w].run].payload.gen
      BY <3>1, <3>2 DEF RowsKept, ClaimsKept, CallsInv
    <3> QED BY <3>3, <3>4, <3>5 DEF CallsInv
  <2> QED BY <2>1, <2>2, <2>3
<1> QED BY <1>1, <1>2, TokensInvariant, TypeInvariant, PTL DEF Spec

\* Once a terminal is staged the provider is never called under a later
\* generation: whoever takes the run over only projects.
THEOREM NoCallAfterStaging == Spec => []NoProviderCallAfterStaging
<1>1. CallsInv => NoProviderCallAfterStaging
  BY DEF CallsInv, NoProviderCallAfterStaging
<1> QED BY <1>1, CallsInvariant, PTL

\* A run asks the provider at most MaxAttempts times, however often it is taken
\* over.
THEOREM CallsAreBounded == Spec => []ProviderCallsAreBounded
<1>1. ASSUME CallsInv, NEW r \in Runs PROVE Cardinality(calls[r]) <= MaxAttempts
  <2>1. calls[r] \subseteq 1..MaxAttempts
    BY <1>1 DEF CallsInv
  <2>2. IsFiniteSet(1..MaxAttempts) /\ Cardinality(1..MaxAttempts) = MaxAttempts
    BY FS_Interval, BoundAssumption
  <2> QED BY <2>1, <2>2, FS_Subset
<1>2. CallsInv => ProviderCallsAreBounded
  BY <1>1 DEF ProviderCallsAreBounded
<1> QED BY <1>2, CallsInvariant, PTL

-----------------------------------------------------------------------------
(* The pipeline implements the ledger.                                     *)

LEMMA OneRowAbstracts ==
    ASSUME TInv, NEW r \in Runs, NEW row, run' = [run EXCEPT ![r] = row]
    PROVE  /\ LedgerPhase' = [LedgerPhase EXCEPT ![r] = PhaseOf(row)]
           /\ LedgerResult' = [LedgerResult EXCEPT ![r] = ResultOf(row)]
<1>1. run'[r] = row /\ \A q \in Runs : q # r => run'[q] = run[q]
  BY DEF TInv, TypeOK
<1>2. LedgerPhase' = [q \in Runs |-> PhaseOf(run'[q])]
  BY DEF LedgerPhase, PhaseOf
<1>3. LedgerResult' = [q \in Runs |-> ResultOf(run'[q])]
  BY DEF LedgerResult, ResultOf
<1>4. /\ LedgerPhase = [q \in Runs |-> PhaseOf(run[q])]
      /\ LedgerResult = [q \in Runs |-> ResultOf(run[q])]
  BY DEF LedgerPhase, LedgerResult
<1>5. LedgerPhase' = [LedgerPhase EXCEPT ![r] = PhaseOf(row)]
  BY <1>1, <1>2, <1>4
<1>6. LedgerResult' = [LedgerResult EXCEPT ![r] = ResultOf(row)]
  BY <1>1, <1>3, <1>4
<1> QED BY <1>5, <1>6

\* A step that changes neither phase, result, placeholder nor total stutters.
LEMMA SilentRow ==
    ASSUME TInv, NEW r \in Runs, NEW row, run' = [run EXCEPT ![r] = row],
           PhaseOf(row) = PhaseOf(run[r]), row.payload = run[r].payload,
           UNCHANGED <<message, roomTotal>>
    PROVE  UNCHANGED Ledger!vars
<1>1. ResultOf(row) = ResultOf(run[r])
  BY DEF ResultOf
<1>2. LedgerPhase' = LedgerPhase /\ LedgerResult' = LedgerResult
  BY <1>1, OneRowAbstracts DEF LedgerPhase, LedgerResult
<1> QED BY <1>2 DEF Ledger!vars

LEMMA SilentStep ==
    ASSUME UNCHANGED <<run, message, roomTotal>>
    PROVE  UNCHANGED Ledger!vars
  BY DEF Ledger!vars, LedgerPhase, LedgerResult, PhaseOf, ResultOf

LEMMA LedgerInit == Init => Ledger!Init
<1>1. PhaseOf(NewRun) = "absent" /\ ResultOf(NewRun) = NoTerminal
  BY DEF PhaseOf, ResultOf, NewRun, Outcomes
<1>2. ASSUME Init PROVE /\ LedgerPhase = [r \in Runs |-> "absent"]
                        /\ LedgerResult = [r \in Runs |-> NoTerminal]
  <2>1. \A r \in Runs : run[r] = NewRun
    BY <1>2 DEF Init
  <2> QED BY <1>1, <2>1 DEF LedgerPhase, LedgerResult
<1> QED BY <1>2 DEF Init, Ledger!Init

LEMMA LedgerStep ==
    ASSUME TInv, RowInv, Next
    PROVE  Ledger!Next \/ UNCHANGED Ledger!vars
<1> USE StatusesAreDisjoint
<1>0. \A r \in Runs : run[r] \in RunRows /\ RowOK(run[r], message[r])
  BY DEF TInv, TypeOK, RowInv
<1>0a. \A r \in Runs : LedgerPhase[r] = PhaseOf(run[r]) /\ LedgerResult[r] = ResultOf(run[r])
  BY DEF LedgerPhase, LedgerResult
<1>1. ASSUME ~RowStep PROVE UNCHANGED Ledger!vars
  BY <1>1, OtherSteps, SilentStep
<1>2. ASSUME NEW r \in Runs, AcceptRun(r) PROVE Ledger!Accept(r)
  <2> DEFINE row == [run[r] EXCEPT !.status = "queued"]
  <2>1. /\ run' = [run EXCEPT ![r] = row] /\ message' = [message EXCEPT ![r] = "streaming"]
        /\ run[r].status = "none" /\ roomTotal' = roomTotal
    BY <1>2 DEF AcceptRun, moneyVars
  <2>2. row.status = "queued" /\ row.payload = run[r].payload
    BY <1>0 DEF RunRows
  <2>3. /\ PhaseOf(run[r]) = "absent" /\ PhaseOf(row) = "open"
        /\ ResultOf(row) = ResultOf(run[r])
    BY <2>1, <2>2 DEF PhaseOf, ResultOf
  <2>4. /\ LedgerPhase' = [LedgerPhase EXCEPT ![r] = "open"]
        /\ LedgerResult' = [LedgerResult EXCEPT ![r] = ResultOf(run[r])]
    <3>1. /\ LedgerPhase' = [LedgerPhase EXCEPT ![r] = PhaseOf(row)]
          /\ LedgerResult' = [LedgerResult EXCEPT ![r] = ResultOf(row)]
      BY <2>1, OneRowAbstracts
    <3> QED BY <2>3, <3>1
  <2>5. LedgerResult' = LedgerResult
    BY <2>4 DEF LedgerResult
  <2> QED BY <1>0a, <2>1, <2>3, <2>4, <2>5 DEF Ledger!Accept
<1>3. ASSUME NEW r \in Runs, DeletePlaceholder(r) PROVE Ledger!Void(r) \/ Ledger!Hide(r)
  <2>1. /\ message' = [message EXCEPT ![r] = "deleted"] /\ roomTotal' = roomTotal
        /\ message[r] \in {"streaming", "complete", "error"}
    BY <1>3 DEF DeletePlaceholder, moneyVars
  <2>2. CASE run[r].status \in Active
    <3> DEFINE row == ClosedRun(run[r], "cancelled")
    <3>1. run' = [run EXCEPT ![r] = row]
      BY <1>3, <2>2 DEF DeletePlaceholder
    <3>2. row.status = "cancelled" /\ row.payload = run[r].payload
      BY <1>0, ClosedRow
    <3>3. /\ PhaseOf(run[r]) \in {"open", "decided"} /\ PhaseOf(row) = "void"
          /\ ResultOf(row) = ResultOf(run[r])
      BY <2>2, <3>2 DEF PhaseOf, ResultOf, Active, Outcomes
    <3>4. /\ LedgerPhase' = [LedgerPhase EXCEPT ![r] = "void"]
          /\ LedgerResult' = [LedgerResult EXCEPT ![r] = ResultOf(run[r])]
      BY <3>1, <3>3, OneRowAbstracts
    <3>5. LedgerResult' = LedgerResult
      BY <3>4 DEF LedgerResult
    <3> QED BY <1>0a, <2>1, <3>3, <3>4, <3>5 DEF Ledger!Void
  <2>3. CASE run[r].status \notin Active
    <3>1. run' = run
      BY <1>3, <2>3 DEF DeletePlaceholder
    <3>2. run[r].status \in Outcomes
      <4>1. run[r].status \in RunStatuses
        BY <1>0 DEF RunRows
      <4>2. RowOK(run[r], message[r])
        BY <1>0
      <4>3. run[r].status # "none" /\ run[r].status # "cancelled"
        BY <2>1, <4>2 DEF RowOK
      <4> QED BY <2>3, <4>1, <4>3 DEF RunStatuses, Closed, Outcomes
    <3>3. PhaseOf(run[r]) = "settled"
      BY <3>2 DEF PhaseOf, Outcomes
    <3>4. LedgerPhase' = LedgerPhase /\ LedgerResult' = LedgerResult
      BY <3>1 DEF LedgerPhase, LedgerResult, PhaseOf, ResultOf
    <3> QED BY <1>0a, <2>1, <3>3, <3>4 DEF Ledger!Hide
  <2> QED BY <2>2, <2>3
<1>4. ASSUME NEW r \in Runs, LeaseExpires(r) PROVE UNCHANGED Ledger!vars
  <2> DEFINE row == [run[r] EXCEPT !.lease = "expired"]
  <2>1. run' = [run EXCEPT ![r] = row] /\ UNCHANGED <<message, roomTotal>>
    BY <1>4 DEF LeaseExpires, moneyVars
  <2>2. row.status = run[r].status /\ row.payload = run[r].payload
    BY <1>0 DEF RunRows
  <2>3. PhaseOf(row) = PhaseOf(run[r])
    BY <2>2 DEF PhaseOf
  <2> QED BY <2>1, <2>2, <2>3, SilentRow
<1>5. ASSUME NEW w \in Workers, ClaimRun(w) PROVE UNCHANGED Ledger!vars
  <2> DEFINE r == worker[w].run
             row == ClaimedRun(run[r], w)
  <2>1. r \in Runs
    BY <1>5 DEF TInv, SlotWF, ClaimRun
  <2>2. /\ run' = [run EXCEPT ![r] = row] /\ UNCHANGED <<message, roomTotal>>
        /\ run[r].status \in {"queued", "running", "finalizing"}
    BY <1>5 DEF ClaimRun, Claimable, moneyVars
  <2>3. /\ row.payload = run[r].payload
        /\ row.status = IF run[r].status = "finalizing" THEN "finalizing" ELSE "running"
    BY <1>0, <2>1 DEF RunRows, ClaimedRun
  <2>4. PhaseOf(row) = PhaseOf(run[r])
    BY <2>2, <2>3 DEF PhaseOf
  <2> QED BY <2>1, <2>2, <2>3, <2>4, SilentRow
<1>6. ASSUME NEW w \in Workers, Stage(w) PROVE Ledger!Next \/ UNCHANGED Ledger!vars
  <2> DEFINE r == worker[w].run
             row == StagedRun(run[r], w)
             res == [outcome |-> worker[w].answer.outcome, cost |-> worker[w].answer.cost]
  <2>1. r \in Runs /\ worker[w].answer \in Answers /\ UNCHANGED <<message, roomTotal>>
    BY <1>6 DEF TInv, SlotWF, Stage, Live, moneyVars
  <2>2. CASE run' = run
    BY <2>1, <2>2, SilentStep
  <2>3. CASE run[r].status = "running" /\ run' = [run EXCEPT ![r] = row]
    <3>1. /\ row.status = "finalizing"
          /\ row.payload = [outcome |-> worker[w].answer.outcome,
                            cost |-> worker[w].answer.cost, gen |-> worker[w].gen]
      BY <1>0, <2>1, StagedRow
    <3>2. worker[w].gen \in Nat
      BY DEF TInv, TypeOK, Slots
    <3>3. row.payload \in Payloads
      BY <2>1, <3>1, <3>2 DEF Payloads, Answers
    <3>4. row.payload # NoTerminal
      BY <3>3, TerminalAssumption
    <3>5. ResultOf(row) = res
      BY <3>1, <3>4 DEF ResultOf
    <3>6. PhaseOf(run[r]) = "open" /\ PhaseOf(row) = "decided"
      BY <2>3, <3>1 DEF PhaseOf
    <3>7. res \in Ledger!Results
      BY <2>1 DEF Answers, Outcomes, Ledger!Results
    <3>8. /\ LedgerPhase' = [LedgerPhase EXCEPT ![r] = "decided"]
          /\ LedgerResult' = [LedgerResult EXCEPT ![r] = res]
      <4>1. /\ LedgerPhase' = [LedgerPhase EXCEPT ![r] = PhaseOf(row)]
            /\ LedgerResult' = [LedgerResult EXCEPT ![r] = ResultOf(row)]
        BY <2>1, <2>3, OneRowAbstracts
      <4> QED BY <3>5, <3>6, <4>1
    <3>9. Ledger!Decide(r)
      BY <1>0a, <2>1, <3>6, <3>7, <3>8 DEF Ledger!Decide
    <3> QED BY <2>1, <3>9 DEF Ledger!Next
  <2> QED BY <1>6, <2>2, <2>3 DEF Stage
<1>7. ASSUME NEW w \in Workers, Project(w) PROVE Ledger!Next \/ UNCHANGED Ledger!vars
  <2> DEFINE r == worker[w].run
             p == run[r].payload
  <2>1. r \in Runs
    BY <1>7 DEF TInv, SlotWF, Project, Live
  <2>2. CASE UNCHANGED <<run, message, roomTotal>>
    BY <2>2, SilentStep
  <2>3. CASE run[r].status = "finalizing" /\ message[r] = "streaming" /\ ApplyTerminal(r)
    <3>1. PICK row \in RunRows :
              /\ run' = [run EXCEPT ![r] = row]
              /\ row.status = p.outcome /\ row.payload = p
      BY <2>1, <2>3, ApplyRow
    <3>2. p \in Payloads /\ p.outcome \in Outcomes
      BY <2>1, <2>3, ApplyRow
    <3>3. p # NoTerminal
      BY <3>2, TerminalAssumption
    <3>4. LedgerResult[r] = [outcome |-> p.outcome, cost |-> p.cost]
      BY <1>0a, <2>1, <3>3 DEF ResultOf
    <3>5. /\ message' = [message EXCEPT ![r] = LedgerResult[r].outcome]
          /\ roomTotal' = roomTotal + LedgerResult[r].cost
      BY <2>3, <3>4 DEF ApplyTerminal
    <3>6. /\ PhaseOf(run[r]) = "decided" /\ PhaseOf(row) = "settled"
          /\ ResultOf(row) = ResultOf(run[r])
      BY <2>3, <3>1, <3>2 DEF PhaseOf, ResultOf, Outcomes
    <3>7. /\ LedgerPhase' = [LedgerPhase EXCEPT ![r] = "settled"]
          /\ LedgerResult' = [LedgerResult EXCEPT ![r] = ResultOf(run[r])]
      <4>1. /\ LedgerPhase' = [LedgerPhase EXCEPT ![r] = PhaseOf(row)]
            /\ LedgerResult' = [LedgerResult EXCEPT ![r] = ResultOf(row)]
        BY <2>1, <3>1, OneRowAbstracts
      <4> QED BY <3>6, <4>1
    <3>8. LedgerResult' = LedgerResult
      BY <3>7 DEF LedgerResult
    <3>9. Ledger!Settle(r)
      BY <1>0a, <2>1, <2>3, <3>5, <3>6, <3>7, <3>8 DEF Ledger!Settle
    <3> QED BY <2>1, <3>9 DEF Ledger!Next
  <2>4. CASE run[r].status = "finalizing" /\ message[r] # "streaming"
    BY <1>0, <2>1, <2>4 DEF RowOK
  <2> QED BY <1>7, <2>2, <2>3, <2>4 DEF Project, moneyVars
<1>8. ASSUME NEW w \in Workers, ReleaseClaim(w) \/ RenewLease(w) PROVE UNCHANGED Ledger!vars
  <2> DEFINE r == worker[w].run
             renewed == [run[r] EXCEPT !.lease = "live"]
             released == [run[r] EXCEPT !.status = IF run[r].status = "running" THEN "queued"
                                                   ELSE run[r].status,
                                        !.owner = NoProcess, !.lease = "none"]
  <2>1. r \in Runs /\ UNCHANGED <<message, roomTotal>>
    BY <1>8 DEF TInv, SlotWF, ReleaseClaim, RenewLease, Live, Holding, moneyVars
  <2>2. CASE run' = run
    BY <2>1, <2>2, SilentStep
  <2>3. CASE run' = [run EXCEPT ![r] = renewed]
    <3>1. renewed.status = run[r].status /\ renewed.payload = run[r].payload
      BY <1>0, <2>1 DEF RunRows
    <3>2. PhaseOf(renewed) = PhaseOf(run[r])
      BY <3>1 DEF PhaseOf
    <3> QED BY <2>1, <2>3, <3>1, <3>2, SilentRow
  <2>4. CASE /\ run[r].status \in {"running", "finalizing"}
             /\ run' = [run EXCEPT ![r] = released]
    <3>1. /\ released.payload = run[r].payload
          /\ released.status = IF run[r].status = "running" THEN "queued" ELSE run[r].status
      BY <1>0, <2>1 DEF RunRows
    <3>2. PhaseOf(released) = PhaseOf(run[r])
      BY <2>4, <3>1 DEF PhaseOf
    <3> QED BY <2>1, <2>4, <3>1, <3>2, SilentRow
  <2> QED BY <1>8, <2>2, <2>3, <2>4 DEF ReleaseClaim, RenewLease
<1> QED BY <1>1, <1>2, <1>3, <1>4, <1>5, <1>6, <1>7, <1>8 DEF RowStep, Ledger!Next

\* The pipeline implements the run ledger: through all its claims, retries,
\* takeovers and recoveries a run is decided once and settled once, or voided.
THEOREM PipelineImplementsLedger == Spec => ImplementsLedger
<1>1. TInv /\ RowInv /\ [Next]_vars => [Ledger!Next]_(Ledger!vars)
  <2>1. ASSUME UNCHANGED vars PROVE UNCHANGED Ledger!vars
    BY <2>1, SilentStep DEF vars
  <2> QED BY <2>1, LedgerStep
<1> QED BY <1>1, LedgerInit, TypeInvariant, RowsInvariant, PTL
        DEF Spec, ImplementsLedger, Ledger!Spec

-----------------------------------------------------------------------------
(* The queue.                                                              *)

\* What a relay has added, and what a dispatch row of an active run records as
\* handed over, is known to BullMQ.
QueueInv ==
    /\ \A d \in Relays : relay[d].added \in Runs => job[relay[d].added].state # "none"
    /\ DispatchedWasEnqueued

\* BullMQ never forgets that it has seen a job (a removed job is a state here).
JobsStayKnown == \A r \in Runs : job[r].state # "none" => job'[r].state # "none"

LEMMA JobSteps ==
    ASSUME TInv, Next
    PROVE  JobsStayKnown
<1>0. \A r \in Runs : job[r] \in Jobs
  BY DEF TInv, TypeOK
<1>1. ASSUME job' = job PROVE JobsStayKnown
  BY <1>1 DEF JobsStayKnown
<1>2. ASSUME NEW r \in Runs, NEW j, job' = [job EXCEPT ![r] = j],
             job[r].state # "none" => j.state # "none"
      PROVE  JobsStayKnown
  BY <1>2 DEF JobsStayKnown, TInv, TypeOK
<1>3. ASSUME NEW w \in Workers, NEW states \in SUBSET {"waiting", "completed", "failed"},
             EndAttempt(w, states)
      PROVE  JobsStayKnown
  <2> DEFINE r == worker[w].run
  <2>1. PICK s \in states :
            job' = IF job[r].state = "active" /\ job[r].holder = w
                   THEN [job EXCEPT ![r] = [state |-> s, holder |-> NoWorker]]
                   ELSE job
    BY <1>3 DEF EndAttempt
  <2>2. s # "none" /\ [state |-> s, holder |-> NoWorker].state = s
    OBVIOUS
  <2> QED BY <2>1, <2>2 DEF JobsStayKnown, TInv, TypeOK
<1>4. ASSUME NEW r \in Runs, job' = [job EXCEPT ![r] = Enqueued(@)] PROVE JobsStayKnown
  <2>1. Enqueued(job[r]).state # "none"
    BY <1>0 DEF Enqueued, Jobs
  <2> QED BY <1>2, <1>4, <2>1
<1>5. ASSUME NEW d \in Relays, \/ RelayStep(d) \/ RelayCrash(d)
                               \/ \E r \in Runs : RelayFail(d, r)
      PROVE  JobsStayKnown
  <2>1. job' = job \/ \E r \in Runs : job' = [job EXCEPT ![r] = Enqueued(@)]
    BY <1>5 DEF RelayStep, RelayClaim, RelayAdd, RelayMark, RelayFail, RelayCrash
  <2> QED BY <1>1, <1>4, <2>1
<1>6. ASSUME ReconcilerStep PROVE JobsStayKnown
  <2>1. CASE ReconcilePage
    BY <1>1, <2>1 DEF ReconcilePage
  <2>2. ASSUME NEW r \in Runs, ReconcileDispatch(r) PROVE JobsStayKnown
    <3>1. \/ job' = [job EXCEPT ![r] = [state |-> "waiting", holder |-> NoWorker]]
          \/ job' = [job EXCEPT ![r] = Enqueued(@)]
      BY <2>2 DEF ReconcileDispatch
    <3>2. [state |-> "waiting", holder |-> NoWorker].state # "none"
      OBVIOUS
    <3> QED BY <1>2, <1>4, <3>1, <3>2
  <2> QED BY <1>6, <2>1, <2>2 DEF ReconcilerStep
<1>7. ASSUME NEW r \in Runs,
             \/ JobStalls(r) \/ EvictJob(r) \/ LoseJob(r)
             \/ \E w \in Workers : TakeJob(w, r)
      PROVE  JobsStayKnown
  <2>1. PICK s \in {"waiting", "failed", "removed", "active"}, h \in Workers \union {NoWorker} :
            job' = [job EXCEPT ![r] = [state |-> s, holder |-> h]]
    BY <1>7 DEF JobStalls, EvictJob, LoseJob, TakeJob
  <2>2. [state |-> s, holder |-> h].state # "none"
    OBVIOUS
  <2> QED BY <1>2, <2>1, <2>2
<1>8. ASSUME NEW w \in Workers, WorkerCrash(w) PROVE JobsStayKnown
  <2>1. job' = [r \in Runs |-> IF job[r].holder = w THEN [job[r] EXCEPT !.holder = NoWorker]
                                                    ELSE job[r]]
    BY <1>8 DEF WorkerCrash
  <2> QED BY <1>0, <2>1 DEF JobsStayKnown, Jobs
<1>9. ASSUME NEW w \in Workers, \/ WorkerStep(w) \/ RenewLease(w) \/ ExecutionThrows(w)
                                \/ RenewThrows(w) \/ AdmissionDefers(w)
      PROVE  JobsStayKnown
  <2>1. job' = job \/ Completes(w) \/ FailsAttempt(w) \/ EndAttempt(w, {"waiting"})
    BY <1>9 DEF WorkerStep, FindTerminal, ClaimRun, ClaimUnavailable, Abort, AdmissionDefers, CallProvider,
           ProviderAnswers, Stage, Project, ReleaseClaim, RenewLease, ExecutionThrows,
           RenewThrows, queueVars
  <2>2. Completes(w) => JobsStayKnown
    BY <1>3 DEF Completes
  <2>3. FailsAttempt(w) => JobsStayKnown
    BY <1>3 DEF FailsAttempt
  <2>4. EndAttempt(w, {"waiting"}) => JobsStayKnown
    BY <1>3
  <2> QED BY <1>1, <2>1, <2>2, <2>3, <2>4
<1>10. ASSUME NEW r \in Runs, UserStep(r) \/ DispatchLockExpires(r) \/ LeaseExpires(r)
       PROVE  JobsStayKnown
  <2>1. job' = job
    BY <1>10 DEF UserStep, AcceptRun, DeletePlaceholder, DispatchLockExpires, LeaseExpires,
                 queueVars
  <2> QED BY <1>1, <2>1
<1> QED BY <1>5, <1>6, <1>7, <1>8, <1>9, <1>10 DEF Next, TimeStep, FaultStep

\* A step that neither adds nor marks keeps what the relays and rows record.
QueueKept ==
    /\ \A d \in Relays : relay'[d].added \in Runs => relay'[d].added = relay[d].added
    /\ \A r \in Runs : dispatch'[r].status = "dispatched" /\ run'[r].status \in Active =>
           dispatch[r].status = "dispatched" /\ run[r].status \in Active

LEMMA QueueKeptStep ==
    ASSUME TInv, QueueInv, JobsStayKnown, QueueKept
    PROVE  QueueInv'
<1>1. ASSUME NEW d \in Relays, relay'[d].added \in Runs
      PROVE  job'[relay'[d].added].state # "none"
  <2>1. relay'[d].added = relay[d].added
    BY <1>1 DEF QueueKept
  <2>2. job[relay[d].added].state # "none"
    BY <1>1, <2>1 DEF QueueInv
  <2> QED BY <1>1, <2>1, <2>2 DEF JobsStayKnown
<1>2. DispatchedWasEnqueued'
  BY DEF QueueKept, QueueInv, DispatchedWasEnqueued, JobsStayKnown
<1> QED BY <1>1, <1>2 DEF QueueInv

LEMMA QueueSteps ==
    ASSUME TInv, QueueInv, Next
    PROVE  QueueInv'
<1> USE StatusesAreDisjoint
<1>0. JobsStayKnown
  BY JobSteps
<1>0a. \A r \in Runs : run[r] \in RunRows /\ dispatch[r] \in DispatchRows
  BY DEF TInv, TypeOK
<1>0b. NoRun \notin Runs
  BY RunsAssumption DEF NoRun
<1> DEFINE NoneReopened == \A r \in Runs : run'[r].status \in Active => run[r].status \in Active
<1>1. ASSUME NEW r \in Runs, AcceptRun(r) PROVE QueueInv'
  <2>1. relay' = relay
    BY <1>1 DEF AcceptRun, queueVars
  <2>2. \A q \in Runs : /\ q # r => dispatch'[q] = dispatch[q] /\ run'[q] = run[q]
                        /\ q = r => dispatch'[q].status = "pending"
    BY <1>1, <1>0a DEF AcceptRun, TInv, TypeOK, DispatchRows
  <2>3. QueueKept
    BY <2>1, <2>2 DEF QueueKept
  <2> QED BY <1>0, <2>3, QueueKeptStep
<1>2. ASSUME NEW r \in Runs, DeletePlaceholder(r) PROVE QueueInv'
  <2>1. relay' = relay
    BY <1>2 DEF DeletePlaceholder, queueVars
  <2>2. CASE UNCHANGED <<run, dispatch>>
    BY <1>0, <2>1, <2>2, QueueKeptStep DEF QueueKept
  <2>3. CASE /\ run' = [run EXCEPT ![r] = ClosedRun(run[r], "cancelled")]
             /\ dispatch' = [dispatch EXCEPT ![r] = SettledDispatch(dispatch[r])]
    <3>1. ClosedRun(run[r], "cancelled").status = "cancelled"
      BY <1>0a, ClosedRow
    <3>2. \A q \in Runs : /\ q # r => dispatch'[q] = dispatch[q] /\ run'[q] = run[q]
                          /\ q = r => run'[q].status = "cancelled"
      BY <2>3, <3>1 DEF TInv, TypeOK
    <3>3. QueueKept
      BY <2>1, <3>2 DEF QueueKept
    <3> QED BY <1>0, <3>3, QueueKeptStep
  <2> QED BY <1>2, <2>2, <2>3 DEF DeletePlaceholder
<1>3. ASSUME NEW d \in Relays, RelayClaim(d) \/ RelayCrash(d) PROVE QueueInv'
  <2>1. run' = run
    BY <1>3 DEF RelayClaim, RelayCrash
  <2>2. \A r \in Runs : dispatch'[r].status = "dispatched" => dispatch[r].status = "dispatched"
    BY <1>3 DEF RelayClaim, RelayCrash
  <2>3. \A e \in Relays : relay'[e].added = relay[e].added \/ relay'[e].added = NoRun
    BY <1>3 DEF RelayClaim, RelayCrash, IdleRelay, TInv, TypeOK
  <2>4. QueueKept
    BY <1>0b, <2>1, <2>2, <2>3 DEF QueueKept
  <2> QED BY <1>0, <2>4, QueueKeptStep
<1>4. ASSUME NEW d \in Relays, NEW r \in Runs, RelayAdd(d, r) PROVE QueueInv'
  <2>1. /\ run' = run /\ dispatch' = dispatch /\ relay' = [relay EXCEPT ![d].added = r]
        /\ job' = [job EXCEPT ![r] = Enqueued(job[r])]
    BY <1>4 DEF RelayAdd
  <2>2. Enqueued(job[r]).state # "none"
    BY DEF TInv, TypeOK, Enqueued, Jobs
  <2>3. job'[r].state # "none"
    BY <2>1, <2>2 DEF TInv, TypeOK
  <2>4. \A e \in Relays : relay'[e].added = relay[e].added \/ relay'[e].added = r
    BY <2>1 DEF TInv, TypeOK, Ticks
  <2>5. \A e \in Relays : relay'[e].added \in Runs => job'[relay'[e].added].state # "none"
    BY <1>0, <2>3, <2>4 DEF JobsStayKnown, QueueInv
  <2>6. DispatchedWasEnqueued'
    BY <1>0, <2>1 DEF JobsStayKnown, QueueInv, DispatchedWasEnqueued
  <2> QED BY <2>5, <2>6 DEF QueueInv
<1>5. ASSUME NEW d \in Relays, NEW r \in Runs, RelayMark(d, r) PROVE QueueInv'
  <2>1. /\ run' = run /\ relay[d].added = r /\ RelayNext(d, r)
        /\ \/ dispatch' = dispatch
           \/ dispatch' = [dispatch EXCEPT ![r] = SettledDispatch(dispatch[r])]
    BY <1>5 DEF RelayMark
  <2>2. job[r].state # "none"
    BY <2>1 DEF QueueInv
  <2>3. \A e \in Relays : relay'[e].added = relay[e].added \/ relay'[e].added = NoRun
    BY <2>1 DEF RelayNext, TInv, TypeOK, Ticks
  <2>4. \A e \in Relays : relay'[e].added \in Runs => job'[relay'[e].added].state # "none"
    BY <1>0, <1>0b, <2>3 DEF JobsStayKnown, QueueInv
  <2>5. \A q \in Runs : q # r => dispatch'[q] = dispatch[q]
    BY <2>1 DEF TInv, TypeOK
  <2>6. DispatchedWasEnqueued'
    BY <1>0, <2>1, <2>2, <2>5 DEF JobsStayKnown, QueueInv, DispatchedWasEnqueued
  <2> QED BY <2>4, <2>6 DEF QueueInv
<1>6. ASSUME NEW d \in Relays, NEW r \in Runs, RelayFail(d, r) PROVE QueueInv'
  <2>1. /\ run' = run /\ RelayNext(d, r)
        /\ \/ dispatch' = dispatch
           \/ dispatch' = [dispatch EXCEPT ![r].status = "pending", ![r].lockedBy = NoProcess,
                                           ![r].lockExpired = FALSE]
    BY <1>6 DEF RelayFail
  <2>2. \A e \in Relays : relay'[e].added = relay[e].added \/ relay'[e].added = NoRun
    BY <2>1 DEF RelayNext, TInv, TypeOK, Ticks
  <2>3. \A q \in Runs : dispatch'[q].status = "dispatched" => dispatch[q].status = "dispatched"
    BY <1>0a, <2>1 DEF TInv, TypeOK, DispatchRows
  <2>4. QueueKept
    BY <1>0b, <2>1, <2>2, <2>3 DEF QueueKept
  <2> QED BY <1>0, <2>4, QueueKeptStep
<1>7. ASSUME NEW r \in Runs, DispatchLockExpires(r) PROVE QueueInv'
  <2>1. /\ run' = run /\ relay' = relay
        /\ dispatch' = [dispatch EXCEPT ![r].lockExpired = TRUE]
    BY <1>7 DEF DispatchLockExpires
  <2>2. \A q \in Runs : dispatch'[q].status = dispatch[q].status
    BY <1>0a, <2>1 DEF TInv, TypeOK, DispatchRows
  <2>3. QueueKept
    BY <2>1, <2>2 DEF QueueKept
  <2> QED BY <1>0, <2>3, QueueKeptStep
<1>8. ASSUME NEW w \in Workers, Project(w) PROVE QueueInv'
  <2> DEFINE r == worker[w].run
  <2>0. r \in Runs /\ relay' = relay
    BY <1>8 DEF TInv, SlotWF, Project, Live
  <2>1. CASE UNCHANGED <<run, dispatch>>
    BY <1>0, <2>0, <2>1, QueueKeptStep DEF QueueKept
  <2>2. CASE run[r].status = "finalizing" /\ ApplyTerminal(r)
    <3>1. PICK row \in RunRows : /\ run' = [run EXCEPT ![r] = row]
                                 /\ row.status = run[r].payload.outcome
      BY <2>0, <2>2, ApplyRow
    <3>2. row.status \notin Active
      BY <2>0, <2>2, <3>1, ApplyRow
    <3>3. dispatch' = [dispatch EXCEPT ![r] = SettledDispatch(dispatch[r])]
      BY <2>2 DEF ApplyTerminal
    <3>4. \A q \in Runs : /\ q # r => dispatch'[q] = dispatch[q] /\ run'[q] = run[q]
                          /\ q = r => run'[q].status \notin Active
      BY <2>0, <3>1, <3>2, <3>3 DEF TInv, TypeOK
    <3>5. QueueKept
      BY <2>0, <3>4 DEF QueueKept
    <3> QED BY <1>0, <3>5, QueueKeptStep
  <2>3. CASE ObsoleteTerminal(r)
    <3>1. ClosedRun(run[r], "cancelled").status = "cancelled"
      BY <1>0a, <2>0, ClosedRow
    <3>2. \A q \in Runs : /\ q # r => dispatch'[q] = dispatch[q] /\ run'[q] = run[q]
                          /\ q = r => run'[q].status \notin Active
      BY <2>0, <2>3, <3>1 DEF ObsoleteTerminal, TInv, TypeOK
    <3>3. QueueKept
      BY <2>0, <3>2 DEF QueueKept
    <3> QED BY <1>0, <3>3, QueueKeptStep
  <2> QED BY <1>8, <2>1, <2>2, <2>3 DEF Project
<1>9. ASSUME dispatch' = dispatch, relay' = relay, NoneReopened PROVE QueueInv'
  <2>1. QueueKept
    BY <1>9 DEF QueueKept
  <2> QED BY <1>0, <2>1, QueueKeptStep
<1>10. ASSUME NEW r \in Runs, LeaseExpires(r) PROVE QueueInv'
  <2>1. /\ dispatch' = dispatch /\ relay' = relay
        /\ run' = [run EXCEPT ![r] = [run[r] EXCEPT !.lease = "expired"]]
    BY <1>10 DEF LeaseExpires, queueVars
  <2>2. NoneReopened
    BY <1>0a, <2>1 DEF TInv, TypeOK, RunRows
  <2> QED BY <1>9, <2>1, <2>2
<1>11. ASSUME NEW w \in Workers,
              ClaimRun(w) \/ Stage(w) \/ ReleaseClaim(w) \/ RenewLease(w)
       PROVE  QueueInv'
  <2> DEFINE r == worker[w].run
  <2>1. dispatch' = dispatch /\ relay' = relay /\ r \in Runs
    BY <1>11 DEF ClaimRun, Stage, ReleaseClaim, RenewLease, queueVars, TInv, SlotWF, Live, Holding
  <2>2. run' = run \/ (run[r].status \in Active /\ \E row : run' = [run EXCEPT ![r] = row])
    BY <1>11 DEF ClaimRun, Claimable, Stage, ReleaseClaim, RenewLease, Active
  <2>3. NoneReopened
    BY <2>1, <2>2 DEF TInv, TypeOK
  <2> QED BY <1>9, <2>1, <2>3
<1>12. ASSUME \/ ReconcilerStep
              \/ \E r \in Runs : JobStalls(r) \/ EvictJob(r) \/ LoseJob(r)
              \/ \E w \in Workers :
                    \/ FindTerminal(w) \/ ClaimUnavailable(w) \/ Abort(w) \/ AdmissionDefers(w) \/ CallProvider(w)
                    \/ ProviderAnswers(w) \/ ExecutionThrows(w) \/ RenewThrows(w)
                    \/ WorkerCrash(w) \/ \E r \in Runs : TakeJob(w, r)
       PROVE  QueueInv'
  <2>1. dispatch' = dispatch /\ relay' = relay /\ run' = run
    BY <1>12
    DEF ReconcilerStep, ReconcilePage, ReconcileDispatch, JobStalls, EvictJob, LoseJob,
        FindTerminal, ClaimUnavailable, Abort, AdmissionDefers, CallProvider, ProviderAnswers, ExecutionThrows,
        RenewThrows, WorkerCrash, TakeJob, queueVars
  <2>2. NoneReopened
    BY <2>1
  <2> QED BY <1>9, <2>1, <2>2
<1> QED BY <1>1, <1>2, <1>3, <1>4, <1>5, <1>6, <1>7, <1>8, <1>10, <1>11, <1>12
  DEF Next, UserStep, TimeStep, RelayStep, WorkerStep, FaultStep

\* A dispatch row of an active run says "dispatched" only after its job was handed
\* to BullMQ: the relay adds first and marks second, and every settlement that
\* marks without adding closes the run.
THEOREM DispatchedAfterEnqueue == Spec => []DispatchedWasEnqueued
<1>1. Init => QueueInv
  <2>1. NoRun \notin Runs
    BY RunsAssumption DEF NoRun
  <2> QED BY <2>1 DEF Init, QueueInv, DispatchedWasEnqueued, IdleRelay
<1>2. TInv /\ QueueInv /\ [Next]_vars => QueueInv'
  <2>1. ASSUME QueueInv, UNCHANGED vars PROVE QueueInv'
    BY <2>1 DEF vars, QueueInv, DispatchedWasEnqueued
  <2> QED BY <2>1, QueueSteps
<1>3. QueueInv => DispatchedWasEnqueued
  BY DEF QueueInv
<1> QED BY <1>1, <1>2, <1>3, TypeInvariant, PTL DEF Spec
=============================================================================
