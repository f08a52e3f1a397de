--------------------------- MODULE AccountCredits ---------------------------
(***************************************************************************)
(* The credits of one account, and how the usage that the model gateway of *)
(* the code agents reports becomes a charge.                               *)
(*                                                                         *)
(* The gateway writes a usage to a Redis hash, settles it in PostgreSQL    *)
(* and removes it from the hash; what stays there is settled by a timer.   *)
(* Every account transaction first reconciles the monthly allowance to the *)
(* month of the time it carries.  That time is read before the transaction *)
(* waits for its locks, so shortly after midnight a transaction may still  *)
(* carry the old month although another has begun the new one.             *)
(***************************************************************************)
EXTENDS Integers, FiniteSets, FiniteSetsExt

CONSTANTS
    Usages,         \* usages to be charged to the account
    RoomUsages,     \* usages to be added to the cost of their room
    CostOf,         \* what each costs
    Allowance,      \* FREE_MONTHLY_CREDIT_USD
    Credit,         \* what the membership change adds
    Passes,         \* passes of the timer that may be under way at once
    BatchSize,      \* entries of a hash that one pass looks at
    MaxMonth,       \* bound: months
    MaxLate,        \* bound: transactions of a month that commit in the next
    MaxTrouble      \* bound: faults and changes of the plan

Entries == Usages \union RoomUsages

ASSUME CreditsAssumption ==
    /\ IsFiniteSet(Entries) /\ Usages \intersect RoomUsages = {}
    /\ CostOf \in [Entries -> Nat \ {0}]
    /\ {Allowance, Credit, BatchSize, MaxMonth} \subseteq Nat \ {0}
    /\ {MaxLate, MaxTrouble} \subseteq Nat

VARIABLES
    month, late,    \* the UTC month; transactions that still carry the one before
    plan,           \* effective membership, or the administrator's role
    books,          \* account_credit_balances
    ledger,         \* account_credit_ledger: amounts by idempotency key
    charged,        \* account_ai_usage_events: the credit applied, -1 for no row
    rooms,          \* whether the rooms exist, room_ai_usage_events, their cost
    gateway,        \* per usage: how far the gateway's own attempt has come
    pending,        \* the Redis hashes
    batch,          \* per pass of the timer: entries read and not yet tried
    trouble

accountVars == <<plan, books, ledger, charged>>
vars == <<month, late, plan, books, ledger, charged, rooms, gateway, pending, batch, trouble>>

Plans == {"free", "paid", "admin"}
Months == 1 .. MaxMonth
NoMonth == 0
NoCharge == -1

\* Idempotency keys of the ledger.
Keys == ({"grant", "expiration"} \X Months) \union {<<"membership", NoMonth>>}

TypeOK ==
    /\ month \in Months /\ late \in 0 .. MaxLate /\ trouble \in 0 .. MaxTrouble
    /\ plan \in Plans
    /\ books \in [available : Nat, period : Months \union {NoMonth},
                  granted : 0 .. Allowance, remaining : 0 .. Allowance]
    /\ ledger \in [Keys -> Int]
    /\ charged \in [Usages -> Nat \union {NoCharge}]
    /\ rooms \in [exist : BOOLEAN, settled : SUBSET RoomUsages, total : Nat]
    /\ gateway \in [Entries -> {"idle", "queued", "unqueued", "done"}]
    /\ pending \subseteq Entries
    /\ batch \in [Passes -> SUBSET Entries]

Init ==
    /\ month = 1 /\ late = 0
    /\ plan \in Plans
    /\ books = [available |-> 0, period |-> NoMonth, granted |-> 0, remaining |-> 0]
    /\ ledger = [k \in Keys |-> 0]
    /\ charged = [u \in Usages |-> NoCharge]
    /\ rooms = [exist |-> TRUE, settled |-> {}, total |-> 0]
    /\ gateway = [e \in Entries |-> "idle"]
    /\ pending = {} /\ batch = [p \in Passes |-> {}]
    /\ trouble = 0

Trouble == trouble < MaxTrouble /\ trouble' = trouble + 1

-----------------------------------------------------------------------------
(* Time.                                                                   *)

Midnight ==
    /\ month < MaxMonth
    /\ month' = month + 1
    /\ late' = MaxLate
    /\ UNCHANGED <<plan, books, ledger, charged, rooms, gateway, pending, batch, trouble>>

\* A transaction that commits now carries the time n.
Carries(n) ==
    \/ n = month /\ UNCHANGED late
    \/ n = month - 1 /\ late > 0 /\ late' = late - 1

-----------------------------------------------------------------------------
(* reconcileMonthlyFreeCredits, as part of a transaction that carries n.   *)

\* Mutant of Expiring: everything granted expires, spent or not.
Expiring_Granted(n) == IF books.period \in {n, NoMonth} THEN 0 ELSE books.granted

\* The unused part of another month's allowance.
Expiring(n) == IF books.period \in {n, NoMonth} THEN 0 ELSE books.remaining
KeptGrant(n) == IF books.period = n THEN books.granted ELSE 0
KeptRemaining(n) == IF books.period = n THEN books.remaining ELSE 0
Granting(n, p) == IF p = "free" THEN Allowance - KeptGrant(n) ELSE 0

\* The ledger refuses a second row with the key of a month's grant or expiration:
\* the transaction fails, and will fail as long as nothing else changes.
Clashes(n, p) ==
    \/ Expiring(n) > 0 /\ ledger[<<"expiration", books.period>>] # 0
    \/ Granting(n, p) > 0 /\ ledger[<<"grant", n>>] # 0

\* Mutant of Reconciled: what expires is not taken from the balance.
Reconciled_KeepsExpired(b, n, p) ==
    [available |-> b.available + Granting(n, p),
     period    |-> n,
     granted   |-> KeptGrant(n) + Granting(n, p),
     remaining |-> KeptRemaining(n) + Granting(n, p)]

\* What becomes of the balance b.
Reconciled(b, n, p) ==
    [available |-> Max({0, b.available - Expiring(n)}) + Granting(n, p),
     period    |-> n,
     granted   |-> KeptGrant(n) + Granting(n, p),
     remaining |-> KeptRemaining(n) + Granting(n, p)]

LedgerAfter(n, p) ==
    [k \in Keys |->
        ledger[k] + (IF k = <<"grant", n>> THEN Granting(n, p) ELSE 0)
                  - (IF k = <<"expiration", books.period>> THEN Expiring(n) ELSE 0)]

\* An entitlement is read: for a request, or to schedule a run.
ReadEntitlement(n) ==
    /\ Carries(n)
    /\ ~Clashes(n, plan)
    /\ books' = Reconciled(books, n, plan)
    /\ ledger' = LedgerAfter(n, plan)
    /\ UNCHANGED <<month, plan, charged, rooms, gateway, pending, batch, trouble>>

\* A paid membership begins: the credit is added and the month reconciled in one
\* transaction.  The webhook may deliver the same change again, which changes
\* nothing.
ApplyMembershipChange(n) ==
    LET key == <<"membership", NoMonth>> IN
    /\ Carries(n)
    /\ ledger[key] = 0
    /\ ~Clashes(n, "paid")
    /\ plan' = IF plan = "admin" THEN plan ELSE "paid"
    /\ books' = Reconciled([books EXCEPT !.available = @ + Credit], n, "paid")
    /\ ledger' = [LedgerAfter(n, "paid") EXCEPT ![key] = Credit]
    /\ UNCHANGED <<month, charged, rooms, gateway, pending, batch, trouble>>

\* A membership ends, or a role is given: no credit moves.
ChangePlan ==
    /\ plan' \in Plans \ {plan}
    /\ Trouble
    /\ UNCHANGED <<month, late, books, ledger, charged, rooms, gateway, pending, batch>>

-----------------------------------------------------------------------------
(* Settling.                                                               *)

Min2(a, b) == IF a < b THEN a ELSE b

\* settleAccountAIUsage: reconciles, and charges the usage if it has no row yet;
\* the monthly part of the balance is used up first.
AccountSettles(u, n) ==
    LET now    == Reconciled(books, n, plan)
        credit == IF plan = "admin" THEN 0 ELSE Min2(now.available, CostOf[u])
    IN
    /\ ~Clashes(n, plan)
    /\ ledger' = LedgerAfter(n, plan)
    /\ IF charged[u] # NoCharge
       THEN books' = now /\ UNCHANGED charged
       ELSE /\ charged' = [charged EXCEPT ![u] = credit]
            /\ books' = [now EXCEPT !.available = @ - credit,
                                    !.remaining = @ - Min2(@, credit)]
    /\ UNCHANGED <<plan, rooms>>

\* settleRoomAIUsage: adds the cost once, and fails when the room is gone.
RoomSettles(u) ==
    /\ rooms.exist
    /\ IF u \in rooms.settled
       THEN UNCHANGED rooms
       ELSE rooms' = [rooms EXCEPT !.settled = @ \union {u}, !.total = @ + CostOf[u]]
    /\ UNCHANGED accountVars

\* The transaction for an entry commits.
Settles(e) ==
    \/ e \in Usages /\ \E n \in Months : Carries(n) /\ AccountSettles(e, n)
    \/ e \in RoomUsages /\ RoomSettles(e) /\ UNCHANGED late

\* It cannot commit as things stand.
CannotSettle(e) ==
    \/ e \in Usages /\ Clashes(month, plan)
    \/ e \in RoomUsages /\ ~rooms.exist

Fails(e) ==
    /\ \/ CannotSettle(e) /\ UNCHANGED trouble
       \/ ~CannotSettle(e) /\ Trouble
    /\ UNCHANGED <<accountVars, rooms, late>>

\* The provider has answered: the usage is written to the hash, unless Redis fails.
Enqueue(e) ==
    /\ gateway[e] = "idle"
    /\ \/ /\ gateway' = [gateway EXCEPT ![e] = "queued"]
          /\ pending' = pending \union {e}
          /\ UNCHANGED trouble
       \/ /\ gateway' = [gateway EXCEPT ![e] = "unqueued"]
          /\ Trouble
          /\ UNCHANGED pending
    /\ UNCHANGED <<month, late, accountVars, rooms, batch>>

\* The gateway settles at once and removes the entry.  If it stops, or loses the
\* answer of PostgreSQL or of Redis, a queued entry stays for the timer; one that
\* could not be queued is lost if it cannot be settled either.
SettleNow(e) ==
    /\ gateway[e] \in {"queued", "unqueued"}
    /\ gateway' = [gateway EXCEPT ![e] = "done"]
    /\ \/ Settles(e) /\ pending' = pending \ {e} /\ UNCHANGED trouble
       \/ Settles(e) /\ UNCHANGED pending /\ Trouble
       \/ Fails(e) /\ UNCHANGED pending
    /\ UNCHANGED <<month, batch>>

\* A pass of the timer reads up to BatchSize entries of each hash, in the order of
\* the scan.  It does not wait for the pass before it.
Drain(p) ==
    /\ batch[p] = {} /\ pending # {}
    /\ \E s \in SUBSET pending :
        /\ \A hash \in {Usages, RoomUsages} :
             Cardinality(s \intersect hash) = Min2(BatchSize, Cardinality(pending \intersect hash))
        /\ batch' = [batch EXCEPT ![p] = s]
    /\ UNCHANGED <<month, late, accountVars, rooms, gateway, pending, trouble>>

\* Mutant of DrainOne: an entry is removed although it was not settled.
DrainOne_RemovesFailed(p, e) ==
    /\ e \in batch[p]
    /\ batch' = [batch EXCEPT ![p] = @ \ {e}]
    /\ \/ Settles(e) /\ UNCHANGED trouble
       \/ Fails(e)
    /\ pending' = pending \ {e}
    /\ UNCHANGED <<month, gateway>>

\* It settles them one by one and removes those that were settled.
DrainOne(p, e) ==
    /\ e \in batch[p]
    /\ batch' = [batch EXCEPT ![p] = @ \ {e}]
    /\ \/ Settles(e) /\ pending' = pending \ {e} /\ UNCHANGED trouble
       \/ Settles(e) /\ UNCHANGED pending /\ Trouble
       \/ Fails(e) /\ UNCHANGED pending
    /\ UNCHANGED <<month, gateway>>

\* The room is deleted, with its cost and usage rows.
DeleteRoom ==
    /\ rooms.exist
    /\ rooms' = [exist |-> FALSE, settled |-> {}, total |-> 0]
    /\ UNCHANGED <<month, late, accountVars, gateway, pending, batch, trouble>>

Next ==
    \/ Midnight \/ ChangePlan \/ DeleteRoom
    \/ \E n \in Months : ReadEntitlement(n) \/ ApplyMembershipChange(n)
    \/ \E e \in Entries : Enqueue(e) \/ SettleNow(e)
    \/ \E p \in Passes : Drain(p) \/ \E e \in Entries : DrainOne(p, e)

Spec == Init /\ [][Next]_vars

\* The timer goes on; nothing is assumed of the gateway, which may stop.
Fairness ==
    \A p \in Passes :
        /\ WF_vars(Drain(p))
        /\ \A e \in Entries : WF_vars(DrainOne(p, e))

LiveSpec == Spec /\ Fairness

-----------------------------------------------------------------------------
(* Properties.                                                             *)

CreditApplied == [u \in Usages |-> IF charged[u] = NoCharge THEN 0 ELSE charged[u]]

\* However allowances, expirations, grants and charges interleave, also across the
\* turn of a month: what is left of the account is what its ledger adds up to less
\* the credit its usages were charged, each once; the part of it that expires is
\* no more than that; and a room's cost is the sum of its usages.
\* (account_credit_balances against account_credit_ledger and account_ai_usage_events)
BooksBalance ==
    /\ books.available = SumFunctionOnSet(ledger, Keys)
                         - SumFunctionOnSet(CreditApplied, Usages)
    /\ books.remaining <= Min2(books.available, books.granted)
    /\ rooms.total = SumFunctionOnSet(CostOf, rooms.settled)

\* No step but a charge takes credit that was paid for: a new month takes only what
\* is left of the allowance.  (postgresStore.ts, reconcileMonthlyFreeCredits)
PaidCreditIsKept ==
    [][charged' = charged
        => books'.available - books'.remaining >= books.available - books.remaining]_vars

Settled(e) == IF e \in Usages THEN charged[e] # NoCharge ELSE e \in rooms.settled

\* A usage that reached Redis is settled, whatever fails before: unless its room is
\* gone, or the account can have no transaction this month.
\* (accountAIUsageSettlementQueue.ts, roomAIUsageSettlementQueue.ts)
UsageIsSettled ==
    \A e \in Entries : e \in pending ~> (Settled(e) \/ CannotSettle(e))
=============================================================================
