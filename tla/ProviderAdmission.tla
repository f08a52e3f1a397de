------------------------- MODULE ProviderAdmission -------------------------
(***************************************************************************)
(* Admission to one model provider: RedisProviderAdmissionController and   *)
(* its two users, the job handler of the AI worker (which asks under the   *)
(* id of its run and delays the job when refused) and the model gateway of *)
(* the code agents (which asks under a fresh id and polls).                *)
(*                                                                         *)
(* A Lua script is one action.  Expiry is a step of its own: an entry that *)
(* is overdue is gone for every script that runs afterwards, except that a *)
(* renewal of a live holder or the next poll of a live waiter keeps it, so *)
(* that losing an entry to expiry while its owner is alive is a fault.     *)
(***************************************************************************)
EXTENDS Naturals, FiniteSets

CONSTANTS
    Callers,        \* job attempts and gateway requests, each made once
    Ids,            \* what they are called in Redis
    IdOf,           \* [Callers -> Ids]: the attempts of one run share an id
    Priority,       \* [Ids -> Nat]: smaller goes first
    Gateway,        \* the callers that are gateway requests
    MaxConcurrent,  \* limits of the provider; 0 is no limit
    MaxPerSecond,
    Tolerated,      \* the kinds of faults that may happen, once each
    MaxFaults       \* bound: how many of them

ASSUME AdmissionAssumption ==
    /\ IdOf \in [Callers -> Ids]
    /\ Priority \in [Ids -> Nat]
    /\ Gateway \subseteq Callers
    /\ MaxConcurrent \in Nat /\ MaxPerSecond \in Nat /\ MaxFaults \in Nat

VARIABLES
    caller,     \* where each caller stands
    wait,       \* the wait queue: the ticket of each id, 0 for one that does not wait
    sequence,   \* the counter the tickets are drawn from
    slots,      \* the concurrency set: ids whose lease has not expired
    recent,     \* the rate set: ids admitted less than a second ago
    faults,     \* the faults that have happened
    before      \* history: <<i, j>> if j was queued while i waited, and both still wait

vars == <<caller, wait, sequence, slots, recent, faults, before>>

TypeOK ==
    /\ caller \in [Callers -> {"new", "asking", "calling", "streaming", "done"}]
    /\ wait \in [Ids -> Nat]
    /\ sequence \in Nat
    /\ slots \subseteq Ids
    /\ recent \subseteq Ids
    /\ faults \subseteq Tolerated
    /\ before \subseteq Ids \X Ids

Init ==
    /\ caller = [c \in Callers |-> "new"]
    /\ wait = [i \in Ids |-> 0]
    /\ sequence = 0
    /\ slots = {} /\ recent = {}
    /\ faults = {}
    /\ before = {}

Waiting(w) == {i \in Ids : w[i] # 0}

Becomes(c, at) == caller' = [caller EXCEPT ![c] = at]

Fault(kind) ==
    /\ kind \in Tolerated \ faults
    /\ Cardinality(faults) < MaxFaults
    /\ faults' = faults \union {kind}

-----------------------------------------------------------------------------
(* The scripts.                                                            *)

\* The queue and the counter once i stands in it: a ticket is drawn only by an
\* id that has none, and the counter starts again when nobody waits.
NextTicket == IF Waiting(wait) = {} THEN 1 ELSE sequence + 1
QueueWith(i) == IF wait[i] # 0 THEN wait ELSE [wait EXCEPT ![i] = NextTicket]
SequenceWith(i) == IF wait[i] # 0 THEN sequence ELSE NextTicket
BeforeWith(i) == IF wait[i] # 0 THEN before ELSE before \union (Waiting(wait) \X {i})

\* Mutant of SequenceOf: the counter is deleted although others wait.
SequenceOf_Deleted(w, n) == 0

\* The counter after ids have left the queue.
SequenceOf(w, n) == IF Waiting(w) = {} THEN 0 ELSE n

\* The score of a waiter is its priority, then its ticket.
Precedes(w, i, j) ==
    Priority[i] < Priority[j] \/ (Priority[i] = Priority[j] /\ w[i] < w[j])
IsFirst(w, i) == \A j \in Waiting(w) \ {i} : Precedes(w, i, j)

\* Mutant of HasSlot: the comparison is off by one.
HasSlot_OneMore == MaxConcurrent = 0 \/ Cardinality(slots) <= MaxConcurrent

HasSlot == MaxConcurrent = 0 \/ Cardinality(slots) < MaxConcurrent
HasRate == MaxPerSecond = 0 \/ Cardinality(recent) < MaxPerSecond

Admits(i) == IsFirst(QueueWith(i), i) /\ HasSlot /\ HasRate

\* ACQUIRE, when it answers 1.
Grant(i) ==
    /\ Admits(i)
    /\ LET left == [QueueWith(i) EXCEPT ![i] = 0] IN
       /\ wait' = left
       /\ sequence' = SequenceOf(left, SequenceWith(i))
    /\ slots' = slots \union {i}
    /\ recent' = recent \union {i}
    /\ before' = {p \in BeforeWith(i) : i \notin {p[1], p[2]}}

\* ACQUIRE, when it answers 0: the caller is queued, or stays where it was.
Refuse(i) ==
    /\ ~Admits(i)
    /\ wait' = QueueWith(i)
    /\ sequence' = SequenceWith(i)
    /\ before' = BeforeWith(i)
    /\ UNCHANGED <<slots, recent>>

\* CANCEL, and the removal of waiters that are overdue.
LeaveQueue(i, n) ==
    LET left == [wait EXCEPT ![i] = 0] IN
    /\ wait' = left
    /\ sequence' = n
    /\ before' = {p \in before : i \notin {p[1], p[2]}}
    /\ UNCHANGED <<slots, recent>>
Cancel(i) == LeaveQueue(i, SequenceOf([wait EXCEPT ![i] = 0], sequence))

\* RELEASE.  The slot has the id's name, not the attempt's.
Release(i) ==
    /\ slots' = slots \ {i}
    /\ UNCHANGED <<wait, sequence, recent, before>>

RedisUnchanged == UNCHANGED <<wait, sequence, slots, recent, before>>

-----------------------------------------------------------------------------
(* The callers.                                                            *)

Active(c) == caller[c] \in {"asking", "calling"}
Namesakes(c) == {d \in Callers \ {c} : IdOf[d] = IdOf[c]}

\* A job starts when no other attempt of its run is active; only a stalled job,
\* whose lock was lost while its handler went on, has two.
Start(c) ==
    /\ caller[c] = "new"
    /\ \/ (\A d \in Namesakes(c) : ~Active(d)) /\ UNCHANGED faults
       \/ (\E d \in Namesakes(c) : Active(d)) /\ Fault("stall")
    /\ Becomes(c, "asking")
    /\ RedisUnchanged

\* One call of ACQUIRE: the caller goes ahead, or asks again later (the gateway
\* after at most 100 ms, the worker when the delayed job comes back).
Poll(c) ==
    /\ caller[c] = "asking"
    /\ \/ Grant(IdOf[c]) /\ Becomes(c, "calling")
       \/ Refuse(IdOf[c]) /\ UNCHANGED caller
    /\ UNCHANGED faults

\* The answer of ACQUIRE is lost.  The gateway gives up and cancels its place in
\* the queue; the worker's job fails.  A slot that was granted stays behind.
PollLost(c) ==
    /\ caller[c] = "asking"
    /\ Fault("lost")
    /\ Grant(IdOf[c]) \/ Refuse(IdOf[c]) \/ (c \in Gateway /\ Cancel(IdOf[c]))
    /\ Becomes(c, "done")

\* The browser or the sandbox goes away, or the run is found closed.
Withdraw(c) ==
    /\ caller[c] = "asking"
    /\ Cancel(IdOf[c])
    /\ Becomes(c, "done")
    /\ UNCHANGED faults

\* The provider has answered, or the call is aborted: the lease is released.  The
\* release may fail, and is not tried again.
Finish(c) ==
    /\ caller[c] = "calling"
    /\ \/ Release(IdOf[c]) /\ UNCHANGED faults
       \/ RedisUnchanged /\ Fault("lost")
    /\ Becomes(c, "done")

\* A gateway request whose answer is an event stream: handleProxyRequest returns
\* the promise of the relayed stream, so its finally block releases at once.
Stream(c) ==
    /\ caller[c] = "calling"
    /\ c \in Gateway
    /\ Release(IdOf[c])
    /\ Becomes(c, "streaming")
    /\ UNCHANGED faults

StreamEnds(c) ==
    /\ caller[c] = "streaming"
    /\ Becomes(c, "done")
    /\ RedisUnchanged
    /\ UNCHANGED faults

\* The process stops.
Crash(c) ==
    /\ Active(c)
    /\ Fault("crash")
    /\ Becomes(c, "done")
    /\ RedisUnchanged

-----------------------------------------------------------------------------
(* Time.                                                                   *)

\* Mutant of Deserted: an id that somebody asked under before is not forgotten.
Deserted_Never(i, at) == FALSE

\* Nobody polls, or renews, under this id any more.
Deserted(i, at) == \A c \in Callers : IdOf[c] = i => caller[c] # at

\* 120 seconds without a poll.
WaiterExpires(i) ==
    /\ wait[i] # 0
    /\ \/ Deserted(i, "asking") /\ UNCHANGED faults
       \/ ~Deserted(i, "asking") /\ Fault("slow")
    /\ LeaveQueue(i, sequence)
    /\ UNCHANGED caller

\* 120 seconds without a renewal.
SlotExpires(i) ==
    /\ i \in slots
    /\ \/ Deserted(i, "calling") /\ UNCHANGED faults
       \/ ~Deserted(i, "calling") /\ Fault("slow")
    /\ Release(i)
    /\ UNCHANGED caller

\* One second.
SecondPasses(i) ==
    /\ i \in recent
    /\ recent' = recent \ {i}
    /\ UNCHANGED <<caller, wait, sequence, slots, faults, before>>

\* Everybody has been served: the model's callers ask once.
Finished ==
    /\ \A c \in Callers : caller[c] = "done"
    /\ UNCHANGED vars

CallerStep(c) ==
    \/ Start(c) \/ Poll(c) \/ PollLost(c) \/ Withdraw(c)
    \/ Finish(c) \/ Stream(c) \/ StreamEnds(c) \/ Crash(c)

TimeStep(i) == WaiterExpires(i) \/ SlotExpires(i) \/ SecondPasses(i)

Next ==
    \/ \E c \in Callers : CallerStep(c)
    \/ \E i \in Ids : TimeStep(i)
    \/ Finished

Spec == Init /\ [][Next]_vars

\* Callers that live go on polling, calls end, and time passes; nobody is obliged
\* to ask, to withdraw or to fail.
Fairness ==
    /\ \A c \in Callers :
          /\ WF_vars(Poll(c))
          /\ WF_vars(Finish(c) /\ UNCHANGED faults)
    /\ \A i \in Ids :
          /\ WF_vars(WaiterExpires(i) /\ UNCHANGED faults)
          /\ WF_vars(SlotExpires(i) /\ UNCHANGED faults)
          /\ WF_vars(SecondPasses(i))

LiveSpec == Spec /\ Fairness

-----------------------------------------------------------------------------
\* No more calls than the provider allows run at the same time, crashes, lost
\* answers and leaked slots included; only a lease that expires under its holder,
\* and two attempts of one run in one slot, can exceed the limit.  (Streams that
\* are relayed after the release are not calls in this sense: see the README.)
CallsAreLimited ==
    (MaxConcurrent # 0 /\ faults \intersect {"slow", "stall"} = {}) =>
        Cardinality({c \in Callers : caller[c] = "calling"}) <= MaxConcurrent

\* Whoever is admitted leaves behind only waiters of a later priority, or of the
\* same priority that were queued after it: the scores drawn from a counter that
\* is deleted and starts again never turn the order around.
NoOvertaking ==
    [][\A i \in Ids :
          (\E c \in Callers : IdOf[c] = i /\ caller[c] = "asking" /\ caller'[c] = "calling") =>
              \A j \in Waiting(wait) \ {i} :
                  Priority[i] < Priority[j] \/ (Priority[i] = Priority[j] /\ <<i, j>> \in before)]_vars

\* Who goes on asking is admitted, although slots and places in the queue are left
\* behind by callers that died, gave up or never heard of their admission.
WaitersAreServed ==
    \A c \in Callers : caller[c] = "asking" ~> caller[c] # "asking"
=============================================================================
