---------------------- MODULE ProviderAdmissionProofs ----------------------
(***************************************************************************)
(* For any number of callers and any limits: the limit on calls holds, and *)
(* nobody is overtaken.  The first follows from slots that belong to one   *)
(* caller each while no lease expires early and no attempt has a double;   *)
(* the second from tickets that grow with the queue, although the counter  *)
(* they are drawn from is deleted and starts again.                        *)
(***************************************************************************)
EXTENDS ProviderAdmission, FiniteSetTheorems, TLAPS

\* The ticket order of a queue is its history's order, and the counter is ahead of
\* every ticket.
QueueOK(w, n, b) ==
    /\ w \in [Ids -> Nat] /\ n \in Nat /\ b \subseteq Ids \X Ids
    /\ \A i \in Ids : w[i] <= n
    /\ \A i, j \in Ids : (w[i] # 0 /\ w[i] < w[j]) => <<i, j>> \in b

QueueInv == QueueOK(wait, sequence, before)

SlotsInv ==
    /\ slots \subseteq Ids /\ IsFiniteSet(slots)
    /\ MaxConcurrent # 0 => Cardinality(slots) <= MaxConcurrent

\* Without stalls and early expiry a slot stands for one call.
CallsInv ==
    faults \intersect {"slow", "stall"} = {} =>
        \A c \in Callers :
            /\ caller[c] = "calling" => IdOf[c] \in slots
            /\ \A d \in Callers : (Active(c) /\ Active(d) /\ IdOf[c] = IdOf[d]) => c = d

CallerTypes ==
    /\ caller \in [Callers -> {"new", "asking", "calling", "streaming", "done"}]
    /\ recent \subseteq Ids
    /\ faults \subseteq Tolerated

AdmissionInv == CallerTypes /\ QueueInv /\ SlotsInv /\ CallsInv

-----------------------------------------------------------------------------
(* The queue.                                                              *)

\* Joining keeps the order: a new ticket is larger than every other.
LEMMA QueueJoin ==
    ASSUME NEW i \in Ids, QueueInv
    PROVE  QueueOK(QueueWith(i), SequenceWith(i), BeforeWith(i))
<1>1. CASE wait[i] # 0
  BY <1>1 DEF QueueInv, QueueWith, SequenceWith, BeforeWith
<1>2. CASE wait[i] = 0
  <2> DEFINE w == [wait EXCEPT ![i] = NextTicket]
             b == before \union (Waiting(wait) \X {i})
  <2>0. wait \in [Ids -> Nat] /\ sequence \in Nat /\ before \subseteq Ids \X Ids
    BY DEF QueueInv, QueueOK
  <2>1. NextTicket \in Nat /\ \A j \in Ids : wait[j] < NextTicket
    BY <2>0 DEF QueueInv, QueueOK, NextTicket, Waiting
  <2>2. \A j \in Ids : w[j] = IF j = i THEN NextTicket ELSE wait[j]
    BY <2>0
  <2>3. \A j \in Ids : w[j] <= NextTicket
    BY <2>0, <2>1, <2>2
  <2>4. ASSUME NEW j \in Ids, NEW k \in Ids, w[j] # 0, w[j] < w[k]
        PROVE  <<j, k>> \in b
    <3>1. j # i
      BY <2>0, <2>1, <2>2, <2>4
    <3>2. CASE k = i
      BY <2>2, <2>4, <3>1, <3>2 DEF Waiting
    <3>3. CASE k # i
      BY <2>2, <2>4, <3>1, <3>3 DEF QueueInv, QueueOK
    <3> QED  BY <3>2, <3>3
  <2>5. w \in [Ids -> Nat] /\ b \subseteq Ids \X Ids
    BY <2>0, <2>1 DEF Waiting
  <2>6. QueueOK(w, NextTicket, b)
    BY <2>1, <2>3, <2>4, <2>5 DEF QueueOK
  <2> QED  BY <1>2, <2>6 DEF QueueWith, SequenceWith, BeforeWith
<1> QED  BY <1>1, <1>2

\* Leaving keeps it too, whether the counter is kept or deleted with the last one.
LEMMA QueuePart ==
    ASSUME NEW w, NEW n, NEW b, NEW i \in Ids, QueueOK(w, n, b)
    PROVE  LET left == [w EXCEPT ![i] = 0]
               rest == {p \in b : i \notin {p[1], p[2]}}
           IN  QueueOK(left, n, rest) /\ QueueOK(left, SequenceOf(left, n), rest)
<1> DEFINE left == [w EXCEPT ![i] = 0]
           rest == {p \in b : i \notin {p[1], p[2]}}
<1>0. w \in [Ids -> Nat] /\ n \in Nat /\ b \subseteq Ids \X Ids
  BY DEF QueueOK
<1>1. \A j \in Ids : left[j] = IF j = i THEN 0 ELSE w[j]
  BY <1>0
<1>2. left \in [Ids -> Nat] /\ rest \subseteq Ids \X Ids
  BY <1>0
<1>3. \A j \in Ids : left[j] <= n
  BY <1>0, <1>1 DEF QueueOK
<1>4. ASSUME NEW j \in Ids, NEW k \in Ids, left[j] # 0, left[j] < left[k]
      PROVE  <<j, k>> \in rest
  <2>1. j # i /\ k # i /\ w[j] # 0 /\ w[j] < w[k]
    BY <1>0, <1>1, <1>4
  <2> QED  BY <2>1 DEF QueueOK
<1>5. QueueOK(left, n, rest)
  BY <1>0, <1>2, <1>3, <1>4 DEF QueueOK
<1>6. SequenceOf(left, n) \in Nat /\ \A j \in Ids : left[j] <= SequenceOf(left, n)
  BY <1>0, <1>2, <1>3 DEF SequenceOf, Waiting
<1>7. QueueOK(left, SequenceOf(left, n), rest)
  BY <1>2, <1>4, <1>6 DEF QueueOK
<1> QED  BY <1>5, <1>7

-----------------------------------------------------------------------------
(* Steps.                                                                  *)

\* Every step is one script of the admission queue or slots, or none.
LEMMA OneScript ==
    ASSUME [Next]_vars
    PROVE  \/ UNCHANGED <<wait, sequence, slots, before>>
           \/ \E i \in Ids : \/ Grant(i) \/ Refuse(i) \/ Cancel(i)
                             \/ LeaveQueue(i, sequence) \/ Release(i)
<1>1. ASSUME NEW c \in Callers, CallerStep(c)
      PROVE  \/ UNCHANGED <<wait, sequence, slots, before>>
             \/ \E i \in Ids : Grant(i) \/ Refuse(i) \/ Cancel(i) \/ Release(i)
  <2> IdOf[c] \in Ids
    BY AdmissionAssumption
  <2>1. CASE Start(c) \/ StreamEnds(c) \/ Crash(c)
    BY <2>1 DEF Start, StreamEnds, Crash, RedisUnchanged
  <2>2. CASE Poll(c) \/ PollLost(c) \/ Withdraw(c)
    BY <2>2 DEF Poll, PollLost, Withdraw
  <2>3. CASE Finish(c) \/ Stream(c)
    BY <2>3 DEF Finish, Stream, RedisUnchanged
  <2> QED  BY <1>1, <2>1, <2>2, <2>3 DEF CallerStep
<1>2. ASSUME NEW i \in Ids, TimeStep(i)
      PROVE  \/ UNCHANGED <<wait, sequence, slots, before>>
             \/ LeaveQueue(i, sequence) \/ Release(i)
  BY <1>2 DEF TimeStep, WaiterExpires, SlotExpires, SecondPasses
<1>3. CASE Finished \/ UNCHANGED vars
  BY <1>3 DEF Finished, vars
<1> QED  BY <1>1, <1>2, <1>3 DEF Next

\* The queue keeps its order.
LEMMA QueueStep == QueueInv /\ [Next]_vars => QueueInv'
<1> SUFFICES ASSUME QueueInv, [Next]_vars PROVE QueueInv'
  OBVIOUS
<1>1. CASE UNCHANGED <<wait, sequence, slots, before>>
  BY <1>1 DEF QueueInv
<1>2. ASSUME NEW i \in Ids, Grant(i) PROVE QueueInv'
  <2>1. QueueOK(QueueWith(i), SequenceWith(i), BeforeWith(i))
    BY QueueJoin
  <2> DEFINE left == [QueueWith(i) EXCEPT ![i] = 0]
  <2>2. QueueOK(left, SequenceOf(left, SequenceWith(i)),
                {p \in BeforeWith(i) : i \notin {p[1], p[2]}})
    BY <2>1, QueuePart
  <2>3. /\ wait' = left /\ sequence' = SequenceOf(left, SequenceWith(i))
        /\ before' = {p \in BeforeWith(i) : i \notin {p[1], p[2]}}
    BY <1>2 DEF Grant
  <2> HIDE DEF left
  <2> QED  BY <2>2, <2>3 DEF QueueInv
<1>3. ASSUME NEW i \in Ids, Refuse(i) PROVE QueueInv'
  BY <1>3, QueueJoin DEF Refuse, QueueInv
<1>4. ASSUME NEW i \in Ids, Cancel(i) \/ LeaveQueue(i, sequence) PROVE QueueInv'
  BY <1>4, QueuePart DEF Cancel, LeaveQueue, QueueInv
<1>5. ASSUME NEW i \in Ids, Release(i) PROVE QueueInv'
  BY <1>5 DEF Release, QueueInv
<1> QED  BY <1>1, <1>2, <1>3, <1>4, <1>5, OneScript

\* The concurrency set stays within the limit.
LEMMA SlotsStep == SlotsInv /\ [Next]_vars => SlotsInv'
<1> SUFFICES ASSUME SlotsInv, [Next]_vars PROVE SlotsInv'
  OBVIOUS
<1>0. Cardinality(slots) \in Nat /\ MaxConcurrent \in Nat
  BY FS_CardinalityType, AdmissionAssumption DEF SlotsInv
<1>1. ASSUME NEW i \in Ids, Grant(i) PROVE SlotsInv'
  <2>1. slots' = slots \union {i} /\ HasSlot
    BY <1>1 DEF Grant, Admits
  <2>2. /\ IsFiniteSet(slots \union {i})
        /\ Cardinality(slots \union {i}) <= Cardinality(slots) + 1
    BY <1>0, FS_AddElement DEF SlotsInv
  <2>3. Cardinality(slots \union {i}) \in Nat
    BY <2>2, FS_CardinalityType
  <2>4. MaxConcurrent # 0 => Cardinality(slots \union {i}) <= MaxConcurrent
    BY <1>0, <2>1, <2>2, <2>3 DEF HasSlot
  <2> QED  BY <2>1, <2>2, <2>4 DEF SlotsInv
<1>2. ASSUME NEW i \in Ids, Release(i) PROVE SlotsInv'
  <2>1. slots' = slots \ {i}
    BY <1>2 DEF Release
  <2>a. IsFiniteSet(slots)
    BY DEF SlotsInv
  <2>b. /\ IsFiniteSet(slots \ {i})
        /\ Cardinality(slots \ {i}) =
              IF i \in slots THEN Cardinality(slots) - 1 ELSE Cardinality(slots)
    BY <2>a, FS_RemoveElement
  <2>2. IsFiniteSet(slots \ {i}) /\ Cardinality(slots \ {i}) <= Cardinality(slots)
    BY <1>0, <2>b
  <2>3. Cardinality(slots \ {i}) \in Nat
    BY <2>2, FS_CardinalityType
  <2>4. MaxConcurrent # 0 => Cardinality(slots \ {i}) <= MaxConcurrent
    BY <1>0, <2>2, <2>3 DEF SlotsInv
  <2> QED  BY <2>1, <2>2, <2>4 DEF SlotsInv
<1>3. CASE UNCHANGED slots
  BY <1>3 DEF SlotsInv
<1> QED  BY <1>1, <1>2, <1>3, OneScript DEF Refuse, Cancel, LeaveQueue

\* The other variables have their types.
LEMMA CallerTypesStep == CallerTypes /\ [Next]_vars => CallerTypes'
<1> SUFFICES ASSUME CallerTypes, [Next]_vars PROVE CallerTypes'
  OBVIOUS
<1> USE AdmissionAssumption DEF CallerTypes
<1>1. ASSUME NEW c \in Callers, CallerStep(c) PROVE CallerTypes'
  <2>1. CASE Start(c)
    BY <2>1 DEF Start, Becomes, Fault, RedisUnchanged
  <2>2. CASE Poll(c)
    BY <2>2 DEF Poll, Becomes, Grant, Refuse
  <2>3. CASE PollLost(c)
    BY <2>3 DEF PollLost, Becomes, Grant, Refuse, Cancel, LeaveQueue, Fault
  <2>4. CASE Withdraw(c)
    BY <2>4 DEF Withdraw, Becomes, Cancel, LeaveQueue
  <2>5. CASE Finish(c) \/ Crash(c)
    BY <2>5 DEF Finish, Crash, Becomes, Release, RedisUnchanged, Fault
  <2>6. CASE Stream(c) \/ StreamEnds(c)
    BY <2>6 DEF Stream, StreamEnds, Becomes, Release, RedisUnchanged
  <2> QED  BY <1>1, <2>1, <2>2, <2>3, <2>4, <2>5, <2>6 DEF CallerStep
<1>2. ASSUME NEW i \in Ids, TimeStep(i) PROVE CallerTypes'
  BY <1>2 DEF TimeStep, WaiterExpires, SlotExpires, SecondPasses, LeaveQueue, Release, Fault
<1>3. CASE Finished \/ UNCHANGED vars
  BY <1>3 DEF Finished, vars
<1> QED  BY <1>1, <1>2, <1>3 DEF Next

\* A slot keeps standing for one call.
LEMMA CallsStep == CallerTypes /\ CallsInv /\ [Next]_vars => CallsInv'
<1> SUFFICES ASSUME CallerTypes, CallsInv, [Next]_vars,
                    faults' \intersect {"slow", "stall"} = {}
             PROVE  \A c \in Callers :
                        /\ caller'[c] = "calling" => IdOf[c] \in slots'
                        /\ \A d \in Callers : (Active(c)' /\ Active(d)' /\ IdOf[c] = IdOf[d]) => c = d
  BY DEF CallsInv
<1>0. faults \subseteq faults'
  BY DEF Next, CallerStep, TimeStep, Start, Poll, PollLost, Withdraw, Finish, Stream, StreamEnds,
     Crash, WaiterExpires, SlotExpires, SecondPasses, Finished, Fault, vars
<1>1. \A c \in Callers :
         /\ caller[c] = "calling" => IdOf[c] \in slots
         /\ \A d \in Callers : (Active(c) /\ Active(d) /\ IdOf[c] = IdOf[d]) => c = d
  BY <1>0 DEF CallsInv
<1> USE <1>1 DEF Active, CallerTypes
<1>2. ASSUME NEW e \in Callers, Start(e)
      PROVE  \A c \in Callers :
                 /\ caller'[c] = "calling" => IdOf[c] \in slots'
                 /\ \A d \in Callers : (Active(c)' /\ Active(d)' /\ IdOf[c] = IdOf[d]) => c = d
  <2>1. \A d \in Namesakes(e) : ~Active(d)
    BY <1>2 DEF Start, Fault
  <2> QED  BY <1>2, <2>1 DEF Start, Becomes, RedisUnchanged, Namesakes
<1>3. ASSUME NEW e \in Callers, Poll(e)
      PROVE  \A c \in Callers :
                 /\ caller'[c] = "calling" => IdOf[c] \in slots'
                 /\ \A d \in Callers : (Active(c)' /\ Active(d)' /\ IdOf[c] = IdOf[d]) => c = d
  BY <1>3 DEF Poll, Becomes, Grant, Refuse
<1>4. ASSUME NEW e \in Callers, PollLost(e) \/ Withdraw(e)
      PROVE  \A c \in Callers :
                 /\ caller'[c] = "calling" => IdOf[c] \in slots'
                 /\ \A d \in Callers : (Active(c)' /\ Active(d)' /\ IdOf[c] = IdOf[d]) => c = d
  BY <1>4 DEF PollLost, Withdraw, Becomes, Grant, Refuse, Cancel, LeaveQueue
<1>5. ASSUME NEW e \in Callers, Finish(e) \/ Stream(e) \/ StreamEnds(e) \/ Crash(e)
      PROVE  \A c \in Callers :
                 /\ caller'[c] = "calling" => IdOf[c] \in slots'
                 /\ \A d \in Callers : (Active(c)' /\ Active(d)' /\ IdOf[c] = IdOf[d]) => c = d
  BY <1>5 DEF Finish, Stream, StreamEnds, Crash, Becomes, Release, RedisUnchanged
<1>6. ASSUME NEW i \in Ids, TimeStep(i)
      PROVE  \A c \in Callers :
                 /\ caller'[c] = "calling" => IdOf[c] \in slots'
                 /\ \A d \in Callers : (Active(c)' /\ Active(d)' /\ IdOf[c] = IdOf[d]) => c = d
  BY <1>6 DEF TimeStep, WaiterExpires, SlotExpires, SecondPasses, LeaveQueue, Release, Fault, Deserted
<1>7. CASE Finished \/ UNCHANGED vars
  BY <1>7 DEF Finished, vars
<1> QED  BY <1>2, <1>3, <1>4, <1>5, <1>6, <1>7 DEF Next, CallerStep

LEMMA AdmissionInit == Init => AdmissionInv
<1> SUFFICES ASSUME Init PROVE AdmissionInv
  OBVIOUS
<1>1. QueueInv
  BY DEF Init, QueueInv, QueueOK
<1>2. SlotsInv
  BY FS_EmptySet, AdmissionAssumption DEF Init, SlotsInv
<1>3. CallsInv
  BY DEF Init, CallsInv, Active
<1>4. CallerTypes
  BY DEF Init, CallerTypes
<1> QED  BY <1>1, <1>2, <1>3, <1>4 DEF AdmissionInv

LEMMA AdmissionStep == AdmissionInv /\ [Next]_vars => AdmissionInv'
  BY QueueStep, SlotsStep, CallerTypesStep, CallsStep DEF AdmissionInv

\* The strengthening holds throughout.
THEOREM AdmissionInvHolds == Spec => []AdmissionInv
  BY AdmissionInit, AdmissionStep, PTL DEF Spec

\* The variables have their types.
THEOREM AdmissionTyped == Spec => []TypeOK
<1>1. AdmissionInv => TypeOK
  BY DEF AdmissionInv, CallerTypes, QueueInv, QueueOK, SlotsInv, TypeOK
<1> QED  BY <1>1, AdmissionInvHolds, PTL

\* No more calls run than the provider allows, while no lease expires under its
\* holder and no attempt has a double.
THEOREM LimitHolds == Spec => []CallsAreLimited
<1>1. AdmissionInv => CallsAreLimited
  <2> SUFFICES ASSUME AdmissionInv, MaxConcurrent # 0, faults \intersect {"slow", "stall"} = {}
               PROVE  Cardinality({c \in Callers : caller[c] = "calling"}) <= MaxConcurrent
    BY DEF CallsAreLimited
  <2> DEFINE calls == {c \in Callers : caller[c] = "calling"}
             slotOf == [c \in calls |-> IdOf[c]]
  <2>1. /\ \A c \in calls : IdOf[c] \in slots
        /\ \A c, d \in calls : IdOf[c] = IdOf[d] => c = d
    BY DEF AdmissionInv, CallsInv, Active
  <2>2. slotOf \in Injection(calls, slots)
    BY <2>1 DEF Injection, IsInjective
  <2>3. IsFiniteSet(slots) /\ Cardinality(slots) <= MaxConcurrent
    BY DEF AdmissionInv, SlotsInv
  <2>4. IsFiniteSet(calls) /\ Cardinality(calls) <= Cardinality(slots)
    BY <2>2, <2>3, FS_Injection
  <2>5. Cardinality(calls) \in Nat /\ Cardinality(slots) \in Nat /\ MaxConcurrent \in Nat
    BY <2>3, <2>4, FS_CardinalityType, AdmissionAssumption
  <2> QED  BY <2>3, <2>4, <2>5
<1> QED  BY <1>1, AdmissionInvHolds, PTL

\* Nobody is overtaken by a later priority, nor by a later waiter of its own.
THEOREM NobodyIsOvertaken == Spec => NoOvertaking
<1>1. AdmissionInv /\ [Next]_vars =>
         [\A i \in Ids :
            (\E c \in Callers : IdOf[c] = i /\ caller[c] = "asking" /\ caller'[c] = "calling") =>
                \A j \in Waiting(wait) \ {i} :
                    Priority[i] < Priority[j] \/ (Priority[i] = Priority[j] /\ <<i, j>> \in before)]_vars
  <2> SUFFICES ASSUME AdmissionInv, [Next]_vars,
                      NEW c \in Callers, caller[c] = "asking", caller'[c] = "calling",
                      NEW j \in Waiting(wait) \ {IdOf[c]}
               PROVE  \/ Priority[IdOf[c]] < Priority[j]
                      \/ Priority[IdOf[c]] = Priority[j] /\ <<IdOf[c], j>> \in before
    OBVIOUS
  <2> DEFINE i == IdOf[c]
  <2>1. i \in Ids /\ j \in Ids /\ wait[j] # 0
    BY AdmissionAssumption DEF Waiting
  <2>2. Grant(i)
    BY DEF AdmissionInv, CallerTypes, Next, CallerStep, TimeStep, Start, Poll, PollLost, Withdraw,
       Finish, Stream, StreamEnds, Crash, WaiterExpires, SlotExpires, SecondPasses, Finished,
       vars, Becomes
  <2>3. QueueOK(wait, sequence, before)
    BY DEF AdmissionInv, QueueInv
  <2>4. Precedes(QueueWith(i), i, j)
    BY <2>1, <2>2, <2>3 DEF Grant, Admits, IsFirst, Waiting, QueueWith, QueueOK
  <2>5. CASE wait[i] # 0
    BY <2>1, <2>3, <2>4, <2>5 DEF Precedes, QueueWith, QueueOK
  <2>6. CASE wait[i] = 0
    <3>1. QueueWith(i)[i] = sequence + 1 /\ QueueWith(i)[j] = wait[j]
      BY <2>1, <2>3, <2>6 DEF QueueWith, QueueOK, NextTicket, Waiting
    <3>2. wait[j] <= sequence /\ wait[j] \in Nat /\ sequence \in Nat
      BY <2>1, <2>3 DEF QueueOK
    <3> QED  BY <2>4, <3>1, <3>2 DEF Precedes
  <2> QED  BY <2>5, <2>6
<1> QED  BY <1>1, AdmissionInvHolds, PTL DEF Spec, NoOvertaking
=============================================================================
