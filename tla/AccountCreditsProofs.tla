------------------------ MODULE AccountCreditsProofs ------------------------
(***************************************************************************)
(* For any usages, costs, allowance, credit and number of months: what is  *)
(* left of the allowance is covered by the balance, and therefore the turn *)
(* of a month takes no credit that was paid for; the balance is what the   *)
(* ledger adds up to less what the usages were charged, and the cost of a  *)
(* room is the sum of its usages.                                          *)
(***************************************************************************)
EXTENDS AccountCredits, FiniteSums

BooksOK(b) ==
    /\ b \in [available : Nat, period : Months \union {NoMonth},
              granted : 0 .. Allowance, remaining : 0 .. Allowance]
    /\ b.remaining <= b.available
    /\ b.remaining <= b.granted

CreditsInv == TypeOK /\ BooksOK(books)

Paid(b) == b.available - b.remaining

LEMMA MaxOfTwo == \A x \in Int : Max({0, x}) = IF x > 0 THEN x ELSE 0
<1> SUFFICES ASSUME NEW x \in Int PROVE Max({0, x}) = IF x > 0 THEN x ELSE 0
  OBVIOUS
<1> DEFINE m == IF x > 0 THEN x ELSE 0
<1>1. m \in {0, x} /\ \A y \in {0, x} : m >= y
  OBVIOUS
<1>2. \A k \in {0, x} : (\A y \in {0, x} : k >= y) => k = m
  OBVIOUS
<1> QED  BY <1>1, <1>2 DEF Max

\* Reconciling the balance to any month keeps it sound and takes nothing paid for;
\* the balance may have been raised in the same transaction.
LEMMA Reconciling ==
    ASSUME BooksOK(books), NEW a \in Nat, a >= books.available,
           NEW n \in Months, NEW p \in Plans
    PROVE  LET b   == [books EXCEPT !.available = a]
               now == Reconciled(b, n, p)
           IN  /\ BooksOK(now) /\ Paid(now) >= a - books.remaining
               /\ now.available = a - Expiring(n) + Granting(n, p)
<1> DEFINE b == [books EXCEPT !.available = a]
<1>0. /\ books.available \in Nat /\ books.granted \in 0 .. Allowance
      /\ books.remaining \in 0 .. Allowance /\ Allowance \in Nat
      /\ books.remaining <= books.granted /\ books.remaining <= books.available
      /\ b.available = a
  BY CreditsAssumption DEF BooksOK
<1>1. Expiring(n) \in Nat /\ Expiring(n) <= books.remaining
  BY <1>0 DEF Expiring
<1>2. Max({0, b.available - Expiring(n)}) = a - Expiring(n)
  BY <1>0, <1>1, MaxOfTwo
<1>3. /\ KeptGrant(n) \in 0 .. Allowance /\ KeptRemaining(n) \in 0 .. Allowance
      /\ KeptRemaining(n) <= KeptGrant(n)
      /\ Expiring(n) + KeptRemaining(n) <= books.remaining
  BY <1>0 DEF KeptGrant, KeptRemaining, Expiring
<1>4. Granting(n, p) \in Nat /\ KeptGrant(n) + Granting(n, p) <= Allowance
  BY <1>0, <1>3 DEF Granting
<1>5. Reconciled(b, n, p) =
        [available |-> a - Expiring(n) + Granting(n, p), period |-> n,
         granted |-> KeptGrant(n) + Granting(n, p),
         remaining |-> KeptRemaining(n) + Granting(n, p)]
  BY <1>2 DEF Reconciled
<1> HIDE DEF b
<1>6. BooksOK(Reconciled(b, n, p))
  BY <1>0, <1>1, <1>3, <1>4, <1>5 DEF BooksOK
<1>7. Paid(Reconciled(b, n, p)) >= a - books.remaining
  BY <1>0, <1>1, <1>3, <1>4, <1>5 DEF Paid
<1>8. Reconciled(b, n, p).available = a - Expiring(n) + Granting(n, p)
  BY <1>5
<1> QED  BY <1>6, <1>7, <1>8 DEF b

\* The case in which nothing was added.
LEMMA ReconcilingBooks ==
    ASSUME BooksOK(books), NEW n \in Months, NEW p \in Plans
    PROVE  /\ BooksOK(Reconciled(books, n, p)) /\ Paid(Reconciled(books, n, p)) >= Paid(books)
           /\ Reconciled(books, n, p).available = books.available - Expiring(n) + Granting(n, p)
<1>1. books = [books EXCEPT !.available = books.available] /\ books.available \in Nat
  BY DEF BooksOK
<1>2. books.available >= books.available
  BY <1>1
<1> QED  BY <1>1, <1>2, Reconciling DEF Paid

\* A charge uses the allowance first and no more than there is.
LEMMA Charging ==
    ASSUME NEW now, BooksOK(now), NEW credit \in Nat, credit <= now.available
    PROVE  BooksOK([now EXCEPT !.available = @ - credit, !.remaining = @ - Min2(@, credit)])
<1>1. /\ now.available \in Nat /\ now.remaining \in 0 .. Allowance /\ Allowance \in Nat
      /\ now.remaining <= now.available /\ now.remaining <= now.granted
      /\ now.granted \in 0 .. Allowance
  BY CreditsAssumption DEF BooksOK
<1>2. /\ now.available - credit \in Nat
      /\ now.remaining - Min2(now.remaining, credit) \in 0 .. Allowance
      /\ now.remaining - Min2(now.remaining, credit) <= now.available - credit
      /\ now.remaining - Min2(now.remaining, credit) <= now.granted
  BY <1>1 DEF Min2
<1> QED  BY <1>2 DEF BooksOK
-----------------------------------------------------------------------------
(* The sums.                                                               *)

AccountSum ==
    books.available = SumFunctionOnSet(ledger, Keys) - SumFunctionOnSet(CreditApplied, Usages)
RoomSum == rooms.total = SumFunctionOnSet(CostOf, rooms.settled)

LEMMA FiniteDomains == IsFiniteSet(Keys) /\ IsFiniteSet(Usages) /\ IsFiniteSet(RoomUsages)
<1>1. IsFiniteSet(Months)
  BY FS_Interval, CreditsAssumption DEF Months
<1>2. /\ IsFiniteSet({"grant"} \union {"expiration"})
      /\ IsFiniteSet({<<"membership", NoMonth>>})
  BY FS_Singleton, FS_Union, Zenon
<1>3. IsFiniteSet({"grant", "expiration"} \X Months)
  <2>1. {"grant", "expiration"} = {"grant"} \union {"expiration"}
    OBVIOUS
  <2> QED  BY <1>1, <1>2, <2>1, FS_Product
<1>4. IsFiniteSet(Keys)
  BY <1>2, <1>3, FS_Union DEF Keys
<1> QED  BY <1>4, FS_Subset, CreditsAssumption DEF Entries

\* What the account's sums are sums of.
LEMMA Summands ==
    ASSUME CreditsInv
    PROVE  /\ \A k \in Keys : ledger[k] \in Int
           /\ \A u \in Usages : CreditApplied[u] \in Int
           /\ books.available \in Int
           /\ SumFunctionOnSet(ledger, Keys) \in Int
           /\ SumFunctionOnSet(CreditApplied, Usages) \in Int
<1>1. \A k \in Keys : ledger[k] \in Int
  BY DEF CreditsInv, TypeOK
<1>2. \A u \in Usages : CreditApplied[u] \in Int
  BY DEF CreditsInv, TypeOK, CreditApplied
<1> QED  BY <1>1, <1>2, FiniteDomains, SumIsInteger DEF CreditsInv, BooksOK

\* Reconciling writes to the ledger what it does to the balance.
LEMMA LedgerSum ==
    ASSUME CreditsInv, NEW n \in Months, NEW p \in Plans
    PROVE  SumFunctionOnSet(LedgerAfter(n, p), Keys)
             = SumFunctionOnSet(ledger, Keys) + Granting(n, p) - Expiring(n)
<1> DEFINE grant      == <<"grant", n>>
           expiration == <<"expiration", books.period>>
           mid        == [k \in Keys |-> ledger[k] + (IF k = grant THEN Granting(n, p) ELSE 0)]
           after      == LedgerAfter(n, p)
<1>1. Granting(n, p) \in Int /\ Expiring(n) \in Int
  BY CreditsAssumption DEF CreditsInv, BooksOK, Granting, KeptGrant, Expiring
<1>2. \A k \in Keys : ledger[k] \in Int /\ mid[k] \in Int
  BY <1>1, Summands
<1>3. SumFunctionOnSet(mid, Keys) = SumFunctionOnSet(ledger, Keys) + Granting(n, p)
  <2>1. grant \in Keys
    BY DEF Keys
  <2>2. \A k \in Keys \ {grant} : ledger[k] = mid[k]
    BY <1>2
  <2>3. mid[grant] = ledger[grant] + Granting(n, p)
    BY <2>1
  <2> HIDE DEF mid, grant
  <2>4. SumFunctionOnSet(mid, Keys) = SumFunctionOnSet(ledger, Keys) + mid[grant] - ledger[grant]
    BY <1>2, <2>1, <2>2, FiniteDomains, SumChanges
  <2> QED  BY <1>1, <1>2, <2>1, <2>3, <2>4, Summands
<1>4. \A k \in Keys : after[k] = mid[k] - (IF k = expiration THEN Expiring(n) ELSE 0)
  <2>1. \A k \in Keys :
          after[k] = ledger[k] + (IF k = grant THEN Granting(n, p) ELSE 0)
                               - (IF k = expiration THEN Expiring(n) ELSE 0)
    BY Zenon DEF LedgerAfter
  <2>2. \A k \in Keys : mid[k] = ledger[k] + (IF k = grant THEN Granting(n, p) ELSE 0)
    BY Zenon
  <2> HIDE DEF after, mid, grant, expiration
  <2> QED  BY <1>1, <1>2, <2>1, <2>2
<1> HIDE DEF mid, after, grant
<1>5. \A k \in Keys : after[k] \in Int
  BY <1>1, <1>2, <1>4
<1>6. CASE expiration \in Keys
  <2>1. \A k \in Keys \ {expiration} : mid[k] = after[k]
    BY <1>2, <1>4
  <2>2. after[expiration] = mid[expiration] - Expiring(n)
    BY <1>4, <1>6
  <2> HIDE DEF expiration
  <2>3. SumFunctionOnSet(after, Keys)
          = SumFunctionOnSet(mid, Keys) + after[expiration] - mid[expiration]
    BY <1>2, <1>5, <1>6, <2>1, FiniteDomains, SumChanges
  <2> QED  BY <1>1, <1>2, <1>3, <1>6, <2>2, <2>3, Summands DEF after
<1>7. CASE expiration \notin Keys
  <2>1. Expiring(n) = 0
    BY <1>7 DEF Expiring, CreditsInv, TypeOK, Keys
  <2>2. \A k \in Keys : mid[k] = after[k]
    BY <1>2, <1>4, <2>1
  <2>3. SumFunctionOnSet(mid, Keys) = SumFunctionOnSet(after, Keys)
    BY <1>2, <2>2, FiniteDomains, SumOfEquals
  <2> QED  BY <1>1, <1>3, <2>1, <2>3, Summands DEF after
<1> QED  BY <1>6, <1>7

-----------------------------------------------------------------------------
(* Steps.                                                                  *)

Charges == [Usages -> Nat \union {NoCharge}]

\* What a step does to the account.
AccountOK ==
    /\ BooksOK(books') /\ ledger' \in [Keys -> Int] /\ charged' \in Charges
    /\ charged' = charged => Paid(books') >= Paid(books)

LEMMA LedgerRows ==
    ASSUME CreditsInv, NEW n \in Months, NEW p \in Plans
    PROVE  LedgerAfter(n, p) \in [Keys -> Int]
<1>1. Granting(n, p) \in Int /\ Expiring(n) \in Int
  BY CreditsAssumption DEF CreditsInv, BooksOK, Granting, KeptGrant, Expiring
<1> QED  BY <1>1 DEF CreditsInv, TypeOK, LedgerAfter

LEMMA AccountSettling ==
    ASSUME CreditsInv, NEW u \in Usages, NEW n \in Months, AccountSettles(u, n)
    PROVE  AccountOK
<1> DEFINE now    == Reconciled(books, n, plan)
           credit == IF plan = "admin" THEN 0 ELSE Min2(now.available, CostOf[u])
<1>0. plan \in Plans /\ BooksOK(books) /\ charged \in Charges
  BY DEF CreditsInv, TypeOK, Charges
<1>1. BooksOK(now) /\ Paid(now) >= Paid(books)
  BY <1>0, ReconcilingBooks
<1>2. ledger' \in [Keys -> Int]
  BY <1>0, LedgerRows DEF AccountSettles
<1>3. CASE charged[u] # NoCharge
  <2>1. books' = now /\ charged' = charged
    BY <1>3 DEF AccountSettles
  <2> QED  BY <1>0, <1>1, <1>2, <2>1 DEF AccountOK
<1>4. CASE charged[u] = NoCharge
  <2>1. now.available \in Nat /\ CostOf[u] \in Nat
    BY <1>1, CreditsAssumption DEF BooksOK, Entries
  <2>2. credit \in Nat /\ credit <= now.available
    BY <2>1 DEF Min2
  <2>3. /\ books' = [now EXCEPT !.available = @ - credit, !.remaining = @ - Min2(@, credit)]
        /\ charged' = [charged EXCEPT ![u] = credit]
    BY <1>4 DEF AccountSettles
  <2> HIDE DEF now, credit
  <2>4. BooksOK(books')
    BY <1>1, <2>2, <2>3, Charging
  <2>5. charged' \in Charges /\ charged' # charged
    BY <1>0, <1>4, <2>2, <2>3 DEF Charges, NoCharge
  <2> QED  BY <1>2, <2>4, <2>5 DEF AccountOK
<1> QED  BY <1>3, <1>4

LEMMA AccountStays ==
    ASSUME CreditsInv, UNCHANGED <<books, ledger, charged>>
    PROVE  AccountOK
<1>1. Paid(books) \in Int
  BY DEF CreditsInv, BooksOK, Paid
<1> QED  BY <1>1 DEF CreditsInv, TypeOK, AccountOK, Charges

RoomsOK == rooms' \in [exist : BOOLEAN, settled : SUBSET RoomUsages, total : Nat]

\* An attempt to settle, whether it succeeds or not.
LEMMA Attempting ==
    ASSUME CreditsInv, NEW e \in Entries, Settles(e) \/ Fails(e)
    PROVE  AccountOK /\ RoomsOK /\ late' \in 0 .. MaxLate /\ plan' = plan
<1>1. CASE e \in Usages /\ \E n \in Months : Carries(n) /\ AccountSettles(e, n)
  <2>1. PICK n \in Months : Carries(n) /\ AccountSettles(e, n)
    BY <1>1
  <2>2. AccountOK
    BY <1>1, <2>1, AccountSettling
  <2>3. late' \in 0 .. MaxLate
    BY <2>1, CreditsAssumption DEF Carries, CreditsInv, TypeOK
  <2>4. RoomsOK /\ plan' = plan
    BY <2>1 DEF AccountSettles, CreditsInv, TypeOK, RoomsOK
  <2> QED  BY <2>2, <2>3, <2>4
<1>2. CASE e \in RoomUsages /\ RoomSettles(e) /\ UNCHANGED late
  <2>1. RoomsOK
    <3>1. CostOf[e] \in Nat
      BY CreditsAssumption
    <3>2. rooms \in [exist : BOOLEAN, settled : SUBSET RoomUsages, total : Nat]
      BY DEF CreditsInv, TypeOK
    <3>3. CASE rooms' = rooms
      BY <3>2, <3>3 DEF RoomsOK
    <3>4. CASE rooms' = [rooms EXCEPT !.settled = @ \union {e}, !.total = @ + CostOf[e]]
      <4>1. rooms.settled \union {e} \in SUBSET RoomUsages /\ rooms.total + CostOf[e] \in Nat
        BY <1>2, <3>1, <3>2
      <4>2. rooms' = [exist |-> rooms.exist, settled |-> rooms.settled \union {e},
                      total |-> rooms.total + CostOf[e]]
        BY <3>2, <3>4
      <4> QED  BY <3>2, <4>1, <4>2 DEF RoomsOK
    <3> QED  BY <1>2, <3>3, <3>4 DEF RoomSettles
  <2> QED  BY <1>2, <2>1, AccountStays DEF RoomSettles, accountVars, CreditsInv, TypeOK
<1>3. CASE Fails(e)
  BY <1>3, AccountStays DEF Fails, accountVars, CreditsInv, TypeOK, RoomsOK
<1> QED  BY <1>1, <1>2, <1>3 DEF Settles

LEMMA ReadingStep ==
    ASSUME CreditsInv, NEW n \in Months, ReadEntitlement(n) \/ ApplyMembershipChange(n)
    PROVE  AccountOK
<1>0. plan \in Plans /\ "paid" \in Plans /\ BooksOK(books) /\ charged \in Charges
  BY DEF CreditsInv, TypeOK, Charges, Plans
<1>1. CASE ReadEntitlement(n)
  <2>1. books' = Reconciled(books, n, plan) /\ charged' = charged /\ ledger' = LedgerAfter(n, plan)
    BY <1>1 DEF ReadEntitlement
  <2> QED  BY <1>0, <2>1, ReconcilingBooks, LedgerRows DEF AccountOK
<1>2. CASE ApplyMembershipChange(n)
  <2> DEFINE a == books.available + Credit
             b == [books EXCEPT !.available = a]
  <2>1. /\ books' = Reconciled(b, n, "paid") /\ charged' = charged
        /\ ledger' = [LedgerAfter(n, "paid") EXCEPT ![<<"membership", NoMonth>>] = Credit]
    BY <1>2 DEF ApplyMembershipChange
  <2>2. a \in Nat /\ a >= books.available /\ Credit \in Int
    BY <1>0, CreditsAssumption DEF BooksOK
  <2>3. BooksOK(books') /\ Paid(books') >= a - books.remaining
    BY <1>0, <2>1, <2>2, Reconciling
  <2>4. ledger' \in [Keys -> Int]
    BY <1>0, <2>1, <2>2, LedgerRows
  <2>5. Paid(books') >= Paid(books)
    BY <1>0, <2>2, <2>3 DEF Paid, BooksOK
  <2> QED  BY <1>0, <2>1, <2>3, <2>4, <2>5 DEF AccountOK
<1> QED  BY <1>1, <1>2

\* Every step: the account stays sound, and so do the other types.
LEMMA CreditsStep == CreditsInv /\ [Next]_vars => CreditsInv' /\ AccountOK
<1> SUFFICES ASSUME CreditsInv, [Next]_vars PROVE CreditsInv' /\ AccountOK
  OBVIOUS
<1> USE CreditsAssumption
<1>1. CASE Midnight
  BY <1>1, AccountStays DEF Midnight, CreditsInv, TypeOK, AccountOK, Months
<1>2. CASE ChangePlan
  BY <1>2, AccountStays DEF ChangePlan, Trouble, CreditsInv, TypeOK
<1>3. CASE DeleteRoom
  BY <1>3, AccountStays DEF DeleteRoom, accountVars, CreditsInv, TypeOK
<1>4. ASSUME NEW n \in Months, ReadEntitlement(n) \/ ApplyMembershipChange(n)
      PROVE  CreditsInv' /\ AccountOK
  <2>1. AccountOK
    BY <1>4, ReadingStep
  <2>2. /\ late' \in 0 .. MaxLate /\ plan' \in Plans
        /\ UNCHANGED <<month, charged, rooms, gateway, pending, batch, trouble>>
    BY <1>4 DEF ReadEntitlement, ApplyMembershipChange, Carries, CreditsInv, TypeOK, Plans
  <2> QED  BY <2>1, <2>2 DEF CreditsInv, TypeOK, AccountOK, BooksOK
<1>5. ASSUME NEW e \in Entries, Enqueue(e)
      PROVE  CreditsInv' /\ AccountOK
  BY <1>5, AccountStays DEF Enqueue, Trouble, accountVars, CreditsInv, TypeOK
<1>6. ASSUME NEW e \in Entries, SettleNow(e)
      PROVE  CreditsInv' /\ AccountOK
  <2>1. Settles(e) \/ Fails(e)
    BY <1>6 DEF SettleNow
  <2>2. AccountOK /\ RoomsOK /\ late' \in 0 .. MaxLate /\ plan' = plan
    BY <2>1, Attempting
  <2>3. /\ gateway' \in [Entries -> {"idle", "queued", "unqueued", "done"}]
        /\ pending' \subseteq Entries /\ trouble' \in 0 .. MaxTrouble /\ UNCHANGED <<month, batch>>
    BY <1>6 DEF SettleNow, Fails, Trouble, CreditsInv, TypeOK
  <2> QED  BY <2>2, <2>3 DEF CreditsInv, TypeOK, AccountOK, BooksOK, Charges, RoomsOK
<1>7. ASSUME NEW p \in Passes, Drain(p)
      PROVE  CreditsInv' /\ AccountOK
  BY <1>7, AccountStays DEF Drain, accountVars, CreditsInv, TypeOK
<1>8. ASSUME NEW p \in Passes, NEW e \in Entries, DrainOne(p, e)
      PROVE  CreditsInv' /\ AccountOK
  <2>1. Settles(e) \/ Fails(e)
    BY <1>8 DEF DrainOne
  <2>2. AccountOK /\ RoomsOK /\ late' \in 0 .. MaxLate /\ plan' = plan
    BY <2>1, Attempting
  <2>3. /\ batch' \in [Passes -> SUBSET Entries]
        /\ pending' \subseteq Entries /\ trouble' \in 0 .. MaxTrouble /\ UNCHANGED <<month, gateway>>
    BY <1>8 DEF DrainOne, Fails, Trouble, CreditsInv, TypeOK
  <2> QED  BY <2>2, <2>3 DEF CreditsInv, TypeOK, AccountOK, BooksOK, Charges, RoomsOK
<1>9. CASE UNCHANGED vars
  BY <1>9, AccountStays DEF vars, CreditsInv, TypeOK
<1> QED  BY <1>1, <1>2, <1>3, <1>4, <1>5, <1>6, <1>7, <1>8, <1>9 DEF Next

LEMMA CreditsInit == Init => CreditsInv
  BY CreditsAssumption DEF Init, CreditsInv, TypeOK, BooksOK, Months, Plans

\* The variables have their types, and what is left of the allowance is covered by
\* the balance and by what was granted.
THEOREM AllowanceIsCovered == Spec => []CreditsInv
  BY CreditsInit, CreditsStep, PTL DEF Spec

\* No step but a charge takes credit that was paid for.
THEOREM PaidCreditStays == Spec => PaidCreditIsKept
<1>1. CreditsInv /\ [Next]_vars =>
        [charged' = charged
          => books'.available - books'.remaining >= books.available - books.remaining]_vars
  BY CreditsStep DEF AccountOK, Paid
<1> QED  BY <1>1, AllowanceIsCovered, PTL DEF Spec, PaidCreditIsKept
-----------------------------------------------------------------------------
(* The books stay balanced.                                                *)

LEMMA SumsStay ==
    ASSUME AccountSum, UNCHANGED <<books, ledger, charged>>
    PROVE  AccountSum'
  BY DEF AccountSum, CreditApplied

\* A charge is taken from the balance and written to the usage, once.
LEMMA ChargeBalances ==
    ASSUME CreditsInv, AccountSum, NEW u \in Usages, NEW n \in Months, AccountSettles(u, n)
    PROVE  AccountSum'
<1> DEFINE now    == Reconciled(books, n, plan)
           credit == IF plan = "admin" THEN 0 ELSE Min2(now.available, CostOf[u])
           moved  == Granting(n, plan) - Expiring(n)
<1>0. /\ plan \in Plans /\ BooksOK(books) /\ charged \in Charges
      /\ Granting(n, plan) \in Int /\ Expiring(n) \in Int
  BY CreditsAssumption DEF CreditsInv, TypeOK, Charges, BooksOK, Granting, KeptGrant, Expiring
<1>1. BooksOK(now) /\ now.available = books.available - Expiring(n) + Granting(n, plan)
  BY <1>0, ReconcilingBooks
<1>2. SumFunctionOnSet(ledger', Keys)
        = SumFunctionOnSet(ledger, Keys) + Granting(n, plan) - Expiring(n)
  BY <1>0, LedgerSum DEF AccountSettles
<1>3. CASE charged[u] # NoCharge
  <2>1. books' = now /\ CreditApplied' = CreditApplied
    BY <1>3 DEF AccountSettles, CreditApplied
  <2> HIDE DEF now
  <2> QED  BY <1>0, <1>1, <1>2, <2>1, Summands DEF AccountSum
<1>4. CASE charged[u] = NoCharge
  <2>1. now.available \in Nat /\ CostOf[u] \in Nat
    BY <1>1, CreditsAssumption DEF BooksOK, Entries
  <2>2. credit \in Nat
    BY <2>1 DEF Min2
  <2>3. /\ books' = [now EXCEPT !.available = @ - credit, !.remaining = @ - Min2(@, credit)]
        /\ charged' = [charged EXCEPT ![u] = credit]
    BY <1>4 DEF AccountSettles
  <2> HIDE DEF now, credit
  <2>4. books'.available = now.available - credit
    BY <1>1, <2>3 DEF BooksOK
  <2>5. /\ CreditApplied[u] = 0 /\ CreditApplied'[u] = credit
        /\ \A v \in Usages : CreditApplied'[v] \in Int
        /\ \A v \in Usages \ {u} : CreditApplied[v] = CreditApplied'[v]
    BY <1>0, <1>4, <2>2, <2>3 DEF CreditApplied, Charges, NoCharge
  <2>6. SumFunctionOnSet(CreditApplied', Usages)
          = SumFunctionOnSet(CreditApplied, Usages) + CreditApplied'[u] - CreditApplied[u]
    BY <2>5, Summands, FiniteDomains, SumChanges
  <2> QED  BY <1>0, <1>1, <1>2, <2>2, <2>4, <2>5, <2>6, Summands DEF AccountSum
<1> QED  BY <1>3, <1>4

\* So are an allowance, its expiration and the credit of a membership.
LEMMA ReadingBalances ==
    ASSUME CreditsInv, AccountSum, NEW n \in Months,
           ReadEntitlement(n) \/ ApplyMembershipChange(n)
    PROVE  AccountSum'
<1>0. /\ plan \in Plans /\ "paid" \in Plans /\ BooksOK(books) /\ Expiring(n) \in Int
      /\ \A p \in Plans : Granting(n, p) \in Int
  BY CreditsAssumption DEF CreditsInv, TypeOK, Plans, BooksOK, Granting, KeptGrant, Expiring
<1>1. charged' = charged /\ CreditApplied' = CreditApplied
  BY DEF ReadEntitlement, ApplyMembershipChange, CreditApplied
<1>2. CASE ReadEntitlement(n)
  <2>1. books' = Reconciled(books, n, plan) /\ ledger' = LedgerAfter(n, plan)
    BY <1>2 DEF ReadEntitlement
  <2>2. books'.available = books.available - Expiring(n) + Granting(n, plan)
    BY <1>0, <2>1, ReconcilingBooks
  <2>3. SumFunctionOnSet(ledger', Keys)
          = SumFunctionOnSet(ledger, Keys) + Granting(n, plan) - Expiring(n)
    BY <1>0, <2>1, LedgerSum
  <2> QED  BY <1>0, <1>1, <2>2, <2>3, Summands DEF AccountSum
<1>3. CASE ApplyMembershipChange(n)
  <2> DEFINE a     == books.available + Credit
             key   == <<"membership", NoMonth>>
             after == LedgerAfter(n, "paid")
  <2>1. /\ books' = Reconciled([books EXCEPT !.available = a], n, "paid")
        /\ ledger' = [after EXCEPT ![key] = Credit] /\ ledger[key] = 0
    BY <1>3 DEF ApplyMembershipChange
  <2>2. a \in Nat /\ a >= books.available /\ Credit \in Int /\ key \in Keys
    BY <1>0, CreditsAssumption DEF BooksOK, Keys
  <2>3. books'.available = a - Expiring(n) + Granting(n, "paid")
    BY <1>0, <2>1, <2>2, Reconciling
  <2>4. after \in [Keys -> Int] /\ after[key] = 0
    <3>1. after[key] = ledger[key]
      BY <2>1, <2>2 DEF LedgerAfter
    <3> QED  BY <1>0, <2>1, <3>1, LedgerRows
  <2>5. SumFunctionOnSet(after, Keys)
          = SumFunctionOnSet(ledger, Keys) + Granting(n, "paid") - Expiring(n)
    BY <1>0, LedgerSum
  <2> HIDE DEF after, key
  <2>6. /\ \A k \in Keys : after[k] \in Int /\ ledger'[k] \in Int
        /\ \A k \in Keys \ {key} : after[k] = ledger'[k]
        /\ ledger'[key] = Credit
    BY <2>1, <2>2, <2>4
  <2>7. SumFunctionOnSet(ledger', Keys)
          = SumFunctionOnSet(after, Keys) + ledger'[key] - after[key]
    BY <2>2, <2>6, FiniteDomains, SumChanges
  <2> QED  BY <1>0, <1>1, <2>2, <2>3, <2>4, <2>5, <2>6, <2>7, Summands DEF AccountSum
<1> QED  BY <1>2, <1>3

\* The cost of a usage is added to its room, once.
LEMMA RoomBalances ==
    ASSUME CreditsInv, RoomSum, NEW u \in RoomUsages, RoomSettles(u)
    PROVE  RoomSum'
<1>0. /\ rooms \in [exist : BOOLEAN, settled : SUBSET RoomUsages, total : Nat]
      /\ CostOf \in [Entries -> Nat \ {0}]
  BY CreditsAssumption DEF CreditsInv, TypeOK
<1>1. CASE rooms' = rooms
  BY <1>1 DEF RoomSum
<1>2. CASE u \notin rooms.settled
           /\ rooms' = [rooms EXCEPT !.settled = @ \union {u}, !.total = @ + CostOf[u]]
  <2>1. rooms'.settled = rooms.settled \union {u} /\ rooms'.total = rooms.total + CostOf[u]
    BY <1>0, <1>2
  <2>2. IsFiniteSet(rooms.settled)
    BY <1>0, FiniteDomains, FS_Subset
  <2>3. \A y \in rooms.settled \union {u} : CostOf[y] \in Int
    BY <1>0 DEF Entries
  <2>4. SumFunctionOnSet(CostOf, rooms.settled \union {u})
          = SumFunctionOnSet(CostOf, rooms.settled) + CostOf[u]
    BY <1>2, <2>2, <2>3, SumGrows
  <2> QED  BY <2>1, <2>4 DEF RoomSum
<1> QED  BY <1>1, <1>2 DEF RoomSettles

LEMMA AttemptBalances ==
    ASSUME CreditsInv, AccountSum, RoomSum, NEW e \in Entries, Settles(e) \/ Fails(e)
    PROVE  AccountSum' /\ RoomSum'
<1>1. CASE e \in Usages /\ \E n \in Months : Carries(n) /\ AccountSettles(e, n)
  <2>1. rooms' = rooms
    BY <1>1 DEF AccountSettles
  <2> QED  BY <1>1, <2>1, ChargeBalances DEF RoomSum
<1>2. CASE e \in RoomUsages /\ RoomSettles(e) /\ UNCHANGED late
  BY <1>2, RoomBalances, SumsStay DEF RoomSettles, accountVars
<1>3. CASE Fails(e)
  BY <1>3, SumsStay DEF Fails, accountVars, RoomSum
<1> QED  BY <1>1, <1>2, <1>3 DEF Settles

LEMMA BalanceStep ==
    ASSUME CreditsInv, AccountSum, RoomSum, [Next]_vars
    PROVE  AccountSum' /\ RoomSum'
<1>1. CASE Midnight \/ ChangePlan \/ UNCHANGED vars
  BY <1>1, SumsStay DEF Midnight, ChangePlan, vars, RoomSum
<1>2. CASE DeleteRoom
  BY <1>2, SumsStay, SumOfNone DEF DeleteRoom, accountVars, RoomSum
<1>3. ASSUME NEW n \in Months, ReadEntitlement(n) \/ ApplyMembershipChange(n)
      PROVE  AccountSum' /\ RoomSum'
  BY <1>3, ReadingBalances DEF ReadEntitlement, ApplyMembershipChange, RoomSum
<1>4. ASSUME NEW e \in Entries, Enqueue(e)
      PROVE  AccountSum' /\ RoomSum'
  BY <1>4, SumsStay DEF Enqueue, accountVars, RoomSum
<1>5. ASSUME NEW e \in Entries, SettleNow(e)
      PROVE  AccountSum' /\ RoomSum'
  BY <1>5, AttemptBalances DEF SettleNow
<1>6. ASSUME NEW p \in Passes, Drain(p)
      PROVE  AccountSum' /\ RoomSum'
  BY <1>6, SumsStay DEF Drain, accountVars, RoomSum
<1>7. ASSUME NEW p \in Passes, NEW e \in Entries, DrainOne(p, e)
      PROVE  AccountSum' /\ RoomSum'
  BY <1>7, AttemptBalances DEF DrainOne
<1> QED  BY <1>1, <1>2, <1>3, <1>4, <1>5, <1>6, <1>7 DEF Next

LEMMA BalanceInit == Init => AccountSum /\ RoomSum
<1> SUFFICES ASSUME Init PROVE AccountSum /\ RoomSum
  OBVIOUS
<1>1. RoomSum
  BY SumOfNone DEF Init, RoomSum
<1>2. \A S : IsFiniteSet(S) => SumFunctionOnSet([x \in S |-> 0], S) = 0
  BY SumOfZeros
<1>3. ledger = [k \in Keys |-> 0] /\ CreditApplied = [u \in Usages |-> 0]
  BY DEF Init, CreditApplied
<1>4. books.available = 0
  BY DEF Init
<1> QED  BY <1>1, <1>2, <1>3, <1>4, FiniteDomains DEF AccountSum

\* The balance is what the ledger adds up to less what the usages were charged, what
\* expires is no more than that, and a room's cost is the sum of its usages.
THEOREM BooksStayBalanced == Spec => []BooksBalance
<1>1. Init => AccountSum /\ RoomSum
  BY BalanceInit
<1>2. CreditsInv /\ (AccountSum /\ RoomSum) /\ [Next]_vars => (AccountSum /\ RoomSum)'
  BY BalanceStep
<1>3. CreditsInv /\ (AccountSum /\ RoomSum) => BooksBalance
  BY DEF CreditsInv, BooksOK, AccountSum, RoomSum, BooksBalance, Min2
<1> QED  BY <1>1, <1>2, <1>3, AllowanceIsCovered, PTL DEF Spec
=============================================================================
