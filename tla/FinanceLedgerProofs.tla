-------------------------- MODULE FinanceLedgerProofs --------------------------
(***************************************************************************)
(* The ledger's values keep their types and limits, money ends once, what  *)
(* the executor booked was paid, BudgetPromise is kept, the ledger is an   *)
(* audit trail, and the balances are sums over the lists.                  *)
(***************************************************************************)
EXTENDS FinanceLedger, TLAPS, FiniteSetTheorems, WellFoundedInduction

(* Helpers.                                                                *)

LEMMA Cents ==
    ASSUME NEW amount \in Amounts
    PROVE  safe_money(amount) \in Nat
  BY MoneyAssumption, SMT DEF safe_money

\* Appending keeps the entries that were there.
LEMMA Appended ==
    ASSUME NEW S, NEW s \in Seq(S), NEW e \in S
    PROVE  /\ Append(s, e) \in Seq(S)
           /\ Len(Append(s, e)) = Len(s) + 1
           /\ DOMAIN Append(s, e) = DOMAIN s \cup {Len(s) + 1}
           /\ \A i \in DOMAIN s : Append(s, e)[i] = s[i]
           /\ Append(s, e)[Len(s) + 1] = e
           /\ Len(s) + 1 \notin DOMAIN s /\ Len(s) + 1 # 0
           /\ DOMAIN s = 1 .. Len(s)
  OBVIOUS

\* Replacing an entry keeps the others.
LEMMA Replaced ==
    ASSUME NEW S, NEW s \in Seq(S), NEW i \in DOMAIN s, NEW e \in S
    PROVE  /\ [s EXCEPT ![i] = e] \in Seq(S)
           /\ DOMAIN [s EXCEPT ![i] = e] = DOMAIN s
           /\ \A j \in DOMAIN s : [s EXCEPT ![i] = e][j] = IF j = i THEN e ELSE s[j]
  OBVIOUS

\* What moves between the balances of a mission leaves both valid.
LEMMA Posted ==
    ASSUME FinanceTypeOK, NEW m \in DOMAIN allocations,
           NEW r \in Int, NEW c \in Int, NEW s \in Int, Post(m, r, c, s)
    PROVE  /\ budget \in Budget /\ budget' \in Budget
           /\ budget'.allocated <= budget'.total
           /\ DOMAIN allocations' = DOMAIN allocations
           /\ allocations' \in [DOMAIN allocations -> Allocation]
           /\ \A n \in DOMAIN allocations \ {m} : allocations'[n] = allocations[n]
           /\ allocations[m] \in Allocation
           /\ allocations'[m].allocated = allocations[m].allocated
           /\ allocations'[m].reserved = allocations[m].reserved + r
           /\ allocations'[m].committed = allocations[m].committed + c
           /\ allocations'[m].spent = allocations[m].spent + s
           /\ LET p == allocations'[m] IN p.reserved + p.committed + p.spent <= p.allocated
<1>1. budget \in Budget /\ m \in Missions
  BY DEF FinanceTypeOK, StoredTypes, Referenced
<1>2. allocations[m] \in Allocation
  BY DEF FinanceTypeOK, StoredTypes
<1>3. /\ budget' \in Budget /\ budget'.allocated <= budget'.total
  <2>1. budget' = [budget EXCEPT !.reserved = @ + r,
                                 !.committed = @ + c, !.spent = @ + s]
    BY DEF Post
  <2>2. BudgetValid(budget')
    BY DEF Post
  <2>3. budget' = [currency |-> budget.currency, total |-> budget.total,
                   allocated |-> budget.allocated, reserved |-> budget.reserved + r,
                   committed |-> budget.committed + c, spent |-> budget.spent + s]
    BY <1>1, <2>1 DEF Budget
  <2>4. QED
    BY <1>1, <2>2, <2>3 DEF BudgetValid, Budget
<1>4. allocations'[m] = [allocations[m] EXCEPT !.reserved = @ + r,
                            !.committed = @ + c, !.spent = @ + s]
  BY DEF Post, FinanceTypeOK, StoredTypes
<1>5. /\ DOMAIN allocations' = DOMAIN allocations
      /\ \A n \in DOMAIN allocations \ {m} : allocations'[n] = allocations[n]
  BY DEF Post, FinanceTypeOK, StoredTypes
<1>6. AllocationValid(allocations'[m])
  BY DEF Post
<1>7. /\ allocations'[m].allocated = allocations[m].allocated
      /\ allocations'[m].reserved = allocations[m].reserved + r
      /\ allocations'[m].committed = allocations[m].committed + c
      /\ allocations'[m].spent = allocations[m].spent + s
      /\ allocations'[m] \in Allocation
  <2>1. allocations'[m] = [allocated |-> allocations[m].allocated,
                           reserved |-> allocations[m].reserved + r,
                           committed |-> allocations[m].committed + c,
                           spent |-> allocations[m].spent + s]
    BY <1>2, <1>4 DEF Allocation
  <2>2. QED
    BY <1>2, <1>6, <2>1 DEF Allocation, AllocationValid
<1>8. LET p == allocations'[m] IN p.reserved + p.committed + p.spent <= p.allocated
  BY <1>6 DEF AllocationValid, Used
<1>9. allocations' \in [DOMAIN allocations -> Allocation]
  <2>1. allocations' = [n \in DOMAIN allocations |-> allocations'[n]]
    BY DEF Post, FinanceTypeOK, StoredTypes
  <2>2. \A n \in DOMAIN allocations : allocations'[n] \in Allocation
    BY <1>5, <1>7 DEF FinanceTypeOK, StoredTypes
  <2>3. QED
    BY <2>1, <2>2
<1>10. QED
  BY <1>1, <1>2, <1>3, <1>5, <1>7, <1>8, <1>9

LEMMA EntryTyped ==
    ASSUME NEW type \in EntryTypes, NEW about \in Nat \cup Missions, NEW amount \in Nat,
           ledger \in Seq(LedgerEntry)
    PROVE  Append(ledger, Entry(type, about, amount)) \in Seq(LedgerEntry)
  BY DEF LedgerEntry, Entry

\* A call that is over leaves one payment more.
LEMMA PaidOnce ==
    ASSUME StoredTypes, NEW c \in Calls, calls[c] # NoCall, NEW k \in Nat, Paid(c, k)
    PROVE  /\ calls' \in [Calls -> Call \cup {NoCall}]
           /\ payments' \in Seq(Payment)
           /\ DOMAIN payments' = DOMAIN payments \cup {Len(payments) + 1}
           /\ Len(payments) + 1 \notin DOMAIN payments
           /\ \A i \in DOMAIN payments : payments'[i] = payments[i]
           /\ payments'[Len(payments) + 1].mission = calls[c].mission
           /\ payments'[Len(payments) + 1].amount = calls[c].amount
           /\ payments'[Len(payments) + 1].commitment = k
<1> DEFINE p == [mission |-> calls[c].mission, amount |-> calls[c].amount, commitment |-> k]
<1>1. calls[c] \in Call
  BY DEF StoredTypes
<1>2. calls' \in [Calls -> Call \cup {NoCall}]
  BY DEF StoredTypes, Paid
<1>3. p \in Payment /\ payments \in Seq(Payment)
  BY <1>1 DEF StoredTypes, Payment, Call
<1>4. payments' = Append(payments, p)
  BY DEF Paid
<1> HIDE DEF p
<1>5. /\ payments' \in Seq(Payment)
      /\ DOMAIN payments' = DOMAIN payments \cup {Len(payments) + 1}
      /\ Len(payments) + 1 \notin DOMAIN payments
      /\ \A i \in DOMAIN payments : payments'[i] = payments[i]
      /\ payments'[Len(payments) + 1] = p
  BY <1>3, <1>4, Appended
<1>6. QED
  BY <1>2, <1>4, <1>5 DEF p

\* The commitment a call is booked with is typed.
LEMMA CommitmentTyped ==
    ASSUME NEW m \in Missions, NEW amount \in Nat \ {0}, NEW r \in Nat,
           NEW status \in {"COMMITTED", "SPENT"}
    PROVE  Commitment(m, amount, status, r) \in FinancialCommitment
  BY DEF Commitment, FinancialCommitment

------------------------------------------------------------------------------
(* Types and limits.                                                       *)

LEMMA TypeInit == FinanceInit => FinanceTypeOK
<1>1. FinanceInit => StoredTypes
  BY BoundsAssumption DEF FinanceInit, StoredTypes
<1>2. FinanceInit => Referenced /\ Solvent
  BY DEF FinanceInit, Referenced, Solvent
<1>3. QED
  BY <1>1, <1>2 DEF FinanceTypeOK

LEMMA TypeNewBudget ==
    ASSUME FinanceTypeOK, NEW currency \in Currencies, NEW cents \in Nat,
           NewBudget(currency, cents), faults' \in 0 .. MaxFaults, calls' = calls
    PROVE  FinanceTypeOK'
<1>1. budget' \in Budget /\ budget'.allocated <= budget'.total
  BY DEF NewBudget, Budget
<1>2. ledger' \in Seq(LedgerEntry)
  <2>1. Entry("BUDGET_CREATED", 0, cents) \in LedgerEntry
    BY DEF Entry, LedgerEntry, EntryTypes
  <2>2. QED
    BY <2>1 DEF NewBudget
<1>3. StoredTypes'
  BY <1>1, <1>2 DEF NewBudget, EmptyBooks, FinanceTypeOK, StoredTypes
<1>4. Referenced'
  BY DEF NewBudget, EmptyBooks, Referenced
<1>5. Solvent'
  BY <1>1 DEF NewBudget, EmptyBooks, Solvent
<1>6. QED
  BY <1>3, <1>4, <1>5 DEF FinanceTypeOK

LEMMA TypeErased ==
    ASSUME FinanceTypeOK, budget' = NoBudget, ledger' = <<>>, EmptyBooks,
           faults' \in 0 .. MaxFaults, UNCHANGED calls
    PROVE  FinanceTypeOK'
<1>1. StoredTypes'
  BY DEF EmptyBooks, FinanceTypeOK, StoredTypes
<1>2. Referenced' /\ Solvent'
  BY DEF EmptyBooks, Referenced, Solvent
<1>3. QED
  BY <1>1, <1>2 DEF FinanceTypeOK

LEMMA TypeAllocate ==
    ASSUME FinanceTypeOK, NEW m \in Missions, NEW amount \in Amounts,
           AllocateToMission(m, amount)
    PROVE  FinanceTypeOK'
<1> DEFINE cents == safe_money(amount)
           before == AllocationOf(m)
<1>1. cents \in Nat
  BY Cents
<1>2. budget \in Budget /\ DOMAIN allocations \subseteq Missions
  BY DEF AllocateToMission, FinanceTypeOK, StoredTypes, Referenced
<1>3. /\ before \in Allocation
      /\ before.reserved + before.committed + before.spent <= before.allocated
  BY DEF AllocationOf, NewAllocation, Allocation, FinanceTypeOK, StoredTypes, Solvent
<1>4. /\ budget' = [budget EXCEPT !.allocated = @ + cents]
      /\ budget'.allocated <= budget'.total
      /\ allocations' = [n \in DOMAIN allocations \cup {m} |->
                           IF n = m THEN [before EXCEPT !.allocated = @ + cents]
                           ELSE allocations[n]]
      /\ ledger' = Append(ledger, Entry("MISSION_ALLOCATED", m, cents))
  BY DEF AllocateToMission, BudgetValid
<1> HIDE DEF cents, before
<1>5. budget' \in Budget /\ budget' # NoBudget
  BY <1>1, <1>2, <1>4, NullAssumption DEF Budget
<1>6. /\ allocations'[m] \in Allocation
      /\ LET p == allocations'[m] IN p.reserved + p.committed + p.spent <= p.allocated
  <2>1. allocations'[m] = [allocated |-> before.allocated + cents, reserved |-> before.reserved,
                           committed |-> before.committed, spent |-> before.spent]
    BY <1>3, <1>4 DEF Allocation
  <2>2. QED
    BY <1>1, <1>3, <2>1 DEF Allocation
<1>7. ledger' \in Seq(LedgerEntry)
  BY <1>1, <1>4, EntryTyped DEF EntryTypes, FinanceTypeOK, StoredTypes
<1>8. /\ DOMAIN allocations' = DOMAIN allocations \cup {m}
      /\ \A n \in DOMAIN allocations \ {m} : allocations'[n] = allocations[n]
      /\ allocations' \in [DOMAIN allocations' -> Allocation]
  <2>1. \A n \in DOMAIN allocations : allocations[n] \in Allocation
    BY DEF FinanceTypeOK, StoredTypes
  <2>2. QED
    BY <1>4, <1>6, <2>1
<1>9. StoredTypes'
  BY <1>5, <1>7, <1>8 DEF AllocateToMission, FinanceTypeOK, StoredTypes
<1>10. Referenced'
  BY <1>2, <1>5, <1>8 DEF AllocateToMission, FinanceTypeOK, Referenced
<1>11. Solvent'
  BY <1>4, <1>6, <1>8 DEF FinanceTypeOK, Solvent
<1>12. QED
  BY <1>9, <1>10, <1>11 DEF FinanceTypeOK

\* A posting keeps what concerns the balances alone.
LEMMA TypePosted ==
    ASSUME FinanceTypeOK, NEW m \in DOMAIN allocations,
           NEW r \in Int, NEW c \in Int, NEW s \in Int, Post(m, r, c, s)
    PROVE  /\ budget' \in Budget /\ budget' # NoBudget
           /\ DOMAIN allocations' = DOMAIN allocations
           /\ DOMAIN allocations \subseteq Missions
           /\ allocations' \in [DOMAIN allocations' -> Allocation]
           /\ Solvent'
<1>1. budget' \in Budget /\ budget' # NoBudget
  BY Posted, NullAssumption
<1>2. /\ DOMAIN allocations' = DOMAIN allocations
      /\ allocations' \in [DOMAIN allocations' -> Allocation]
      /\ DOMAIN allocations \subseteq Missions
  BY Posted DEF FinanceTypeOK, Referenced
<1>3. budget'.allocated <= budget'.total
  BY Posted
<1>4. ASSUME NEW n \in DOMAIN allocations'
      PROVE  LET p == allocations'[n] IN p.reserved + p.committed + p.spent <= p.allocated
  <2>1. CASE n = m
    BY <2>1, Posted
  <2>2. CASE n # m
    <3>1. allocations'[n] = allocations[n] /\ n \in DOMAIN allocations
      BY <1>2, <1>4, <2>2, Posted
    <3>2. QED
      BY <3>1 DEF FinanceTypeOK, Solvent
  <2>3. QED
    BY <2>1, <2>2
<1>5. QED
  BY <1>1, <1>2, <1>3, <1>4 DEF Solvent

LEMMA TypeReserve ==
    ASSUME FinanceTypeOK, NEW m \in Missions, NEW amount \in Amounts, Reserve(m, amount)
    PROVE  FinanceTypeOK'
<1> DEFINE cents == safe_money(amount)
           res == [mission |-> m, amount |-> cents, status |-> "ACTIVE"]
<1>1. cents \in Nat \ {0}
  BY Cents DEF Reserve
<1>2. m \in DOMAIN allocations /\ Post(m, cents, 0, 0)
  BY DEF Reserve, Configured
<1>3. res \in Reservation /\ reservations \in Seq(Reservation)
  BY <1>1 DEF Reservation, FinanceTypeOK, StoredTypes
<1>4. /\ reservations' = Append(reservations, res)
      /\ ledger' = Append(ledger, Entry("RESERVATION_CREATED", Len(reservations'), cents))
      /\ UNCHANGED <<commitments, spends, calls, payments, faults>>
  BY DEF Reserve
<1>5. res.mission = m
  OBVIOUS
<1> HIDE DEF cents, res
<1>6. /\ reservations' \in Seq(Reservation)
      /\ DOMAIN reservations' = DOMAIN reservations \cup {Len(reservations) + 1}
      /\ \A r \in DOMAIN reservations : reservations'[r] = reservations[r]
      /\ reservations'[Len(reservations) + 1] = res
  BY <1>3, <1>4, Appended
<1>7. ledger' \in Seq(LedgerEntry)
  <2>1. Len(reservations') \in Nat
    BY <1>6
  <2>2. QED
    BY <1>1, <1>4, <2>1, EntryTyped DEF EntryTypes, FinanceTypeOK, StoredTypes
<1>8. /\ budget' \in Budget /\ budget' # NoBudget
      /\ DOMAIN allocations' = DOMAIN allocations
      /\ DOMAIN allocations \subseteq Missions
      /\ allocations' \in [DOMAIN allocations' -> Allocation]
      /\ Solvent'
  <2>1. cents \in Int /\ 0 \in Int
    BY <1>1
  <2>2. QED
    BY <1>2, <2>1, TypePosted, Zenon
<1>9. StoredTypes'
  BY <1>4, <1>6, <1>7, <1>8 DEF FinanceTypeOK, StoredTypes
<1>10. Referenced'
  BY <1>2, <1>4, <1>5, <1>6, <1>8 DEF FinanceTypeOK, Referenced
<1>11. QED
  BY <1>8, <1>9, <1>10 DEF FinanceTypeOK

\* The reservation's status changes and nothing else of it.
LEMMA Ended ==
    ASSUME FinanceTypeOK, NEW r \in DOMAIN reservations,
           NEW s \in {"RELEASED", "CONVERTED"},
           reservations' = [reservations EXCEPT ![r].status = s]
    PROVE  /\ reservations[r] \in Reservation
           /\ reservations' \in Seq(Reservation)
           /\ DOMAIN reservations' = DOMAIN reservations
           /\ \A q \in DOMAIN reservations :
                 /\ reservations'[q].mission = reservations[q].mission
                 /\ reservations'[q].amount = reservations[q].amount
                 /\ reservations'[q].status = IF q = r THEN s ELSE reservations[q].status
<1>1. reservations \in Seq(Reservation)
  BY DEF FinanceTypeOK, StoredTypes
<1>2. reservations[r] \in Reservation
  BY <1>1
<1> DEFINE ended == [reservations[r] EXCEPT !.status = s]
<1>3. /\ ended \in Reservation /\ ended.status = s
      /\ ended.mission = reservations[r].mission /\ ended.amount = reservations[r].amount
  BY <1>2 DEF Reservation
<1>4. reservations' = [reservations EXCEPT ![r] = ended]
  OBVIOUS
<1> HIDE DEF ended
<1>5. QED
  BY <1>1, <1>2, <1>3, <1>4, Replaced

LEMMA TypeRelease ==
    ASSUME FinanceTypeOK, NEW r \in DOMAIN reservations, ReleaseReservation(r)
    PROVE  FinanceTypeOK'
<1> DEFINE res == reservations[r]
<1>1. /\ reservations' = [reservations EXCEPT ![r].status = "RELEASED"]
      /\ ledger' = Append(ledger, Entry("RESERVATION_RELEASED", r, res.amount))
      /\ Post(res.mission, -res.amount, 0, 0)
      /\ UNCHANGED <<commitments, spends, calls, payments, faults>>
  BY DEF ReleaseReservation
<1>2. /\ res \in Reservation /\ reservations' \in Seq(Reservation)
      /\ DOMAIN reservations' = DOMAIN reservations
      /\ \A q \in DOMAIN reservations : reservations'[q].mission = reservations[q].mission
  BY <1>1, Ended
<1>3. res.mission \in DOMAIN allocations /\ res.amount \in Nat /\ r \in Nat
  BY <1>2 DEF Reservation, FinanceTypeOK, Referenced, StoredTypes
<1> HIDE DEF res
<1>4. ledger' \in Seq(LedgerEntry)
  BY <1>1, <1>3, EntryTyped DEF EntryTypes, FinanceTypeOK, StoredTypes
<1>5. -res.amount \in Int /\ 0 \in Int
  BY <1>3
<1>6. /\ budget' \in Budget /\ budget' # NoBudget
      /\ DOMAIN allocations' = DOMAIN allocations
      /\ DOMAIN allocations \subseteq Missions
      /\ allocations' \in [DOMAIN allocations' -> Allocation]
      /\ Solvent'
  BY <1>1, <1>3, <1>5, TypePosted, Zenon
<1>7. StoredTypes'
  BY <1>1, <1>2, <1>4, <1>6 DEF FinanceTypeOK, StoredTypes
<1>8. Referenced'
  BY <1>1, <1>2, <1>6 DEF FinanceTypeOK, Referenced
<1>9. QED
  BY <1>6, <1>7, <1>8 DEF FinanceTypeOK

\* One commitment is added.
LEMMA Committed ==
    ASSUME commitments \in Seq(FinancialCommitment), NEW m \in Missions,
           NEW amount \in Nat \ {0}, NEW r \in Nat, NEW status \in {"COMMITTED", "SPENT"},
           commitments' = Append(commitments, Commitment(m, amount, status, r))
    PROVE  LET new == Len(commitments) + 1
           IN  /\ commitments' \in Seq(FinancialCommitment)
               /\ Len(commitments') = new /\ new \in Nat \ {0}
               /\ new \notin DOMAIN commitments
               /\ DOMAIN commitments' = DOMAIN commitments \cup {new}
               /\ \A k \in DOMAIN commitments : commitments'[k] = commitments[k]
               /\ commitments'[new].mission = m /\ commitments'[new].amount = amount
               /\ commitments'[new].status = status /\ commitments'[new].reservation = r
<1> DEFINE com == Commitment(m, amount, status, r)
<1>1. com \in FinancialCommitment
  BY CommitmentTyped
<1>2. com.mission = m /\ com.amount = amount /\ com.status = status /\ com.reservation = r
  BY DEF Commitment
<1> HIDE DEF com
<1>3. commitments' = Append(commitments, com)
  BY DEF com
<1>4. Len(commitments) + 1 \in Nat \ {0}
  OBVIOUS
<1>5. QED
  BY <1>1, <1>2, <1>3, <1>4, Appended

LEMMA TypeConvert ==
    ASSUME FinanceTypeOK, NEW r \in DOMAIN reservations, ConvertReservationToCommitment(r)
    PROVE  FinanceTypeOK'
<1> DEFINE res == reservations[r]
           new == Len(commitments) + 1
<1>1. /\ reservations' = [reservations EXCEPT ![r].status = "CONVERTED"]
      /\ commitments' = Append(commitments, Commitment(res.mission, res.amount, "COMMITTED", r))
      /\ ledger' = Append(ledger, Entry("RESERVATION_CONVERTED", Len(commitments'), res.amount))
      /\ Post(res.mission, -res.amount, res.amount, 0)
      /\ UNCHANGED <<spends, calls, payments, faults>>
  BY DEF ConvertReservationToCommitment
<1>2. /\ res \in Reservation /\ reservations' \in Seq(Reservation)
      /\ DOMAIN reservations' = DOMAIN reservations
      /\ \A q \in DOMAIN reservations : reservations'[q].mission = reservations[q].mission
  BY <1>1, Ended
<1>3. /\ res.mission \in DOMAIN allocations /\ res.mission \in Missions
      /\ res.amount \in Nat \ {0} /\ r \in Nat
  BY <1>2 DEF Reservation, FinanceTypeOK, Referenced, StoredTypes
<1> HIDE DEF res
<1>4. commitments \in Seq(FinancialCommitment)
  BY DEF FinanceTypeOK, StoredTypes
<1>5. /\ commitments' \in Seq(FinancialCommitment)
      /\ Len(commitments') = new /\ new \in Nat \ {0}
      /\ DOMAIN commitments' = DOMAIN commitments \cup {new}
      /\ \A k \in DOMAIN commitments : commitments'[k] = commitments[k]
      /\ commitments'[new].mission = res.mission /\ commitments'[new].reservation = r
  BY <1>1, <1>3, <1>4, Committed
<1>6. ledger' \in Seq(LedgerEntry)
  BY <1>1, <1>3, <1>5, EntryTyped DEF EntryTypes, FinanceTypeOK, StoredTypes
<1>7. -res.amount \in Int /\ res.amount \in Int /\ 0 \in Int
  BY <1>3
<1>8. /\ budget' \in Budget /\ budget' # NoBudget
      /\ DOMAIN allocations' = DOMAIN allocations
      /\ DOMAIN allocations \subseteq Missions
      /\ allocations' \in [DOMAIN allocations' -> Allocation]
      /\ Solvent'
  BY <1>1, <1>3, <1>7, TypePosted, Zenon
<1>9. StoredTypes'
  BY <1>1, <1>2, <1>5, <1>6, <1>8 DEF FinanceTypeOK, StoredTypes
<1> HIDE DEF new
<1>10. Referenced'
  BY <1>1, <1>2, <1>3, <1>5, <1>8 DEF FinanceTypeOK, Referenced
<1>11. QED
  BY <1>8, <1>9, <1>10 DEF FinanceTypeOK

\* The commitment's status changes and nothing else of it.
LEMMA Settled ==
    ASSUME FinanceTypeOK, NEW k \in DOMAIN commitments,
           commitments' = [commitments EXCEPT ![k].status = "SPENT"]
    PROVE  /\ commitments[k] \in FinancialCommitment
           /\ commitments' \in Seq(FinancialCommitment)
           /\ DOMAIN commitments' = DOMAIN commitments
           /\ \A l \in DOMAIN commitments :
                 /\ commitments'[l].mission = commitments[l].mission
                 /\ commitments'[l].amount = commitments[l].amount
                 /\ commitments'[l].reservation = commitments[l].reservation
                 /\ commitments'[l].status = IF l = k THEN "SPENT" ELSE commitments[l].status
<1>1. commitments \in Seq(FinancialCommitment)
  BY DEF FinanceTypeOK, StoredTypes
<1>2. commitments[k] \in FinancialCommitment
  BY <1>1
<1> DEFINE settled == [commitments[k] EXCEPT !.status = "SPENT"]
<1>3. /\ settled \in FinancialCommitment /\ settled.status = "SPENT"
      /\ settled.mission = commitments[k].mission /\ settled.amount = commitments[k].amount
      /\ settled.reservation = commitments[k].reservation
  BY <1>2 DEF FinancialCommitment
<1>4. commitments' = [commitments EXCEPT ![k] = settled]
  OBVIOUS
<1> HIDE DEF settled
<1>5. QED
  BY <1>1, <1>2, <1>3, <1>4, Replaced

\* One spend is added.
LEMMA SpendAdded ==
    ASSUME spends \in Seq(ActualSpend), NEW k \in Nat, NEW cents \in Nat \ {0},
           spends' = Append(spends, [commitment |-> k, amount |-> cents])
    PROVE  LET new == Len(spends) + 1
           IN  /\ spends' \in Seq(ActualSpend)
               /\ Len(spends') = new /\ new \in Nat
               /\ new \notin DOMAIN spends
               /\ DOMAIN spends' = DOMAIN spends \cup {new}
               /\ \A s \in DOMAIN spends : spends'[s] = spends[s]
               /\ spends'[new] = [commitment |-> k, amount |-> cents]
<1> DEFINE spend == [commitment |-> k, amount |-> cents]
<1>1. spend \in ActualSpend
  BY DEF ActualSpend
<1>2. Len(spends) + 1 \in Nat
  OBVIOUS
<1> HIDE DEF spend
<1>3. spends' = Append(spends, spend)
  BY DEF spend
<1>4. QED
  BY <1>1, <1>2, <1>3, Appended DEF spend

LEMMA TypeSpend ==
    ASSUME FinanceTypeOK, NEW k \in DOMAIN commitments, NEW amount \in Amounts,
           RecordSpend(k, amount)
    PROVE  FinanceTypeOK'
<1> DEFINE com == commitments[k]
           cents == safe_money(amount)
           new == Len(spends) + 1
<1>1. /\ commitments' = [commitments EXCEPT ![k].status = "SPENT"]
      /\ spends' = Append(spends, [commitment |-> k, amount |-> cents])
      /\ ledger' = Append(ledger, Entry("SPEND_RECORDED", Len(spends'), cents))
      /\ Post(com.mission, 0, -com.amount, cents)
      /\ cents > 0
      /\ UNCHANGED <<reservations, calls, payments, faults>>
  BY DEF RecordSpend
<1>2. /\ com \in FinancialCommitment /\ commitments' \in Seq(FinancialCommitment)
      /\ DOMAIN commitments' = DOMAIN commitments
      /\ \A l \in DOMAIN commitments :
            /\ commitments'[l].mission = commitments[l].mission
            /\ commitments'[l].reservation = commitments[l].reservation
  BY <1>1, Settled
<1>3. /\ com.mission \in DOMAIN allocations /\ com.amount \in Nat /\ k \in Nat
      /\ cents \in Nat \ {0}
  <2>1. com.mission \in DOMAIN allocations /\ k \in Nat
    BY DEF FinanceTypeOK, Referenced, StoredTypes
  <2>2. com.amount \in Nat
    BY <1>2 DEF FinancialCommitment
  <2>3. cents \in Nat
    BY Cents
  <2>4. QED
    BY <1>1, <2>1, <2>2, <2>3
<1>4. spends \in Seq(ActualSpend)
  BY DEF FinanceTypeOK, StoredTypes
<1> HIDE DEF com, cents
<1>5. /\ spends' \in Seq(ActualSpend)
      /\ Len(spends') = new /\ new \in Nat
      /\ DOMAIN spends' = DOMAIN spends \cup {new}
      /\ \A s \in DOMAIN spends : spends'[s] = spends[s]
      /\ spends'[new].commitment = k
  BY <1>1, <1>3, <1>4, SpendAdded
<1>6. ledger' \in Seq(LedgerEntry)
  BY <1>1, <1>3, <1>5, EntryTyped DEF EntryTypes, FinanceTypeOK, StoredTypes
<1>7. -com.amount \in Int /\ cents \in Int /\ 0 \in Int
  BY <1>3
<1>8. /\ budget' \in Budget /\ budget' # NoBudget
      /\ DOMAIN allocations' = DOMAIN allocations
      /\ DOMAIN allocations \subseteq Missions
      /\ allocations' \in [DOMAIN allocations' -> Allocation]
      /\ Solvent'
  BY <1>1, <1>3, <1>7, TypePosted, Zenon
<1>9. StoredTypes'
  BY <1>1, <1>2, <1>5, <1>6, <1>8 DEF FinanceTypeOK, StoredTypes
<1> HIDE DEF new
<1>10. Referenced'
  BY <1>1, <1>2, <1>5, <1>8 DEF FinanceTypeOK, Referenced
<1>11. QED
  BY <1>8, <1>9, <1>10 DEF FinanceTypeOK

LEMMA TypeStarts ==
    ASSUME FinanceTypeOK, NEW c \in Calls, NEW m \in Missions, NEW amount \in Amounts,
           NEW currency \in Currencies \cup {NoCurrency}, PaymentStarts(c, m, amount, currency)
    PROVE  FinanceTypeOK'
<1>1. calls' \in [Calls -> Call \cup {NoCall}]
  BY DEF PaymentStarts, Call, FinanceTypeOK, StoredTypes
<1>2. UNCHANGED <<books, payments, faults>>
  BY DEF PaymentStarts
<1>3. StoredTypes'
  BY <1>1, <1>2 DEF books, FinanceTypeOK, StoredTypes
<1>4. Referenced' /\ Solvent'
  BY <1>2 DEF books, FinanceTypeOK, Referenced, Solvent
<1>5. QED
  BY <1>3, <1>4 DEF FinanceTypeOK

\* A call that ends without touching the books.
LEMMA TypeUnbooked ==
    ASSUME FinanceTypeOK, NEW c \in Calls, calls[c] # NoCall, Paid(c, 0),
           UNCHANGED books, faults' \in 0 .. MaxFaults
    PROVE  FinanceTypeOK'
<1>1. StoredTypes /\ 0 \in Nat
  BY DEF FinanceTypeOK
<1>2. /\ calls' \in [Calls -> Call \cup {NoCall}]
      /\ payments' \in Seq(Payment)
      /\ DOMAIN payments' = DOMAIN payments \cup {Len(payments) + 1}
      /\ \A i \in DOMAIN payments : payments'[i] = payments[i]
      /\ payments'[Len(payments) + 1].commitment = 0

  BY <1>1, PaidOnce, Zenon
<1>3. StoredTypes'
  BY <1>2 DEF books, FinanceTypeOK, StoredTypes
<1>4. Referenced'
  BY <1>2 DEF books, FinanceTypeOK, Referenced
<1>5. Solvent'
  BY DEF books, FinanceTypeOK, Solvent
<1>6. QED
  BY <1>3, <1>4, <1>5 DEF FinanceTypeOK

\* What is true of a call whose payment can be committed.
LEMMA CommittableCall ==
    ASSUME FinanceTypeOK, NEW c \in Calls, calls[c] # NoCall, Committable(calls[c])
    PROVE  /\ calls[c] \in Call
           /\ calls[c].mission \in DOMAIN allocations /\ calls[c].mission \in Missions
           /\ calls[c].amount \in Amounts
           /\ safe_money(calls[c].amount) \in Nat \ {0}
<1>1. calls[c] \in Call
  BY DEF FinanceTypeOK, StoredTypes
<1>2. calls[c].amount \in Amounts /\ calls[c].mission \in Missions
  BY <1>1 DEF Call
<1>3. safe_money(calls[c].amount) \in Nat /\ safe_money(calls[c].amount) > 0
  BY <1>2, Cents DEF Committable
<1>4. QED
  BY <1>1, <1>2, <1>3 DEF Committable, Configured

LEMMA TypeRecorded ==
    ASSUME FinanceTypeOK, NEW c \in Calls, PaymentRecorded(c)
    PROVE  FinanceTypeOK'
<1> DEFINE m == calls[c].mission
           cents == safe_money(calls[c].amount)
           com == Len(commitments) + 1
           new == Len(spends) + 1
<1>1. /\ calls[c] # NoCall /\ Committable(calls[c])
      /\ commitments' = Append(commitments, Commitment(m, cents, "SPENT", 0))
      /\ spends' = Append(spends, [commitment |-> Len(commitments'), amount |-> cents])
      /\ ledger' = ledger \o <<Entry("COMMITMENT_CREATED", Len(commitments'), cents),
                               Entry("SPEND_RECORDED", Len(spends'), cents)>>
      /\ Post(m, 0, 0, cents)
      /\ Paid(c, Len(commitments'))
      /\ UNCHANGED <<reservations, faults>>
  BY DEF PaymentRecorded
<1>2. m \in DOMAIN allocations /\ m \in Missions /\ cents \in Nat \ {0}
  BY <1>1, CommittableCall
<1>3. /\ commitments \in Seq(FinancialCommitment) /\ spends \in Seq(ActualSpend)
      /\ ledger \in Seq(LedgerEntry) /\ StoredTypes
  BY DEF FinanceTypeOK, StoredTypes
<1> HIDE DEF m, cents
<1>4. /\ commitments' \in Seq(FinancialCommitment)
      /\ Len(commitments') = com /\ com \in Nat \ {0}
      /\ DOMAIN commitments' = DOMAIN commitments \cup {com}
      /\ \A k \in DOMAIN commitments : commitments'[k] = commitments[k]
      /\ commitments'[com].mission = m /\ commitments'[com].reservation = 0
  BY <1>1, <1>2, <1>3, Committed
<1>5. /\ spends' \in Seq(ActualSpend)
      /\ Len(spends') = new /\ new \in Nat
      /\ DOMAIN spends' = DOMAIN spends \cup {new}
      /\ \A s \in DOMAIN spends : spends'[s] = spends[s]
      /\ spends'[new].commitment = com
  <2>1. spends' = Append(spends, [commitment |-> com, amount |-> cents]) /\ com \in Nat
    BY <1>1, <1>4
  <2>2. QED
    BY <1>2, <1>3, <2>1, SpendAdded
<1>6. ledger' \in Seq(LedgerEntry)
  <2>1. /\ Entry("COMMITMENT_CREATED", Len(commitments'), cents) \in LedgerEntry
        /\ Entry("SPEND_RECORDED", Len(spends'), cents) \in LedgerEntry
    BY <1>2, <1>4, <1>5 DEF Entry, EntryTypes, LedgerEntry
  <2>2. QED
    BY <1>1, <1>3, <2>1
<1>7. /\ payments' \in Seq(Payment)
      /\ DOMAIN payments' = DOMAIN payments \cup {Len(payments) + 1}
      /\ \A i \in DOMAIN payments : payments'[i] = payments[i]
      /\ payments'[Len(payments) + 1].commitment = com
      /\ calls' \in [Calls -> Call \cup {NoCall}]
  BY <1>1, <1>3, <1>4, PaidOnce
<1>8. cents \in Int /\ 0 \in Int
  BY <1>2
<1>9. /\ budget' \in Budget /\ budget' # NoBudget
      /\ DOMAIN allocations' = DOMAIN allocations
      /\ DOMAIN allocations \subseteq Missions
      /\ allocations' \in [DOMAIN allocations' -> Allocation]
      /\ Solvent'
  BY <1>1, <1>2, <1>8, TypePosted, Zenon
<1>10. StoredTypes'
  BY <1>1, <1>3, <1>4, <1>5, <1>6, <1>7, <1>9 DEF StoredTypes
<1> HIDE DEF com, new
<1>11. Referenced'
  BY <1>1, <1>2, <1>4, <1>5, <1>7, <1>9 DEF FinanceTypeOK, Referenced
<1>12. QED
  BY <1>9, <1>10, <1>11 DEF FinanceTypeOK

LEMMA TypeHalfRecorded ==
    ASSUME FinanceTypeOK, NEW c \in Calls, PaymentHalfRecorded(c)
    PROVE  FinanceTypeOK'
<1> DEFINE m == calls[c].mission
           cents == safe_money(calls[c].amount)
           com == Len(commitments) + 1
<1>1. /\ calls[c] # NoCall /\ Committable(calls[c])
      /\ commitments' = Append(commitments, Commitment(m, cents, "COMMITTED", 0))
      /\ ledger' = Append(ledger, Entry("COMMITMENT_CREATED", Len(commitments'), cents))
      /\ Post(m, 0, cents, 0)
      /\ Paid(c, Len(commitments'))
      /\ faults < MaxFaults /\ faults' = faults + 1
      /\ UNCHANGED <<reservations, spends>>
  BY DEF PaymentHalfRecorded
<1>2. m \in DOMAIN allocations /\ m \in Missions /\ cents \in Nat \ {0}
  BY <1>1, CommittableCall
<1>3. commitments \in Seq(FinancialCommitment) /\ StoredTypes
  BY DEF FinanceTypeOK, StoredTypes
<1> HIDE DEF m, cents
<1>4. /\ commitments' \in Seq(FinancialCommitment)
      /\ Len(commitments') = com /\ com \in Nat \ {0}
      /\ DOMAIN commitments' = DOMAIN commitments \cup {com}
      /\ \A k \in DOMAIN commitments : commitments'[k] = commitments[k]
      /\ commitments'[com].mission = m /\ commitments'[com].reservation = 0
  BY <1>1, <1>2, <1>3, Committed
<1>5. ledger' \in Seq(LedgerEntry)
  BY <1>1, <1>2, <1>4, EntryTyped DEF EntryTypes, FinanceTypeOK, StoredTypes
<1>6. /\ payments' \in Seq(Payment)
      /\ DOMAIN payments' = DOMAIN payments \cup {Len(payments) + 1}
      /\ \A i \in DOMAIN payments : payments'[i] = payments[i]
      /\ payments'[Len(payments) + 1].commitment = com
      /\ calls' \in [Calls -> Call \cup {NoCall}]
  BY <1>1, <1>3, <1>4, PaidOnce
<1>7. cents \in Int /\ 0 \in Int
  BY <1>2
<1>8. /\ budget' \in Budget /\ budget' # NoBudget
      /\ DOMAIN allocations' = DOMAIN allocations
      /\ DOMAIN allocations \subseteq Missions
      /\ allocations' \in [DOMAIN allocations' -> Allocation]
      /\ Solvent'
  BY <1>1, <1>2, <1>7, TypePosted, Zenon
<1>9. faults' \in 0 .. MaxFaults
  BY <1>1, <1>3, BoundsAssumption DEF StoredTypes
<1>10. StoredTypes'
  BY <1>1, <1>3, <1>4, <1>5, <1>6, <1>8, <1>9 DEF StoredTypes
<1> HIDE DEF com
<1>11. Referenced'
  BY <1>1, <1>2, <1>4, <1>6, <1>8 DEF FinanceTypeOK, Referenced
<1>12. QED
  BY <1>8, <1>10, <1>11 DEF FinanceTypeOK

\* The steps of FinanceNext, one by one: what holds after each holds after any.
LEMMA TypeNext ==
    ASSUME FinanceTypeOK, [FinanceNext]_financeVars
    PROVE  FinanceTypeOK'
<1>1. faults \in 0 .. MaxFaults
  BY DEF FinanceTypeOK, StoredTypes
<1>2. ASSUME NEW currency \in Currencies, NEW amount \in Amounts,
             CreateObjectiveBudget(currency, amount)
      PROVE  FinanceTypeOK'
  BY <1>1, <1>2, Cents, TypeNewBudget DEF CreateObjectiveBudget
<1>3. ASSUME NEW currency \in Currencies, NEW amount \in Amounts,
             CreateOverUnreadable(currency, amount)
      PROVE  FinanceTypeOK'
  <2>1. faults' \in 0 .. MaxFaults /\ calls' = calls
    BY <1>1, <1>3, BoundsAssumption DEF CreateOverUnreadable
  <2>2. CASE NewBudget(currency, safe_money(amount))
    BY <2>1, <2>2, Cents, TypeNewBudget
  <2>3. CASE ~ NewBudget(currency, safe_money(amount))
    BY <1>3, <2>1, <2>3, TypeErased DEF CreateOverUnreadable
  <2>4. QED
    BY <2>2, <2>3
<1>4. ASSUME NEW m \in Missions, NEW amount \in Amounts,
             AllocateToMission(m, amount) \/ Reserve(m, amount)
      PROVE  FinanceTypeOK'
  BY <1>4, TypeAllocate, TypeReserve
<1>5. ASSUME NEW r \in DOMAIN reservations,
             ReleaseReservation(r) \/ ConvertReservationToCommitment(r)
      PROVE  FinanceTypeOK'
  BY <1>5, TypeRelease, TypeConvert
<1>6. ASSUME NEW k \in DOMAIN commitments, NEW amount \in Amounts, RecordSpend(k, amount)
      PROVE  FinanceTypeOK'
  BY <1>6, TypeSpend
<1>7. ASSUME NEW c \in Calls, NEW m \in Missions, NEW amount \in Amounts,
             NEW currency \in Currencies \cup {NoCurrency},
             PaymentStarts(c, m, amount, currency)
      PROVE  FinanceTypeOK'
  BY <1>7, TypeStarts
<1>8. ASSUME NEW c \in Calls, PaymentFails(c)
      PROVE  FinanceTypeOK'
  <2>1. CASE Paid(c, 0)
    BY <1>1, <1>8, <2>1, TypeUnbooked DEF PaymentFails
  <2>2. CASE ~ Paid(c, 0)
    <3>1. /\ calls' = [calls EXCEPT ![c] = NoCall]
          /\ UNCHANGED <<books, payments, faults>>
      BY <1>8, <2>2 DEF PaymentFails
    <3>2. StoredTypes'
      BY <3>1 DEF books, FinanceTypeOK, StoredTypes
    <3>3. Referenced' /\ Solvent'
      BY <3>1 DEF books, FinanceTypeOK, Referenced, Solvent
    <3>4. QED
      BY <3>2, <3>3 DEF FinanceTypeOK
  <2>3. QED
    BY <2>1, <2>2
<1>9. ASSUME NEW c \in Calls, PaymentUnpriced(c)
      PROVE  FinanceTypeOK'
  BY <1>1, <1>9, TypeUnbooked DEF PaymentUnpriced
<1>10. ASSUME NEW c \in Calls, PaymentRecorded(c) \/ PaymentHalfRecorded(c)
       PROVE  FinanceTypeOK'
  BY <1>10, TypeRecorded, TypeHalfRecorded
<1>11. ASSUME NEW c \in Calls, PaymentUnrecorded(c)
       PROVE  FinanceTypeOK'
  <2>1. faults' \in 0 .. MaxFaults
    BY <1>1, <1>11, BoundsAssumption DEF PaymentUnrecorded
  <2>2. QED
    BY <1>11, <2>1, TypeUnbooked DEF PaymentUnrecorded
<1>12. CASE UNCHANGED financeVars
  BY <1>12 DEF financeVars, books, FinanceTypeOK, StoredTypes, Referenced, Solvent
<1>13. QED
  BY <1>2, <1>3, <1>4, <1>5, <1>6, <1>7, <1>8, <1>9, <1>10, <1>11, <1>12 DEF FinanceNext

\* What the repository stores is typed, refers to what is stored, and stays
\* within the limits of the objective and its missions.
THEOREM FinanceTypeHolds == FinanceSpec => []FinanceTypeOK
  BY TypeInit, TypeNext, PTL DEF FinanceSpec

------------------------------------------------------------------------------
(* Money ends once.                                                        *)

LEMMA EndsAfterReserve ==
    ASSUME FinanceTypeOK, EndsOnce, NEW m \in Missions, NEW amount \in Amounts,
           Reserve(m, amount)
    PROVE  EndsOnce'
<1> DEFINE new == Len(reservations) + 1
           res == [mission |-> m, amount |-> safe_money(amount), status |-> "ACTIVE"]
<1>1. /\ reservations' = Append(reservations, res)
      /\ res \in Reservation /\ reservations \in Seq(Reservation)
      /\ UNCHANGED <<commitments, spends>>
  BY Cents DEF Reserve, Reservation, FinanceTypeOK, StoredTypes
<1>2. res.status = "ACTIVE"
  OBVIOUS
<1> HIDE DEF res
<1>3. /\ DOMAIN reservations' = DOMAIN reservations \cup {new}
      /\ \A r \in DOMAIN reservations : reservations'[r] = reservations[r]
      /\ reservations'[new].status = "ACTIVE"
  BY <1>1, <1>2, Appended
<1> HIDE DEF new
<1>4. ConvertedOnce'
  BY <1>1, <1>3 DEF EndsOnce, ConvertedOnce, FinanceTypeOK, Referenced
<1>5. SpentOnce'
  BY <1>1 DEF EndsOnce, SpentOnce
<1>6. QED
  BY <1>4, <1>5 DEF EndsOnce

LEMMA EndsAfterRelease ==
    ASSUME FinanceTypeOK, EndsOnce, NEW r \in DOMAIN reservations, ReleaseReservation(r)
    PROVE  EndsOnce'
<1>1. /\ reservations' = [reservations EXCEPT ![r].status = "RELEASED"]
      /\ reservations[r].status = "ACTIVE"
      /\ UNCHANGED <<commitments, spends>>
  BY DEF ReleaseReservation, Active
<1>2. /\ DOMAIN reservations' = DOMAIN reservations
      /\ \A q \in DOMAIN reservations :
            /\ reservations'[q].mission = reservations[q].mission
            /\ reservations'[q].amount = reservations[q].amount
            /\ reservations'[q].status = IF q = r THEN "RELEASED" ELSE reservations[q].status
  BY <1>1, Ended
<1>3. ConvertedOnce'
  BY <1>1, <1>2 DEF EndsOnce, ConvertedOnce, FinanceTypeOK, Referenced
<1>4. SpentOnce'
  BY <1>1 DEF EndsOnce, SpentOnce
<1>5. QED
  BY <1>3, <1>4 DEF EndsOnce

LEMMA EndsAfterConvert ==
    ASSUME FinanceTypeOK, EndsOnce, NEW r \in DOMAIN reservations,
           ConvertReservationToCommitment(r)
    PROVE  EndsOnce'
<1> DEFINE res == reservations[r]
           new == Len(commitments) + 1
<1>1. /\ reservations' = [reservations EXCEPT ![r].status = "CONVERTED"]
      /\ commitments' = Append(commitments, Commitment(res.mission, res.amount, "COMMITTED", r))
      /\ res.status = "ACTIVE" /\ spends' = spends
  BY DEF ConvertReservationToCommitment, Active
<1>2. /\ res \in Reservation /\ DOMAIN reservations' = DOMAIN reservations
      /\ \A q \in DOMAIN reservations :
            /\ reservations'[q].mission = reservations[q].mission
            /\ reservations'[q].amount = reservations[q].amount
            /\ reservations'[q].status = IF q = r THEN "CONVERTED" ELSE reservations[q].status
  BY <1>1, Ended
<1>3. /\ res.mission \in Missions /\ res.amount \in Nat \ {0}
      /\ r \in Nat \ {0} /\ commitments \in Seq(FinancialCommitment)
  BY <1>2 DEF Reservation, FinanceTypeOK, StoredTypes
<1>4. /\ new \notin DOMAIN commitments
      /\ DOMAIN commitments' = DOMAIN commitments \cup {new}
      /\ \A k \in DOMAIN commitments : commitments'[k] = commitments[k]
      /\ commitments'[new].mission = res.mission /\ commitments'[new].amount = res.amount
      /\ commitments'[new].status = "COMMITTED" /\ commitments'[new].reservation = r
  BY <1>1, <1>3, Committed
<1> HIDE DEF new
<1>5. ConvertedOnce'
  <2>1. \A k \in DOMAIN commitments : commitments[k].reservation # r
    BY <1>1, <1>3 DEF EndsOnce, ConvertedOnce
  <2>2. \A k \in DOMAIN commitments' : commitments'[k].reservation # 0 =>
          LET q == commitments'[k].reservation
          IN  /\ reservations'[q].status = "CONVERTED"
              /\ reservations'[q].mission = commitments'[k].mission
              /\ reservations'[q].amount = commitments'[k].amount
    BY <1>2, <1>4 DEF EndsOnce, ConvertedOnce, FinanceTypeOK, Referenced
  <2>3. \A k, l \in DOMAIN commitments' :
          commitments'[k].reservation = commitments'[l].reservation
             => k = l \/ commitments'[k].reservation = 0
    BY <1>4, <2>1 DEF EndsOnce, ConvertedOnce
  <2>4. \A q \in DOMAIN reservations' : reservations'[q].status = "CONVERTED" =>
          \E k \in DOMAIN commitments' : commitments'[k].reservation = q
    BY <1>2, <1>4 DEF EndsOnce, ConvertedOnce
  <2>5. QED
    BY <2>2, <2>3, <2>4 DEF ConvertedOnce
<1>6. SpentOnce'
  BY <1>1, <1>4 DEF EndsOnce, SpentOnce, FinanceTypeOK, Referenced
<1>7. QED
  BY <1>5, <1>6 DEF EndsOnce

LEMMA EndsAfterSpend ==
    ASSUME FinanceTypeOK, EndsOnce, NEW k \in DOMAIN commitments, NEW amount \in Amounts,
           RecordSpend(k, amount)
    PROVE  EndsOnce'
<1> DEFINE cents == safe_money(amount)
           new == Len(spends) + 1
<1>1. /\ commitments' = [commitments EXCEPT ![k].status = "SPENT"]
      /\ spends' = Append(spends, [commitment |-> k, amount |-> cents])
      /\ commitments[k].status # "SPENT"
      /\ cents > 0 /\ cents <= commitments[k].amount
      /\ reservations' = reservations
  BY DEF RecordSpend, Unspent
<1>2. /\ DOMAIN commitments' = DOMAIN commitments
      /\ \A l \in DOMAIN commitments :
            /\ commitments'[l].mission = commitments[l].mission
            /\ commitments'[l].amount = commitments[l].amount
            /\ commitments'[l].reservation = commitments[l].reservation
            /\ commitments'[l].status = IF l = k THEN "SPENT" ELSE commitments[l].status
  BY <1>1, Settled
<1>3. cents \in Nat \ {0}
  BY <1>1, Cents
<1>4. k \in Nat /\ spends \in Seq(ActualSpend)
  BY DEF FinanceTypeOK, StoredTypes
<1> HIDE DEF cents
<1>5. /\ new \notin DOMAIN spends
      /\ DOMAIN spends' = DOMAIN spends \cup {new}
      /\ \A s \in DOMAIN spends : spends'[s] = spends[s]
      /\ spends'[new].commitment = k /\ spends'[new].amount = cents
  BY <1>1, <1>3, <1>4, SpendAdded
<1> HIDE DEF new
<1>6. ConvertedOnce'
  BY <1>1, <1>2 DEF EndsOnce, ConvertedOnce
<1>7. SpentOnce'
  <2>1. \A s \in DOMAIN spends : spends[s].commitment # k
    BY <1>1 DEF EndsOnce, SpentOnce
  <2>2. \A s \in DOMAIN spends' :
          LET l == spends'[s].commitment
          IN  commitments'[l].status = "SPENT" /\ spends'[s].amount <= commitments'[l].amount
    BY <1>1, <1>2, <1>5 DEF EndsOnce, SpentOnce, FinanceTypeOK, Referenced
  <2>3. \A s, t \in DOMAIN spends' : spends'[s].commitment = spends'[t].commitment => s = t
    BY <1>5, <2>1 DEF EndsOnce, SpentOnce
  <2>4. \A l \in DOMAIN commitments' : commitments'[l].status = "SPENT" =>
          \E s \in DOMAIN spends' : spends'[s].commitment = l
    BY <1>2, <1>5 DEF EndsOnce, SpentOnce
  <2>5. QED
    BY <2>2, <2>3, <2>4 DEF SpentOnce
<1>8. QED
  BY <1>6, <1>7 DEF EndsOnce

\* What the executor's two ways of booking a payment store.
LEMMA Booked ==
    ASSUME FinanceTypeOK, NEW c \in Calls, PaymentRecorded(c) \/ PaymentHalfRecorded(c)
    PROVE  LET cents == safe_money(calls[c].amount)
               new == Len(commitments) + 1
           IN  /\ reservations' = reservations
               /\ cents \in Nat \ {0} /\ new \in Nat \ {0}
               /\ new \notin DOMAIN commitments
               /\ DOMAIN commitments' = DOMAIN commitments \cup {new}
               /\ \A k \in DOMAIN commitments : commitments'[k] = commitments[k]
               /\ commitments'[new].mission = calls[c].mission
               /\ commitments'[new].amount = cents
               /\ commitments'[new].reservation = 0
               /\ \/ commitments'[new].status = "COMMITTED" /\ spends' = spends
                  \/ /\ commitments'[new].status = "SPENT"
                     /\ spends' = Append(spends, [commitment |-> new, amount |-> cents])
               /\ calls[c] # NoCall /\ Paid(c, new)
<1> DEFINE m == calls[c].mission
           cents == safe_money(calls[c].amount)
           new == Len(commitments) + 1
<1>1. calls[c] # NoCall /\ Committable(calls[c]) /\ reservations' = reservations
  BY DEF PaymentRecorded, PaymentHalfRecorded
<1>2. m \in Missions /\ cents \in Nat \ {0}
  BY <1>1, CommittableCall
<1>3. commitments \in Seq(FinancialCommitment)
  BY DEF FinanceTypeOK, StoredTypes
<1>4. PICK status \in {"COMMITTED", "SPENT"} :
         /\ commitments' = Append(commitments, Commitment(m, cents, status, 0))
         /\ Paid(c, Len(commitments'))
         /\ \/ status = "COMMITTED" /\ spends' = spends
            \/ /\ status = "SPENT"
               /\ spends' = Append(spends, [commitment |-> Len(commitments'), amount |-> cents])
  BY DEF PaymentRecorded, PaymentHalfRecorded
<1> HIDE DEF m, cents
<1>5. /\ Len(commitments') = new /\ new \in Nat \ {0}
      /\ new \notin DOMAIN commitments
      /\ DOMAIN commitments' = DOMAIN commitments \cup {new}
      /\ \A k \in DOMAIN commitments : commitments'[k] = commitments[k]
      /\ commitments'[new].mission = m /\ commitments'[new].amount = cents
      /\ commitments'[new].status = status /\ commitments'[new].reservation = 0
  BY <1>2, <1>3, <1>4, Committed
<1> HIDE DEF new
<1>6. QED
  BY <1>1, <1>2, <1>4, <1>5 DEF m, cents, new

LEMMA EndsAfterBooking ==
    ASSUME FinanceTypeOK, EndsOnce, NEW c \in Calls,
           PaymentRecorded(c) \/ PaymentHalfRecorded(c)
    PROVE  EndsOnce'
<1> DEFINE cents == safe_money(calls[c].amount)
           com == Len(commitments) + 1
           new == Len(spends) + 1
<1>1. /\ reservations' = reservations
      /\ cents \in Nat \ {0} /\ com \in Nat \ {0}
      /\ com \notin DOMAIN commitments
      /\ DOMAIN commitments' = DOMAIN commitments \cup {com}
      /\ \A k \in DOMAIN commitments : commitments'[k] = commitments[k]
      /\ commitments'[com].amount = cents
      /\ commitments'[com].reservation = 0
      /\ \/ commitments'[com].status = "COMMITTED" /\ spends' = spends
         \/ /\ commitments'[com].status = "SPENT"
            /\ spends' = Append(spends, [commitment |-> com, amount |-> cents])
  BY Booked
<1>2. spends \in Seq(ActualSpend)
  BY DEF FinanceTypeOK, StoredTypes
<1>3. \A s \in DOMAIN spends : spends[s].commitment \in DOMAIN commitments
  BY DEF FinanceTypeOK, Referenced
<1> HIDE DEF cents, com
<1>4. ConvertedOnce'
  BY <1>1 DEF EndsOnce, ConvertedOnce, FinanceTypeOK, Referenced
<1>5. CASE commitments'[com].status = "COMMITTED" /\ spends' = spends
  BY <1>1, <1>3, <1>4, <1>5 DEF EndsOnce, SpentOnce
<1>6. CASE /\ commitments'[com].status = "SPENT"
           /\ spends' = Append(spends, [commitment |-> com, amount |-> cents])
  <2>1. /\ new \notin DOMAIN spends
        /\ DOMAIN spends' = DOMAIN spends \cup {new}
        /\ \A s \in DOMAIN spends : spends'[s] = spends[s]
        /\ spends'[new].commitment = com /\ spends'[new].amount = cents
    BY <1>1, <1>2, <1>6, SpendAdded
  <2> HIDE DEF new
  <2>2. \A s \in DOMAIN spends' :
          LET l == spends'[s].commitment
          IN  commitments'[l].status = "SPENT" /\ spends'[s].amount <= commitments'[l].amount
    BY <1>1, <1>3, <1>6, <2>1 DEF EndsOnce, SpentOnce
  <2>3. \A s, t \in DOMAIN spends' : spends'[s].commitment = spends'[t].commitment => s = t
    BY <1>1, <1>3, <2>1 DEF EndsOnce, SpentOnce
  <2>4. \A l \in DOMAIN commitments' : commitments'[l].status = "SPENT" =>
          \E s \in DOMAIN spends' : spends'[s].commitment = l
    BY <1>1, <2>1 DEF EndsOnce, SpentOnce
  <2>5. QED
    BY <1>4, <2>2, <2>3, <2>4 DEF EndsOnce, SpentOnce
<1>7. QED
  BY <1>1, <1>5, <1>6

\* The lists are emptied.
Reset == reservations' = <<>> /\ commitments' = <<>> /\ spends' = <<>> /\ payments' = <<>>

\* What a step does to the lists.
LEMMA StepOnLists ==
    ASSUME [FinanceNext]_financeVars
    PROVE  \/ UNCHANGED <<reservations, commitments, spends, payments>>
           \/ Reset
           \/ \E m \in Missions, amount \in Amounts : Reserve(m, amount)
           \/ \E r \in DOMAIN reservations :
                 ReleaseReservation(r) \/ ConvertReservationToCommitment(r)
           \/ \E k \in DOMAIN commitments, amount \in Amounts : RecordSpend(k, amount)
           \/ \E c \in Calls : PaymentRecorded(c) \/ PaymentHalfRecorded(c)
           \/ \E c \in Calls :
                 /\ calls[c] # NoCall /\ Paid(c, 0)
                 /\ UNCHANGED <<reservations, commitments, spends>>
<1>1. ASSUME NEW currency \in Currencies, NEW amount \in Amounts,
             \/ CreateObjectiveBudget(currency, amount)
             \/ CreateOverUnreadable(currency, amount)
      PROVE  Reset
  BY <1>1 DEF CreateObjectiveBudget, CreateOverUnreadable, NewBudget, EmptyBooks, Reset
<1>2. ASSUME NEW m \in Missions, NEW amount \in Amounts, AllocateToMission(m, amount)
      PROVE  UNCHANGED <<reservations, commitments, spends, payments>>
  BY <1>2 DEF AllocateToMission
<1>3. ASSUME NEW c \in Calls, NEW m \in Missions, NEW amount \in Amounts,
             NEW currency \in Currencies \cup {NoCurrency},
             PaymentStarts(c, m, amount, currency)
      PROVE  UNCHANGED <<reservations, commitments, spends, payments>>
  BY <1>3 DEF PaymentStarts, books
<1>4. ASSUME NEW c \in Calls,
             PaymentFails(c) \/ PaymentUnpriced(c) \/ PaymentUnrecorded(c)
      PROVE  /\ calls[c] # NoCall /\ UNCHANGED <<reservations, commitments, spends>>
             /\ Paid(c, 0) \/ UNCHANGED payments
  BY <1>4 DEF PaymentFails, PaymentUnpriced, PaymentUnrecorded, books
<1>5. CASE UNCHANGED financeVars
  BY <1>5 DEF financeVars, books
<1>6. QED
  BY <1>1, <1>2, <1>3, <1>4, <1>5 DEF FinanceNext

LEMMA EndsNext ==
    ASSUME FinanceTypeOK, EndsOnce, [FinanceNext]_financeVars
    PROVE  EndsOnce'
<1>1. CASE UNCHANGED <<reservations, commitments, spends>>
  BY <1>1 DEF EndsOnce, ConvertedOnce, SpentOnce
<1>2. CASE Reset
  BY <1>2 DEF Reset, EndsOnce, ConvertedOnce, SpentOnce
<1>3. QED
  BY <1>1, <1>2, StepOnLists, EndsAfterReserve, EndsAfterRelease, EndsAfterConvert,
     EndsAfterSpend, EndsAfterBooking

\* Every reservation is converted at most once and every commitment spent at
\* most once, whatever is called in whatever order and however often.
THEOREM EndsOnceHolds == FinanceSpec => []EndsOnce
<1>1. FinanceInit => EndsOnce
  BY DEF FinanceInit, EndsOnce, ConvertedOnce, SpentOnce
<1>2. QED
  BY <1>1, EndsNext, FinanceTypeHolds, PTL DEF FinanceSpec

------------------------------------------------------------------------------
(* What was booked was paid.                                               *)

LEMMA BookedNext ==
    ASSUME FinanceTypeOK, PaymentsBooked, [FinanceNext]_financeVars
    PROVE  PaymentsBooked'
<1> DEFINE pay == Len(payments) + 1
           com == Len(commitments) + 1
<1>1. CASE UNCHANGED <<commitments, payments>>
  BY <1>1 DEF PaymentsBooked
<1>2. CASE Reset
  BY <1>2 DEF Reset, PaymentsBooked
<1>3. ASSUME NEW m \in Missions, NEW amount \in Amounts, Reserve(m, amount)
      PROVE  UNCHANGED <<commitments, payments>>
  BY <1>3 DEF Reserve
<1>4. ASSUME NEW r \in DOMAIN reservations, ReleaseReservation(r)
      PROVE  UNCHANGED <<commitments, payments>>
  BY <1>4 DEF ReleaseReservation
<1>5. ASSUME NEW r \in DOMAIN reservations, ConvertReservationToCommitment(r)
      PROVE  PaymentsBooked'
  <2> DEFINE res == reservations[r]
  <2>1. /\ commitments' = Append(commitments, Commitment(res.mission, res.amount, "COMMITTED", r))
        /\ payments' = payments
    BY <1>5 DEF ConvertReservationToCommitment
  <2>2. /\ res.mission \in Missions /\ res.amount \in Nat \ {0}
        /\ r \in Nat \ {0} /\ commitments \in Seq(FinancialCommitment)
    <3>1. res \in Reservation
      BY DEF FinanceTypeOK, StoredTypes
    <3>2. QED
      BY <3>1 DEF Reservation, FinanceTypeOK, StoredTypes
  <2> HIDE DEF res
  <2>3. /\ com \notin DOMAIN commitments
        /\ DOMAIN commitments' = DOMAIN commitments \cup {com}
        /\ \A k \in DOMAIN commitments : commitments'[k] = commitments[k]
        /\ commitments'[com].reservation = r
    BY <2>1, <2>2, Committed
  <2>4. QED
    BY <2>1, <2>2, <2>3 DEF PaymentsBooked, FinanceTypeOK, Referenced
<1>6. ASSUME NEW k \in DOMAIN commitments, NEW amount \in Amounts, RecordSpend(k, amount)
      PROVE  PaymentsBooked'
  <2>1. commitments' = [commitments EXCEPT ![k].status = "SPENT"] /\ payments' = payments
    BY <1>6 DEF RecordSpend
  <2>2. /\ DOMAIN commitments' = DOMAIN commitments
        /\ \A l \in DOMAIN commitments :
              /\ commitments'[l].mission = commitments[l].mission
              /\ commitments'[l].amount = commitments[l].amount
              /\ commitments'[l].reservation = commitments[l].reservation
    BY <2>1, Settled
  <2>3. QED
    BY <2>1, <2>2 DEF PaymentsBooked, FinanceTypeOK, Referenced
<1>7. ASSUME NEW c \in Calls, PaymentRecorded(c) \/ PaymentHalfRecorded(c)
      PROVE  PaymentsBooked'
  <2>1. /\ com \in Nat \ {0} /\ com \notin DOMAIN commitments
        /\ DOMAIN commitments' = DOMAIN commitments \cup {com}
        /\ \A k \in DOMAIN commitments : commitments'[k] = commitments[k]
        /\ commitments'[com].mission = calls[c].mission
        /\ commitments'[com].amount = safe_money(calls[c].amount)
        /\ commitments'[com].reservation = 0
        /\ calls[c] # NoCall /\ Paid(c, com)
    BY <1>7, Booked
  <2>2. StoredTypes /\ com \in Nat
    BY <2>1 DEF FinanceTypeOK
  <2> HIDE DEF com
  <2>3. /\ pay \notin DOMAIN payments
        /\ DOMAIN payments' = DOMAIN payments \cup {pay}
        /\ \A i \in DOMAIN payments : payments'[i] = payments[i]
        /\ payments'[pay].mission = calls[c].mission
        /\ payments'[pay].amount = calls[c].amount
        /\ payments'[pay].commitment = com
    BY <2>1, <2>2, PaidOnce, Zenon
  <2> HIDE DEF pay
  <2>4. \A i \in DOMAIN payments : payments[i].commitment # com
    BY <2>1 DEF FinanceTypeOK, Referenced
  <2>5. \A i \in DOMAIN payments' :
          LET k == payments'[i].commitment
          IN  k # 0 => /\ commitments'[k].reservation = 0
                       /\ commitments'[k].mission = payments'[i].mission
                       /\ commitments'[k].amount = safe_money(payments'[i].amount)
    BY <2>1, <2>3 DEF PaymentsBooked, FinanceTypeOK, Referenced
  <2>6. \A i, j \in DOMAIN payments' :
          payments'[i].commitment = payments'[j].commitment
             => i = j \/ payments'[i].commitment = 0
    BY <2>3, <2>4 DEF PaymentsBooked
  <2>7. \A k \in DOMAIN commitments' : commitments'[k].reservation = 0 =>
          \E i \in DOMAIN payments' : payments'[i].commitment = k
    BY <2>1, <2>3 DEF PaymentsBooked
  <2>8. QED
    BY <2>5, <2>6, <2>7 DEF PaymentsBooked
<1>8. ASSUME NEW c \in Calls, calls[c] # NoCall, Paid(c, 0), commitments' = commitments
      PROVE  PaymentsBooked'
  <2>1. StoredTypes /\ 0 \in Nat
    BY DEF FinanceTypeOK
  <2>2. /\ pay \notin DOMAIN payments
        /\ DOMAIN payments' = DOMAIN payments \cup {pay}
        /\ \A i \in DOMAIN payments : payments'[i] = payments[i]
        /\ payments'[pay].commitment = 0
    BY <1>8, <2>1, PaidOnce, Zenon
  <2> HIDE DEF pay
  <2>3. QED
    BY <1>8, <2>2 DEF PaymentsBooked
<1>9. QED
  BY <1>1, <1>2, <1>3, <1>4, <1>5, <1>6, <1>7, <1>8, StepOnLists

\* The direct commitments are those of payments that were made, each of one.
THEOREM PaymentsBookedHolds == FinanceSpec => []PaymentsBooked
<1>1. FinanceInit => PaymentsBooked
  BY DEF FinanceInit, PaymentsBooked
<1>2. QED
  BY <1>1, BookedNext, FinanceTypeHolds, PTL DEF FinanceSpec

------------------------------------------------------------------------------
(* The promise.                                                            *)

LEMMA PursesTyped ==
    ASSUME FinanceTypeOK, NEW m \in Missions
    PROVE  Funded[m] \in Nat /\ Held[m] \in Nat /\ Spent[m] \in Nat
<1>1. AllocationOf(m) \in Allocation
  BY DEF AllocationOf, NewAllocation, Allocation, FinanceTypeOK, StoredTypes
<1>2. QED
  BY <1>1 DEF Funded, Held, Spent, Allocation

\* A posting moves the purse of its mission alone.
LEMMA PursesPosted ==
    ASSUME FinanceTypeOK, NEW m \in DOMAIN allocations,
           NEW r \in Int, NEW c \in Int, NEW s \in Int, Post(m, r, c, s)
    PROVE  /\ m \in Missions
           /\ Funded' = Funded
           /\ Promise!OnlyFor(m, Held, Held') /\ Promise!OnlyFor(m, Spent, Spent')
           /\ Held[m] \in Nat /\ Held'[m] \in Nat /\ Spent[m] \in Nat /\ Spent'[m] \in Nat
           /\ Held'[m] = Held[m] + r + c
           /\ Spent'[m] = Spent[m] + s
           /\ Held'[m] + Spent'[m] <= Funded[m]
<1>1. m \in Missions /\ DOMAIN allocations \subseteq Missions
  BY DEF FinanceTypeOK, Referenced
<1>2. /\ DOMAIN allocations' = DOMAIN allocations
      /\ \A n \in DOMAIN allocations \ {m} : allocations'[n] = allocations[n]
      /\ allocations[m] \in Allocation /\ allocations'[m] \in Allocation
      /\ allocations'[m].allocated = allocations[m].allocated
      /\ allocations'[m].reserved = allocations[m].reserved + r
      /\ allocations'[m].committed = allocations[m].committed + c
      /\ allocations'[m].spent = allocations[m].spent + s
      /\ LET p == allocations'[m] IN p.reserved + p.committed + p.spent <= p.allocated
  BY Posted
<1>3. \A n \in Missions \ {m} : AllocationOf(n)' = AllocationOf(n)
  BY <1>2 DEF AllocationOf
<1>4. AllocationOf(m) = allocations[m] /\ AllocationOf(m)' = allocations'[m]
  BY <1>2 DEF AllocationOf
<1>5. \A n \in Missions : Funded'[n] = Funded[n]
  BY <1>1, <1>2, <1>3, <1>4 DEF Funded
<1>6. Funded' = Funded
  BY <1>5 DEF Funded
<1>7. Promise!OnlyFor(m, Held, Held') /\ Promise!OnlyFor(m, Spent, Spent')
  BY <1>3 DEF Promise!OnlyFor, Held, Spent
<1>8. /\ Held[m] = allocations[m].reserved + allocations[m].committed
      /\ Held'[m] = allocations'[m].reserved + allocations'[m].committed
      /\ Spent[m] = allocations[m].spent /\ Spent'[m] = allocations'[m].spent
      /\ Funded[m] = allocations[m].allocated
  BY <1>1, <1>4 DEF Held, Spent, Funded
<1>9. QED
  BY <1>1, <1>2, <1>6, <1>7, <1>8 DEF Allocation

\* No step moves money but those that post, allocate or begin the books again.
LEMMA Unmoved ==
    ASSUME allocations' = allocations
    PROVE  Funded' = Funded /\ Held' = Held /\ Spent' = Spent
  BY DEF Funded, Held, Spent, AllocationOf

LEMMA PromiseBegins ==
    ASSUME FinanceTypeOK, EmptyBooks
    PROVE  Promise!BudgetNext
<1>1. \A m \in Missions : AllocationOf(m)' = NewAllocation
  BY DEF EmptyBooks, AllocationOf
<1>2. Funded' = Promise!Empty /\ Held' = Promise!Empty /\ Spent' = Promise!Empty
  BY <1>1 DEF Funded, Held, Spent, Promise!Empty, NewAllocation
<1>3. QED
  BY <1>2 DEF Promise!BudgetNext, Promise!BeginAgain

LEMMA PromiseAllocate ==
    ASSUME FinanceTypeOK, NEW m \in Missions, NEW amount \in Amounts,
           AllocateToMission(m, amount)
    PROVE  Promise!Fund(m)
<1> DEFINE cents == safe_money(amount)
<1>1. cents \in Nat
  BY Cents
<1>2. allocations' = [n \in DOMAIN allocations \cup {m} |->
                       IF n = m THEN [AllocationOf(m) EXCEPT !.allocated = @ + cents]
                       ELSE allocations[n]]
  BY DEF AllocateToMission
<1> HIDE DEF cents
<1>3. \A n \in Missions \ {m} : AllocationOf(n)' = AllocationOf(n)
  BY <1>2 DEF AllocationOf
<1>4. AllocationOf(m)' = [AllocationOf(m) EXCEPT !.allocated = @ + cents]
  BY <1>2 DEF AllocationOf
<1>5. AllocationOf(m) \in Allocation
  BY DEF AllocationOf, NewAllocation, Allocation, FinanceTypeOK, StoredTypes
<1>6. /\ AllocationOf(m)'.allocated = AllocationOf(m).allocated + cents
      /\ AllocationOf(m)'.reserved = AllocationOf(m).reserved
      /\ AllocationOf(m)'.committed = AllocationOf(m).committed
      /\ AllocationOf(m)'.spent = AllocationOf(m).spent
  BY <1>4, <1>5 DEF Allocation
<1>7. Promise!OnlyFor(m, Funded, Funded')
  BY <1>3 DEF Promise!OnlyFor, Funded
<1>8. Funded'[m] >= Funded[m]
  BY <1>1, <1>5, <1>6 DEF Funded, Allocation
<1>9. \A n \in Missions : Held'[n] = Held[n] /\ Spent'[n] = Spent[n]
  BY <1>3, <1>6 DEF Held, Spent
<1>10. Held' = Held /\ Spent' = Spent
  BY <1>9 DEF Held, Spent
<1>11. QED
  BY <1>7, <1>8, <1>10 DEF Promise!Fund

LEMMA PromiseReserve ==
    ASSUME FinanceTypeOK, NEW m \in Missions, NEW amount \in Amounts, Reserve(m, amount)
    PROVE  Promise!SetAside(m)
<1> DEFINE cents == safe_money(amount)
<1>1. /\ cents \in Nat \ {0} /\ m \in DOMAIN allocations
      /\ Post(m, cents, 0, 0) /\ cents \in Int /\ 0 \in Int
  BY Cents DEF Reserve, Configured
<1> HIDE DEF cents
<1>2. /\ Funded' = Funded /\ Promise!OnlyFor(m, Held, Held')
      /\ Promise!OnlyFor(m, Spent, Spent')
      /\ Held[m] \in Nat /\ Spent[m] \in Nat
      /\ Held'[m] = Held[m] + cents + 0 /\ Spent'[m] = Spent[m] + 0
      /\ Held'[m] + Spent'[m] <= Funded[m]
  BY <1>1, PursesPosted, Zenon
<1>3. Spent' = Spent
  BY <1>2 DEF Promise!OnlyFor, Spent
<1>4. QED
  BY <1>1, <1>2, <1>3 DEF Promise!SetAside

LEMMA PromiseRelease ==
    ASSUME FinanceTypeOK, NEW r \in DOMAIN reservations, ReleaseReservation(r)
    PROVE  Promise!GiveBack(reservations[r].mission) /\ reservations[r].mission \in Missions
<1> DEFINE m == reservations[r].mission
           cents == reservations[r].amount
<1>1. m \in DOMAIN allocations /\ reservations[r] \in Reservation
  BY DEF FinanceTypeOK, StoredTypes, Referenced
<1>2. cents \in Nat /\ -cents \in Int /\ 0 \in Int
  BY <1>1 DEF Reservation
<1>3. Post(m, -cents, 0, 0)
  BY DEF ReleaseReservation
<1> HIDE DEF m, cents
<1>4. /\ m \in Missions /\ Funded' = Funded /\ Promise!OnlyFor(m, Held, Held')
      /\ Promise!OnlyFor(m, Spent, Spent')
      /\ Held[m] \in Nat /\ Held'[m] \in Nat /\ Spent[m] \in Nat
      /\ Held'[m] = Held[m] + (-cents) + 0 /\ Spent'[m] = Spent[m] + 0
  BY <1>1, <1>2, <1>3, PursesPosted, Zenon
<1>5. Spent' = Spent
  BY <1>4 DEF Promise!OnlyFor, Spent
<1>6. QED
  BY <1>2, <1>4, <1>5 DEF Promise!GiveBack, m

\* A conversion does not change what the mission has set aside.
LEMMA PromiseConvert ==
    ASSUME FinanceTypeOK, NEW r \in DOMAIN reservations, ConvertReservationToCommitment(r)
    PROVE  Funded' = Funded /\ Held' = Held /\ Spent' = Spent
<1> DEFINE m == reservations[r].mission
           cents == reservations[r].amount
<1>1. m \in DOMAIN allocations /\ reservations[r] \in Reservation
  BY DEF FinanceTypeOK, StoredTypes, Referenced
<1>2. cents \in Int /\ -cents \in Int /\ 0 \in Int
  BY <1>1 DEF Reservation
<1>3. Post(m, -cents, cents, 0)
  BY DEF ConvertReservationToCommitment
<1> HIDE DEF m, cents
<1>4. /\ Funded' = Funded /\ Promise!OnlyFor(m, Held, Held')
      /\ Promise!OnlyFor(m, Spent, Spent')
      /\ Held[m] \in Nat /\ Spent[m] \in Nat
      /\ Held'[m] = Held[m] + (-cents) + cents /\ Spent'[m] = Spent[m] + 0
  BY <1>1, <1>2, <1>3, PursesPosted, Zenon
<1>5. Held'[m] = Held[m] /\ Spent'[m] = Spent[m]
  BY <1>2, <1>4
<1>6. QED
  BY <1>4, <1>5 DEF Promise!OnlyFor, Held, Spent

LEMMA PromiseSpend ==
    ASSUME FinanceTypeOK, NEW k \in DOMAIN commitments, NEW amount \in Amounts,
           RecordSpend(k, amount)
    PROVE  Promise!Spend(commitments[k].mission) /\ commitments[k].mission \in Missions
<1> DEFINE m == commitments[k].mission
           due == commitments[k].amount
           cents == safe_money(amount)
<1>1. m \in DOMAIN allocations /\ commitments[k] \in FinancialCommitment
  BY DEF FinanceTypeOK, StoredTypes, Referenced
<1>2. due \in Nat /\ cents \in Nat
  BY <1>1, Cents DEF FinancialCommitment
<1>3. Post(m, 0, -due, cents) /\ cents > 0 /\ cents <= due
  BY DEF RecordSpend
<1> HIDE DEF m, due, cents
<1>4. -due \in Int /\ cents \in Int /\ 0 \in Int
  BY <1>2
<1>5. /\ m \in Missions /\ Funded' = Funded /\ Promise!OnlyFor(m, Held, Held')
      /\ Promise!OnlyFor(m, Spent, Spent')
      /\ Held[m] \in Nat /\ Held'[m] \in Nat /\ Spent[m] \in Nat
      /\ Held'[m] = Held[m] + 0 + (-due) /\ Spent'[m] = Spent[m] + cents
  BY <1>1, <1>3, <1>4, PursesPosted, Zenon
<1>6. QED
  BY <1>2, <1>3, <1>5 DEF Promise!Spend, m

LEMMA PromiseRecorded ==
    ASSUME FinanceTypeOK, NEW c \in Calls, PaymentRecorded(c)
    PROVE  Promise!Spend(calls[c].mission) /\ calls[c].mission \in Missions
<1> DEFINE m == calls[c].mission
           cents == safe_money(calls[c].amount)
<1>1. Post(m, 0, 0, cents) /\ calls[c] # NoCall /\ Committable(calls[c])
  BY DEF PaymentRecorded
<1>2. m \in DOMAIN allocations /\ cents \in Nat \ {0}
  BY <1>1, CommittableCall
<1> HIDE DEF m, cents
<1>3. cents \in Int /\ 0 \in Int
  BY <1>2
<1>4. /\ m \in Missions /\ Funded' = Funded /\ Promise!OnlyFor(m, Held, Held')
      /\ Promise!OnlyFor(m, Spent, Spent')
      /\ Held[m] \in Nat /\ Spent[m] \in Nat
      /\ Held'[m] = Held[m] + 0 + 0 /\ Spent'[m] = Spent[m] + cents
      /\ Held'[m] + Spent'[m] <= Funded[m]
  BY <1>1, <1>2, <1>3, PursesPosted, Zenon
<1>5. QED
  BY <1>2, <1>4 DEF Promise!Spend, m

LEMMA PromiseHalfRecorded ==
    ASSUME FinanceTypeOK, NEW c \in Calls, PaymentHalfRecorded(c)
    PROVE  Promise!SetAside(calls[c].mission) /\ calls[c].mission \in Missions
<1> DEFINE m == calls[c].mission
           cents == safe_money(calls[c].amount)
<1>1. Post(m, 0, cents, 0) /\ calls[c] # NoCall /\ Committable(calls[c])
  BY DEF PaymentHalfRecorded
<1>2. m \in DOMAIN allocations /\ cents \in Nat \ {0}
  BY <1>1, CommittableCall
<1> HIDE DEF m, cents
<1>3. cents \in Int /\ 0 \in Int
  BY <1>2
<1>4. /\ m \in Missions /\ Funded' = Funded /\ Promise!OnlyFor(m, Held, Held')
      /\ Promise!OnlyFor(m, Spent, Spent')
      /\ Held[m] \in Nat /\ Spent[m] \in Nat
      /\ Held'[m] = Held[m] + 0 + cents /\ Spent'[m] = Spent[m] + 0
      /\ Held'[m] + Spent'[m] <= Funded[m]
  BY <1>1, <1>2, <1>3, PursesPosted, Zenon
<1>5. Spent' = Spent
  BY <1>4 DEF Promise!OnlyFor, Spent
<1>6. QED
  BY <1>2, <1>4, <1>5 DEF Promise!SetAside, m

LEMMA PromiseStep ==
    ASSUME FinanceTypeOK, [FinanceNext]_financeVars
    PROVE  [Promise!BudgetNext]_(Promise!purses)
<1> USE DEF Promise!purses
<1>1. ASSUME NEW currency \in Currencies, NEW amount \in Amounts,
             \/ CreateObjectiveBudget(currency, amount)
             \/ CreateOverUnreadable(currency, amount)
      PROVE  Promise!BudgetNext
  <2>1. EmptyBooks
    BY <1>1 DEF CreateObjectiveBudget, CreateOverUnreadable, NewBudget
  <2>2. QED
    BY <2>1, PromiseBegins
<1>2. ASSUME NEW m \in Missions, NEW amount \in Amounts,
             AllocateToMission(m, amount) \/ Reserve(m, amount)
      PROVE  Promise!BudgetNext
  BY <1>2, PromiseAllocate, PromiseReserve DEF Promise!BudgetNext
<1>3. ASSUME NEW r \in DOMAIN reservations, ReleaseReservation(r)
      PROVE  Promise!BudgetNext
  BY <1>3, PromiseRelease DEF Promise!BudgetNext
<1>4. ASSUME NEW r \in DOMAIN reservations, ConvertReservationToCommitment(r)
      PROVE  UNCHANGED Promise!purses
  BY <1>4, PromiseConvert
<1>5. ASSUME NEW k \in DOMAIN commitments, NEW amount \in Amounts, RecordSpend(k, amount)
      PROVE  Promise!BudgetNext
  BY <1>5, PromiseSpend DEF Promise!BudgetNext
<1>6. ASSUME NEW c \in Calls, PaymentRecorded(c) \/ PaymentHalfRecorded(c)
      PROVE  Promise!BudgetNext
  BY <1>6, PromiseRecorded, PromiseHalfRecorded DEF Promise!BudgetNext
<1>7. ASSUME NEW c \in Calls, NEW m \in Missions, NEW amount \in Amounts,
             NEW currency \in Currencies \cup {NoCurrency},
             PaymentStarts(c, m, amount, currency)
      PROVE  UNCHANGED Promise!purses
  BY <1>7, Unmoved DEF PaymentStarts, books
<1>8. ASSUME NEW c \in Calls,
             PaymentFails(c) \/ PaymentUnpriced(c) \/ PaymentUnrecorded(c)
      PROVE  UNCHANGED Promise!purses
  BY <1>8, Unmoved DEF PaymentFails, PaymentUnpriced, PaymentUnrecorded, books
<1>9. CASE UNCHANGED financeVars
  BY <1>9, Unmoved DEF financeVars, books
<1>10. QED
  BY <1>1, <1>2, <1>3, <1>4, <1>5, <1>6, <1>7, <1>8, <1>9 DEF FinanceNext

\* Whatever is called, crashes or fails to be saved, a mission's money keeps the
\* promise of its budget.
THEOREM BudgetPromiseKept == FinanceSpec => KeepsBudgetPromise
<1>1. FinanceInit => Promise!BudgetInit
  <2>1. SUFFICES ASSUME FinanceInit PROVE Promise!BudgetInit
    OBVIOUS
  <2>2. \A m \in Missions : AllocationOf(m) = NewAllocation
    BY <2>1 DEF FinanceInit, AllocationOf
  <2>3. Funded = Promise!Empty /\ Held = Promise!Empty /\ Spent = Promise!Empty
    BY <2>2 DEF Funded, Held, Spent, Promise!Empty, NewAllocation
  <2>4. QED
    BY <2>3 DEF Promise!BudgetInit
<1>2. QED
  BY <1>1, PromiseStep, FinanceTypeHolds, PTL DEF FinanceSpec, KeepsBudgetPromise, Promise!BudgetSpec

------------------------------------------------------------------------------
(* The ledger is an audit trail.                                           *)

\* The entries of a type in a ledger L speak of each member of things once, with
\* its amount.
Tells(L, type, things, amounts) ==
    /\ \A i, j \in DOMAIN L :
          L[i].type = type /\ L[j].type = type /\ L[i].about = L[j].about => i = j
    /\ \A i \in DOMAIN L : L[i].type = type =>
          L[i].about \in things /\ L[i].amount = amounts[L[i].about]
    /\ \A x \in things : \E i \in DOMAIN L : L[i].type = type /\ L[i].about = x

\* No reservation is released before it was made.
InTurn(L) ==
    \A i, j \in DOMAIN L :
        L[i].type = "RESERVATION_CREATED" /\ L[j].type = "RESERVATION_RELEASED"
           /\ L[i].about = L[j].about => i < j

ReservedAmounts == [r \in DOMAIN reservations |-> reservations[r].amount]
CommittedAmounts == [k \in DOMAIN commitments |-> commitments[k].amount]
SpentAmounts == [s \in DOMAIN spends |-> spends[s].amount]
Released == {r \in DOMAIN reservations : reservations[r].status = "RELEASED"}
Direct == {k \in DOMAIN commitments : commitments[k].reservation = 0}
Derivative == DOMAIN commitments \ Direct

Trail ==
    /\ Tells(ledger, "RESERVATION_CREATED", DOMAIN reservations, ReservedAmounts)
    /\ Tells(ledger, "RESERVATION_RELEASED", Released, ReservedAmounts)
    /\ Tells(ledger, "RESERVATION_CONVERTED", Derivative, CommittedAmounts)
    /\ Tells(ledger, "COMMITMENT_CREATED", Direct, CommittedAmounts)
    /\ Tells(ledger, "SPEND_RECORDED", DOMAIN spends, SpentAmounts)
    /\ InTurn(ledger)

LEMMA ToldOf ==
    ASSUME NEW type, NEW things, NEW amounts, Tells(ledger, type, things, amounts)
    PROVE  /\ \A i, j \in Entries(type) : ledger[i].about = ledger[j].about => i = j
           /\ {ledger[i].about : i \in Entries(type)} = things
           /\ \A i \in Entries(type) :
                 /\ ledger[i].about \in things
                 /\ ledger[i].amount = amounts[ledger[i].about]
<1>1. \A i \in Entries(type) : i \in DOMAIN ledger /\ ledger[i].type = type
  BY DEF Entries
<1>2. \A i \in DOMAIN ledger : ledger[i].type = type => i \in Entries(type)
  BY DEF Entries
<1>3. \A i, j \in Entries(type) : ledger[i].about = ledger[j].about => i = j
  BY <1>1 DEF Tells
<1>4. \A i \in Entries(type) :
         /\ ledger[i].about \in things
         /\ ledger[i].amount = amounts[ledger[i].about]
  BY <1>1 DEF Tells
<1>5. \A x \in things : \E i \in Entries(type) : ledger[i].about = x
  BY <1>2 DEF Tells
<1>6. {ledger[i].about : i \in Entries(type)} = things
  BY <1>4, <1>5
<1>7. QED
  BY <1>3, <1>4, <1>6

LEMMA TrailIsAudit == Trail => AuditTrail
<1> SUFFICES ASSUME Trail PROVE AuditTrail
  OBVIOUS
<1>1. /\ Released \subseteq DOMAIN reservations
      /\ Direct \subseteq DOMAIN commitments /\ Derivative \subseteq DOMAIN commitments
  BY DEF Released, Direct, Derivative
<1>2. SpeaksOf("RESERVATION_CREATED", DOMAIN reservations, LAMBDA r : reservations[r].amount)
  <2>1. PICK things : things = DOMAIN reservations
    OBVIOUS
  <2>2. \A r \in things : ReservedAmounts[r] = reservations[r].amount
    BY <2>1 DEF ReservedAmounts
  <2>3. Tells(ledger, "RESERVATION_CREATED", things, ReservedAmounts)
    BY <2>1 DEF Trail
  <2>4. SpeaksOf("RESERVATION_CREATED", things, LAMBDA r : reservations[r].amount)
    BY <2>2, <2>3, ToldOf DEF SpeaksOf
  <2>5. QED
    BY <2>1, <2>4
<1>3. SpeaksOf("RESERVATION_RELEASED", Released, LAMBDA r : reservations[r].amount)
  BY <1>1, ToldOf DEF Trail, SpeaksOf, ReservedAmounts
<1>4. SpeaksOf("RESERVATION_CONVERTED", Derivative, LAMBDA k : commitments[k].amount)
  BY <1>1, ToldOf DEF Trail, SpeaksOf, CommittedAmounts
<1>5. SpeaksOf("COMMITMENT_CREATED", Direct, LAMBDA k : commitments[k].amount)
  BY <1>1, ToldOf DEF Trail, SpeaksOf, CommittedAmounts
<1>6. SpeaksOf("SPEND_RECORDED", DOMAIN spends, LAMBDA s : spends[s].amount)
  <2>1. PICK things : things = DOMAIN spends
    OBVIOUS
  <2>2. \A s \in things : SpentAmounts[s] = spends[s].amount
    BY <2>1 DEF SpentAmounts
  <2>3. Tells(ledger, "SPEND_RECORDED", things, SpentAmounts)
    BY <2>1 DEF Trail
  <2>4. SpeaksOf("SPEND_RECORDED", things, LAMBDA s : spends[s].amount)
    BY <2>2, <2>3, ToldOf DEF SpeaksOf
  <2>5. QED
    BY <2>1, <2>4
<1>7. \A i \in Entries("RESERVATION_CREATED"), j \in Entries("RESERVATION_RELEASED") :
         ledger[i].about = ledger[j].about => i < j
  BY DEF Trail, InTurn, Entries
<1>8. QED
  BY <1>2, <1>3, <1>4, <1>5, <1>6, <1>7 DEF AuditTrail, Released, Direct, Derivative

\* An entry of another type tells nothing new.
LEMMA TellsOn ==
    ASSUME NEW S, NEW L \in Seq(S), NEW e \in S, NEW type, e.type # type,
           NEW things, NEW amounts, NEW after, Tells(L, type, things, amounts),
           \A x \in things : after[x] = amounts[x]
    PROVE  Tells(Append(L, e), type, things, after)
<1> DEFINE M == Append(L, e)
<1>1. /\ DOMAIN M = DOMAIN L \cup {Len(L) + 1}
      /\ \A i \in DOMAIN L : M[i] = L[i]
      /\ M[Len(L) + 1] = e
  BY Appended
<1> HIDE DEF M
<1>2. \A i \in DOMAIN M : M[i].type = type => i \in DOMAIN L /\ M[i] = L[i]
  BY <1>1
<1>3. QED
  BY <1>1, <1>2 DEF Tells, M

\* An entry of the type tells of one more.
LEMMA TellsMore ==
    ASSUME NEW S, NEW L \in Seq(S), NEW e \in S, NEW type, e.type = type,
           NEW things, NEW amounts, NEW after, Tells(L, type, things, amounts),
           e.about \notin things, e.amount = after[e.about],
           \A x \in things : after[x] = amounts[x]
    PROVE  Tells(Append(L, e), type, things \cup {e.about}, after)
<1> DEFINE M == Append(L, e)
           new == Len(L) + 1
<1>1. /\ DOMAIN M = DOMAIN L \cup {new}
      /\ \A i \in DOMAIN L : M[i] = L[i]
      /\ M[new] = e
  BY Appended
<1> HIDE DEF M, new
<1>2. \A i \in DOMAIN L : L[i].type = type => L[i].about # e.about
  BY DEF Tells
<1>3. \A i, j \in DOMAIN M :
         M[i].type = type /\ M[j].type = type /\ M[i].about = M[j].about => i = j
  BY <1>1, <1>2 DEF Tells
<1>4. \A i \in DOMAIN M : M[i].type = type =>
         M[i].about \in things \cup {e.about} /\ M[i].amount = after[M[i].about]
  BY <1>1 DEF Tells
<1>5. \A x \in things \cup {e.about} :
         \E i \in DOMAIN M : M[i].type = type /\ M[i].about = x
  BY <1>1 DEF Tells
<1>6. QED
  BY <1>3, <1>4, <1>5 DEF Tells, M

LEMMA TellsAfter ==
    ASSUME NEW L \in Seq(LedgerEntry), NEW e \in LedgerEntry, NEW type,
           NEW things, NEW amounts, NEW now, NEW after, Tells(L, type, things, amounts),
           IF e.type = type
           THEN e.about \notin things /\ now = things \cup {e.about}
                /\ e.amount = after[e.about]
           ELSE now = things,
           \A x \in things : after[x] = amounts[x]
    PROVE  Tells(Append(L, e), type, now, after)
<1>1. CASE e.type = type
  <2>1. e.about \notin things /\ e.amount = after[e.about] /\ now = things \cup {e.about}
    BY <1>1
  <2>2. Tells(Append(L, e), type, things \cup {e.about}, after)
    BY <1>1, <2>1, TellsMore
  <2>3. QED
    BY <2>1, <2>2
<1>2. CASE e.type # type
  BY <1>2, TellsOn
<1>3. QED
  BY <1>1, <1>2

\* An entry that makes no reservation comes after those that did.
LEMMA InTurnOn ==
    ASSUME NEW S, NEW L \in Seq(S), NEW e \in S, InTurn(L),
           e.type = "RESERVATION_CREATED" =>
              \A j \in DOMAIN L : L[j].type = "RESERVATION_RELEASED" => L[j].about # e.about
    PROVE  InTurn(Append(L, e))
<1> DEFINE M == Append(L, e)
           new == Len(L) + 1
<1>1. /\ DOMAIN M = DOMAIN L \cup {new}
      /\ \A i \in DOMAIN L : M[i] = L[i]
      /\ M[new] = e
      /\ \A i \in DOMAIN L : i < new
  BY Appended
<1> HIDE DEF M, new
<1>2. QED
  BY <1>1 DEF InTurn, M

\* What the step of one entry must tell: exactly what it changes.
LEMMA EntryKeepsTrail ==
    ASSUME Trail, ledger \in Seq(LedgerEntry), NEW e \in LedgerEntry,
           ledger' = Append(ledger, e),
           IF e.type = "RESERVATION_CREATED"
           THEN /\ e.about \notin DOMAIN reservations
                /\ DOMAIN reservations' = DOMAIN reservations \cup {e.about}
                /\ e.amount = ReservedAmounts'[e.about]
           ELSE DOMAIN reservations' = DOMAIN reservations,
           IF e.type = "RESERVATION_RELEASED"
           THEN /\ e.about \notin Released /\ Released' = Released \cup {e.about}
                /\ e.amount = ReservedAmounts'[e.about]
           ELSE Released' = Released,
           IF e.type = "RESERVATION_CONVERTED"
           THEN /\ e.about \notin Derivative /\ Derivative' = Derivative \cup {e.about}
                /\ e.amount = CommittedAmounts'[e.about]
           ELSE Derivative' = Derivative,
           IF e.type = "COMMITMENT_CREATED"
           THEN /\ e.about \notin Direct /\ Direct' = Direct \cup {e.about}
                /\ e.amount = CommittedAmounts'[e.about]
           ELSE Direct' = Direct,
           IF e.type = "SPEND_RECORDED"
           THEN /\ e.about \notin DOMAIN spends
                /\ DOMAIN spends' = DOMAIN spends \cup {e.about}
                /\ e.amount = SpentAmounts'[e.about]
           ELSE DOMAIN spends' = DOMAIN spends,
           \A r \in DOMAIN reservations : ReservedAmounts'[r] = ReservedAmounts[r],
           \A k \in DOMAIN commitments : CommittedAmounts'[k] = CommittedAmounts[k],
           \A s \in DOMAIN spends : SpentAmounts'[s] = SpentAmounts[s]
    PROVE  Trail'
<1>1. /\ Released \subseteq DOMAIN reservations
      /\ Direct \subseteq DOMAIN commitments /\ Derivative \subseteq DOMAIN commitments
  BY DEF Released, Direct, Derivative
<1>2. Tells(ledger', "RESERVATION_CREATED", DOMAIN reservations', ReservedAmounts')
  <2>1. Tells(ledger, "RESERVATION_CREATED", DOMAIN reservations, ReservedAmounts)
    BY DEF Trail
  <2>2. QED
    BY <2>1, TellsAfter
<1>3. Tells(ledger', "RESERVATION_RELEASED", Released', ReservedAmounts')
  <2>1. Tells(ledger, "RESERVATION_RELEASED", Released, ReservedAmounts)
    BY DEF Trail
  <2>2. QED
    BY <1>1, <2>1, TellsAfter
<1>4. Tells(ledger', "RESERVATION_CONVERTED", Derivative', CommittedAmounts')
  <2>1. Tells(ledger, "RESERVATION_CONVERTED", Derivative, CommittedAmounts)
    BY DEF Trail
  <2>2. QED
    BY <1>1, <2>1, TellsAfter
<1>5. Tells(ledger', "COMMITMENT_CREATED", Direct', CommittedAmounts')
  <2>1. Tells(ledger, "COMMITMENT_CREATED", Direct, CommittedAmounts)
    BY DEF Trail
  <2>2. QED
    BY <1>1, <2>1, TellsAfter
<1>6. Tells(ledger', "SPEND_RECORDED", DOMAIN spends', SpentAmounts')
  <2>1. Tells(ledger, "SPEND_RECORDED", DOMAIN spends, SpentAmounts)
    BY DEF Trail
  <2>2. QED
    BY <2>1, TellsAfter
<1>7. InTurn(ledger')
  <2>1. e.type = "RESERVATION_CREATED" =>
          \A j \in DOMAIN ledger : ledger[j].type = "RESERVATION_RELEASED" =>
             ledger[j].about # e.about
    BY <1>1 DEF Trail, Tells
  <2>2. QED
    BY <2>1, InTurnOn DEF Trail
<1>8. QED
  BY <1>2, <1>3, <1>4, <1>5, <1>6, <1>7 DEF Trail

LEMMA EntryIs ==
    ASSUME NEW type \in EntryTypes, NEW about \in Nat \cup Missions, NEW amount \in Nat
    PROVE  /\ Entry(type, about, amount) \in LedgerEntry
           /\ Entry(type, about, amount).type = type
           /\ Entry(type, about, amount).about = about
           /\ Entry(type, about, amount).amount = amount
  BY DEF LedgerEntry, Entry

LEMMA TrailAfterAllocate ==
    ASSUME FinanceTypeOK, Trail, NEW m \in Missions, NEW amount \in Amounts,
           AllocateToMission(m, amount)
    PROVE  Trail'
<1>1. PICK e : e = Entry("MISSION_ALLOCATED", m, safe_money(amount))
  OBVIOUS
<1>2. e \in LedgerEntry /\ e.type = "MISSION_ALLOCATED"
  <2>1. "MISSION_ALLOCATED" \in EntryTypes /\ m \in Nat \cup Missions /\ safe_money(amount) \in Nat
    BY Cents DEF EntryTypes
  <2>2. QED
    BY <1>1, <2>1, EntryIs
<1>3. /\ ledger \in Seq(LedgerEntry) /\ ledger' = Append(ledger, e)
      /\ UNCHANGED <<reservations, commitments, spends>>
  BY <1>1 DEF AllocateToMission, FinanceTypeOK, StoredTypes
<1>4. UNCHANGED <<Released, Direct, Derivative, ReservedAmounts, CommittedAmounts, SpentAmounts>>
  BY <1>3 DEF Released, Direct, Derivative, ReservedAmounts, CommittedAmounts, SpentAmounts
<1>5. QED
  BY <1>2, <1>3, <1>4, EntryKeepsTrail

LEMMA TrailAfterReserve ==
    ASSUME FinanceTypeOK, Trail, NEW m \in Missions, NEW amount \in Amounts,
           Reserve(m, amount)
    PROVE  Trail'
<1> DEFINE new == Len(reservations) + 1
           res == [mission |-> m, amount |-> safe_money(amount), status |-> "ACTIVE"]
<1>1. /\ reservations' = Append(reservations, res)
      /\ res \in Reservation /\ reservations \in Seq(Reservation)
      /\ UNCHANGED <<commitments, spends>>
      /\ ledger' = Append(ledger, Entry("RESERVATION_CREATED", Len(reservations'), safe_money(amount)))
  BY Cents DEF Reserve, Reservation, FinanceTypeOK, StoredTypes
<1>2. res.status = "ACTIVE" /\ res.amount = safe_money(amount)
  OBVIOUS
<1> HIDE DEF res
<1>3. /\ DOMAIN reservations' = DOMAIN reservations \cup {new} /\ Len(reservations') = new
      /\ new \in Nat /\ new \notin DOMAIN reservations
      /\ \A r \in DOMAIN reservations : reservations'[r] = reservations[r]
      /\ reservations'[new] = res
  BY <1>1, Appended
<1> HIDE DEF new
<1>4. PICK e : e = Entry("RESERVATION_CREATED", new, safe_money(amount))
  OBVIOUS
<1>5. /\ e \in LedgerEntry /\ e.type = "RESERVATION_CREATED" /\ e.about = new
      /\ e.amount = safe_money(amount)
  BY <1>3, <1>4, Cents, EntryIs DEF EntryTypes
<1>6. ledger \in Seq(LedgerEntry) /\ ledger' = Append(ledger, e)
  BY <1>1, <1>3, <1>4 DEF FinanceTypeOK, StoredTypes
<1>7. Released' = Released
  BY <1>2, <1>3 DEF Released
<1>8. /\ \A r \in DOMAIN reservations : ReservedAmounts'[r] = ReservedAmounts[r]
      /\ ReservedAmounts'[new] = safe_money(amount)
  BY <1>2, <1>3 DEF ReservedAmounts
<1>9. UNCHANGED <<Direct, Derivative, CommittedAmounts, SpentAmounts>> /\ DOMAIN spends' = DOMAIN spends
  BY <1>1 DEF Direct, Derivative, CommittedAmounts, SpentAmounts
<1>10. QED
  BY <1>3, <1>5, <1>6, <1>7, <1>8, <1>9, EntryKeepsTrail

LEMMA TrailAfterRelease ==
    ASSUME FinanceTypeOK, Trail, NEW r \in DOMAIN reservations, ReleaseReservation(r)
    PROVE  Trail'
<1>1. /\ reservations' = [reservations EXCEPT ![r].status = "RELEASED"]
      /\ reservations[r].status = "ACTIVE"
      /\ UNCHANGED <<commitments, spends>>
      /\ ledger' = Append(ledger, Entry("RESERVATION_RELEASED", r, reservations[r].amount))
  BY DEF ReleaseReservation, Active
<1>2. /\ reservations[r] \in Reservation /\ DOMAIN reservations' = DOMAIN reservations
      /\ \A q \in DOMAIN reservations :
            /\ reservations'[q].amount = reservations[q].amount
            /\ reservations'[q].status = IF q = r THEN "RELEASED" ELSE reservations[q].status
  BY <1>1, Ended
<1>3. r \in Nat /\ reservations[r].amount \in Nat
  BY <1>2 DEF Reservation, FinanceTypeOK, StoredTypes
<1>4. PICK e : e = Entry("RESERVATION_RELEASED", r, reservations[r].amount)
  OBVIOUS
<1>5. /\ e \in LedgerEntry /\ e.type = "RESERVATION_RELEASED" /\ e.about = r
      /\ e.amount = reservations[r].amount
  BY <1>3, <1>4, EntryIs DEF EntryTypes
<1>6. ledger \in Seq(LedgerEntry) /\ ledger' = Append(ledger, e)
  BY <1>1, <1>4 DEF FinanceTypeOK, StoredTypes
<1>7. r \notin Released /\ Released' = Released \cup {r}
  BY <1>1, <1>2 DEF Released
<1>8. \A q \in DOMAIN reservations :
         /\ ReservedAmounts'[q] = ReservedAmounts[q]
         /\ ReservedAmounts[q] = reservations[q].amount
  BY <1>2 DEF ReservedAmounts
<1>9. UNCHANGED <<Direct, Derivative, CommittedAmounts, SpentAmounts>> /\ DOMAIN spends' = DOMAIN spends
  BY <1>1 DEF Direct, Derivative, CommittedAmounts, SpentAmounts
<1>10. QED
  BY <1>2, <1>5, <1>6, <1>7, <1>8, <1>9, EntryKeepsTrail

LEMMA TrailAfterConvert ==
    ASSUME FinanceTypeOK, Trail, NEW r \in DOMAIN reservations,
           ConvertReservationToCommitment(r)
    PROVE  Trail'
<1> DEFINE res == reservations[r]
           new == Len(commitments) + 1
<1>1. /\ reservations' = [reservations EXCEPT ![r].status = "CONVERTED"]
      /\ commitments' = Append(commitments, Commitment(res.mission, res.amount, "COMMITTED", r))
      /\ res.status = "ACTIVE" /\ spends' = spends
      /\ ledger' = Append(ledger, Entry("RESERVATION_CONVERTED", Len(commitments'), res.amount))
  BY DEF ConvertReservationToCommitment, Active
<1>2. /\ res \in Reservation /\ DOMAIN reservations' = DOMAIN reservations
      /\ \A q \in DOMAIN reservations :
            /\ reservations'[q].amount = reservations[q].amount
            /\ reservations'[q].status = IF q = r THEN "CONVERTED" ELSE reservations[q].status
  BY <1>1, Ended
<1>3. /\ res.mission \in Missions /\ res.amount \in Nat \ {0}
      /\ r \in Nat \ {0} /\ commitments \in Seq(FinancialCommitment)
  BY <1>2 DEF Reservation, FinanceTypeOK, StoredTypes
<1>4. /\ new \notin DOMAIN commitments /\ new \in Nat /\ Len(commitments') = new
      /\ DOMAIN commitments' = DOMAIN commitments \cup {new}
      /\ \A k \in DOMAIN commitments : commitments'[k] = commitments[k]
      /\ commitments'[new].amount = res.amount /\ commitments'[new].reservation = r
  BY <1>1, <1>3, Committed
<1> HIDE DEF new
<1>5. PICK e : e = Entry("RESERVATION_CONVERTED", new, res.amount)
  OBVIOUS
<1>6. /\ e \in LedgerEntry /\ e.type = "RESERVATION_CONVERTED" /\ e.about = new
      /\ e.amount = res.amount
  <2>1. PICK amount \in Nat : amount = res.amount
    BY <1>3
  <2>2. "RESERVATION_CONVERTED" \in EntryTypes /\ new \in Nat \cup Missions
    BY <1>4 DEF EntryTypes
  <2>3. e = Entry("RESERVATION_CONVERTED", new, amount)
    BY <1>5, <2>1
  <2>4. /\ e \in LedgerEntry /\ e.type = "RESERVATION_CONVERTED" /\ e.about = new
        /\ e.amount = amount
    BY <2>2, <2>3, EntryIs
  <2>5. QED
    BY <2>1, <2>4
<1>7. ledger \in Seq(LedgerEntry) /\ ledger' = Append(ledger, e)
  BY <1>1, <1>4, <1>5 DEF FinanceTypeOK, StoredTypes
<1>8. Released' = Released
  BY <1>1, <1>2 DEF Released
<1>9. \A q \in DOMAIN reservations : ReservedAmounts'[q] = ReservedAmounts[q]
  BY <1>2 DEF ReservedAmounts
<1>10. /\ \A k \in DOMAIN commitments : CommittedAmounts'[k] = CommittedAmounts[k]
       /\ CommittedAmounts'[new] = res.amount
  BY <1>4 DEF CommittedAmounts
<1>11. Direct' = Direct
  BY <1>3, <1>4 DEF Direct
<1>12. new \notin Derivative /\ Derivative' = Derivative \cup {new}
  BY <1>4, <1>11 DEF Derivative, Direct
<1>13. UNCHANGED SpentAmounts /\ DOMAIN spends' = DOMAIN spends
  BY <1>1 DEF SpentAmounts
<1>14. QED
  BY <1>2, <1>4, <1>6, <1>7, <1>8, <1>9, <1>10, <1>11, <1>12, <1>13, EntryKeepsTrail

LEMMA TrailAfterSpend ==
    ASSUME FinanceTypeOK, Trail, NEW k \in DOMAIN commitments, NEW amount \in Amounts,
           RecordSpend(k, amount)
    PROVE  Trail'
<1> DEFINE cents == safe_money(amount)
           new == Len(spends) + 1
<1>1. /\ commitments' = [commitments EXCEPT ![k].status = "SPENT"]
      /\ spends' = Append(spends, [commitment |-> k, amount |-> cents])
      /\ cents > 0 /\ reservations' = reservations
      /\ ledger' = Append(ledger, Entry("SPEND_RECORDED", Len(spends'), cents))
  BY DEF RecordSpend
<1>2. /\ DOMAIN commitments' = DOMAIN commitments
      /\ \A l \in DOMAIN commitments :
            /\ commitments'[l].amount = commitments[l].amount
            /\ commitments'[l].reservation = commitments[l].reservation
  BY <1>1, Settled
<1>3. cents \in Nat \ {0} /\ k \in Nat /\ spends \in Seq(ActualSpend)
  BY <1>1, Cents DEF FinanceTypeOK, StoredTypes
<1>4. /\ new \notin DOMAIN spends /\ new \in Nat /\ Len(spends') = new
      /\ DOMAIN spends' = DOMAIN spends \cup {new}
      /\ \A s \in DOMAIN spends : spends'[s] = spends[s]
      /\ spends'[new].amount = cents
  BY <1>1, <1>3, SpendAdded
<1> HIDE DEF new, cents
<1>5. PICK e : e = Entry("SPEND_RECORDED", new, cents)
  OBVIOUS
<1>6. e \in LedgerEntry /\ e.type = "SPEND_RECORDED" /\ e.about = new /\ e.amount = cents
  <2>1. "SPEND_RECORDED" \in EntryTypes /\ new \in Nat \cup Missions /\ cents \in Nat
    BY <1>3, <1>4 DEF EntryTypes
  <2>2. QED
    BY <1>5, <2>1, EntryIs
<1>7. ledger \in Seq(LedgerEntry) /\ ledger' = Append(ledger, e)
  BY <1>1, <1>4, <1>5 DEF FinanceTypeOK, StoredTypes
<1>8. UNCHANGED <<Released, ReservedAmounts>> /\ DOMAIN reservations' = DOMAIN reservations
  BY <1>1 DEF Released, ReservedAmounts
<1>9. UNCHANGED <<Direct, Derivative>>
        /\ \A l \in DOMAIN commitments : CommittedAmounts'[l] = CommittedAmounts[l]
  BY <1>2 DEF Direct, Derivative, CommittedAmounts
<1>10. /\ \A s \in DOMAIN spends : SpentAmounts'[s] = SpentAmounts[s]
       /\ SpentAmounts'[new] = cents
  BY <1>4 DEF SpentAmounts
<1>11. QED
  BY <1>4, <1>6, <1>7, <1>8, <1>9, <1>10, EntryKeepsTrail

\* A direct commitment is told before its spend, if that was saved too.
LEMMA TrailAfterBooking ==
    ASSUME FinanceTypeOK, Trail, NEW c \in Calls,
           PaymentRecorded(c) \/ PaymentHalfRecorded(c)
    PROVE  Trail'
<1> DEFINE cents == safe_money(calls[c].amount)
           com == Len(commitments) + 1
           new == Len(spends) + 1
<1>1. /\ reservations' = reservations
      /\ cents \in Nat \ {0} /\ com \in Nat \ {0}
      /\ com \notin DOMAIN commitments
      /\ DOMAIN commitments' = DOMAIN commitments \cup {com}
      /\ \A k \in DOMAIN commitments : commitments'[k] = commitments[k]
      /\ commitments'[com].amount = cents
      /\ commitments'[com].reservation = 0
  BY Booked
<1>2. /\ spends \in Seq(ActualSpend) /\ ledger \in Seq(LedgerEntry)
      /\ commitments \in Seq(FinancialCommitment)
  BY DEF FinanceTypeOK, StoredTypes
<1>3. Len(commitments') = com
  <2>1. PICK m, status : commitments' = Append(commitments, Commitment(m, cents, status, 0))
    BY DEF PaymentRecorded, PaymentHalfRecorded
  <2>2. PICK commitment : commitment = Commitment(m, cents, status, 0)
    OBVIOUS
  <2>3. QED
    BY <1>2, <2>1, <2>2
<1>4. PICK a : a = Entry("COMMITMENT_CREATED", com, cents)
  OBVIOUS
<1>5. PICK L : L = Append(ledger, a)
  OBVIOUS
<1>6. \/ ledger' = L /\ UNCHANGED spends
      \/ /\ ledger' = Append(L, Entry("SPEND_RECORDED", Len(spends'), cents))
         /\ spends' = Append(spends, [commitment |-> com, amount |-> cents])
  <2>1. CASE PaymentHalfRecorded(c)
    BY <1>3, <1>4, <1>5, <2>1 DEF PaymentHalfRecorded
  <2>2. CASE PaymentRecorded(c)
    <3>1. PICK b : b = Entry("SPEND_RECORDED", Len(spends'), cents)
      OBVIOUS
    <3>2. /\ ledger' = ledger \o <<a, b>>
          /\ spends' = Append(spends, [commitment |-> com, amount |-> cents])
      BY <1>3, <1>4, <2>2, <3>1 DEF PaymentRecorded
    <3>3. ledger \o <<a, b>> = Append(Append(ledger, a), b)
      BY <1>2
    <3>4. QED
      BY <1>5, <3>1, <3>2, <3>3
  <2>3. QED
    BY <2>1, <2>2
<1> HIDE DEF cents, com
<1>7. /\ a \in LedgerEntry /\ a.type = "COMMITMENT_CREATED" /\ a.about = com
      /\ a.amount = cents /\ L \in Seq(LedgerEntry)
  <2>1. "COMMITMENT_CREATED" \in EntryTypes /\ com \in Nat \cup Missions /\ cents \in Nat
    BY <1>1 DEF EntryTypes
  <2>2. /\ a \in LedgerEntry /\ a.type = "COMMITMENT_CREATED" /\ a.about = com
        /\ a.amount = cents
    BY <1>4, <2>1, EntryIs
  <2>3. QED
    BY <1>2, <1>5, <2>2
<1>8. UNCHANGED <<Released, ReservedAmounts>> /\ DOMAIN reservations' = DOMAIN reservations
  BY <1>1 DEF Released, ReservedAmounts
<1>9. /\ \A k \in DOMAIN commitments : CommittedAmounts'[k] = CommittedAmounts[k]
      /\ CommittedAmounts'[com] = cents
  BY <1>1 DEF CommittedAmounts
<1>10. com \notin Direct /\ Direct' = Direct \cup {com} /\ Derivative' = Derivative
  <2>1. com \notin Direct /\ Direct' = Direct \cup {com}
    BY <1>1 DEF Direct
  <2>2. QED
    BY <1>1, <2>1 DEF Derivative
<1>11. Direct \subseteq DOMAIN commitments /\ Derivative \subseteq DOMAIN commitments
  BY DEF Direct, Derivative
<1>12. /\ Tells(L, "RESERVATION_CREATED", DOMAIN reservations', ReservedAmounts')
       /\ Tells(L, "RESERVATION_RELEASED", Released', ReservedAmounts')
       /\ Tells(L, "RESERVATION_CONVERTED", Derivative', CommittedAmounts')
       /\ Tells(L, "COMMITMENT_CREATED", Direct', CommittedAmounts')
       /\ Tells(L, "SPEND_RECORDED", DOMAIN spends, SpentAmounts)
       /\ InTurn(L)
  <2>1. /\ Tells(ledger, "RESERVATION_CREATED", DOMAIN reservations, ReservedAmounts)
        /\ Tells(ledger, "RESERVATION_RELEASED", Released, ReservedAmounts)
        /\ Tells(ledger, "RESERVATION_CONVERTED", Derivative, CommittedAmounts)
        /\ Tells(ledger, "COMMITMENT_CREATED", Direct, CommittedAmounts)
        /\ Tells(ledger, "SPEND_RECORDED", DOMAIN spends, SpentAmounts)
        /\ InTurn(ledger)
    BY DEF Trail
  <2>2. Tells(L, "RESERVATION_CREATED", DOMAIN reservations', ReservedAmounts')
    BY <1>2, <1>5, <1>7, <1>8, <2>1, TellsAfter
  <2>3. Tells(L, "RESERVATION_RELEASED", Released', ReservedAmounts')
    BY <1>2, <1>5, <1>7, <1>8, <2>1, TellsAfter
  <2>4. Tells(L, "RESERVATION_CONVERTED", Derivative', CommittedAmounts')
    BY <1>2, <1>5, <1>7, <1>9, <1>10, <1>11, <2>1, TellsAfter
  <2>5. Tells(L, "COMMITMENT_CREATED", Direct', CommittedAmounts')
    BY <1>2, <1>5, <1>7, <1>9, <1>10, <1>11, <2>1, TellsAfter
  <2>6. Tells(L, "SPEND_RECORDED", DOMAIN spends, SpentAmounts)
    BY <1>2, <1>5, <1>7, <2>1, TellsAfter
  <2>7. InTurn(L)
    BY <1>2, <1>5, <1>7, <2>1, InTurnOn
  <2>8. QED
    BY <2>2, <2>3, <2>4, <2>5, <2>6, <2>7
<1>13. CASE ledger' = L /\ UNCHANGED spends
  BY <1>12, <1>13 DEF Trail, SpentAmounts
<1>14. CASE /\ ledger' = Append(L, Entry("SPEND_RECORDED", Len(spends'), cents))
            /\ spends' = Append(spends, [commitment |-> com, amount |-> cents])
  <2>1. /\ new \notin DOMAIN spends /\ new \in Nat /\ Len(spends') = new
        /\ DOMAIN spends' = DOMAIN spends \cup {new}
        /\ \A s \in DOMAIN spends : spends'[s] = spends[s]
        /\ spends'[new].amount = cents
    BY <1>1, <1>2, <1>14, SpendAdded
  <2> HIDE DEF new
  <2>2. PICK b : b = Entry("SPEND_RECORDED", new, cents)
    OBVIOUS
  <2>3. b \in LedgerEntry /\ b.type = "SPEND_RECORDED" /\ b.about = new /\ b.amount = cents
    <3>1. "SPEND_RECORDED" \in EntryTypes /\ new \in Nat \cup Missions /\ cents \in Nat
      BY <1>1, <2>1 DEF EntryTypes
    <3>2. QED
      BY <2>2, <3>1, EntryIs
  <2>4. ledger' = Append(L, b)
    BY <1>14, <2>1, <2>2
  <2>5. /\ \A s \in DOMAIN spends : SpentAmounts'[s] = SpentAmounts[s]
        /\ SpentAmounts'[new] = cents
    BY <2>1 DEF SpentAmounts
  <2>6. Tells(ledger', "RESERVATION_CREATED", DOMAIN reservations', ReservedAmounts')
    BY <1>7, <1>12, <2>3, <2>4, TellsAfter
  <2>7. Tells(ledger', "RESERVATION_RELEASED", Released', ReservedAmounts')
    BY <1>7, <1>12, <2>3, <2>4, TellsAfter
  <2>8. Tells(ledger', "RESERVATION_CONVERTED", Derivative', CommittedAmounts')
    BY <1>7, <1>12, <2>3, <2>4, TellsAfter
  <2>9. Tells(ledger', "COMMITMENT_CREATED", Direct', CommittedAmounts')
    BY <1>7, <1>12, <2>3, <2>4, TellsAfter
  <2>10. Tells(ledger', "SPEND_RECORDED", DOMAIN spends', SpentAmounts')
    BY <1>7, <1>12, <2>1, <2>3, <2>4, <2>5, TellsAfter
  <2>11. InTurn(ledger')
    BY <1>7, <1>12, <2>3, <2>4, InTurnOn
  <2>12. QED
    BY <2>6, <2>7, <2>8, <2>9, <2>10, <2>11 DEF Trail
<1>15. QED
  BY <1>6, <1>13, <1>14

LEMMA TrailOfNothing ==
    ASSUME reservations' = <<>>, commitments' = <<>>, spends' = <<>>,
           \A i \in DOMAIN ledger' : ledger'[i].type = "BUDGET_CREATED"
    PROVE  Trail'
<1>1. /\ DOMAIN reservations' = {} /\ DOMAIN commitments' = {} /\ DOMAIN spends' = {}
      /\ Released' = {} /\ Direct' = {} /\ Derivative' = {}
  BY DEF Released, Direct, Derivative
<1>2. ASSUME NEW type, type # "BUDGET_CREATED", NEW amounts
      PROVE  Tells(ledger', type, {}, amounts)
  BY <1>2 DEF Tells
<1>3. InTurn(ledger')
  BY DEF InTurn
<1>4. QED
  BY <1>1, <1>2, <1>3 DEF Trail

LEMMA TrailNext ==
    ASSUME FinanceTypeOK, Trail, [FinanceNext]_financeVars
    PROVE  Trail'
<1>1. CASE UNCHANGED books
  BY <1>1 DEF books, Trail, Released, Direct, Derivative, ReservedAmounts, CommittedAmounts,
              SpentAmounts
<1>2. ASSUME NEW currency \in Currencies, NEW amount \in Amounts,
             \/ CreateObjectiveBudget(currency, amount)
             \/ CreateOverUnreadable(currency, amount)
      PROVE  Trail'
  <2>1. /\ reservations' = <<>> /\ commitments' = <<>> /\ spends' = <<>>
        /\ \/ ledger' = <<>>
           \/ ledger' = <<Entry("BUDGET_CREATED", 0, safe_money(amount))>>
    BY <1>2 DEF CreateObjectiveBudget, CreateOverUnreadable, NewBudget, EmptyBooks
  <2>2. Entry("BUDGET_CREATED", 0, safe_money(amount)).type = "BUDGET_CREATED"
    BY DEF Entry
  <2>3. \A i \in DOMAIN ledger' : ledger'[i].type = "BUDGET_CREATED"
    <3>1. PICK e : e = Entry("BUDGET_CREATED", 0, safe_money(amount))
      OBVIOUS
    <3>2. ledger' = <<>> \/ ledger' = <<e>>
      BY <2>1, <3>1
    <3>3. QED
      BY <2>2, <3>1, <3>2
  <2>4. QED
    BY <2>1, <2>3, TrailOfNothing
<1>3. ASSUME NEW c \in Calls,
             PaymentFails(c) \/ PaymentUnpriced(c) \/ PaymentUnrecorded(c)
      PROVE  UNCHANGED books
  BY <1>3 DEF PaymentFails, PaymentUnpriced, PaymentUnrecorded
<1>4. ASSUME NEW c \in Calls, NEW m \in Missions, NEW amount \in Amounts,
             NEW currency \in Currencies \cup {NoCurrency},
             PaymentStarts(c, m, amount, currency)
      PROVE  UNCHANGED books
  BY <1>4 DEF PaymentStarts
<1>5. CASE UNCHANGED financeVars
  BY <1>1, <1>5 DEF financeVars
<1>6. QED
  BY <1>1, <1>2, <1>3, <1>4, <1>5, TrailAfterAllocate, TrailAfterReserve, TrailAfterRelease,
     TrailAfterConvert, TrailAfterSpend, TrailAfterBooking DEF FinanceNext

\* The ledger alone tells what became of every reservation, commitment and spend:
\* each has exactly its entries, with its amounts and in turn, whatever is called
\* and whichever save fails.
THEOREM AuditTrailHolds == FinanceSpec => []AuditTrail
<1>1. FinanceInit => Trail
  BY DEF FinanceInit, Trail, Tells, InTurn, Released, Direct, Derivative
<1>2. QED
  BY <1>1, TrailNext, TrailIsAudit, FinanceTypeHolds, PTL DEF FinanceSpec

------------------------------------------------------------------------------
(* Sums over finite sets.                                                  *)

\* The element that a sum takes first.
First(T) == CHOOSE x \in T : TRUE

\* The sum over T, by the sums g over its subsets.
Added(f, g, T) == IF T = {} THEN 0 ELSE f[First(T)] + g[T \ {First(T)}]

\* g holds the sum over each of the subsets.
AreSums(f, g, subsets) == g \in [subsets -> Int] /\ \A T \in subsets : g[T] = Added(f, g, T)

Sized(S, n) == {T \in SUBSET S : Cardinality(T) <= n}

IntOn(f, S) == \A x \in S : f[x] \in Int

\* Induction over numbers: a set that has 0 and each successor has them all.
LEMMA AllNumbers ==
    ASSUME NEW N, 0 \in N, \A n \in Nat : n \in N => n + 1 \in N
    PROVE  Nat \subseteq N
<1> DEFINE missing == Nat \ N
<1> SUFFICES ASSUME missing # {}
             PROVE  FALSE
  OBVIOUS
<1>1. PICK m \in missing : \A n \in missing : ~(<<n, m>> \in OpToRel(<, Nat))
  BY WFMin, NatLessThanWellFounded
<1>2. m \in Nat /\ m # 0 /\ m - 1 \in Nat
  OBVIOUS
<1>3. m - 1 \in missing
  <2>1. m - 1 \in N => (m - 1) + 1 \in N
    BY <1>2
  <2>2. QED
    BY <1>2, <2>1
<1>4. ~(m - 1 < m)
  BY <1>1, <1>2, <1>3, Zenon DEF OpToRel
<1>5. QED
  BY <1>2, <1>4

\* A set with an element is one more than the set without the one taken first.
LEMMA FirstTaken ==
    ASSUME NEW T, IsFiniteSet(T), T # {}
    PROVE  /\ First(T) \in T /\ IsFiniteSet(T \ {First(T)})
           /\ Cardinality(T) \in Nat /\ Cardinality(T \ {First(T)}) \in Nat
           /\ Cardinality(T) = Cardinality(T \ {First(T)}) + 1
<1>1. First(T) \in T
  BY DEF First
<1>2. /\ IsFiniteSet(T \ {First(T)})
      /\ Cardinality(T \ {First(T)}) = Cardinality(T) - 1
  BY <1>1, FS_RemoveElement
<1>3. Cardinality(T) \in Nat /\ Cardinality(T \ {First(T)}) \in Nat
  BY <1>2, FS_CardinalityType
<1>4. QED
  BY <1>1, <1>2, <1>3

\* There are sums over all subsets of a size.
LEMMA SumsOfSize ==
    ASSUME NEW f, NEW S, IsFiniteSet(S), IntOn(f, S)
    PROVE  \A n \in Nat : \E g : AreSums(f, g, Sized(S, n))
<1> DEFINE N == {n \in Nat : \E g : AreSums(f, g, Sized(S, n))}
<1>1. 0 \in N
  <2> DEFINE g == [T \in Sized(S, 0) |-> 0]
  <2>1. \A T \in Sized(S, 0) : T = {}
    <3> SUFFICES ASSUME NEW T \in Sized(S, 0)
                 PROVE  T = {}
      OBVIOUS
    <3>1. IsFiniteSet(T) /\ Cardinality(T) <= 0
      BY FS_Subset DEF Sized
    <3>2. Cardinality(T) = 0
      BY <3>1, FS_CardinalityType
    <3>3. QED
      BY <3>1, <3>2, FS_EmptySet
  <2>2. AreSums(f, g, Sized(S, 0))
    BY <2>1 DEF AreSums, Added
  <2>3. QED
    BY <2>2
<1>2. ASSUME NEW n \in Nat, n \in N
      PROVE  n + 1 \in N
  <2>1. PICK g : AreSums(f, g, Sized(S, n))
    BY <1>2
  <2> DEFINE h == [T \in Sized(S, n + 1) |-> Added(f, g, T)]
  <2>2. ASSUME NEW T \in Sized(S, n + 1)
        PROVE  /\ Added(f, g, T) \in Int /\ Added(f, h, T) = Added(f, g, T)
    <3>1. CASE T = {}
      BY <3>1 DEF Added
    <3>2. CASE T # {}
      <4> DEFINE U == T \ {First(T)}
      <4>1. IsFiniteSet(T) /\ T \subseteq S /\ Cardinality(T) <= n + 1
        BY FS_Subset DEF Sized
      <4>2. First(T) \in T /\ Cardinality(U) <= n /\ U \subseteq S
        BY <3>2, <4>1, FirstTaken
      <4>3. U \in Sized(S, n) /\ Cardinality(U) \in Nat
        BY <3>2, <4>1, <4>2, FirstTaken DEF Sized
      <4>4. U \in Sized(S, n + 1)
        BY <4>2, <4>3 DEF Sized
      <4>5. g[U] \in Int /\ g[U] = Added(f, g, U) /\ h[U] = Added(f, g, U)
        BY <2>1, <4>3, <4>4 DEF AreSums
      <4>6. f[First(T)] \in Int
        BY <4>1, <4>2 DEF IntOn
      <4>7. QED
        BY <3>2, <4>5, <4>6 DEF Added
    <3>3. QED
      BY <3>1, <3>2
  <2>3. AreSums(f, h, Sized(S, n + 1))
    BY <2>2 DEF AreSums
  <2>4. QED
    BY <2>3
<1>3. Nat \subseteq N
  BY <1>1, <1>2, AllNumbers
<1>4. QED
  BY <1>3

\* Two of them agree.
LEMMA SumsAgree ==
    ASSUME NEW f, NEW S, IsFiniteSet(S), NEW g, NEW h,
           \A T \in SUBSET S : g[T] = Added(f, g, T) /\ h[T] = Added(f, h, T)
    PROVE  \A T \in SUBSET S : g[T] = h[T]
<1> DEFINE N == {n \in Nat : \A T \in SUBSET S : Cardinality(T) = n => g[T] = h[T]}
<1>1. 0 \in N
  <2>1. ASSUME NEW T \in SUBSET S, Cardinality(T) = 0
        PROVE  g[T] = h[T]
    <3>1. T = {}
      BY <2>1, FS_Subset, FS_EmptySet
    <3>2. QED
      BY <3>1 DEF Added
  <2>2. QED
    BY <2>1
<1>2. ASSUME NEW n \in Nat, n \in N
      PROVE  n + 1 \in N
  <2>1. ASSUME NEW T \in SUBSET S, Cardinality(T) = n + 1
        PROVE  g[T] = h[T]
    <3>1. IsFiniteSet(T) /\ T # {}
      BY <2>1, FS_Subset, FS_EmptySet
    <3>2. T \ {First(T)} \in SUBSET S /\ Cardinality(T \ {First(T)}) = n
      <4>1. /\ Cardinality(T \ {First(T)}) \in Nat
            /\ Cardinality(T) = Cardinality(T \ {First(T)}) + 1
        BY <3>1, FirstTaken
      <4>2. QED
        BY <2>1, <4>1
    <3>3. g[T \ {First(T)}] = h[T \ {First(T)}]
      BY <1>2, <3>2
    <3>4. QED
      BY <3>1, <3>3 DEF Added
  <2>2. QED
    BY <2>1
<1>3. Nat \subseteq N
  BY <1>1, <1>2, AllNumbers
<1>4. \A T \in SUBSET S : Cardinality(T) \in Nat
  BY FS_Subset, FS_CardinalityType
<1>5. QED
  BY <1>3, <1>4

\* The sum that the folds of the library define.
LEMMA SumIsChosen ==
    ASSUME NEW f, NEW S
    PROVE  SumFunctionOnSet(f, S) = (CHOOSE g : g = [T \in SUBSET S |-> Added(f, g, T)])[S]
BY DEF SumFunctionOnSet, FoldFunctionOnSet, MapThenFoldSet, Added, First

LEMMA SumIsOneOf ==
    ASSUME NEW f, NEW S, IsFiniteSet(S), IntOn(f, S)
    PROVE  \E g : AreSums(f, g, SUBSET S) /\ \A T \in SUBSET S : SumFunctionOnSet(f, T) = g[T]
<1>1. PICK g : AreSums(f, g, SUBSET S)
  <2>1. Cardinality(S) \in Nat
    BY FS_CardinalityType
  <2>2. Sized(S, Cardinality(S)) = SUBSET S
    BY FS_Subset DEF Sized
  <2>3. \E g : AreSums(f, g, Sized(S, Cardinality(S)))
    BY <2>1, SumsOfSize
  <2>4. QED
    BY <2>2, <2>3
<1>2. ASSUME NEW T \in SUBSET S
      PROVE  SumFunctionOnSet(f, T) = g[T]
  <2> DEFINE h == [U \in SUBSET T |-> g[U]]
             Is(e) == e = [U \in SUBSET T |-> Added(f, e, U)]
             sums == CHOOSE e : Is(e)
  <2>1. \A U \in SUBSET T : Added(f, h, U) = Added(f, g, U) /\ g[U] = Added(f, g, U)
    BY <1>1 DEF Added, AreSums, First
  <2>2. Is(h)
    BY <2>1
  <2>3. Is(sums)
    BY <2>2
  <2>4. IsFiniteSet(T)
    BY FS_Subset
  <2>5. \A U \in SUBSET T : sums[U] = Added(f, sums, U) /\ h[U] = Added(f, h, U)
    <3> HIDE DEF sums, h
    <3>1. QED
      BY <2>2, <2>3
  <2>6. sums[T] = h[T]
    <3> HIDE DEF sums, h
    <3>1. QED
      BY <2>4, <2>5, SumsAgree
  <2>7. QED
    BY <2>6, SumIsChosen
<1>3. QED
  BY <1>1, <1>2

\* The sum over nothing is nothing; that over a set is what is taken first and the rest.
LEMMA SumStep ==
    ASSUME NEW f, NEW S, IsFiniteSet(S), IntOn(f, S)
    PROVE  /\ SumFunctionOnSet(f, S) \in Int
           /\ S = {} => SumFunctionOnSet(f, S) = 0
           /\ S # {} => SumFunctionOnSet(f, S) =
                           f[First(S)] + SumFunctionOnSet(f, S \ {First(S)})
<1>1. PICK g : AreSums(f, g, SUBSET S) /\ \A T \in SUBSET S : SumFunctionOnSet(f, T) = g[T]
  BY SumIsOneOf
<1>2. g[S] \in Int /\ g[S] = Added(f, g, S)
  BY <1>1 DEF AreSums
<1>3. SumFunctionOnSet(f, S) = g[S] /\ SumFunctionOnSet(f, S \ {First(S)}) = g[S \ {First(S)}]
  BY <1>1
<1>4. QED
  BY <1>2, <1>3 DEF Added

\* Whatever is taken first, the sum is the same.
LEMMA SumAdds ==
    ASSUME NEW f, NEW S, IsFiniteSet(S), NEW x, x \notin S, IntOn(f, S \cup {x})
    PROVE  SumFunctionOnSet(f, S \cup {x}) = f[x] + SumFunctionOnSet(f, S)
<1> DEFINE U == S \cup {x}
           Sum(T) == SumFunctionOnSet(f, T)
           N == {n \in Nat : \A T \in SUBSET U : Cardinality(T) = n =>
                                \A y \in U \ T : Sum(T \cup {y}) = f[y] + Sum(T)}
<1>1. IsFiniteSet(U)
  BY FS_AddElement
<1>2. ASSUME NEW T \in SUBSET U, NEW y \in U \ T,
             \A z \in T : /\ Sum((T \ {z}) \cup {y}) = f[y] + Sum(T \ {z})
                          /\ Sum((T \ {z}) \cup {z}) = f[z] + Sum(T \ {z})
      PROVE  Sum(T \cup {y}) = f[y] + Sum(T)
  <2> DEFINE V == T \cup {y}
             z == First(V)
  <2>1. V \in SUBSET U /\ V # {} /\ IsFiniteSet(V) /\ IsFiniteSet(T)
    BY <1>1, FS_Subset
  <2>2. z \in V
    BY <2>1 DEF First
  <2>3. Sum(V) = f[z] + Sum(V \ {z})
    BY <2>1, SumStep DEF IntOn
  <2>4. CASE z = y
    <3>1. V \ {y} = T
      OBVIOUS
    <3>2. QED
      BY <2>3, <2>4, <3>1
  <2>5. CASE z # y
    <3>1. z \in T /\ V \ {z} = (T \ {z}) \cup {y} /\ T = (T \ {z}) \cup {z}
      BY <2>2, <2>5
    <3>2. Sum(V \ {z}) = f[y] + Sum(T \ {z}) /\ Sum(T) = f[z] + Sum(T \ {z})
      BY <1>2, <3>1
    <3>3. f[y] \in Int /\ f[z] \in Int
      BY <3>1 DEF IntOn
    <3>4. IsFiniteSet(T \ {z})
      BY <2>1, FS_Subset
    <3>5. Sum(T \ {z}) \in Int
      BY <3>4, SumStep DEF IntOn
    <3>6. Sum(V) = f[z] + (f[y] + Sum(T \ {z}))
      BY <2>3, <3>2
    <3>7. Sum(T) = f[z] + Sum(T \ {z})
      BY <3>2
    <3>8. Sum(V) = f[y] + Sum(T)
      <4> HIDE DEF Sum, V, z
      <4>1. QED
        BY <3>3, <3>5, <3>6, <3>7
    <3>9. QED
      BY <3>8
  <2>6. QED
    BY <2>4, <2>5
<1>3. 0 \in N
  <2>1. ASSUME NEW T \in SUBSET U, Cardinality(T) = 0, NEW y \in U \ T
        PROVE  Sum(T \cup {y}) = f[y] + Sum(T)
    <3>1. T = {}
      BY <1>1, <2>1, FS_Subset, FS_EmptySet
    <3>2. QED
      BY <1>2, <3>1
  <2>2. QED
    BY <2>1
<1>4. ASSUME NEW n \in Nat, n \in N
      PROVE  n + 1 \in N
  <2>1. ASSUME NEW T \in SUBSET U, Cardinality(T) = n + 1, NEW y \in U \ T
        PROVE  Sum(T \cup {y}) = f[y] + Sum(T)
    <3>1. ASSUME NEW z \in T
          PROVE  /\ Sum((T \ {z}) \cup {y}) = f[y] + Sum(T \ {z})
                 /\ Sum((T \ {z}) \cup {z}) = f[z] + Sum(T \ {z})
      <4>1. IsFiniteSet(T)
        BY <1>1, FS_Subset
      <4>2. Cardinality(T \ {z}) = n
        BY <2>1, <4>1, FS_RemoveElement
      <4>3. T \ {z} \in SUBSET U /\ y \in U \ (T \ {z}) /\ z \in U \ (T \ {z})
        BY <2>1
      <4>4. \A w \in U \ (T \ {z}) : Sum((T \ {z}) \cup {w}) = f[w] + Sum(T \ {z})
        BY <1>4, <4>2, <4>3
      <4>5. QED
        BY <4>3, <4>4
    <3>2. QED
      BY <1>2, <2>1, <3>1
  <2>2. QED
    BY <2>1
<1>5. Nat \subseteq N
  BY <1>3, <1>4, AllNumbers
<1>6. Cardinality(S) \in Nat /\ S \in SUBSET U /\ x \in U \ S
  BY FS_CardinalityType
<1>7. QED
  BY <1>5, <1>6

\* It depends only on what is summed.
LEMMA SumSame ==
    ASSUME NEW f, NEW g, NEW S, IsFiniteSet(S), IntOn(f, S), \A x \in S : f[x] = g[x]
    PROVE  SumFunctionOnSet(f, S) = SumFunctionOnSet(g, S)
<1> DEFINE N == {n \in Nat : \A T \in SUBSET S : Cardinality(T) = n =>
                                SumFunctionOnSet(f, T) = SumFunctionOnSet(g, T)}
<1>1. \A T \in SUBSET S : IsFiniteSet(T) /\ IntOn(f, T) /\ IntOn(g, T)
  BY FS_Subset DEF IntOn
<1>2. 0 \in N
  <2>1. ASSUME NEW T \in SUBSET S, Cardinality(T) = 0
        PROVE  SumFunctionOnSet(f, T) = SumFunctionOnSet(g, T)
    <3>1. T = {}
      BY <1>1, <2>1, FS_EmptySet
    <3>2. QED
      BY <1>1, <3>1, SumStep
  <2>2. QED
    BY <2>1
<1>3. ASSUME NEW n \in Nat, n \in N
      PROVE  n + 1 \in N
  <2>1. ASSUME NEW T \in SUBSET S, Cardinality(T) = n + 1
        PROVE  SumFunctionOnSet(f, T) = SumFunctionOnSet(g, T)
    <3>1. T # {}
      BY <2>1, FS_EmptySet
    <3>2. First(T) \in S /\ T \ {First(T)} \in SUBSET S /\ Cardinality(T \ {First(T)}) = n
      <4>1. /\ First(T) \in T
            /\ Cardinality(T \ {First(T)}) \in Nat
            /\ Cardinality(T) = Cardinality(T \ {First(T)}) + 1
        BY <1>1, <3>1, FirstTaken
      <4>2. QED
        BY <2>1, <4>1
    <3>3. SumFunctionOnSet(f, T \ {First(T)}) = SumFunctionOnSet(g, T \ {First(T)})
      BY <1>3, <3>2
    <3>4. QED
      BY <1>1, <3>1, <3>2, <3>3, SumStep
  <2>2. QED
    BY <2>1
<1>4. Nat \subseteq N
  BY <1>2, <1>3, AllNumbers
<1>5. Cardinality(S) \in Nat
  BY FS_CardinalityType
<1>6. QED
  BY <1>4, <1>5

\* A set that grows, shrinks, or keeps all but one of what is summed.
LEMMA SumGrows ==
    ASSUME NEW f, NEW g, NEW S, IsFiniteSet(S), NEW x, x \notin S, IntOn(f, S), g[x] \in Int,
           \A y \in S : g[y] = f[y]
    PROVE  SumFunctionOnSet(g, S \cup {x}) = SumFunctionOnSet(f, S) + g[x]
<1>1. IntOn(g, S) /\ IntOn(g, S \cup {x})
  BY DEF IntOn
<1>2. SumFunctionOnSet(f, S) = SumFunctionOnSet(g, S)
  <2>1. \A y \in S : f[y] = g[y]
    OBVIOUS
  <2>2. QED
    BY <2>1, SumSame
<1>2a. SumFunctionOnSet(g, S) \in Int
  BY <1>1, SumStep
<1>3. SumFunctionOnSet(g, S \cup {x}) = g[x] + SumFunctionOnSet(g, S)
  BY <1>1, SumAdds
<1>4. QED
  BY <1>1, <1>2, <1>2a, <1>3

LEMMA SumShrinks ==
    ASSUME NEW f, NEW g, NEW S, IsFiniteSet(S), NEW x \in S, IntOn(f, S),
           \A y \in S \ {x} : g[y] = f[y]
    PROVE  SumFunctionOnSet(g, S \ {x}) = SumFunctionOnSet(f, S) - f[x]
<1> DEFINE T == S \ {x}
<1>1. IsFiniteSet(T) /\ x \notin T /\ S = T \cup {x} /\ IntOn(f, T) /\ IntOn(g, T) /\ f[x] \in Int
  BY FS_RemoveElement DEF IntOn
<1>2. SumFunctionOnSet(f, T) = SumFunctionOnSet(g, T)
  <2>1. \A y \in T : f[y] = g[y]
    OBVIOUS
  <2>2. QED
    <3> HIDE DEF T
    <3>1. QED
      BY <1>1, <2>1, SumSame
<1>2a. SumFunctionOnSet(g, T) \in Int
  BY <1>1, SumStep
<1>3. SumFunctionOnSet(f, S) = f[x] + SumFunctionOnSet(f, T)
  BY <1>1, SumAdds
<1>4. QED
  BY <1>1, <1>2, <1>2a, <1>3

LEMMA SumMoves ==
    ASSUME NEW f, NEW g, NEW S, IsFiniteSet(S), NEW x \in S, IntOn(f, S), g[x] \in Int,
           \A y \in S \ {x} : g[y] = f[y]
    PROVE  SumFunctionOnSet(g, S) = SumFunctionOnSet(f, S) - f[x] + g[x]
<1> DEFINE T == S \ {x}
<1>1. /\ IsFiniteSet(T) /\ x \notin T /\ S = T \cup {x} /\ f[x] \in Int
      /\ IntOn(f, T) /\ IntOn(g, T) /\ IntOn(g, T \cup {x})
  BY FS_RemoveElement DEF IntOn
<1>2. SumFunctionOnSet(f, T) = SumFunctionOnSet(g, T)
  <2>1. \A y \in T : f[y] = g[y]
    OBVIOUS
  <2>2. QED
    <3> HIDE DEF T
    <3>1. QED
      BY <1>1, <2>1, SumSame
<1>3. SumFunctionOnSet(f, S) = f[x] + SumFunctionOnSet(f, T)
  BY <1>1, SumAdds
<1>4. SumFunctionOnSet(g, S) = g[x] + SumFunctionOnSet(g, T)
  <2> HIDE DEF T
  <2>1. SumFunctionOnSet(g, T \cup {x}) = g[x] + SumFunctionOnSet(g, T)
    BY <1>1, SumAdds
  <2>2. QED
    BY <1>1, <2>1
<1>5. SumFunctionOnSet(g, T) \in Int
  BY <1>1, SumStep
<1>6. QED
  BY <1>1, <1>2, <1>3, <1>4, <1>5

------------------------------------------------------------------------------
(* The balances are sums.                                                  *)

ActiveFor(m) == {r \in DOMAIN reservations : reservations[r].mission = m /\ Active(r)}

UnspentFor(m) == {k \in DOMAIN commitments : commitments[k].mission = m /\ Unspent(k)}

SpendsFor(m) == {s \in DOMAIN spends : commitments[spends[s].commitment].mission = m}

\* What is summed is finitely many numbers.
LEMMA ListsAreSummable ==
    ASSUME FinanceTypeOK
    PROVE  /\ \A m : /\ IsFiniteSet(ActiveFor(m)) /\ IsFiniteSet(UnspentFor(m))
                  /\ IsFiniteSet(SpendsFor(m))
           /\ \A r \in DOMAIN reservations :
                 /\ AmountsOf(reservations)[r] = reservations[r].amount
                 /\ reservations[r].amount \in Int
           /\ \A k \in DOMAIN commitments :
                 AmountsOf(commitments)[k] = commitments[k].amount /\ commitments[k].amount \in Int
           /\ \A s \in DOMAIN spends :
                 AmountsOf(spends)[s] = spends[s].amount /\ spends[s].amount \in Int
<1>1. /\ reservations \in Seq(Reservation) /\ commitments \in Seq(FinancialCommitment)
      /\ spends \in Seq(ActualSpend)
  BY DEF FinanceTypeOK, StoredTypes
<1>2. /\ IsFiniteSet(DOMAIN reservations) /\ IsFiniteSet(DOMAIN commitments)
      /\ IsFiniteSet(DOMAIN spends)
  <2>1. /\ DOMAIN reservations = 1..Len(reservations) /\ Len(reservations) \in Int
        /\ DOMAIN commitments = 1..Len(commitments) /\ Len(commitments) \in Int
        /\ DOMAIN spends = 1..Len(spends) /\ Len(spends) \in Int
    BY <1>1
  <2>2. QED
    BY <2>1, FS_Interval
<1>3. \A m : IsFiniteSet(ActiveFor(m)) /\ IsFiniteSet(UnspentFor(m)) /\ IsFiniteSet(SpendsFor(m))
  BY <1>2, FS_Subset DEF ActiveFor, UnspentFor, SpendsFor
<1>4. /\ \A r \in DOMAIN reservations : reservations[r].amount \in Int
      /\ \A k \in DOMAIN commitments : commitments[k].amount \in Int
      /\ \A s \in DOMAIN spends : spends[s].amount \in Int
  <2>1. \A r \in DOMAIN reservations : reservations[r] \in Reservation
    BY <1>1
  <2>2. \A k \in DOMAIN commitments : commitments[k] \in FinancialCommitment
    BY <1>1
  <2>3. \A s \in DOMAIN spends : spends[s] \in ActualSpend
    BY <1>1
  <2>4. QED
    BY <2>1, <2>2, <2>3 DEF Reservation, FinancialCommitment, ActualSpend
<1>5. QED
  BY <1>3, <1>4 DEF AmountsOf

LEMMA SumsAreOf ==
    ASSUME NEW m
    PROVE  /\ ReservedFor(m) = SumFunctionOnSet(AmountsOf(reservations), ActiveFor(m))
           /\ CommittedFor(m) = SumFunctionOnSet(AmountsOf(commitments), UnspentFor(m))
           /\ SpentBy(m) = SumFunctionOnSet(AmountsOf(spends), SpendsFor(m))
  BY DEF ReservedFor, CommittedFor, SpentBy, ActiveFor, UnspentFor, SpendsFor

LEMMA SumsAreInt ==
    ASSUME FinanceTypeOK, NEW m
    PROVE  ReservedFor(m) \in Int /\ CommittedFor(m) \in Int /\ SpentBy(m) \in Int
<1>1. /\ IntOn(AmountsOf(reservations), ActiveFor(m)) /\ IsFiniteSet(ActiveFor(m))
      /\ IntOn(AmountsOf(commitments), UnspentFor(m)) /\ IsFiniteSet(UnspentFor(m))
      /\ IntOn(AmountsOf(spends), SpendsFor(m)) /\ IsFiniteSet(SpendsFor(m))
  BY ListsAreSummable DEF IntOn, ActiveFor, UnspentFor, SpendsFor
<1>2. QED
  BY <1>1, SumsAreOf, SumStep

\* A reservation is added.
LEMMA ReservedMore ==
    ASSUME FinanceTypeOK, NEW new, new \notin DOMAIN reservations,
           DOMAIN reservations' = DOMAIN reservations \cup {new},
           \A r \in DOMAIN reservations : reservations'[r] = reservations[r],
           reservations'[new].status = "ACTIVE", reservations'[new].amount \in Int, NEW m
    PROVE  ReservedFor(m)' = ReservedFor(m) + IF m = reservations'[new].mission
                                              THEN reservations'[new].amount ELSE 0
<1> DEFINE f == AmountsOf(reservations)
           g == AmountsOf(reservations')
<1>1. IsFiniteSet(ActiveFor(m)) /\ IntOn(f, ActiveFor(m)) /\ new \notin ActiveFor(m)
  BY ListsAreSummable DEF IntOn, ActiveFor
<1>2. (\A r \in ActiveFor(m) : g[r] = f[r]) /\ g[new] = reservations'[new].amount
  BY DEF AmountsOf, ActiveFor
<1>3. ActiveFor(m)' = IF m = reservations'[new].mission THEN ActiveFor(m) \cup {new}
                      ELSE ActiveFor(m)
  BY DEF ActiveFor, Active
<1>4. /\ ReservedFor(m)' = SumFunctionOnSet(g, ActiveFor(m)')
      /\ ReservedFor(m) = SumFunctionOnSet(f, ActiveFor(m))
  BY DEF ReservedFor, ActiveFor, Active
<1>5. ReservedFor(m) \in Int
  BY SumsAreInt
<1> HIDE DEF f, g
<1>6. CASE m = reservations'[new].mission
  BY <1>1, <1>2, <1>3, <1>4, <1>6, SumGrows
<1>7. CASE m # reservations'[new].mission
  BY <1>1, <1>2, <1>3, <1>4, <1>5, <1>7, SumSame
<1>8. QED
  BY <1>6, <1>7

\* A reservation ends.
LEMMA ReservedLess ==
    ASSUME FinanceTypeOK, NEW r \in DOMAIN reservations, reservations[r].status = "ACTIVE",
           NEW s \in {"RELEASED", "CONVERTED"},
           reservations' = [reservations EXCEPT ![r].status = s], NEW m
    PROVE  ReservedFor(m)' = ReservedFor(m) - IF m = reservations[r].mission
                                              THEN reservations[r].amount ELSE 0
<1> DEFINE f == AmountsOf(reservations)
           g == AmountsOf(reservations')
<1>0. /\ DOMAIN reservations' = DOMAIN reservations
      /\ \A q \in DOMAIN reservations :
            /\ reservations'[q].mission = reservations[q].mission
            /\ reservations'[q].amount = reservations[q].amount
            /\ reservations'[q].status = IF q = r THEN s ELSE reservations[q].status
  BY Ended
<1>1. IsFiniteSet(ActiveFor(m)) /\ IntOn(f, ActiveFor(m)) /\ f[r] = reservations[r].amount
  BY ListsAreSummable DEF IntOn, ActiveFor
<1>2. \A q \in ActiveFor(m) : g[q] = f[q]
  BY <1>0 DEF AmountsOf, ActiveFor
<1>3. ActiveFor(m)' = IF m = reservations[r].mission THEN ActiveFor(m) \ {r} ELSE ActiveFor(m)
  BY <1>0 DEF ActiveFor, Active
<1>4. /\ ReservedFor(m)' = SumFunctionOnSet(g, ActiveFor(m)')
      /\ ReservedFor(m) = SumFunctionOnSet(f, ActiveFor(m))
  BY DEF ReservedFor, ActiveFor, Active
<1>5. ReservedFor(m) \in Int
  BY SumsAreInt
<1>6. m = reservations[r].mission => r \in ActiveFor(m)
  BY DEF ActiveFor, Active
<1> HIDE DEF f, g
<1>7. CASE m = reservations[r].mission
  BY <1>1, <1>2, <1>3, <1>4, <1>6, <1>7, SumShrinks
<1>8. CASE m # reservations[r].mission
  BY <1>1, <1>2, <1>3, <1>4, <1>5, <1>8, SumSame
<1>9. QED
  BY <1>7, <1>8

\* A commitment is added, spent already or not.
LEMMA CommittedMore ==
    ASSUME FinanceTypeOK, NEW new, new \notin DOMAIN commitments,
           DOMAIN commitments' = DOMAIN commitments \cup {new},
           \A k \in DOMAIN commitments : commitments'[k] = commitments[k],
           commitments'[new].amount \in Int, NEW m
    PROVE  CommittedFor(m)' = CommittedFor(m)
              + IF m = commitments'[new].mission /\ commitments'[new].status # "SPENT"
                THEN commitments'[new].amount ELSE 0
<1> DEFINE f == AmountsOf(commitments)
           g == AmountsOf(commitments')
           counts == m = commitments'[new].mission /\ commitments'[new].status # "SPENT"
<1>1. IsFiniteSet(UnspentFor(m)) /\ IntOn(f, UnspentFor(m)) /\ new \notin UnspentFor(m)
  BY ListsAreSummable DEF IntOn, UnspentFor
<1>2. (\A k \in UnspentFor(m) : g[k] = f[k]) /\ g[new] = commitments'[new].amount
  BY DEF AmountsOf, UnspentFor
<1>3. UnspentFor(m)' = IF counts THEN UnspentFor(m) \cup {new} ELSE UnspentFor(m)
  BY DEF UnspentFor, Unspent
<1>4. /\ CommittedFor(m)' = SumFunctionOnSet(g, UnspentFor(m)')
      /\ CommittedFor(m) = SumFunctionOnSet(f, UnspentFor(m))
  BY DEF CommittedFor, UnspentFor, Unspent
<1>5. CommittedFor(m) \in Int
  BY SumsAreInt
<1> HIDE DEF f, g, counts
<1>6. CASE counts
  <2>1. CommittedFor(m)' = CommittedFor(m) + g[new]
    BY <1>1, <1>2, <1>3, <1>4, <1>6, SumGrows
  <2>2. QED
    BY <1>2, <1>6, <2>1 DEF counts
<1>7. CASE ~ counts
  <2>1. CommittedFor(m)' = CommittedFor(m)
    BY <1>1, <1>2, <1>3, <1>4, <1>7, SumSame
  <2>2. QED
    BY <1>5, <1>7, <2>1 DEF counts
<1>8. QED
  BY <1>6, <1>7

\* A commitment is spent.
LEMMA CommittedLess ==
    ASSUME FinanceTypeOK, NEW k \in DOMAIN commitments, commitments[k].status # "SPENT",
           commitments' = [commitments EXCEPT ![k].status = "SPENT"], NEW m
    PROVE  CommittedFor(m)' = CommittedFor(m) - IF m = commitments[k].mission
                                                THEN commitments[k].amount ELSE 0
<1> DEFINE f == AmountsOf(commitments)
           g == AmountsOf(commitments')
<1>0. /\ DOMAIN commitments' = DOMAIN commitments
      /\ \A l \in DOMAIN commitments :
            /\ commitments'[l].mission = commitments[l].mission
            /\ commitments'[l].amount = commitments[l].amount
            /\ commitments'[l].status = IF l = k THEN "SPENT" ELSE commitments[l].status
  BY Settled
<1>1. IsFiniteSet(UnspentFor(m)) /\ IntOn(f, UnspentFor(m)) /\ f[k] = commitments[k].amount
  BY ListsAreSummable DEF IntOn, UnspentFor
<1>2. \A l \in UnspentFor(m) : g[l] = f[l]
  BY <1>0 DEF AmountsOf, UnspentFor
<1>3. UnspentFor(m)' = IF m = commitments[k].mission THEN UnspentFor(m) \ {k} ELSE UnspentFor(m)
  BY <1>0 DEF UnspentFor, Unspent
<1>4. /\ CommittedFor(m)' = SumFunctionOnSet(g, UnspentFor(m)')
      /\ CommittedFor(m) = SumFunctionOnSet(f, UnspentFor(m))
  BY DEF CommittedFor, UnspentFor, Unspent
<1>5. CommittedFor(m) \in Int
  BY SumsAreInt
<1>6. m = commitments[k].mission => k \in UnspentFor(m)
  BY DEF UnspentFor, Unspent
<1> HIDE DEF f, g
<1>7. CASE m = commitments[k].mission
  BY <1>1, <1>2, <1>3, <1>4, <1>6, <1>7, SumShrinks
<1>8. CASE m # commitments[k].mission
  BY <1>1, <1>2, <1>3, <1>4, <1>5, <1>8, SumSame
<1>9. QED
  BY <1>7, <1>8

\* No spend, or one spend, is added, and the missions of commitments stay.
LEMMA SpentSame ==
    ASSUME FinanceTypeOK, UNCHANGED spends,
           \A k \in DOMAIN commitments : commitments'[k].mission = commitments[k].mission, NEW m
    PROVE  SpentBy(m)' = SpentBy(m)
<1>1. \A s \in DOMAIN spends : spends[s].commitment \in DOMAIN commitments
  BY DEF FinanceTypeOK, Referenced
<1>2. SpendsFor(m)' = SpendsFor(m)
  BY <1>1 DEF SpendsFor
<1>3. SpentBy(m) = SumFunctionOnSet(AmountsOf(spends), SpendsFor(m))
  BY SumsAreOf
<1>4. SpentBy(m)' = SumFunctionOnSet(AmountsOf(spends), SpendsFor(m)')
  BY DEF SpentBy, SpendsFor
<1>5. QED
  BY <1>2, <1>3, <1>4

LEMMA SpentMore ==
    ASSUME FinanceTypeOK, NEW new, new \notin DOMAIN spends,
           DOMAIN spends' = DOMAIN spends \cup {new},
           \A s \in DOMAIN spends : spends'[s] = spends[s],
           \A k \in DOMAIN commitments : commitments'[k].mission = commitments[k].mission,
           spends'[new].amount \in Int, NEW m
    PROVE  SpentBy(m)' = SpentBy(m)
              + IF m = commitments'[spends'[new].commitment].mission
                THEN spends'[new].amount ELSE 0
<1> DEFINE f == AmountsOf(spends)
           g == AmountsOf(spends')
           counts == m = commitments'[spends'[new].commitment].mission
<1>0. \A s \in DOMAIN spends : spends[s].commitment \in DOMAIN commitments
  BY DEF FinanceTypeOK, Referenced
<1>1. IsFiniteSet(SpendsFor(m)) /\ IntOn(f, SpendsFor(m)) /\ new \notin SpendsFor(m)
  BY ListsAreSummable DEF IntOn, SpendsFor
<1>2. (\A s \in SpendsFor(m) : g[s] = f[s]) /\ g[new] = spends'[new].amount
  BY DEF AmountsOf, SpendsFor
<1>3. SpendsFor(m)' = IF counts THEN SpendsFor(m) \cup {new} ELSE SpendsFor(m)
  BY <1>0 DEF SpendsFor
<1>4. /\ SpentBy(m)' = SumFunctionOnSet(g, SpendsFor(m)')
      /\ SpentBy(m) = SumFunctionOnSet(f, SpendsFor(m))
  BY DEF SpentBy, SpendsFor
<1>5. SpentBy(m) \in Int
  BY SumsAreInt
<1> HIDE DEF f, g, counts
<1>6. CASE counts
  <2>1. SpentBy(m)' = SpentBy(m) + g[new]
    BY <1>1, <1>2, <1>3, <1>4, <1>6, SumGrows
  <2>2. QED
    BY <1>2, <1>6, <2>1 DEF counts
<1>7. CASE ~ counts
  <2>1. SpentBy(m)' = SpentBy(m)
    BY <1>1, <1>2, <1>3, <1>4, <1>7, SumSame
  <2>2. QED
    BY <1>5, <1>7, <2>1 DEF counts
<1>8. QED
  BY <1>6, <1>7

\* A total moves by what one of its addends moves by, or a new one brings.
LEMMA TotalMoves ==
    ASSUME NEW f, NEW g, IsFiniteSet(DOMAIN f), IntOn(f, DOMAIN f), NEW x, NEW d \in Int,
           DOMAIN g = DOMAIN f \cup {x}, \A y \in DOMAIN f \ {x} : g[y] = f[y],
           g[x] = (IF x \in DOMAIN f THEN f[x] ELSE 0) + d
    PROVE  SumFunction(g) = SumFunction(f) + d
<1> DEFINE S == DOMAIN f
<1>1. SumFunction(g) = SumFunctionOnSet(g, S \cup {x}) /\ SumFunction(f) = SumFunctionOnSet(f, S)
  BY DEF SumFunction
<1>2. IsFiniteSet(S) /\ IntOn(f, S)
  OBVIOUS
<1>3. SumFunctionOnSet(f, S) \in Int
  BY <1>2, SumStep
<1>4. CASE x \in S
  <2>1. f[x] \in Int /\ g[x] = f[x] + d /\ S \cup {x} = S
    BY <1>2, <1>4 DEF IntOn
  <2>2. g[x] \in Int /\ \A y \in S \ {x} : g[y] = f[y]
    BY <2>1
  <2> HIDE DEF S
  <2>3. SumFunctionOnSet(g, S) = SumFunctionOnSet(f, S) - f[x] + g[x]
    BY <1>2, <1>4, <2>2, SumMoves
  <2>4. SumFunction(g) = SumFunctionOnSet(f, S) - f[x] + g[x]
    BY <1>1, <2>1, <2>3
  <2>5. QED
    BY <1>1, <1>3, <2>1, <2>4
<1>5. CASE x \notin S
  <2>1. g[x] = d /\ g[x] \in Int /\ \A y \in S : g[y] = f[y]
    BY <1>5
  <2> HIDE DEF S
  <2>2. SumFunctionOnSet(g, S \cup {x}) = SumFunctionOnSet(f, S) + g[x]
    BY <1>2, <1>5, <2>1, SumGrows
  <2>3. QED
    BY <1>1, <2>1, <2>2
<1>6. QED
  BY <1>4, <1>5

Allocateds == [m \in DOMAIN allocations |-> allocations[m].allocated]
Reserveds == [m \in DOMAIN allocations |-> allocations[m].reserved]
Committeds == [m \in DOMAIN allocations |-> allocations[m].committed]
Spents == [m \in DOMAIN allocations |-> allocations[m].spent]

\* BooksBalance, column by column.
Balanced ==
    /\ \A m \in DOMAIN allocations :
          /\ allocations[m].reserved = ReservedFor(m)
          /\ allocations[m].committed = CommittedFor(m)
          /\ allocations[m].spent = SpentBy(m)
    /\ budget # NoBudget =>
          /\ budget.allocated = SumFunction(Allocateds)
          /\ budget.reserved = SumFunction(Reserveds)
          /\ budget.committed = SumFunction(Committeds)
          /\ budget.spent = SumFunction(Spents)
    /\ IsFiniteSet(DOMAIN allocations)

LEMMA BalancedBooks == Balanced => BooksBalance
<1> DEFINE Column(field) == [m \in DOMAIN allocations |-> allocations[m][field]]
           Fields == {"allocated", "reserved", "committed", "spent"}
<1>1. /\ Column("allocated") = Allocateds /\ Column("reserved") = Reserveds
      /\ Column("committed") = Committeds /\ Column("spent") = Spents
  BY DEF Allocateds, Reserveds, Committeds, Spents
<1>2. (\A field \in Fields : budget[field] = SumFunction(Column(field))) <=>
         /\ budget.allocated = SumFunction(Column("allocated"))
         /\ budget.reserved = SumFunction(Column("reserved"))
         /\ budget.committed = SumFunction(Column("committed"))
         /\ budget.spent = SumFunction(Column("spent"))
  <2> HIDE DEF Column
  <2>1. QED
    OBVIOUS
<1>3. Balanced =>
         /\ \A m \in DOMAIN allocations :
               /\ allocations[m].reserved = ReservedFor(m)
               /\ allocations[m].committed = CommittedFor(m)
               /\ allocations[m].spent = SpentBy(m)
         /\ budget # NoBudget => \A field \in Fields : budget[field] = SumFunction(Column(field))
  <2> HIDE DEF Column, Fields
  <2>1. QED
    BY <1>1, <1>2 DEF Balanced
<1>4. QED
  BY <1>3 DEF BooksBalance

LEMMA ColumnsTyped ==
    ASSUME FinanceTypeOK
    PROVE  /\ IntOn(Allocateds, DOMAIN allocations) /\ IntOn(Reserveds, DOMAIN allocations)
           /\ IntOn(Committeds, DOMAIN allocations) /\ IntOn(Spents, DOMAIN allocations)
           /\ DOMAIN Allocateds = DOMAIN allocations /\ DOMAIN Reserveds = DOMAIN allocations
           /\ DOMAIN Committeds = DOMAIN allocations /\ DOMAIN Spents = DOMAIN allocations
<1>1. \A m \in DOMAIN allocations : allocations[m] \in Allocation
  BY DEF FinanceTypeOK, StoredTypes
<1>2. QED
  BY <1>1 DEF IntOn, Allocateds, Reserveds, Committeds, Spents, Allocation

\* What the four operations and the executor post is what the lists gain and lose.
LEMMA PostBalances ==
    ASSUME FinanceTypeOK, Balanced, NEW x \in DOMAIN allocations,
           NEW r \in Int, NEW c \in Int, NEW s \in Int, Post(x, r, c, s),
           \A m : /\ ReservedFor(m)' = ReservedFor(m) + IF m = x THEN r ELSE 0
                  /\ CommittedFor(m)' = CommittedFor(m) + IF m = x THEN c ELSE 0
                  /\ SpentBy(m)' = SpentBy(m) + IF m = x THEN s ELSE 0
    PROVE  Balanced'
<1>1. /\ DOMAIN allocations' = DOMAIN allocations
      /\ \A n \in DOMAIN allocations \ {x} : allocations'[n] = allocations[n]
      /\ allocations'[x].allocated = allocations[x].allocated
      /\ allocations'[x].reserved = allocations[x].reserved + r
      /\ allocations'[x].committed = allocations[x].committed + c
      /\ allocations'[x].spent = allocations[x].spent + s
  BY Posted
<1>2. budget \in Budget /\ budget # NoBudget
  BY Posted, NullAssumption
<1>3. /\ budget'.allocated = budget.allocated
      /\ budget'.reserved = budget.reserved + r
      /\ budget'.committed = budget.committed + c
      /\ budget'.spent = budget.spent + s
  <2>1. budget' = [budget EXCEPT !.reserved = @ + r, !.committed = @ + c, !.spent = @ + s]
    BY DEF Post
  <2>2. QED
    BY <1>2, <2>1 DEF Budget
<1>4. ASSUME NEW m \in DOMAIN allocations'
      PROVE  /\ allocations'[m].reserved = ReservedFor(m)'
             /\ allocations'[m].committed = CommittedFor(m)'
             /\ allocations'[m].spent = SpentBy(m)'
  <2>1. /\ m \in DOMAIN allocations
        /\ allocations[m].reserved = ReservedFor(m)
        /\ allocations[m].committed = CommittedFor(m)
        /\ allocations[m].spent = SpentBy(m)
    BY <1>1, <1>4 DEF Balanced
  <2>2. ReservedFor(m) \in Int /\ CommittedFor(m) \in Int /\ SpentBy(m) \in Int
    BY SumsAreInt
  <2>3. CASE m = x
    BY <1>1, <2>1, <2>3
  <2>4. CASE m # x
    BY <1>1, <2>1, <2>2, <2>4
  <2>5. QED
    BY <2>3, <2>4
<1>5. /\ budget.allocated = SumFunction(Allocateds) /\ budget.reserved = SumFunction(Reserveds)
      /\ budget.committed = SumFunction(Committeds) /\ budget.spent = SumFunction(Spents)
      /\ IsFiniteSet(DOMAIN allocations)
  BY <1>2 DEF Balanced
<1>6. /\ Allocateds' = Allocateds
      /\ \A n \in DOMAIN allocations \ {x} : /\ Reserveds'[n] = Reserveds[n]
                                              /\ Committeds'[n] = Committeds[n]
                                              /\ Spents'[n] = Spents[n]
      /\ Reserveds'[x] = Reserveds[x] + r /\ Committeds'[x] = Committeds[x] + c
      /\ Spents'[x] = Spents[x] + s
      /\ DOMAIN Reserveds' = DOMAIN allocations \cup {x}
      /\ DOMAIN Committeds' = DOMAIN allocations \cup {x}
      /\ DOMAIN Spents' = DOMAIN allocations \cup {x}
  BY <1>1 DEF Allocateds, Reserveds, Committeds, Spents
<1>7. SumFunction(Reserveds') = SumFunction(Reserveds) + r
  BY <1>5, <1>6, ColumnsTyped, TotalMoves
<1>8. SumFunction(Committeds') = SumFunction(Committeds) + c
  BY <1>5, <1>6, ColumnsTyped, TotalMoves
<1>9. SumFunction(Spents') = SumFunction(Spents) + s
  BY <1>5, <1>6, ColumnsTyped, TotalMoves
<1>10. IsFiniteSet(DOMAIN allocations')
  BY <1>1, <1>5
<1>11. /\ budget'.allocated = SumFunction(Allocateds') /\ budget'.reserved = SumFunction(Reserveds')
       /\ budget'.committed = SumFunction(Committeds') /\ budget'.spent = SumFunction(Spents')
  BY <1>3, <1>5, <1>6, <1>7, <1>8, <1>9
<1>12. QED
  BY <1>4, <1>10, <1>11 DEF Balanced

LEMMA BalancedAfterReserve ==
    ASSUME FinanceTypeOK, Balanced, NEW x \in Missions, NEW amount \in Amounts, Reserve(x, amount)
    PROVE  Balanced'
<1> DEFINE cents == safe_money(amount)
           res == [mission |-> x, amount |-> cents, status |-> "ACTIVE"]
           new == Len(reservations) + 1
<1>1. /\ x \in DOMAIN allocations /\ cents \in Nat \ {0} /\ Post(x, cents, 0, 0)
      /\ reservations' = Append(reservations, res)
      /\ UNCHANGED <<commitments, spends>>
  BY Cents DEF Reserve, Configured
<1>2. res \in Reservation /\ reservations \in Seq(Reservation)
  BY <1>1 DEF Reservation, FinanceTypeOK, StoredTypes
<1>3. res.mission = x /\ res.amount = cents /\ res.status = "ACTIVE"
  OBVIOUS
<1> HIDE DEF res, cents
<1>4. /\ DOMAIN reservations' = DOMAIN reservations \cup {new}
      /\ new \notin DOMAIN reservations
      /\ \A r \in DOMAIN reservations : reservations'[r] = reservations[r]
      /\ reservations'[new] = res
  BY <1>1, <1>2, Appended
<1> HIDE DEF new
<1>5. ASSUME NEW m
      PROVE  /\ ReservedFor(m)' = ReservedFor(m) + IF m = x THEN cents ELSE 0
             /\ CommittedFor(m)' = CommittedFor(m) + IF m = x THEN 0 ELSE 0
             /\ SpentBy(m)' = SpentBy(m) + IF m = x THEN 0 ELSE 0
  <2>1. ReservedFor(m)' = ReservedFor(m) + IF m = x THEN cents ELSE 0
    BY <1>1, <1>3, <1>4, ReservedMore
  <2>2. CommittedFor(m)' = CommittedFor(m) /\ CommittedFor(m) \in Int
    BY <1>1, SumsAreInt DEF CommittedFor, Unspent
  <2>3. SpentBy(m)' = SpentBy(m) /\ SpentBy(m) \in Int
    BY <1>1, SumsAreInt, SpentSame
  <2>4. QED
    BY <2>1, <2>2, <2>3
<1>6. QED
  BY <1>1, <1>5, PostBalances

LEMMA BalancedAfterRelease ==
    ASSUME FinanceTypeOK, Balanced, NEW r \in DOMAIN reservations, ReleaseReservation(r)
    PROVE  Balanced'
<1> DEFINE x == reservations[r].mission
           d == reservations[r].amount
<1>1. /\ reservations[r].status = "ACTIVE" /\ Post(x, -d, 0, 0)
      /\ reservations' = [reservations EXCEPT ![r].status = "RELEASED"]
      /\ UNCHANGED <<commitments, spends>>
  BY DEF ReleaseReservation, Active
<1>2. x \in DOMAIN allocations /\ d \in Int
  BY ListsAreSummable DEF FinanceTypeOK, Referenced
<1>3. ASSUME NEW m
      PROVE  /\ ReservedFor(m)' = ReservedFor(m) + IF m = x THEN -d ELSE 0
             /\ CommittedFor(m)' = CommittedFor(m) + IF m = x THEN 0 ELSE 0
             /\ SpentBy(m)' = SpentBy(m) + IF m = x THEN 0 ELSE 0
  <2>1. ReservedFor(m)' = ReservedFor(m) - IF m = x THEN d ELSE 0
    BY <1>1, ReservedLess
  <2>2. CommittedFor(m)' = CommittedFor(m) /\ CommittedFor(m) \in Int /\ ReservedFor(m) \in Int
    BY <1>1, SumsAreInt DEF CommittedFor, Unspent
  <2>3. SpentBy(m)' = SpentBy(m) /\ SpentBy(m) \in Int
    BY <1>1, SumsAreInt, SpentSame
  <2> HIDE DEF x, d
  <2>4. QED
    BY <1>2, <2>1, <2>2, <2>3
<1> HIDE DEF x, d
<1>4. QED
  BY <1>1, <1>2, <1>3, PostBalances

LEMMA BalancedAfterConvert ==
    ASSUME FinanceTypeOK, Balanced, NEW r \in DOMAIN reservations,
           ConvertReservationToCommitment(r)
    PROVE  Balanced'
<1> DEFINE x == reservations[r].mission
           d == reservations[r].amount
           new == Len(commitments) + 1
<1>1. /\ reservations[r].status = "ACTIVE" /\ Post(x, -d, d, 0)
      /\ reservations' = [reservations EXCEPT ![r].status = "CONVERTED"]
      /\ commitments' = Append(commitments, Commitment(x, d, "COMMITTED", r))
      /\ UNCHANGED spends
  BY DEF ConvertReservationToCommitment, Active
<1>2. /\ x \in DOMAIN allocations /\ x \in Missions /\ d \in Nat \ {0} /\ d \in Int
      /\ r \in Nat /\ commitments \in Seq(FinancialCommitment)
  <2>1. reservations[r] \in Reservation /\ r \in Nat
    BY DEF FinanceTypeOK, StoredTypes
  <2>2. QED
    BY <2>1 DEF Reservation, FinanceTypeOK, StoredTypes, Referenced
<1>3. ASSUME NEW m
      PROVE  ReservedFor(m)' = ReservedFor(m) - IF m = x THEN d ELSE 0
  BY <1>1, ReservedLess
<1> HIDE DEF x, d
<1>4. /\ new \notin DOMAIN commitments
      /\ DOMAIN commitments' = DOMAIN commitments \cup {new}
      /\ \A k \in DOMAIN commitments : commitments'[k] = commitments[k]
      /\ commitments'[new].mission = x /\ commitments'[new].amount = d
      /\ commitments'[new].status = "COMMITTED"
  BY <1>1, <1>2, Committed
<1> HIDE DEF new
<1>5. ASSUME NEW m
      PROVE  /\ ReservedFor(m)' = ReservedFor(m) + IF m = x THEN -d ELSE 0
             /\ CommittedFor(m)' = CommittedFor(m) + IF m = x THEN d ELSE 0
             /\ SpentBy(m)' = SpentBy(m) + IF m = x THEN 0 ELSE 0
  <2>1. CommittedFor(m)' = CommittedFor(m) + IF m = x THEN d ELSE 0
    <3>1. CommittedFor(m)' = CommittedFor(m)
             + IF m = commitments'[new].mission /\ commitments'[new].status # "SPENT"
               THEN commitments'[new].amount ELSE 0
      BY <1>2, <1>4, CommittedMore
    <3>2. QED
      BY <1>4, <3>1
  <2>2. SpentBy(m)' = SpentBy(m) /\ SpentBy(m) \in Int /\ ReservedFor(m) \in Int
    BY <1>1, <1>4, SumsAreInt, SpentSame
  <2>3. QED
    BY <1>2, <1>3, <2>1, <2>2
<1>6. PICK e \in Int, g \in Int : e = -d /\ g = d
  BY <1>2
<1>7. Post(x, e, g, 0)
  BY <1>1, <1>6
<1>8. ASSUME NEW m
      PROVE  /\ ReservedFor(m)' = ReservedFor(m) + IF m = x THEN e ELSE 0
             /\ CommittedFor(m)' = CommittedFor(m) + IF m = x THEN g ELSE 0
             /\ SpentBy(m)' = SpentBy(m) + IF m = x THEN 0 ELSE 0
  <2>1. /\ ReservedFor(m)' = ReservedFor(m) + IF m = x THEN -d ELSE 0
        /\ CommittedFor(m)' = CommittedFor(m) + IF m = x THEN d ELSE 0
        /\ SpentBy(m)' = SpentBy(m) + IF m = x THEN 0 ELSE 0
    BY <1>5
  <2>2. QED
    BY <1>6, <2>1
<1>9. QED
  BY <1>2, <1>7, <1>8, PostBalances

LEMMA BalancedAfterSpend ==
    ASSUME FinanceTypeOK, Balanced, NEW k \in DOMAIN commitments, NEW amount \in Amounts,
           RecordSpend(k, amount)
    PROVE  Balanced'
<1> DEFINE x == commitments[k].mission
           d == commitments[k].amount
           cents == safe_money(amount)
           new == Len(spends) + 1
<1>1. /\ commitments[k].status # "SPENT" /\ Post(x, 0, -d, cents) /\ cents \in Nat \ {0}
      /\ commitments' = [commitments EXCEPT ![k].status = "SPENT"]
      /\ spends' = Append(spends, [commitment |-> k, amount |-> cents])
      /\ UNCHANGED reservations
  BY Cents DEF RecordSpend, Unspent
<1>2. /\ x \in DOMAIN allocations /\ d \in Int /\ k \in Nat /\ spends \in Seq(ActualSpend)
  BY ListsAreSummable DEF FinanceTypeOK, StoredTypes, Referenced
<1>3. /\ \A l \in DOMAIN commitments : commitments'[l].mission = commitments[l].mission
      /\ commitments'[k].mission = x
  BY <1>1, Settled
<1>4. ASSUME NEW m
      PROVE  CommittedFor(m)' = CommittedFor(m) - IF m = x THEN d ELSE 0
  BY <1>1, CommittedLess
<1> HIDE DEF x, d, cents
<1>5. /\ new \notin DOMAIN spends
      /\ DOMAIN spends' = DOMAIN spends \cup {new}
      /\ \A s \in DOMAIN spends : spends'[s] = spends[s]
      /\ spends'[new].commitment = k /\ spends'[new].amount = cents
  BY <1>1, <1>2, SpendAdded
<1> HIDE DEF new
<1>6. ASSUME NEW m
      PROVE  /\ ReservedFor(m)' = ReservedFor(m) + IF m = x THEN 0 ELSE 0
             /\ CommittedFor(m)' = CommittedFor(m) + IF m = x THEN -d ELSE 0
             /\ SpentBy(m)' = SpentBy(m) + IF m = x THEN cents ELSE 0
  <2>1. SpentBy(m)' = SpentBy(m) + IF m = x THEN cents ELSE 0
    <3>1. SpentBy(m)' = SpentBy(m)
             + IF m = commitments'[spends'[new].commitment].mission
               THEN spends'[new].amount ELSE 0
      BY <1>1, <1>3, <1>5, SpentMore
    <3>2. QED
      BY <1>3, <1>5, <3>1
  <2>2. ReservedFor(m)' = ReservedFor(m) /\ ReservedFor(m) \in Int /\ CommittedFor(m) \in Int
    BY <1>1, SumsAreInt DEF ReservedFor, Active
  <2>3. QED
    BY <1>2, <1>4, <2>1, <2>2
<1>7. PICK e \in Int, g \in Int : e = -d /\ g = cents
  BY <1>1, <1>2
<1>8. Post(x, 0, e, g)
  BY <1>1, <1>7
<1>9. ASSUME NEW m
      PROVE  /\ ReservedFor(m)' = ReservedFor(m) + IF m = x THEN 0 ELSE 0
             /\ CommittedFor(m)' = CommittedFor(m) + IF m = x THEN e ELSE 0
             /\ SpentBy(m)' = SpentBy(m) + IF m = x THEN g ELSE 0
  <2>1. /\ ReservedFor(m)' = ReservedFor(m) + IF m = x THEN 0 ELSE 0
        /\ CommittedFor(m)' = CommittedFor(m) + IF m = x THEN -d ELSE 0
        /\ SpentBy(m)' = SpentBy(m) + IF m = x THEN cents ELSE 0
    BY <1>6
  <2>2. QED
    BY <1>7, <2>1
<1>10. QED
  BY <1>2, <1>8, <1>9, PostBalances

\* What the executor books, in full or in part.
LEMMA BalancedAfterBooking ==
    ASSUME FinanceTypeOK, Balanced, NEW c \in Calls,
           PaymentRecorded(c) \/ PaymentHalfRecorded(c)
    PROVE  Balanced'
<1> DEFINE x == calls[c].mission
           cents == safe_money(calls[c].amount)
           com == Len(commitments) + 1
           new == Len(spends) + 1
<1>1. /\ reservations' = reservations
      /\ cents \in Nat \ {0} /\ com \in Nat \ {0}
      /\ com \notin DOMAIN commitments
      /\ DOMAIN commitments' = DOMAIN commitments \cup {com}
      /\ \A k \in DOMAIN commitments : commitments'[k] = commitments[k]
      /\ commitments'[com].mission = x /\ commitments'[com].amount = cents
      /\ \/ commitments'[com].status = "COMMITTED" /\ spends' = spends
         \/ /\ commitments'[com].status = "SPENT"
            /\ spends' = Append(spends, [commitment |-> com, amount |-> cents])
  BY Booked
<1>2. x \in DOMAIN allocations
  BY CommittableCall DEF PaymentRecorded, PaymentHalfRecorded
<1>3. \/ commitments'[com].status = "COMMITTED" /\ Post(x, 0, cents, 0)
      \/ commitments'[com].status = "SPENT" /\ Post(x, 0, 0, cents)
  <2>1. PICK status \in {"COMMITTED", "SPENT"} :
           /\ commitments' = Append(commitments, Commitment(x, cents, status, 0))
           /\ \/ status = "COMMITTED" /\ Post(x, 0, cents, 0)
              \/ status = "SPENT" /\ Post(x, 0, 0, cents)
    BY DEF PaymentRecorded, PaymentHalfRecorded
  <2>2. commitments \in Seq(FinancialCommitment) /\ x \in Missions
    BY CommittableCall DEF PaymentRecorded, PaymentHalfRecorded, FinanceTypeOK, StoredTypes
  <2> HIDE DEF x, cents
  <2>3. commitments'[com].status = status
    BY <1>1, <2>1, <2>2, Committed
  <2>4. QED
    BY <2>1, <2>3
<1>4. spends \in Seq(ActualSpend) /\ cents \in Int
  BY <1>1 DEF FinanceTypeOK, StoredTypes
<1> HIDE DEF x, cents, com
<1>5. ASSUME NEW m
      PROVE  /\ ReservedFor(m)' = ReservedFor(m) /\ ReservedFor(m) \in Int
             /\ CommittedFor(m) \in Int /\ SpentBy(m) \in Int
             /\ CommittedFor(m)' = CommittedFor(m)
                   + IF m = x /\ commitments'[com].status # "SPENT" THEN cents ELSE 0
  <2>1. CommittedFor(m)' = CommittedFor(m)
           + IF m = commitments'[com].mission /\ commitments'[com].status # "SPENT"
             THEN commitments'[com].amount ELSE 0
    BY <1>1, <1>4, CommittedMore
  <2>2. ReservedFor(m)' = ReservedFor(m)
    BY <1>1 DEF ReservedFor, Active
  <2>3. QED
    BY <1>1, <2>1, <2>2, SumsAreInt
<1>6. CASE commitments'[com].status = "COMMITTED"
  <2>1. Post(x, 0, cents, 0) /\ spends' = spends
    BY <1>1, <1>3, <1>6
  <2>2. ASSUME NEW m
        PROVE  /\ ReservedFor(m)' = ReservedFor(m) + IF m = x THEN 0 ELSE 0
               /\ CommittedFor(m)' = CommittedFor(m) + IF m = x THEN cents ELSE 0
               /\ SpentBy(m)' = SpentBy(m) + IF m = x THEN 0 ELSE 0
    <3>1. SpentBy(m)' = SpentBy(m)
      BY <1>1, <2>1, SpentSame
    <3>2. QED
      BY <1>5, <1>6, <3>1
  <2>3. QED
    BY <1>2, <1>4, <2>1, <2>2, PostBalances
<1>7. CASE commitments'[com].status = "SPENT"
  <2>1. /\ Post(x, 0, 0, cents)
        /\ spends' = Append(spends, [commitment |-> com, amount |-> cents])
    BY <1>1, <1>3, <1>7
  <2>2. /\ new \notin DOMAIN spends
        /\ DOMAIN spends' = DOMAIN spends \cup {new}
        /\ \A s \in DOMAIN spends : spends'[s] = spends[s]
        /\ spends'[new].commitment = com /\ spends'[new].amount = cents
    BY <1>1, <1>4, <2>1, SpendAdded
  <2> HIDE DEF new
  <2>3. ASSUME NEW m
        PROVE  /\ ReservedFor(m)' = ReservedFor(m) + IF m = x THEN 0 ELSE 0
               /\ CommittedFor(m)' = CommittedFor(m) + IF m = x THEN 0 ELSE 0
               /\ SpentBy(m)' = SpentBy(m) + IF m = x THEN cents ELSE 0
    <3>1. SpentBy(m)' = SpentBy(m)
             + IF m = commitments'[spends'[new].commitment].mission
               THEN spends'[new].amount ELSE 0
      BY <1>1, <1>4, <2>2, SpentMore
    <3>2. SpentBy(m)' = SpentBy(m) + IF m = x THEN cents ELSE 0
      BY <1>1, <2>2, <3>1
    <3>3. QED
      BY <1>5, <1>7, <3>2
  <2>4. QED
    BY <1>2, <1>4, <2>1, <2>3, PostBalances
<1>8. QED
  BY <1>1, <1>6, <1>7

\* A mission that gets its first money has had none, and nothing is stored of it.
LEMMA BalancedAfterAllocate ==
    ASSUME FinanceTypeOK, Balanced, NEW x \in Missions, NEW amount \in Amounts,
           AllocateToMission(x, amount)
    PROVE  Balanced'
<1> DEFINE cents == safe_money(amount)
           before == AllocationOf(x)
<1>1. /\ budget # NoBudget /\ cents \in Int
      /\ budget' = [budget EXCEPT !.allocated = @ + cents]
      /\ allocations' = [n \in DOMAIN allocations \cup {x} |->
                           IF n = x THEN [before EXCEPT !.allocated = @ + cents]
                           ELSE allocations[n]]
      /\ UNCHANGED <<reservations, commitments, spends>>
  BY Cents DEF AllocateToMission
<1>2. /\ before \in Allocation
      /\ x \in DOMAIN allocations => before = allocations[x]
      /\ x \notin DOMAIN allocations => /\ before.allocated = 0 /\ before.reserved = 0
                                        /\ before.committed = 0 /\ before.spent = 0
  BY DEF AllocationOf, NewAllocation, Allocation, FinanceTypeOK, StoredTypes
<1> HIDE DEF cents, before
<1>3. /\ DOMAIN allocations' = DOMAIN allocations \cup {x}
      /\ \A n \in DOMAIN allocations \ {x} : allocations'[n] = allocations[n]
      /\ allocations'[x].allocated = before.allocated + cents
      /\ allocations'[x].reserved = before.reserved
      /\ allocations'[x].committed = before.committed
      /\ allocations'[x].spent = before.spent
  BY <1>1, <1>2 DEF Allocation
<1>4. /\ budget \in Budget /\ budget'.allocated = budget.allocated + cents
      /\ budget'.reserved = budget.reserved /\ budget'.committed = budget.committed
      /\ budget'.spent = budget.spent
  <2>1. budget \in Budget
    BY <1>1 DEF FinanceTypeOK, StoredTypes
  <2>2. QED
    BY <1>1, <2>1 DEF Budget
<1>5. ASSUME NEW m
      PROVE  /\ ReservedFor(m)' = ReservedFor(m) /\ CommittedFor(m)' = CommittedFor(m)
             /\ SpentBy(m)' = SpentBy(m)
  BY <1>1 DEF ReservedFor, CommittedFor, SpentBy, Active, Unspent
<1>6. ASSUME x \notin DOMAIN allocations
      PROVE  ReservedFor(x) = 0 /\ CommittedFor(x) = 0 /\ SpentBy(x) = 0
  <2>1. ActiveFor(x) = {} /\ UnspentFor(x) = {} /\ SpendsFor(x) = {}
    BY <1>6 DEF ActiveFor, UnspentFor, SpendsFor, FinanceTypeOK, Referenced
  <2>2. \A f : SumFunctionOnSet(f, {}) = 0
    BY FS_EmptySet, SumStep DEF IntOn
  <2>3. QED
    BY <2>1, <2>2, SumsAreOf
<1>7. ASSUME NEW m \in DOMAIN allocations'
      PROVE  /\ allocations'[m].reserved = ReservedFor(m)'
             /\ allocations'[m].committed = CommittedFor(m)'
             /\ allocations'[m].spent = SpentBy(m)'
  <2>1. CASE m \in DOMAIN allocations
    <3>1. /\ allocations[m].reserved = ReservedFor(m)
          /\ allocations[m].committed = CommittedFor(m)
          /\ allocations[m].spent = SpentBy(m)
      BY <2>1 DEF Balanced
    <3>2. QED
      BY <1>2, <1>3, <1>5, <2>1, <3>1
  <2>2. CASE m \notin DOMAIN allocations
    <3>1. m = x
      BY <1>3, <2>2
    <3>2. QED
      BY <1>2, <1>3, <1>5, <1>6, <2>2, <3>1
  <2>3. QED
    BY <2>1, <2>2
<1>8. /\ budget.allocated = SumFunction(Allocateds) /\ budget.reserved = SumFunction(Reserveds)
      /\ budget.committed = SumFunction(Committeds) /\ budget.spent = SumFunction(Spents)
      /\ IsFiniteSet(DOMAIN allocations)
  BY <1>1 DEF Balanced
<1>9. /\ \A n \in DOMAIN allocations \ {x} :
            /\ Allocateds'[n] = Allocateds[n] /\ Reserveds'[n] = Reserveds[n]
            /\ Committeds'[n] = Committeds[n] /\ Spents'[n] = Spents[n]
      /\ DOMAIN Allocateds' = DOMAIN allocations \cup {x}
      /\ DOMAIN Reserveds' = DOMAIN allocations \cup {x}
      /\ DOMAIN Committeds' = DOMAIN allocations \cup {x}
      /\ DOMAIN Spents' = DOMAIN allocations \cup {x}
  BY <1>3 DEF Allocateds, Reserveds, Committeds, Spents
<1>10. /\ Allocateds'[x] = before.allocated + cents
       /\ Reserveds'[x] = before.reserved
       /\ Committeds'[x] = before.committed /\ Spents'[x] = before.spent
  BY <1>3 DEF Allocateds, Reserveds, Committeds, Spents
<1>11. /\ before.allocated = IF x \in DOMAIN allocations THEN Allocateds[x] ELSE 0
       /\ before.reserved = IF x \in DOMAIN allocations THEN Reserveds[x] ELSE 0
       /\ before.committed = IF x \in DOMAIN allocations THEN Committeds[x] ELSE 0
       /\ before.spent = IF x \in DOMAIN allocations THEN Spents[x] ELSE 0
  BY <1>2 DEF Allocateds, Reserveds, Committeds, Spents
<1>12. /\ before.allocated \in Int /\ before.reserved \in Int
       /\ before.committed \in Int /\ before.spent \in Int
  BY <1>2 DEF Allocation
<1>13. SumFunction(Allocateds') = SumFunction(Allocateds) + cents
  <2>1. Allocateds'[x] = (IF x \in DOMAIN allocations THEN Allocateds[x] ELSE 0) + cents
    BY <1>10, <1>11
  <2>2. QED
    BY <1>1, <1>8, <1>9, <2>1, ColumnsTyped, TotalMoves
<1>14. SumFunction(Reserveds') = SumFunction(Reserveds) + 0
  <2>1. Reserveds'[x] = (IF x \in DOMAIN allocations THEN Reserveds[x] ELSE 0) + 0
    BY <1>10, <1>11, <1>12
  <2>2. QED
    BY <1>8, <1>9, <2>1, ColumnsTyped, TotalMoves
<1>15. SumFunction(Committeds') = SumFunction(Committeds) + 0
  <2>1. Committeds'[x] = (IF x \in DOMAIN allocations THEN Committeds[x] ELSE 0) + 0
    BY <1>10, <1>11, <1>12
  <2>2. QED
    BY <1>8, <1>9, <2>1, ColumnsTyped, TotalMoves
<1>16. SumFunction(Spents') = SumFunction(Spents) + 0
  <2>1. Spents'[x] = (IF x \in DOMAIN allocations THEN Spents[x] ELSE 0) + 0
    BY <1>10, <1>11, <1>12
  <2>2. QED
    BY <1>8, <1>9, <2>1, ColumnsTyped, TotalMoves
<1>17. /\ budget'.allocated = SumFunction(Allocateds') /\ budget'.reserved = SumFunction(Reserveds')
       /\ budget'.committed = SumFunction(Committeds') /\ budget'.spent = SumFunction(Spents')
  <2>1. budget.reserved \in Int /\ budget.committed \in Int /\ budget.spent \in Int
    BY <1>4 DEF Budget
  <2>2. QED
    BY <1>4, <1>8, <1>13, <1>14, <1>15, <1>16, <2>1
<1>18. IsFiniteSet(DOMAIN allocations')
  BY <1>3, <1>8, FS_AddElement
<1>19. QED
  BY <1>7, <1>17, <1>18 DEF Balanced

LEMMA BalancedOfNothing ==
    ASSUME DOMAIN allocations = {},
           budget = NoBudget \/ /\ budget.allocated = 0 /\ budget.reserved = 0
                                /\ budget.committed = 0 /\ budget.spent = 0
    PROVE  Balanced
<1>1. ASSUME NEW f, DOMAIN f = {}
      PROVE  SumFunction(f) = 0
  <2>1. IsFiniteSet(DOMAIN f) /\ IntOn(f, DOMAIN f)
    BY <1>1, FS_EmptySet DEF IntOn
  <2>2. QED
    BY <1>1, <2>1, SumStep DEF SumFunction
<1>2. /\ DOMAIN Allocateds = {} /\ DOMAIN Reserveds = {} /\ DOMAIN Committeds = {}
      /\ DOMAIN Spents = {}
  BY DEF Allocateds, Reserveds, Committeds, Spents
<1>3. /\ SumFunction(Allocateds) = 0 /\ SumFunction(Reserveds) = 0
      /\ SumFunction(Committeds) = 0 /\ SumFunction(Spents) = 0
  BY <1>1, <1>2
<1>4. QED
  BY <1>3, FS_EmptySet DEF Balanced

\* A budget with nothing allocated.
Nothing ==
    /\ DOMAIN allocations = {}
    /\ budget = NoBudget \/ /\ budget.allocated = 0 /\ budget.reserved = 0
                            /\ budget.committed = 0 /\ budget.spent = 0

LEMMA NothingIsBalanced == Nothing => Balanced
  BY BalancedOfNothing DEF Nothing

LEMMA BalancedNext ==
    ASSUME FinanceTypeOK, Balanced, Nothing' => Balanced', [FinanceNext]_financeVars
    PROVE  Balanced'
<1>1. CASE UNCHANGED books
  BY <1>1 DEF books, Balanced, ReservedFor, CommittedFor, SpentBy, Active, Unspent,
              Allocateds, Reserveds, Committeds, Spents
<1>2. ASSUME NEW currency \in Currencies, NEW amount \in Amounts,
             \/ CreateObjectiveBudget(currency, amount)
             \/ CreateOverUnreadable(currency, amount)
      PROVE  Nothing'
  BY <1>2 DEF CreateObjectiveBudget, CreateOverUnreadable, NewBudget, EmptyBooks, Nothing
<1>3. ASSUME NEW c \in Calls,
             PaymentFails(c) \/ PaymentUnpriced(c) \/ PaymentUnrecorded(c)
      PROVE  UNCHANGED books
  BY <1>3 DEF PaymentFails, PaymentUnpriced, PaymentUnrecorded
<1>4. ASSUME NEW c \in Calls, NEW m \in Missions, NEW amount \in Amounts,
             NEW currency \in Currencies \cup {NoCurrency},
             PaymentStarts(c, m, amount, currency)
      PROVE  UNCHANGED books
  BY <1>4 DEF PaymentStarts
<1>5. CASE UNCHANGED financeVars
  BY <1>1, <1>5 DEF financeVars
<1>6. QED
  BY <1>1, <1>2, <1>3, <1>4, <1>5, BalancedAfterAllocate, BalancedAfterReserve,
     BalancedAfterRelease, BalancedAfterConvert, BalancedAfterSpend, BalancedAfterBooking
     DEF FinanceNext

\* The balances that four operations and the executor move separately are always the
\* sums of what is reserved, committed and spent, and the objective's are the sums over
\* its missions, whatever is called and whichever save fails.
THEOREM BooksAlwaysBalance == FinanceSpec => []BooksBalance
<1>1. FinanceInit => Nothing
  BY DEF FinanceInit, Nothing
<1>2. FinanceInit => Balanced
  BY <1>1, NothingIsBalanced
<1>3. FinanceTypeOK /\ Balanced /\ (Nothing' => Balanced') /\ [FinanceNext]_financeVars => Balanced'
  BY BalancedNext
<1>4. QED
  BY <1>2, <1>3, NothingIsBalanced, BalancedBooks, FinanceTypeHolds, PTL DEF FinanceSpec
==============================================================================
