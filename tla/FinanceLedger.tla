---------------------------- MODULE FinanceLedger ----------------------------
(***************************************************************************)
(* The budget of one objective, its allocations to missions, and the tool  *)
(* executor's calls of financial tools, which the budget gate lets through *)
(* and which are booked when they return.                                  *)
(*                                                                         *)
(* Every operation of the repository reads the file, changes it and        *)
(* replaces it atomically without an await, so it is one step; an          *)
(* operation that raises stores nothing and is no step.  The validators    *)
(* run on every read and derive the amount available and the status, which *)
(* are operators here.  An id is a position.  Stored money is in cents;    *)
(* callers pass amounts in fractions of a cent.                            *)
(***************************************************************************)
EXTENDS Integers, Sequences, Functions

CONSTANTS
    Missions,
    Calls,          \* concurrent calls of financial tools
    Currencies,
    NoCurrency, NoBudget, NoCall,
    Amounts,        \* amounts a caller may pass
    CentParts,      \* how many of an amount's units make a cent
    MaxEntries,     \* ledger entries
    MaxPayments,    \* payments made in a behaviour
    MaxFaults       \* failed reads and saves

ASSUME MoneyAssumption == Amounts \subseteq Nat /\ CentParts \in Nat \ {0}
ASSUME BoundsAssumption == MaxEntries \in Nat /\ MaxPayments \in Nat /\ MaxFaults \in Nat

Budget == [currency : Currencies, total : Nat, allocated : Nat,
           reserved : Nat, committed : Nat, spent : Nat]

Call == [mission : Missions, amount : Amounts, currency : Currencies \cup {NoCurrency}]

ASSUME NullAssumption ==
    /\ NoCurrency \notin Currencies
    /\ NoBudget \notin Budget /\ NoCall \notin Call

VARIABLES
    budget,         \* the ObjectiveBudget
    allocations,    \* a MissionBudgetAllocation per mission that has one
    reservations, commitments, spends,
    ledger,         \* the FinancialLedgerEntry list
    calls,          \* volatile: what each executing financial tool was asked
    payments,       \* history: what left the company since the ledger began
    faults

books == <<budget, allocations, reservations, commitments, spends, ledger>>
financeVars == <<books, calls, payments, faults>>

Allocation == [allocated : Nat, reserved : Nat, committed : Nat, spent : Nat]

Reservation == [mission : Missions, amount : Nat \ {0},
                status : {"ACTIVE", "RELEASED", "CONVERTED"}]

FinancialCommitment == [mission : Missions, amount : Nat \ {0},
                        status : {"COMMITTED", "SPENT"}, reservation : Nat]

ActualSpend == [commitment : Nat, amount : Nat \ {0}]

Payment == [mission : Missions, amount : Amounts, commitment : Nat]

EntryTypes ==
    {"BUDGET_CREATED", "MISSION_ALLOCATED", "RESERVATION_CREATED",
     "RESERVATION_RELEASED", "RESERVATION_CONVERTED", "COMMITMENT_CREATED",
     "SPEND_RECORDED"}

safe_money(amount) == amount \div CentParts

LedgerEntry == [type : EntryTypes, about : Nat \cup Missions, amount : Nat]

\* Mutant: what is committed is not counted as used.
UsedButCommitted(p) == p.reserved + p.spent

Used(p) == p.reserved + p.committed + p.spent

\* MissionBudgetAllocation.enforce_invariants
AllocationValid(p) ==
    /\ p.reserved >= 0 /\ p.committed >= 0 /\ p.spent >= 0
    /\ Used(p) <= p.allocated

Available(p) == p.allocated - Used(p)

\* ObjectiveBudget.enforce_invariants: what missions use counts against the
\* budget besides what they were allocated.
BudgetValid(b) ==
    /\ b.reserved >= 0 /\ b.committed >= 0 /\ b.spent >= 0
    /\ b.allocated <= b.total

Derived(b) == b.total - b.allocated - Used(b)

BudgetAvailable(b) == IF Derived(b) < 0 THEN 0 ELSE Derived(b)

BudgetStatus(b) ==
    CASE Derived(b) < 0                 -> "OVER_BUDGET"
      [] Derived(b) = 0 /\ b.total > 0  -> "EXHAUSTED"
      [] Derived(b) > 0                 -> "AVAILABLE"
      [] OTHER                          -> "UNSET"

Entry(type, about, amount) == [type |-> type, about |-> about, amount |-> amount]

Fits(n) == Len(ledger) + n <= MaxEntries

\* Both balances of a mission move by the same amounts; a validator that does
\* not accept the result raises.
Post(m, reserved, committed, spent) ==
    LET Moved(p) == [p EXCEPT !.reserved = @ + reserved,
                              !.committed = @ + committed, !.spent = @ + spent]
    IN  /\ budget' = Moved(budget) /\ BudgetValid(budget')
        /\ allocations' = [allocations EXCEPT ![m] = Moved(@)]
        /\ AllocationValid(allocations'[m])

Configured(m) == budget # NoBudget /\ m \in DOMAIN allocations

------------------------------------------------------------------------------
(* FinanceRepository                                                       *)

EmptyBooks ==
    /\ allocations' = [m \in {} |-> 0]
    /\ reservations' = <<>> /\ commitments' = <<>> /\ spends' = <<>>
    /\ payments' = <<>>

NewBudget(currency, total) ==
    /\ budget' = [currency |-> currency, total |-> total, allocated |-> 0,
                  reserved |-> 0, committed |-> 0, spent |-> 0]
    /\ ledger' = <<Entry("BUDGET_CREATED", 0, total)>>
    /\ EmptyBooks

CreateObjectiveBudget(currency, amount) ==
    /\ budget = NoBudget /\ Fits(1)
    /\ NewBudget(currency, safe_money(amount))
    /\ UNCHANGED <<calls, faults>>

\* _read_from_disk answers an empty state when the file cannot be read, and
\* the creation of this or another objective's budget replaces the file.
CreateOverUnreadable(currency, amount) ==
    /\ budget # NoBudget
    /\ faults < MaxFaults /\ faults' = faults + 1
    /\ \/ NewBudget(currency, safe_money(amount))
       \/ budget' = NoBudget /\ ledger' = <<>> /\ EmptyBooks
    /\ UNCHANGED calls

NewAllocation == [allocated |-> 0, reserved |-> 0, committed |-> 0, spent |-> 0]

\* Mutant: an allocation that exists is replaced.
FreshAllocation(m) == NewAllocation

AllocationOf(m) == IF m \in DOMAIN allocations THEN allocations[m] ELSE NewAllocation

AllocateToMission(m, amount) ==
    LET cents == safe_money(amount)
    IN  /\ budget # NoBudget /\ Fits(1)
        /\ cents <= BudgetAvailable(budget)
        /\ budget' = [budget EXCEPT !.allocated = @ + cents] /\ BudgetValid(budget')
        /\ allocations' = [n \in DOMAIN allocations \cup {m} |->
                             IF n = m THEN [AllocationOf(m) EXCEPT !.allocated = @ + cents]
                             ELSE allocations[n]]
        /\ ledger' = Append(ledger, Entry("MISSION_ALLOCATED", m, cents))
        /\ UNCHANGED <<reservations, commitments, spends, calls, payments, faults>>

Reserve(m, amount) ==
    LET cents == safe_money(amount)
    IN  /\ Configured(m) /\ Fits(1)
        /\ cents > 0 /\ cents <= Available(allocations[m])
        /\ Post(m, cents, 0, 0)
        /\ reservations' = Append(reservations,
                             [mission |-> m, amount |-> cents, status |-> "ACTIVE"])
        /\ ledger' = Append(ledger, Entry("RESERVATION_CREATED", Len(reservations'), cents))
        /\ UNCHANGED <<commitments, spends, calls, payments, faults>>

\* Mutant: the status is not looked at.
AnyReservation(r) == r \in DOMAIN reservations

Active(r) == r \in DOMAIN reservations /\ reservations[r].status = "ACTIVE"

ReleaseReservation(r) ==
    LET res == reservations[r]
    IN  /\ Active(r) /\ Fits(1)
        /\ Post(res.mission, -res.amount, 0, 0)
        /\ reservations' = [reservations EXCEPT ![r].status = "RELEASED"]
        /\ ledger' = Append(ledger, Entry("RESERVATION_RELEASED", r, res.amount))
        /\ UNCHANGED <<commitments, spends, calls, payments, faults>>

\* Mutant: the commitment does not name the reservation it was made of.
CommitmentUnlinked(m, amount, status, r) ==
    [mission |-> m, amount |-> amount, status |-> status, reservation |-> 0]

Commitment(m, amount, status, r) ==
    [mission |-> m, amount |-> amount, status |-> status, reservation |-> r]

ConvertReservationToCommitment(r) ==
    LET res == reservations[r]
    IN  /\ Active(r) /\ Fits(1)
        /\ Post(res.mission, -res.amount, res.amount, 0)
        /\ reservations' = [reservations EXCEPT ![r].status = "CONVERTED"]
        /\ commitments' = Append(commitments,
                            Commitment(res.mission, res.amount, "COMMITTED", r))
        /\ ledger' = Append(ledger, Entry("RESERVATION_CONVERTED", Len(commitments'), res.amount))
        /\ UNCHANGED <<spends, calls, payments, faults>>

Unspent(k) == k \in DOMAIN commitments /\ commitments[k].status # "SPENT"

RecordSpend(k, amount) ==
    LET com == commitments[k]
        cents == safe_money(amount)
    IN  /\ Unspent(k) /\ Fits(1)
        /\ cents > 0 /\ cents <= com.amount
        /\ Post(com.mission, 0, -com.amount, cents)
        /\ commitments' = [commitments EXCEPT ![k].status = "SPENT"]
        /\ spends' = Append(spends, [commitment |-> k, amount |-> cents])
        /\ ledger' = Append(ledger, Entry("SPEND_RECORDED", Len(spends'), cents))
        /\ UNCHANGED <<reservations, calls, payments, faults>>

------------------------------------------------------------------------------
(* Financial tools                                                         *)

\* AuthorizationGate's budget check.  An amount of 0 is one that was not given.
BudgetAuthorizes(m, amount, currency) ==
    /\ Configured(m)
    /\ BudgetStatus(budget) \notin {"EXHAUSTED", "OVER_BUDGET"}
    /\ currency \in {NoCurrency, budget.currency}
    /\ safe_money(amount) <= Available(allocations[m])

\* A financial tool that requires an approval, as both in the tests do: the gate
\* looks at the mission of the approval, the booking at the one the tool is given.
PaymentStarts(c, m, amount, currency) ==
    /\ calls[c] = NoCall /\ Len(payments) < MaxPayments
    /\ \E approved \in Missions : BudgetAuthorizes(approved, amount, currency)
    /\ calls' = [calls EXCEPT ![c] = [mission |-> m, amount |-> amount,
                                      currency |-> currency]]
    /\ UNCHANGED <<books, payments, faults>>

\* The call c is over; it paid, and the commitment k, or 0, stands for it.
Paid(c, k) ==
    /\ Len(payments) < MaxPayments
    /\ payments' = Append(payments, [mission |-> calls[c].mission,
                                     amount |-> calls[c].amount, commitment |-> k])
    /\ calls' = [calls EXCEPT ![c] = NoCall]

\* The tool raised or timed out, or the process stopped: the payment may have
\* been made all the same.
PaymentFails(c) ==
    /\ calls[c] # NoCall
    /\ UNCHANGED <<books, faults>>
    /\ \/ Paid(c, 0)
       \/ calls' = [calls EXCEPT ![c] = NoCall] /\ UNCHANGED payments

\* record_direct_commitment, which takes a missing currency for GHS.
Committable(call) ==
    /\ Configured(call.mission)
    /\ budget.currency = IF call.currency = NoCurrency THEN "GHS" ELSE call.currency
    /\ safe_money(call.amount) > 0
    /\ safe_money(call.amount) <= Available(allocations[call.mission])

\* A tool whose parameters give no amount is not booked.
PaymentUnpriced(c) ==
    /\ calls[c] # NoCall
    /\ calls[c].amount = 0
    /\ Paid(c, 0)
    /\ UNCHANGED <<books, faults>>

PaymentRecorded(c) ==
    LET cents == safe_money(calls[c].amount)
        m == calls[c].mission
    IN  /\ calls[c] # NoCall /\ calls[c].amount > 0 /\ Committable(calls[c])
        /\ Fits(2)
        /\ Post(m, 0, 0, cents)
        /\ commitments' = Append(commitments, Commitment(m, cents, "SPENT", 0))
        /\ spends' = Append(spends, [commitment |-> Len(commitments'), amount |-> cents])
        /\ ledger' = ledger \o <<Entry("COMMITMENT_CREATED", Len(commitments'), cents),
                                 Entry("SPEND_RECORDED", Len(spends'), cents)>>
        /\ Paid(c, Len(commitments'))
        /\ UNCHANGED <<reservations, faults>>

\* The save of the spend fails after that of the commitment.
PaymentHalfRecorded(c) ==
    LET cents == safe_money(calls[c].amount)
        m == calls[c].mission
    IN  /\ calls[c] # NoCall /\ calls[c].amount > 0 /\ Committable(calls[c])
        /\ Fits(1)
        /\ faults < MaxFaults /\ faults' = faults + 1
        /\ Post(m, 0, cents, 0)
        /\ commitments' = Append(commitments, Commitment(m, cents, "COMMITTED", 0))
        /\ ledger' = Append(ledger, Entry("COMMITMENT_CREATED", Len(commitments'), cents))
        /\ Paid(c, Len(commitments'))
        /\ UNCHANGED <<reservations, spends>>

\* The commitment is refused, or cannot be read or saved.
PaymentUnrecorded(c) ==
    /\ calls[c] # NoCall /\ calls[c].amount > 0
    /\ \/ ~ Committable(calls[c]) /\ UNCHANGED faults
       \/ faults < MaxFaults /\ faults' = faults + 1
    /\ Paid(c, 0)
    /\ UNCHANGED books

------------------------------------------------------------------------------
FinanceInit ==
    /\ budget = NoBudget
    /\ allocations = [m \in {} |-> 0]
    /\ reservations = <<>> /\ commitments = <<>> /\ spends = <<>> /\ ledger = <<>>
    /\ calls = [c \in Calls |-> NoCall]
    /\ payments = <<>>
    /\ faults = 0

FinanceNext ==
    \/ \E currency \in Currencies, amount \in Amounts :
          CreateObjectiveBudget(currency, amount) \/ CreateOverUnreadable(currency, amount)
    \/ \E m \in Missions, amount \in Amounts :
          AllocateToMission(m, amount) \/ Reserve(m, amount)
    \/ \E r \in DOMAIN reservations :
          ReleaseReservation(r) \/ ConvertReservationToCommitment(r)
    \/ \E k \in DOMAIN commitments, amount \in Amounts : RecordSpend(k, amount)
    \/ \E c \in Calls, m \in Missions, amount \in Amounts,
          currency \in Currencies \cup {NoCurrency} : PaymentStarts(c, m, amount, currency)
    \/ \E c \in Calls :
          \/ PaymentFails(c) \/ PaymentUnpriced(c) \/ PaymentRecorded(c)
          \/ PaymentHalfRecorded(c) \/ PaymentUnrecorded(c)

FinanceSpec == FinanceInit /\ [][FinanceNext]_financeVars

------------------------------------------------------------------------------
(* Properties                                                              *)

StoredTypes ==
    /\ budget \in Budget \cup {NoBudget}
    /\ allocations \in [DOMAIN allocations -> Allocation]
    /\ reservations \in Seq(Reservation)
    /\ commitments \in Seq(FinancialCommitment)
    /\ spends \in Seq(ActualSpend)
    /\ ledger \in Seq(LedgerEntry)
    /\ faults \in 0 .. MaxFaults
    /\ calls \in [Calls -> Call \cup {NoCall}]
    /\ payments \in Seq(Payment)

\* Nothing refers to what is not stored.
Referenced ==
    /\ DOMAIN allocations \subseteq IF budget = NoBudget THEN {} ELSE Missions
    /\ \A r \in DOMAIN reservations : reservations[r].mission \in DOMAIN allocations
    /\ \A k \in DOMAIN commitments :
          /\ commitments[k].mission \in DOMAIN allocations
          /\ commitments[k].reservation \in DOMAIN reservations \cup {0}
    /\ \A s \in DOMAIN spends : spends[s].commitment \in DOMAIN commitments
    /\ \A i \in DOMAIN payments :
          payments[i].commitment \in DOMAIN commitments \cup {0}

\* No allocation is overdrawn and no more is allocated than there is.
Solvent ==
    /\ budget # NoBudget => budget.allocated <= budget.total
    /\ \A m \in DOMAIN allocations :
          LET p == allocations[m] IN p.reserved + p.committed + p.spent <= p.allocated

\* The stored values have the shapes of the schemas, refer to each other, and
\* respect the limits that the validators of both budgets state.
FinanceTypeOK == StoredTypes /\ Referenced /\ Solvent

AmountsOf(list) == [i \in DOMAIN list |-> list[i].amount]

ReservedFor(m) ==
    SumFunctionOnSet(AmountsOf(reservations),
        {r \in DOMAIN reservations : reservations[r].mission = m /\ Active(r)})

CommittedFor(m) ==
    SumFunctionOnSet(AmountsOf(commitments),
        {k \in DOMAIN commitments : commitments[k].mission = m /\ Unspent(k)})

SpentBy(m) ==
    SumFunctionOnSet(AmountsOf(spends),
        {s \in DOMAIN spends : commitments[spends[s].commitment].mission = m})

\* Conservation: the balances that four operations of the repository and the
\* tool executor move separately are the sums of the reservations that are
\* active, the commitments not yet spent and the spends, and the objective's
\* balances are the sums over its missions, whatever was released, converted,
\* partly spent or left half recorded by a failed save.
BooksBalance ==
    /\ \A m \in DOMAIN allocations :
          /\ allocations[m].reserved = ReservedFor(m)
          /\ allocations[m].committed = CommittedFor(m)
          /\ allocations[m].spent = SpentBy(m)
    /\ budget # NoBudget =>
          \A field \in {"allocated", "reserved", "committed", "spent"} :
             budget[field] = SumFunction([m \in DOMAIN allocations |-> allocations[m][field]])

ConvertedOnce ==
    /\ \A k \in DOMAIN commitments : commitments[k].reservation # 0 =>
          LET res == reservations[commitments[k].reservation]
          IN  /\ res.status = "CONVERTED"
              /\ res.mission = commitments[k].mission
              /\ res.amount = commitments[k].amount
    /\ \A k, l \in DOMAIN commitments :
          commitments[k].reservation = commitments[l].reservation
             => k = l \/ commitments[k].reservation = 0
    /\ \A r \in DOMAIN reservations : reservations[r].status = "CONVERTED" =>
          \E k \in DOMAIN commitments : commitments[k].reservation = r

SpentOnce ==
    /\ \A s \in DOMAIN spends :
          LET com == commitments[spends[s].commitment]
          IN  com.status = "SPENT" /\ spends[s].amount <= com.amount
    /\ \A s, t \in DOMAIN spends : spends[s].commitment = spends[t].commitment => s = t
    /\ \A k \in DOMAIN commitments : commitments[k].status = "SPENT" =>
          \E s \in DOMAIN spends : spends[s].commitment = k

\* Money is released, converted or spent once: a reservation is CONVERTED
\* exactly if one commitment was made of it, with its mission and amount, and
\* a commitment is SPENT exactly if one spend was recorded of it, within its
\* amount.
EndsOnce == ConvertedOnce /\ SpentOnce

\* Every payment that the executor booked has a direct commitment of its own
\* with its mission and amount, and no direct commitment stands without a
\* payment, although a failed save may leave one that is not spent.
PaymentsBooked ==
    /\ \A i \in DOMAIN payments :
          LET k == payments[i].commitment
          IN  k # 0 => /\ commitments[k].reservation = 0
                       /\ commitments[k].mission = payments[i].mission
                       /\ commitments[k].amount = safe_money(payments[i].amount)
    /\ \A i, j \in DOMAIN payments :
          payments[i].commitment = payments[j].commitment
             => i = j \/ payments[i].commitment = 0
    /\ \A k \in DOMAIN commitments : commitments[k].reservation = 0 =>
          \E i \in DOMAIN payments : payments[i].commitment = k

Entries(type) == {i \in DOMAIN ledger : ledger[i].type = type}

\* The entries of a type speak of each member of things once, with its amount.
SpeaksOf(type, things, amount(_)) ==
    /\ \A i, j \in Entries(type) : ledger[i].about = ledger[j].about => i = j
    /\ {ledger[i].about : i \in Entries(type)} = things
    /\ \A i \in Entries(type) : ledger[i].amount = amount(ledger[i].about)

\* The ledger alone tells what became of everything: each reservation has its
\* entry, each ended one an entry for its end, which comes later, and so have
\* commitments and spends.
AuditTrail ==
    LET reserved(r) == reservations[r].amount
        committed(k) == commitments[k].amount
        spent(s) == spends[s].amount
        direct == {k \in DOMAIN commitments : commitments[k].reservation = 0}
    IN  /\ SpeaksOf("RESERVATION_CREATED", DOMAIN reservations, reserved)
        /\ SpeaksOf("RESERVATION_RELEASED",
              {r \in DOMAIN reservations : reservations[r].status = "RELEASED"}, reserved)
        /\ SpeaksOf("RESERVATION_CONVERTED", DOMAIN commitments \ direct, committed)
        /\ SpeaksOf("COMMITMENT_CREATED", direct, committed)
        /\ SpeaksOf("SPEND_RECORDED", DOMAIN spends, spent)
        /\ \A i \in Entries("RESERVATION_CREATED"), j \in Entries("RESERVATION_RELEASED") :
              ledger[i].about = ledger[j].about => i < j

\* The missions' money as the promise sees it.
Funded == [m \in Missions |-> AllocationOf(m).allocated]
Held == [m \in Missions |-> AllocationOf(m).reserved + AllocationOf(m).committed]
Spent == [m \in Missions |-> AllocationOf(m).spent]

Promise == INSTANCE BudgetPromise WITH funded <- Funded, held <- Held, spent <- Spent

\* The repository and the executor implement the promise: money of a mission
\* is set aside before it is spent, within what was allocated, and what is
\* spent stays spent, until an unreadable file is replaced.
KeepsBudgetPromise == Promise!BudgetSpec
==============================================================================
