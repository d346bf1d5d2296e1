SPECIFICATION FinanceSpec
CONSTANTS
    Missions = {m1, m2}
    Calls = {c1}
    Currencies = {"USD"}
    NoCurrency = NoCurrency
    NoBudget = NoBudget
    NoCall = NoCall
    Amounts <- SmallAmounts
    CentParts = 2
    MaxEntries = 7
    MaxPayments = 1
    MaxFaults = 1
SYMMETRY Interchangeable
INVARIANTS
    BooksBalance
    AuditTrail
    PaymentsBooked
PROPERTIES
    KeepsBudgetPromise
CHECK_DEADLOCK FALSE
