---------------------------- MODULE BudgetPromise ----------------------------
(***************************************************************************)
(* What a budget promises each mission: money is allocated to it, set      *)
(* aside, given back or spent; what is set aside and spent together never  *)
(* exceeds what was allocated, and what is spent stays spent.  Only a lost *)
(* ledger, which begins again from nothing, ends the promise.              *)
(***************************************************************************)
EXTENDS Integers

CONSTANT Missions

VARIABLES funded, held, spent       \* money of each mission

purses == <<funded, held, spent>>

Empty == [m \in Missions |-> 0]

BudgetInit == funded = Empty /\ held = Empty /\ spent = Empty

\* Only mission m's entry of f changes.
OnlyFor(m, f, g) ==
    /\ DOMAIN g = Missions
    /\ \A n \in Missions \ {m} : g[n] = f[n]

Fund(m) ==
    /\ OnlyFor(m, funded, funded')
    /\ funded'[m] >= funded[m]
    /\ UNCHANGED <<held, spent>>

SetAside(m) ==
    /\ OnlyFor(m, held, held')
    /\ held'[m] > held[m]
    /\ held'[m] + spent[m] <= funded[m]
    /\ UNCHANGED <<funded, spent>>

GiveBack(m) ==
    /\ OnlyFor(m, held, held')
    /\ held'[m] \in 0 .. held[m]
    /\ UNCHANGED <<funded, spent>>

\* Money set aside is spent, in part or whole, or free money at once.
Spend(m) ==
    /\ OnlyFor(m, held, held') /\ OnlyFor(m, spent, spent')
    /\ held'[m] \in 0 .. held[m]
    /\ spent'[m] > spent[m]
    /\ \/ held'[m] + spent'[m] <= held[m] + spent[m]
       \/ held'[m] = held[m] /\ held[m] + spent'[m] <= funded[m]
    /\ UNCHANGED funded

BeginAgain == funded' = Empty /\ held' = Empty /\ spent' = Empty

BudgetNext ==
    \/ \E m \in Missions : Fund(m) \/ SetAside(m) \/ GiveBack(m) \/ Spend(m)
    \/ BeginAgain

BudgetSpec == BudgetInit /\ [][BudgetNext]_purses
==============================================================================
