----------------------------- MODULE TokenLedger -----------------------------
(***************************************************************************)
(* What the program promises about tokens, with nothing of how: currencies *)
(* are issued to holders, redeemed, and moved from one holder to another   *)
(* of the same currency, less a fee that the currency owes and pays out    *)
(* later.  A holder takes a currency once and keeps it.  Closing a mint,   *)
(* creating another one at its address, reallocating accounts, passing SOL *)
(* around and calling hooks are none of a ledger's business.               *)
(***************************************************************************)
EXTENDS Integers

CONSTANTS
    Holders, Currencies,
    Nowhere,     \* the currency of a holder that has taken none
    MaxAmount    \* the largest amount

VARIABLES
    home,      \* the currency of each holder
    balance,   \* what each holder holds
    owed,      \* fees of each currency that are not paid out yet
    issued     \* what was issued of each currency and not redeemed

ledgerVars == <<home, balance, owed, issued>>

Init ==
    /\ home    = [a \in Holders |-> Nowhere]
    /\ balance = [a \in Holders |-> 0]
    /\ owed    = [c \in Currencies |-> 0]
    /\ issued  = [c \in Currencies |-> 0]

TakeCurrency(a, c) ==
    /\ home[a] = Nowhere /\ balance[a] = 0
    /\ home' = [home EXCEPT ![a] = c]
    /\ UNCHANGED <<balance, owed, issued>>

Issue(a, c, n) ==
    /\ home[a] = c
    /\ issued[c] + n <= MaxAmount
    /\ issued'  = [issued EXCEPT ![c] = @ + n]
    /\ balance' = [balance EXCEPT ![a] = @ + n]
    /\ UNCHANGED <<home, owed>>

Redeem(a, c, n) ==
    /\ home[a] = c
    /\ n <= balance[a] /\ n <= issued[c]
    /\ issued'  = [issued EXCEPT ![c] = @ - n]
    /\ balance' = [balance EXCEPT ![a] = @ - n]
    /\ UNCHANGED <<home, owed>>

Move(a, b, c, n, fee) ==
    /\ a # b /\ home[a] = c /\ home[b] = c
    /\ fee <= n /\ n <= balance[a]
    /\ balance' = [balance EXCEPT ![a] = @ - n, ![b] = @ + (n - fee)]
    /\ owed'    = [owed EXCEPT ![c] = @ + fee]
    /\ UNCHANGED <<home, issued>>

PayOut(a, c, n) ==
    /\ home[a] = c
    /\ n <= owed[c]
    /\ balance' = [balance EXCEPT ![a] = @ + n]
    /\ owed'    = [owed EXCEPT ![c] = @ - n]
    /\ UNCHANGED <<home, issued>>

Next ==
    \E a \in Holders, c \in Currencies :
        \/ TakeCurrency(a, c)
        \/ \E n \in 0 .. MaxAmount :
               \/ Issue(a, c, n)
               \/ Redeem(a, c, n)
               \/ PayOut(a, c, n)
               \/ \E b \in Holders, fee \in 0 .. MaxAmount : Move(a, b, c, n, fee)

Spec == Init /\ [][Next]_ledgerVars
=============================================================================
