----------------------------- MODULE SafetyProofs -----------------------------
(***************************************************************************)
(* The inductive invariant of the token ledger and what follows from it,   *)
(* for every value of the constants.  First, each movement of tokens keeps *)
(* the supply of a mint what its accounts and its fee pool hold.  Then: a  *)
(* step of the system is of one of two kinds: it leaves the ledger alone   *)
(* and opens or changes one account (Quiet), or it moves tokens of one     *)
(* live mint and leaves mints and accounts alone (Moves).                  *)
(***************************************************************************)
EXTENDS TypeProofs

-----------------------------------------------------------------------------
(* Sums over the accounts of a mint.                                       *)

\* The total of a function over token accounts is a natural number.
LEMMA TotalNat ==
    ASSUME NEW f, NEW S \in SUBSET Accounts
    PROVE  Total(f, S) \in Nat
<1>1. IsFiniteSet(S)  BY AccountsFinite, FS_Subset
<1>2. QED  BY <1>1, SumNat, BoundsAreNatural DEF Total

\* The total over a set depends on its members only.
LEMMA TotalSame ==
    ASSUME NEW f, NEW g, NEW S, \A s \in S : f[s] = g[s]
    PROVE  Total(f, S) = Total(g, S)
BY SumEqual DEF Total

\* Writing one account changes the total of a set that it is in.
LEMMA TotalUpdate ==
    ASSUME NEW f \in [Accounts -> U64], NEW g \in [Accounts -> U64],
           NEW S \in SUBSET Accounts, NEW x \in S,
           \A a \in Accounts \ {x} : g[a] = f[a]
    PROVE  Total(g, S) = Total(f, S) - f[x] + g[x]
<1>1. IsFiniteSet(S)  BY AccountsFinite, FS_Subset
<1>2. f[x] \in 0 .. MaxU64 /\ g[x] \in 0 .. MaxU64  BY DEF U64
<1>3. \A s \in S \ {x} : f[s] = g[s]  OBVIOUS
<1>4. QED  BY <1>1, <1>2, <1>3, SumUpdate, BoundsAreNatural DEF Total

\* Emptying accounts takes their fees away from the sets that hold them.
LEMMA TotalEmptied ==
    ASSUME LedgerTypeOK, NEW S \in SUBSET Accounts, NEW T \in SUBSET Accounts
    PROVE  /\ T \subseteq S =>
                Total(Emptied(T), S) = Total(withheld, S) - Total(withheld, T)
           /\ T \cap S = {} => Total(Emptied(T), S) = Total(withheld, S)
<1> DEFINE g == Emptied(T)
<1>1. \A a \in Accounts : g[a] = IF a \in T THEN 0 ELSE withheld[a]
  BY DEF Emptied
<1> HIDE DEF g
<1>2. IsFiniteSet(S)  BY AccountsFinite, FS_Subset
<1>3. ASSUME T \subseteq S
      PROVE  Total(g, S) = Total(withheld, S) - Total(withheld, T)
  <2>1. \A s \in T : g[s] = 0  BY <1>1
  <2>2. \A s \in S \ T : g[s] = withheld[s]  BY <1>1
  <2>3. T \in SUBSET S /\ MaxU64 \in Nat  BY <1>3, BoundsAreNatural
  <2>4. Sum(g, S, MaxU64) = Sum(withheld, S, MaxU64) - Sum(withheld, T, MaxU64)
    BY ONLY <1>2, <2>1, <2>2, <2>3, SumCleared
  <2>5. QED  BY <2>4 DEF Total
<1>4. ASSUME T \cap S = {}
      PROVE  Total(g, S) = Total(withheld, S)
  <2>1. \A s \in S : g[s] = withheld[s]  BY <1>1, <1>4
  <2>2. QED  BY <2>1, SumEqual DEF Total
<1>5. QED  BY <1>3, <1>4 DEF g

\* The accounts of a mint are token accounts, and an account has one mint.
LEMMA AccountsOfFacts ==
    /\ \A m : AccountsOf(m) \in SUBSET Accounts
    /\ \A m : \A a \in Accounts : Open(a) => (a \in AccountsOf(m) <=> account[a].mint = m)
BY DEF AccountsOf

\* When the totals of the other mints stay as they are, Conserved needs a proof
\* for m alone.
LEMMA OthersConserved ==
    ASSUME Conserved, NEW m \in Mints, UNCHANGED account,
           \A q \in Mints \ {m} :
               /\ supply'[q] = supply[q] /\ feePool'[q] = feePool[q]
               /\ Total(amount', AccountsOf(q)) = Total(amount, AccountsOf(q))
               /\ Total(withheld', AccountsOf(q)) = Total(withheld, AccountsOf(q)),
           supply'[m] = Total(amount', AccountsOf(m))
                          + Total(withheld', AccountsOf(m)) + feePool'[m]
    PROVE  Conserved'
<1>1. \A q \in Mints : AccountsOf(q)' = AccountsOf(q)
  BY DEF AccountsOf, Open
<1>2. SUFFICES ASSUME NEW q \in Mints
               PROVE  supply'[q] = Total(amount', AccountsOf(q))
                        + Total(withheld', AccountsOf(q)) + feePool'[q]
  BY <1>1 DEF Conserved, WithheldOf, Total
<1>3. QED  BY DEF Conserved, WithheldOf

-----------------------------------------------------------------------------
(* Each movement of tokens conserves them.                                 *)

\* A transfer takes from one account what it adds to the other, as amount or as
\* withheld fee.
LEMMA TransferConserves ==
    ASSUME LedgerTypeOK, Conserved, UNCHANGED account,
           NEW m \in Mints, mint[m] \in MintState,
           NEW from \in Accounts, NEW to \in Accounts, NEW w, NEW n \in U64,
           NEW memo, NEW hooked, TransferChecked(m, from, to, w, n, memo, hooked)
    PROVE  Conserved'
<1> DEFINE fee == Fee(mint[m], n)
<1>1. fee \in Nat /\ LedgerTypeOK'  BY FeeNat, TransferType
<1>2. /\ supply' = supply /\ feePool' = feePool
      /\ Open(from) /\ Open(to) /\ account[from].mint = m /\ account[to].mint = m
  BY DEF TransferChecked, TransferAllowed
<1>3. /\ AccountsOf(m) \in SUBSET Accounts
      /\ from \in AccountsOf(m) /\ to \in AccountsOf(m)
      /\ \A q : q # m => from \notin AccountsOf(q) /\ to \notin AccountsOf(q)
      /\ \A q : AccountsOf(q) \subseteq Accounts
  BY <1>2, AccountsOfFacts
<1>6. CASE from = to /\ UNCHANGED <<amount, withheld>>
  <2>1. \A q \in Mints : AccountsOf(q)' = AccountsOf(q)
    BY DEF AccountsOf, Open
  <2>2. QED  BY <1>2, <1>6, <2>1 DEF Conserved, WithheldOf, Total
<1>7. CASE /\ from # to /\ fee <= n
           /\ amount' = [amount EXCEPT ![from] = @ - n, ![to] = @ + (n - fee)]
           /\ withheld' = [withheld EXCEPT ![to] = @ + fee]
  <2> DEFINE mid == [amount EXCEPT ![from] = @ - n]
             S   == AccountsOf(m)
  <2>1. /\ amount \in [Accounts -> U64] /\ withheld \in [Accounts -> U64]
        /\ amount' \in [Accounts -> U64] /\ withheld' \in [Accounts -> U64]
    BY <1>1 DEF LedgerTypeOK
  <2>2. /\ amount'[from] = amount[from] - n
        /\ amount'[to] = amount[to] + (n - fee)
        /\ withheld'[to] = withheld[to] + fee
        /\ \A a \in Accounts \ {from, to} : amount'[a] = amount[a]
        /\ \A a \in Accounts \ {to} : withheld'[a] = withheld[a]
    BY <1>7, <2>1
  <2>3. amount[from] - n \in U64  BY <2>1, <2>2
  <2>4. /\ mid \in [Accounts -> U64] /\ mid[to] = amount[to]
        /\ mid[from] = amount[from] - n
        /\ \A a \in Accounts \ {from} : mid[a] = amount[a]
        /\ \A a \in Accounts \ {to} : amount'[a] = mid[a]
    BY <1>7, <2>1, <2>2, <2>3
  <2> HIDE DEF mid, fee, S
  <2>5. Total(mid, S) = Total(amount, S) - amount[from] + mid[from]
    BY <1>3, <2>1, <2>4, TotalUpdate DEF S
  <2>6. Total(amount', S) = Total(mid, S) - mid[to] + amount'[to]
    BY <1>3, <2>1, <2>4, TotalUpdate DEF S
  <2>7. Total(withheld', S) = Total(withheld, S) - withheld[to] + withheld'[to]
    BY <1>3, <2>1, <2>2, TotalUpdate DEF S
  <2>8. Total(amount, S) \in Nat /\ Total(withheld, S) \in Nat
    BY <1>3, TotalNat DEF S
  <2>9. n \in Nat /\ amount[from] \in Nat /\ amount[to] \in Nat
          /\ withheld[to] \in Nat
    BY <2>1, U64Facts
  <2>10. Total(amount', S) = Total(amount, S) - fee
    BY <1>1, <2>2, <2>4, <2>5, <2>6, <2>8, <2>9
  <2>11. Total(withheld', S) = Total(withheld, S) + fee
    BY <1>1, <2>2, <2>7, <2>8, <2>9
  <2>12. supply[m] = Total(amount, S) + Total(withheld, S) + feePool[m]
    BY DEF Conserved, WithheldOf, S
  <2>13. feePool[m] \in Nat  BY U64Facts DEF LedgerTypeOK
  <2>14. supply'[m] = Total(amount', S) + Total(withheld', S) + feePool'[m]
    BY <1>1, <1>2, <2>8, <2>10, <2>11, <2>12, <2>13
  <2>15. ASSUME NEW q \in Mints \ {m}
         PROVE  /\ Total(amount', AccountsOf(q)) = Total(amount, AccountsOf(q))
                /\ Total(withheld', AccountsOf(q)) = Total(withheld, AccountsOf(q))
    <3>1. \A s \in AccountsOf(q) : s \in Accounts \ {from, to}  BY <1>3
    <3>2. QED  BY <2>2, <3>1, TotalSame
  <2>16. QED  BY <1>2, <2>14, <2>15, OthersConserved DEF S
<1>8. QED  BY <1>6, <1>7 DEF TransferChecked

\* An open account counts in the totals of its own mint, and of no other.
LEMMA OwnAccounts ==
    ASSUME NEW m \in Mints, NEW a \in Accounts, Open(a), account[a].mint = m
    PROVE  /\ AccountsOf(m) \in SUBSET Accounts /\ a \in AccountsOf(m)
           /\ \A q : AccountsOf(q) \subseteq Accounts
           /\ \A q : q # m => a \notin AccountsOf(q)
           /\ Total(amount, AccountsOf(m)) \in Nat
           /\ Total(withheld, AccountsOf(m)) \in Nat
<1>1. AccountsOf(m) \in SUBSET Accounts  BY AccountsOfFacts
<1>2. QED  BY <1>1, AccountsOfFacts, TotalNat

\* Minting raises the supply and one account by the same amount.
LEMMA MintTokensConserves ==
    ASSUME LedgerTypeOK, Conserved, UNCHANGED account,
           NEW m \in Mints, NEW to \in Accounts, Open(to), NEW n \in U64,
           MintTokens(m, to, n)
    PROVE  Conserved'
<1> DEFINE S == AccountsOf(m)
<1>1. /\ account[to].mint = m
      /\ amount' = [amount EXCEPT ![to] = @ + n]
      /\ supply' = [supply EXCEPT ![m] = @ + n]
      /\ withheld' = withheld /\ feePool' = feePool
  BY DEF MintTokens
<1>2. /\ S \in SUBSET Accounts /\ to \in S
      /\ \A q : AccountsOf(q) \subseteq Accounts
      /\ \A q : q # m => to \notin AccountsOf(q)
      /\ Total(amount, S) \in Nat /\ Total(withheld, S) \in Nat
  BY <1>1, OwnAccounts
<1>3. /\ amount \in [Accounts -> U64] /\ amount' \in [Accounts -> U64]
      /\ supply \in [Mints -> U64] /\ feePool \in [Mints -> U64]
  BY MintTokensType DEF LedgerTypeOK
<1>4. /\ amount'[to] = amount[to] + n /\ supply'[m] = supply[m] + n
      /\ \A a \in Accounts \ {to} : amount'[a] = amount[a]
      /\ \A q \in Mints \ {m} : supply'[q] = supply[q]
  BY <1>1, <1>3
<1>5. amount[to] \in Nat /\ n \in Nat /\ feePool[m] \in Nat
  BY <1>3, U64Facts
<1>6. supply[m] = Total(amount, S) + Total(withheld, S) + feePool[m]
  BY DEF Conserved, WithheldOf
<1> HIDE DEF S
<1>7. Total(amount', S) = Total(amount, S) - amount[to] + amount'[to]
  BY <1>2, <1>3, <1>4, TotalUpdate
<1>8. supply'[m] = Total(amount', S) + Total(withheld', S) + feePool'[m]
  BY <1>1, <1>2, <1>4, <1>5, <1>6, <1>7
<1>9. ASSUME NEW q \in Mints \ {m}
      PROVE  Total(amount', AccountsOf(q)) = Total(amount, AccountsOf(q))
  <2>1. \A s \in AccountsOf(q) : s \in Accounts \ {to}  BY <1>2
  <2>2. QED  BY <1>4, <2>1, TotalSame
<1>10. QED  BY <1>1, <1>4, <1>8, <1>9, OthersConserved DEF S

\* Burning lowers the supply and one account by the same amount.
LEMMA BurnTokensConserves ==
    ASSUME LedgerTypeOK, Conserved, UNCHANGED account,
           NEW m \in Mints, NEW from \in Accounts, Open(from), NEW w,
           NEW n \in U64, BurnTokens(m, from, w, n)
    PROVE  Conserved'
<1> DEFINE S == AccountsOf(m)
<1>1. /\ account[from].mint = m
      /\ amount' = [amount EXCEPT ![from] = @ - n]
      /\ supply' = [supply EXCEPT ![m] = @ - n]
      /\ withheld' = withheld /\ feePool' = feePool
  BY DEF BurnTokens
<1>2. /\ S \in SUBSET Accounts /\ from \in S
      /\ \A q : AccountsOf(q) \subseteq Accounts
      /\ \A q : q # m => from \notin AccountsOf(q)
      /\ Total(amount, S) \in Nat /\ Total(withheld, S) \in Nat
  BY <1>1, OwnAccounts
<1>3. /\ amount \in [Accounts -> U64] /\ amount' \in [Accounts -> U64]
      /\ supply \in [Mints -> U64] /\ feePool \in [Mints -> U64]
  BY BurnTokensType DEF LedgerTypeOK
<1>4. /\ amount'[from] = amount[from] - n /\ supply'[m] = supply[m] - n
      /\ \A a \in Accounts \ {from} : amount'[a] = amount[a]
      /\ \A q \in Mints \ {m} : supply'[q] = supply[q]
  BY <1>1, <1>3
<1>5. amount[from] \in Nat /\ n \in Nat /\ feePool[m] \in Nat
  BY <1>3, U64Facts
<1>6. supply[m] = Total(amount, S) + Total(withheld, S) + feePool[m]
  BY DEF Conserved, WithheldOf
<1> HIDE DEF S
<1>7. Total(amount', S) = Total(amount, S) - amount[from] + amount'[from]
  BY <1>2, <1>3, <1>4, TotalUpdate
<1>8. supply'[m] = Total(amount', S) + Total(withheld', S) + feePool'[m]
  BY <1>1, <1>2, <1>4, <1>5, <1>6, <1>7
<1>9. ASSUME NEW q \in Mints \ {m}
      PROVE  Total(amount', AccountsOf(q)) = Total(amount, AccountsOf(q))
  <2>1. \A s \in AccountsOf(q) : s \in Accounts \ {from}  BY <1>2
  <2>2. QED  BY <1>4, <2>1, TotalSame
<1>10. QED  BY <1>1, <1>4, <1>8, <1>9, OthersConserved DEF S

\* Gathering sources of m empties accounts of m only.
LEMMA HarvestableOwn ==
    ASSUME LedgerTypeOK, NEW m \in Mints, NEW sources \in SUBSET Accounts,
           \A s \in sources : Open(s)
    PROVE  LET from == Harvestable(m, sources) IN
           /\ from \in SUBSET AccountsOf(m)
           /\ Total(withheld, from) \in Nat
           /\ Total(Emptied(from), AccountsOf(m))
                = Total(withheld, AccountsOf(m)) - Total(withheld, from)
           /\ \A q \in Mints \ {m} :
                  Total(Emptied(from), AccountsOf(q)) = Total(withheld, AccountsOf(q))
<1> DEFINE from == Harvestable(m, sources)
<1>1. from \in SUBSET Accounts /\ \A s \in from : Open(s) /\ account[s].mint = m
  BY DEF Harvestable
<1> HIDE DEF from
<1>2. AccountsOf(m) \in SUBSET Accounts /\ from \in SUBSET AccountsOf(m)
  BY <1>1 DEF AccountsOf
<1>3. Total(Emptied(from), AccountsOf(m))
        = Total(withheld, AccountsOf(m)) - Total(withheld, from)
  BY <1>1, <1>2, TotalEmptied
<1>4. ASSUME NEW q \in Mints \ {m}
      PROVE  Total(Emptied(from), AccountsOf(q)) = Total(withheld, AccountsOf(q))
  <2>1. AccountsOf(q) \in SUBSET Accounts /\ from \cap AccountsOf(q) = {}
    BY <1>1 DEF AccountsOf
  <2>2. QED  BY <1>1, <2>1, TotalEmptied
<1>5. QED  BY <1>1, <1>2, <1>3, <1>4, TotalNat DEF from

\* Gathering fees into a token account moves what the sources withheld.
LEMMA CollectFeesConserves ==
    ASSUME LedgerTypeOK, Conserved, UNCHANGED account,
           NEW m \in Mints, NEW dest \in Accounts, Open(dest), NEW w,
           NEW sources \in SUBSET Accounts, \A s \in sources : Open(s),
           CollectFees(m, dest, w, sources)
    PROVE  Conserved'
<1> DEFINE S    == AccountsOf(m)
           from == Harvestable(m, sources)
           sum  == Total(withheld, from)
<1>1. /\ account[dest].mint = m
      /\ amount' = [amount EXCEPT ![dest] = @ + sum]
      /\ withheld' = Emptied(from)
      /\ supply' = supply /\ feePool' = feePool
  BY DEF CollectFees
<1>2. /\ S \in SUBSET Accounts /\ dest \in S
      /\ \A q : AccountsOf(q) \subseteq Accounts
      /\ \A q : q # m => dest \notin AccountsOf(q)
      /\ Total(amount, S) \in Nat /\ Total(withheld, S) \in Nat
  BY <1>1, OwnAccounts
<1>3. /\ sum \in Nat
      /\ Total(Emptied(from), S) = Total(withheld, S) - sum
      /\ \A q \in Mints \ {m} :
            Total(Emptied(from), AccountsOf(q)) = Total(withheld, AccountsOf(q))
  BY HarvestableOwn
<1>4. /\ amount \in [Accounts -> U64] /\ amount' \in [Accounts -> U64]
      /\ feePool \in [Mints -> U64]
  BY CollectFeesType DEF LedgerTypeOK
<1>5. supply[m] = Total(amount, S) + Total(withheld, S) + feePool[m]
  BY DEF Conserved, WithheldOf
<1> HIDE DEF S, from, sum
<1>6. /\ amount'[dest] = amount[dest] + sum
      /\ \A a \in Accounts \ {dest} : amount'[a] = amount[a]
  BY <1>1, <1>4
<1>7. amount[dest] \in Nat /\ feePool[m] \in Nat  BY <1>4, U64Facts
<1>8. Total(amount', S) = Total(amount, S) - amount[dest] + amount'[dest]
  BY <1>2, <1>4, <1>6, TotalUpdate
<1>9. supply'[m] = Total(amount', S) + Total(withheld', S) + feePool'[m]
  BY <1>1, <1>2, <1>3, <1>5, <1>6, <1>7, <1>8
<1>10. ASSUME NEW q \in Mints \ {m}
       PROVE  Total(amount', AccountsOf(q)) = Total(amount, AccountsOf(q))
  <2>1. \A s \in AccountsOf(q) : s \in Accounts \ {dest}  BY <1>2
  <2>2. QED  BY <1>6, <2>1, TotalSame
<1>11. QED  BY <1>1, <1>3, <1>9, <1>10, OthersConserved DEF S

\* Gathering fees into the mint's pool moves what the sources withheld.
LEMMA HarvestFeesConserves ==
    ASSUME LedgerTypeOK, Conserved, UNCHANGED account,
           NEW m \in Mints, NEW sources \in SUBSET Accounts,
           \A s \in sources : Open(s), HarvestFees(m, sources)
    PROVE  Conserved'
<1> DEFINE S    == AccountsOf(m)
           from == Harvestable(m, sources)
           sum  == Total(withheld, from)
<1>1. /\ feePool' = [feePool EXCEPT ![m] = @ + sum]
      /\ withheld' = Emptied(from)
      /\ supply' = supply /\ amount' = amount
  BY DEF HarvestFees
<1>2. Total(amount, S) \in Nat /\ Total(withheld, S) \in Nat
  BY AccountsOfFacts, TotalNat
<1>3. /\ sum \in Nat
      /\ Total(Emptied(from), S) = Total(withheld, S) - sum
      /\ \A q \in Mints \ {m} :
            Total(Emptied(from), AccountsOf(q)) = Total(withheld, AccountsOf(q))
  BY HarvestableOwn
<1>4. feePool \in [Mints -> U64]  BY DEF LedgerTypeOK
<1>5. supply[m] = Total(amount, S) + Total(withheld, S) + feePool[m]
  BY DEF Conserved, WithheldOf
<1> HIDE DEF S, from, sum
<1>6. /\ feePool'[m] = feePool[m] + sum
      /\ \A q \in Mints \ {m} : feePool'[q] = feePool[q]
  BY <1>1, <1>4
<1>7. feePool[m] \in Nat  BY <1>4, U64Facts
<1>8. supply'[m] = Total(amount', S) + Total(withheld', S) + feePool'[m]
  BY <1>1, <1>2, <1>3, <1>5, <1>6, <1>7
<1>9. QED  BY <1>1, <1>3, <1>6, <1>8, OthersConserved DEF S

\* Taking the fees out of the mint moves the pool to one account.
LEMMA CollectPoolConserves ==
    ASSUME LedgerTypeOK, Conserved, UNCHANGED account,
           NEW m \in Mints, NEW dest \in Accounts, Open(dest), NEW w,
           CollectPool(m, dest, w)
    PROVE  Conserved'
<1> DEFINE S == AccountsOf(m)
<1>1. /\ account[dest].mint = m
      /\ amount' = [amount EXCEPT ![dest] = @ + feePool[m]]
      /\ feePool' = [feePool EXCEPT ![m] = 0]
      /\ supply' = supply /\ withheld' = withheld
  BY DEF CollectPool
<1>2. /\ S \in SUBSET Accounts /\ dest \in S
      /\ \A q : AccountsOf(q) \subseteq Accounts
      /\ \A q : q # m => dest \notin AccountsOf(q)
      /\ Total(amount, S) \in Nat /\ Total(withheld, S) \in Nat
  BY <1>1, OwnAccounts
<1>3. /\ amount \in [Accounts -> U64] /\ amount' \in [Accounts -> U64]
      /\ feePool \in [Mints -> U64]
  BY CollectPoolType DEF LedgerTypeOK
<1>4. /\ amount'[dest] = amount[dest] + feePool[m] /\ feePool'[m] = 0
      /\ \A a \in Accounts \ {dest} : amount'[a] = amount[a]
      /\ \A q \in Mints \ {m} : feePool'[q] = feePool[q]
  BY <1>1, <1>3
<1>5. amount[dest] \in Nat /\ feePool[m] \in Nat  BY <1>3, U64Facts
<1>6. supply[m] = Total(amount, S) + Total(withheld, S) + feePool[m]
  BY DEF Conserved, WithheldOf
<1> HIDE DEF S
<1>7. Total(amount', S) = Total(amount, S) - amount[dest] + amount'[dest]
  BY <1>2, <1>3, <1>4, TotalUpdate
<1>8. supply'[m] = Total(amount', S) + Total(withheld', S) + feePool'[m]
  BY <1>1, <1>2, <1>4, <1>5, <1>6, <1>7
<1>9. ASSUME NEW q \in Mints \ {m}
      PROVE  Total(amount', AccountsOf(q)) = Total(amount, AccountsOf(q))
  <2>1. \A s \in AccountsOf(q) : s \in Accounts \ {dest}  BY <1>2
  <2>2. QED  BY <1>4, <2>1, TotalSame
<1>10. QED  BY <1>1, <1>4, <1>8, <1>9, OthersConserved DEF S

\* An account that opens brings no tokens along: the totals of a mint stay.
LEMMA OpenedTotals ==
    ASSUME UnopenedEmpty, NEW m \in Mints,
           \A a \in Accounts : Open(a) =>
               account'[a] # Absent /\ account'[a].mint = account[a].mint
    PROVE  /\ Total(amount, AccountsOf(m)') = Total(amount, AccountsOf(m))
           /\ Total(withheld, AccountsOf(m)') = Total(withheld, AccountsOf(m))
<1> DEFINE Old == AccountsOf(m)
           New == {a \in AccountsOf(m)' : ~Open(a)}
<1>1. /\ AccountsOf(m)' = Old \cup New /\ Old \cap New = {}
      /\ Old \in SUBSET Accounts /\ New \in SUBSET Accounts
      /\ \A a \in New : amount[a] = 0 /\ withheld[a] = 0
  BY DEF AccountsOf, Open, UnopenedEmpty
<1> HIDE DEF Old, New
<1>2. IsFiniteSet(Old) /\ IsFiniteSet(New)
  BY <1>1, AccountsFinite, FS_Subset
<1>3. Total(amount, New) = 0 /\ Total(withheld, New) = 0
  BY <1>1, SumZero, BoundsAreNatural DEF Total
<1>4. /\ Total(amount, Old \cup New) = Total(amount, Old) + Total(amount, New)
      /\ Total(withheld, Old \cup New) = Total(withheld, Old) + Total(withheld, New)
  BY <1>1, <1>2, SumSplit, BoundsAreNatural DEF Total
<1>5. Total(amount, Old) \in Nat /\ Total(withheld, Old) \in Nat
  BY <1>1, TotalNat
<1>6. QED  BY <1>1, <1>3, <1>4, <1>5 DEF Old

\* Opening accounts, or changing the flags of an open one, moves nothing.
LEMMA QuietConserves ==
    ASSUME Conserved, UnopenedEmpty, UNCHANGED ledger,
           \A a \in Accounts : Open(a) =>
               account'[a] # Absent /\ account'[a].mint = account[a].mint
    PROVE  Conserved' /\ UnopenedEmpty'
<1>1. /\ supply' = supply /\ feePool' = feePool
      /\ amount' = amount /\ withheld' = withheld
  BY DEF ledger
<1>2. UnopenedEmpty'  BY <1>1 DEF UnopenedEmpty, Open
<1>3. ASSUME NEW m \in Mints
      PROVE  supply[m] = Total(amount, AccountsOf(m)') + Total(withheld, AccountsOf(m)')
                           + feePool[m]
  BY OpenedTotals DEF Conserved, WithheldOf
<1>4. Conserved'  BY <1>1, <1>3 DEF Conserved, WithheldOf, Total
<1>5. QED  BY <1>2, <1>4

-----------------------------------------------------------------------------
(* The two kinds of steps.                                                 *)

Quiet ==
    /\ UNCHANGED ledger
    /\ \A a \in Accounts : Open(a) =>
          /\ account'[a] # Absent
          /\ account'[a].mint = account[a].mint
          /\ account'[a].frozen = account[a].frozen
          /\ account'[a].feeExt = account[a].feeExt
    /\ \A a, b \in Accounts :
          account'[a] # account[a] /\ account'[b] # account[b] => a = b
    /\ \A m \in Mints : mint'[m] = Absent => ~Live(m) \/ supply[m] = 0
    /\ \A m \in Mints : Live(m) /\ mint'[m] # Absent =>
          mint'[m].hasFee = mint[m].hasFee

\* Tokens only come into accounts that are open and not frozen.
OnlyUsable ==
    \A a \in Accounts : (Open(a) => account[a].frozen) =>
        amount'[a] = amount[a] /\ withheld'[a] \in {0, withheld[a]}

Moves(m) ==
    /\ Live(m) /\ UNCHANGED <<mint, account>>
    /\ OnlyUsable
    /\ Conserved'
    /\ \A q \in Mints \ {m} : supply'[q] = supply[q]

-----------------------------------------------------------------------------
(* Both kinds of step keep the invariant.                                  *)

\* Where the supply is zero nothing is left anywhere.
LEMMA NoSupplyNoTokens ==
    ASSUME LedgerTypeOK, Conserved, NEW m \in Mints, supply[m] = 0
    PROVE  /\ feePool[m] = 0
           /\ \A a \in AccountsOf(m) : amount[a] = 0 /\ withheld[a] = 0
<1> DEFINE S == AccountsOf(m)
<1>1. S \in SUBSET Accounts /\ IsFiniteSet(S)
  BY AccountsOfFacts, AccountsFinite, FS_Subset
<1>2. feePool[m] \in Nat  BY U64Facts DEF LedgerTypeOK
<1>3. supply[m] = Total(amount, S) + Total(withheld, S) + feePool[m]
  BY DEF Conserved, WithheldOf
<1> HIDE DEF S
<1>4. Total(amount, S) \in Nat /\ Total(withheld, S) \in Nat
  BY <1>1, TotalNat
<1>5. Total(amount, S) = 0 /\ Total(withheld, S) = 0 /\ feePool[m] = 0
  BY <1>2, <1>3, <1>4
<1>6. ASSUME NEW f \in [Accounts -> U64], Total(f, S) = 0, NEW a \in S
      PROVE  f[a] = 0
  <2>1. f[a] \in 0 .. MaxU64 /\ f[a] \in Nat
    BY <1>1, U64Facts DEF U64
  <2>2. Sum(f, S, MaxU64) = Sum(f, S \ {a}, MaxU64) + f[a]
    BY <1>1, <2>1, SumElement, BoundsAreNatural
  <2>3. Sum(f, S \ {a}, MaxU64) \in Nat
    BY <1>1, FS_Difference, SumNat, BoundsAreNatural
  <2>4. QED  BY <1>6, <2>1, <2>2, <2>3 DEF Total
<1>7. QED  BY <1>5, <1>6 DEF S, LedgerTypeOK

NoSupplyLeft ==
    LedgerTypeOK /\ Conserved /\ \A m \in Mints : ~Live(m) => supply[m] = 0

\* A mint that is not live is hollow once its supply is zero.
LEMMA HollowFromSupply == NoSupplyLeft => ClosedMintsHollow
BY NoSupplyNoTokens DEF ClosedMintsHollow, NoSupplyLeft

\* The same of the state after a step.
LEMMA HollowPrimed == NoSupplyLeft' => ClosedMintsHollow'
BY HollowFromSupply, PTL

\* The state after a step, from what is known of it.
LEMMA HollowAfter ==
    ASSUME TypeOK', Conserved', \A m \in Mints : mint'[m] = Absent => supply'[m] = 0
    PROVE  ClosedMintsHollow'
BY HollowPrimed DEF NoSupplyLeft, Live, TypeOK, LedgerTypeOK

\* A step that leaves the ledger alone keeps the invariant.
LEMMA QuietKeepsInv ==
    ASSUME LedgerInv, TypeOK', Quiet
    PROVE  LedgerInv'
<1>1. Conserved' /\ UnopenedEmpty'
  BY QuietConserves DEF LedgerInv, Quiet
<1>2. \A m \in Mints : mint'[m] = Absent => supply'[m] = 0
  BY DEF Quiet, ledger, LedgerInv, ClosedMintsHollow
<1>3. ClosedMintsHollow'  BY <1>1, <1>2, HollowAfter
<1>4. FrozenStayEmpty'
  BY DEF Quiet, ledger, LedgerInv, FrozenStayEmpty, UnopenedEmpty, Open
<1>5. QED  BY <1>1, <1>3, <1>4 DEF LedgerInv

\* A step that moves the tokens of one mint keeps the invariant.
LEMMA MovesKeepsInv ==
    ASSUME LedgerInv, TypeOK', NEW m \in Mints, Moves(m)
    PROVE  LedgerInv'
<1>1. UnopenedEmpty'
  BY DEF Moves, OnlyUsable, LedgerInv, UnopenedEmpty, Open
<1>2. FrozenStayEmpty'
  BY DEF Moves, OnlyUsable, LedgerInv, FrozenStayEmpty, Open
<1>3. \A q \in Mints : mint'[q] = Absent => supply'[q] = 0
  BY DEF Moves, LedgerInv, ClosedMintsHollow, Live
<1>4. ClosedMintsHollow'  BY <1>3, HollowAfter DEF Moves
<1>5. QED  BY <1>1, <1>2, <1>4 DEF LedgerInv, Moves

-----------------------------------------------------------------------------
(* The steps that leave the ledger alone.                                  *)

\* Where no mint was live, a new one changes neither supply nor fees: both are 0.
LEMMA InitializeMintQuiet ==
    ASSUME LedgerInv, NEW m \in Mints, ~Live(m), NEW conf, InitializeMint(m, conf),
           UNCHANGED <<amount, withheld>>
    PROVE  /\ UNCHANGED ledger
           /\ mint' = [mint EXCEPT ![m] = conf]
           /\ \A q \in Mints : mint'[q] = Absent => ~Live(q)
           /\ \A q \in Mints : Live(q) => mint'[q] = mint[q]
<1>1. supply[m] = 0 /\ feePool[m] = 0  BY DEF LedgerInv, ClosedMintsHollow
<1>2. supply \in [Mints -> U64] /\ feePool \in [Mints -> U64]
  BY DEF LedgerInv, TypeOK
<1>3. supply' = supply /\ feePool' = feePool
  BY <1>1, <1>2 DEF InitializeMint
<1>4. \A q \in Mints \ {m} : mint'[q] = mint[q]
  BY DEF InitializeMint, LedgerInv, TypeOK
<1>5. QED  BY <1>3, <1>4 DEF ledger, InitializeMint, Live

\* Creating a mint changes no account, and no live mint.
LEMMA CreateFundedMintQuiet ==
    ASSUME LedgerInv, NEW m \in Mints, NEW p, NEW w, NEW conf, NEW rent,
           CreateFundedMint(m, p, w, conf, rent)
    PROVE  Quiet
<1>1. /\ UNCHANGED account /\ UNCHANGED ledger
      /\ \A q \in Mints : mint'[q] = Absent => ~Live(q)
      /\ \A q \in Mints : Live(q) => mint'[q] = mint[q]
  BY InitializeMintQuiet DEF CreateFundedMint
<1>2. QED  BY <1>1 DEF Quiet, Open, Live

\* Nor does creating a mint together with an account that was not open.
LEMMA CreateMintAndAccountQuiet ==
    ASSUME LedgerInv, NEW m \in Mints, NEW a \in KeyAccounts, NEW p, NEW w, NEW k,
           NEW conf, NEW room, CreateMintAndAccount(m, a, p, w, k, conf, room)
    PROVE  Quiet
<1>1. /\ UNCHANGED ledger /\ ~Open(a)
      /\ \A q \in Mints : mint'[q] = Absent => ~Live(q)
      /\ \A q \in Mints : Live(q) => mint'[q] = mint[q]
      /\ account' = [account EXCEPT ![a] = NewAccount(m, conf, w, TRUE, room)]
  BY InitializeMintQuiet DEF CreateMintAndAccount, InitializeAccount
<1>2. \A b \in Accounts \ {a} : account'[b] = account[b]
  BY <1>1 DEF LedgerInv, TypeOK
<1>3. \A b \in Accounts : Open(b) => account'[b] = account[b]  BY <1>1, <1>2
<1>4. \A b \in Accounts : Open(b) =>
        /\ account'[b] # Absent
        /\ account'[b].mint = account[b].mint
        /\ account'[b].frozen = account[b].frozen
        /\ account'[b].feeExt = account[b].feeExt
  BY ONLY <1>3 DEF Open
<1>5. \A b, c \in Accounts :
        account'[b] # account[b] /\ account'[c] # account[c] => b = c
  BY ONLY <1>2
<1>6. /\ \A q \in Mints : mint'[q] = Absent => ~Live(q) \/ supply[q] = 0
      /\ \A q \in Mints : Live(q) /\ mint'[q] # Absent =>
            mint'[q].hasFee = mint[q].hasFee
  BY ONLY <1>1
<1>7. QED  BY ONLY <1>1, <1>4, <1>5, <1>6 DEF Quiet

\* No creation of a mint touches the ledger.
LEMMA CreatedQuiet ==
    ASSUME LedgerInv, NEW m \in Mints, NEW p, NEW w, NEW metadata,
           Created(m, p, w, metadata)
    PROVE  Quiet
BY CreateFundedMintQuiet, CreateMintAndAccountQuiet DEF Created

\* No instruction that creates a mint touches the ledger.
LEMMA CreateMintStepQuiet ==
    ASSUME LedgerInv, CreateMintStep
    PROVE  Quiet
<1>1. PICK m \in Mints, p \in Wallets, w \in Wallets :
         Created(m, p, w, FALSE)
  BY CreateMintStepCreates
<1>2. QED  BY <1>1, CreatedQuiet

\* A mint is closed only when it has no supply; changing its default state and
\* creating its hook's list leave it live.
LEMMA ChangeMintStepQuiet ==
    ASSUME TypeOK, ChangeMintStep
    PROVE  Quiet
<1> PICK m \in Mints, w \in Wallets :
        \/ \E dest \in Wallets : CloseMintAccount(m, dest, w)
        \/ \E frozen \in BOOLEAN : UpdateDefaultAccountState(m, w, frozen)
        \/ InitializeExtraAccountMetaList(m, w)
  BY DEF ChangeMintStep
<1>1. CASE \E dest \in Wallets : CloseMintAccount(m, dest, w)
  <2>1. /\ UNCHANGED <<account, ledger>> /\ supply[m] = 0
        /\ mint' = [mint EXCEPT ![m] = Absent]
    BY <1>1 DEF CloseMintAccount
  <2>2. \A q \in Mints \ {m} : mint'[q] = mint[q]  BY <2>1 DEF TypeOK
  <2>3. QED  BY <2>1, <2>2 DEF Quiet, Open, Live
<1>2. ASSUME NEW frozen \in BOOLEAN, UpdateDefaultAccountState(m, w, frozen)
      PROVE  Quiet
  <2> DEFINE new == [mint[m] EXCEPT !.frozenDefault = frozen]
  <2>1. /\ UNCHANGED <<account, ledger>> /\ Live(m)
        /\ mint' = [mint EXCEPT ![m] = new]
    BY <1>2 DEF UpdateDefaultAccountState
  <2>2. mint[m] \in MintState  BY <2>1 DEF Live, TypeOK
  <2>3. new \in MintState  BY <2>2 DEF MintState
  <2>4. new # Absent /\ new.hasFee = mint[m].hasFee
    BY <2>2, <2>3, AbsentIsNoState DEF MintState
  <2> HIDE DEF new
  <2>5. \A q \in Mints : mint'[q] = IF q = m THEN new ELSE mint[q]
    BY <2>1 DEF TypeOK
  <2>6. QED  BY <2>1, <2>4, <2>5 DEF Quiet, Open, Live
<1>3. CASE InitializeExtraAccountMetaList(m, w)
  BY <1>3 DEF InitializeExtraAccountMetaList, Quiet, Open, Live
<1>4. QED  BY <1>1, <1>2, <1>3

\* Nor do the instructions of a mint with metadata.
LEMMA MetadataStepQuiet ==
    ASSUME LedgerInv, MetadataStep
    PROVE  Quiet
<1> PICK m \in Mints, p \in Wallets, w \in Wallets :
        InitializeMetadataPointer(m, p, w) \/ UpdateMetadataField(m, p, w)
  BY DEF MetadataStep
<1>1. CASE InitializeMetadataPointer(m, p, w)
  BY <1>1, MetadataPointerCreates, CreatedQuiet
<1>2. CASE UpdateMetadataField(m, p, w)
  BY <1>2 DEF UpdateMetadataField, Quiet, Open, Live
<1>3. QED  BY <1>1, <1>2

\* An account that changes its flags stays open, for the same mint, and as frozen
\* as it was.
LEMMA AccountChangeQuiet ==
    ASSUME TypeOK, UNCHANGED <<mint, ledger>>, NEW a \in Accounts,
           NEW new \in AccountState,
           account' = [account EXCEPT ![a] = new],
           Open(a) => /\ new.mint = account[a].mint
                      /\ new.frozen = account[a].frozen
                      /\ new.feeExt = account[a].feeExt
    PROVE  Quiet
<1>1. new # Absent  BY AbsentIsNoState
<1>2. \A b \in Accounts : account'[b] = IF b = a THEN new ELSE account[b]
  BY DEF TypeOK
<1>3. QED  BY <1>1, <1>2 DEF Quiet, Open, Live

\* No instruction that creates or reallocates an account touches the ledger.
LEMMA AccountStepQuiet ==
    ASSUME TypeOK, AccountStep
    PROVE  Quiet
<1>1. ASSUME NEW m \in Mints, NEW a \in KeyAccounts, NEW p \in Wallets,
             NEW w \in Wallets, NEW room \in Rooms, NEW memo \in BOOLEAN,
             CreateTokenAccount(a, m, p, w, room, memo)
      PROVE  Quiet
  <2>1. /\ UNCHANGED <<mint, ledger>> /\ ~Open(a)
        /\ \E new : account' = [account EXCEPT ![a] = new]
    BY <1>1 DEF CreateTokenAccount, InitializeAccount
  <2>2. \A b \in Accounts \ {a} : account'[b] = account[b]  BY <2>1 DEF TypeOK
  <2>3. QED  BY <2>1, <2>2 DEF Quiet, Open, Live
<1>2. ASSUME NEW m \in Mints, NEW p \in Wallets, NEW w \in Wallets,
             CreateAta(w, m, p)
      PROVE  Quiet
  <2>1. CASE UNCHANGED account  BY <1>2, <2>1 DEF CreateAta, Quiet, Open, Live
  <2>2. CASE ~UNCHANGED account
    <3>1. /\ UNCHANGED <<mint, ledger>> /\ ~Open(Ata(w, m))
          /\ \E new : account' = [account EXCEPT ![Ata(w, m)] = new]
      BY <1>2, <2>2 DEF CreateAta, InitializeAccount
    <3>2. \A b \in Accounts \ {Ata(w, m)} : account'[b] = account[b]
      BY <3>1 DEF TypeOK
    <3>3. QED  BY <3>1, <3>2 DEF Quiet, Open, Live
  <2>3. QED  BY <2>1, <2>2
<1>3. ASSUME NEW a \in Accounts, NEW p \in Wallets, NEW w \in Wallets,
             Realloc(a, p, w)
      PROVE  Quiet
  <2>1. account[a] \in AccountState /\ UNCHANGED <<mint, ledger>>
    BY <1>3 DEF Realloc, Open, TypeOK
  <2>2. CASE UNCHANGED account  BY <2>1, <2>2 DEF Quiet, Open, Live
  <2>3. CASE account' = [account EXCEPT ![a].memo = TRUE, ![a].room = @ - 1]
                /\ account[a].room > 0
    <3> DEFINE new == [account[a] EXCEPT !.memo = TRUE, !.room = @ - 1]
    <3>1. account[a].room - 1 \in Rooms
      BY <2>1, <2>3, BoundsAreNatural DEF AccountState, Rooms
    <3>2. new \in AccountState /\ new.mint = account[a].mint
            /\ new.frozen = account[a].frozen /\ new.feeExt = account[a].feeExt
      BY <2>1, <3>1 DEF AccountState
    <3>3. account' = [account EXCEPT ![a] = new]  BY <2>3 DEF TypeOK
    <3> HIDE DEF new
    <3>4. QED  BY <2>1, <3>2, <3>3, AccountChangeQuiet
  <2>4. CASE account' = [account EXCEPT ![a].memo = TRUE]
    <3> DEFINE new == [account[a] EXCEPT !.memo = TRUE]
    <3>1. new \in AccountState /\ new.mint = account[a].mint
            /\ new.frozen = account[a].frozen /\ new.feeExt = account[a].feeExt
      BY <2>1 DEF AccountState
    <3>2. account' = [account EXCEPT ![a] = new]  BY <2>4 DEF TypeOK
    <3> HIDE DEF new
    <3>3. QED  BY <2>1, <3>1, <3>2, AccountChangeQuiet
  <2>5. QED  BY <1>3, <2>2, <2>3, <2>4 DEF Realloc
<1>4. QED
  BY <1>1, <1>2, <1>3 DEF AccountStep, EnableMemo, InitializeTokenAccountWith,
                          InitializeConfidentialAccount

\* Locking the CPI guard touches no balance.
LEMMA EnableCpiGuardQuiet ==
    ASSUME TypeOK, NEW a \in Accounts, NEW w \in Wallets, EnableCpiGuard(a, w)
    PROVE  Quiet
<1> DEFINE new == [account[a] EXCEPT !.guard = TRUE, !.room = @ - 1]
<1>1. account[a] \in AccountState /\ UNCHANGED <<mint, ledger>>
  BY DEF EnableCpiGuard, Open, TypeOK
<1>2. account[a].room - 1 \in Rooms
  BY <1>1, BoundsAreNatural DEF EnableCpiGuard, AccountState, Rooms
<1>3. new \in AccountState /\ new.mint = account[a].mint
        /\ new.frozen = account[a].frozen /\ new.feeExt = account[a].feeExt
  BY <1>1, <1>2 DEF AccountState
<1>4. account' = [account EXCEPT ![a] = new]  BY DEF EnableCpiGuard, TypeOK
<1> HIDE DEF new
<1>5. QED  BY <1>1, <1>3, <1>4, AccountChangeQuiet

-----------------------------------------------------------------------------
(* The steps that move tokens.                                             *)

\* Transfers, mints, burns and the gathering of fees are all refused by accounts
\* that are frozen or do not exist.
LEMMA TransferUsable ==
    ASSUME LedgerTypeOK, NEW m, NEW from \in Accounts, NEW to \in Accounts,
           NEW w, NEW n, NEW memo, NEW hooked,
           TransferChecked(m, from, to, w, n, memo, hooked)
    PROVE  OnlyUsable /\ supply' = supply
<1>1. \A a \in Accounts : (Open(a) => account[a].frozen) => a # from /\ a # to
  BY DEF TransferChecked, TransferAllowed
<1>2. \A a \in Accounts \ {from, to} :
         amount'[a] = amount[a] /\ withheld'[a] = withheld[a]
  BY DEF TransferChecked, LedgerTypeOK
<1>3. QED  BY <1>1, <1>2 DEF OnlyUsable, TransferChecked

\* Writing the amount of one usable account only, and emptying others of fees.
LEMMA OneUsable ==
    ASSUME LedgerTypeOK, NEW x \in Accounts, Open(x), ~account[x].frozen,
           NEW v, amount' = [amount EXCEPT ![x] = v],
           \A a \in Accounts : withheld'[a] \in {0, withheld[a]}
    PROVE  OnlyUsable
<1>1. \A a \in Accounts \ {x} : amount'[a] = amount[a]  BY DEF LedgerTypeOK
<1>2. QED  BY <1>1 DEF OnlyUsable

\* Each way of moving tokens is a move of the tokens of one live mint.
LEMMA TransferMoves ==
    ASSUME LedgerInv, NEW m \in Mints, Live(m), NEW from \in Accounts,
           NEW to \in Accounts, NEW w, NEW n \in U64, NEW memo, NEW hooked,
           TransferChecked(m, from, to, w, n, memo, hooked),
           UNCHANGED <<mint, account>>
    PROVE  Moves(m)
<1>1. mint[m] \in MintState /\ LedgerTypeOK /\ Conserved
  BY TypeOfLedger DEF LedgerInv
<1>2. Conserved'  BY <1>1, TransferConserves
<1>3. OnlyUsable /\ supply' = supply  BY <1>1, TransferUsable
<1>4. QED  BY <1>2, <1>3 DEF Moves

\* Minting moves the tokens of its mint only.
LEMMA MintMoves ==
    ASSUME LedgerInv, NEW m \in Mints, Live(m), NEW to \in Accounts, Open(to),
           NEW n \in U64, MintTokens(m, to, n), UNCHANGED <<mint, account>>
    PROVE  Moves(m)
<1>1. LedgerTypeOK /\ Conserved  BY TypeOfLedger DEF LedgerInv
<1>2. Conserved'  BY <1>1, MintTokensConserves
<1>3. OnlyUsable  BY <1>1, OneUsable DEF MintTokens
<1>4. \A q \in Mints \ {m} : supply'[q] = supply[q]
  BY <1>1 DEF MintTokens, LedgerTypeOK
<1>5. QED  BY <1>2, <1>3, <1>4 DEF Moves

\* So does burning.
LEMMA BurnMoves ==
    ASSUME LedgerInv, NEW m \in Mints, Live(m), NEW from \in Accounts, Open(from),
           NEW w, NEW n \in U64, BurnTokens(m, from, w, n),
           UNCHANGED <<mint, account>>
    PROVE  Moves(m)
<1>1. LedgerTypeOK /\ Conserved  BY TypeOfLedger DEF LedgerInv
<1>2. Conserved'  BY <1>1, BurnTokensConserves
<1>3. OnlyUsable  BY <1>1, OneUsable DEF BurnTokens
<1>4. \A q \in Mints \ {m} : supply'[q] = supply[q]
  BY <1>1 DEF BurnTokens, LedgerTypeOK
<1>5. QED  BY <1>2, <1>3, <1>4 DEF Moves

\* Emptying accounts of their fees leaves each with its fees or with none.
LEMMA EmptiedUsable ==
    ASSUME NEW S
    PROVE  \A a \in Accounts : Emptied(S)[a] \in {0, withheld[a]}
BY DEF Emptied

\* Every instruction that mints, moves or burns tokens is a move.
LEMMA TokenStepMoves ==
    ASSUME LedgerInv, TokenStep
    PROVE  \E m \in Mints : Moves(m)
<1> PICK m \in Mints, w \in Wallets, n \in U64 :
        \/ MintTo(m, w, n)
        \/ \E from \in Accounts : BurnCpi(m, from, w, n)
        \/ \E to \in Accounts :
               \/ \E fee \in U64 : TransferTo(m, w, to, n, fee)
               \/ MemoTransfer(m, w, to, n)
        \/ \E from, to \in Accounts :
               \/ \E badWallet \in Wallets :
                      TransferToken(m, from, to, w, badWallet, n)
               \/ TransferHookToken(m, from, to, w, n)
  BY DEF TokenStep
<1>0. Ata(w, m) \in Accounts  BY AddressKinds
<1>1. CASE MintTo(m, w, n)  BY <1>0, <1>1, MintMoves DEF MintTo
<1>2. CASE \E from \in Accounts : BurnCpi(m, from, w, n)
  BY <1>2, BurnMoves DEF BurnCpi
<1>3. ASSUME NEW to \in Accounts, NEW fee \in U64, TransferTo(m, w, to, n, fee)
      PROVE  Moves(m)
  BY <1>0, <1>3, TransferMoves DEF TransferTo
<1>4. ASSUME NEW to \in Accounts, MemoTransfer(m, w, to, n)
      PROVE  Moves(m)
  BY <1>0, <1>4, TransferMoves DEF MemoTransfer
<1>5. ASSUME NEW from \in Accounts, NEW to \in Accounts, NEW bad \in Wallets,
             TransferToken(m, from, to, w, bad, n)
      PROVE  Moves(m)
  BY <1>5, TransferMoves DEF TransferToken
<1>6. ASSUME NEW from \in Accounts, NEW to \in Accounts,
             TransferHookToken(m, from, to, w, n)
      PROVE  Moves(m)
  BY <1>6, TransferMoves DEF TransferHookToken
<1>7. QED  BY <1>1, <1>2, <1>3, <1>4, <1>5, <1>6

\* Every instruction that gathers fees is a move.
LEMMA FeeStepMoves ==
    ASSUME LedgerInv, FeeStep
    PROVE  \E m \in Mints : Moves(m)
<1> PICK m \in Mints :
        \/ \E remaining \in SUBSET (Accounts \cup Lookalikes) :
               \/ \E w \in Wallets : WithdrawWithheldAccount(m, w, remaining)
               \/ HarvestWithheldToken(m, remaining)
        \/ \E w \in Wallets : WithdrawWithheldMint(m, w)
  BY DEF FeeStep
<1>0. LedgerTypeOK /\ Conserved  BY TypeOfLedger DEF LedgerInv
<1>1. ASSUME NEW remaining \in SUBSET (Accounts \cup Lookalikes), NEW w \in Wallets,
             WithdrawWithheldAccount(m, w, remaining)
      PROVE  Moves(m)
  <2> DEFINE src == FilterSources(remaining)
  <2>1. src \in SUBSET Accounts /\ Ata(w, m) \in Accounts /\ \A s \in src : Open(s)
    BY <1>1, AddressKinds
    DEF FilterSources, WithdrawWithheldAccount, SourcesAccepted
  <2>2. /\ Live(m) /\ Open(Ata(w, m)) /\ CollectFees(m, Ata(w, m), w, src)
        /\ UNCHANGED <<mint, account>>
    BY <1>1 DEF WithdrawWithheldAccount
  <2> HIDE DEF src
  <2>3. Conserved'  BY <1>0, <2>1, <2>2, CollectFeesConserves
  <2>4. OnlyUsable  BY <1>0, <2>1, <2>2, OneUsable, EmptiedUsable DEF CollectFees
  <2>5. QED  BY <2>2, <2>3, <2>4 DEF Moves, CollectFees
<1>2. ASSUME NEW remaining \in SUBSET (Accounts \cup Lookalikes),
             HarvestWithheldToken(m, remaining)
      PROVE  Moves(m)
  <2> DEFINE src == FilterSources(remaining)
  <2>1. src \in SUBSET Accounts /\ \A s \in src : Open(s)
    BY <1>2 DEF FilterSources, HarvestWithheldToken, SourcesAccepted
  <2>2. Live(m) /\ HarvestFees(m, src) /\ UNCHANGED <<mint, account>>
    BY <1>2 DEF HarvestWithheldToken
  <2> HIDE DEF src
  <2>3. Conserved'  BY <1>0, <2>1, <2>2, HarvestFeesConserves
  <2>4. OnlyUsable  BY <2>2, EmptiedUsable DEF HarvestFees, OnlyUsable
  <2>5. QED  BY <2>2, <2>3, <2>4 DEF Moves, HarvestFees
<1>3. ASSUME NEW w \in Wallets, WithdrawWithheldMint(m, w)
      PROVE  Moves(m)
  <2>1. /\ Live(m) /\ Open(Ata(w, m)) /\ CollectPool(m, Ata(w, m), w)
        /\ UNCHANGED <<mint, account>> /\ Ata(w, m) \in Accounts
    BY <1>3, AddressKinds DEF WithdrawWithheldMint
  <2>2. Conserved'  BY <1>0, <2>1, CollectPoolConserves
  <2>3. OnlyUsable  BY <1>0, <2>1, OneUsable DEF CollectPool
  <2>4. QED  BY <2>1, <2>2, <2>3 DEF Moves, CollectPool
<1>4. QED  BY <1>1, <1>2, <1>3

-----------------------------------------------------------------------------
(* The theorems.                                                           *)

\* Every step keeps the invariant.
LEMMA NextKeepsInv ==
    ASSUME LedgerInv, [Next]_vars
    PROVE  LedgerInv'
<1>0. TypeOK /\ TypeOK'  BY NextType DEF LedgerInv
<1>1. CASE CreateMintStep  BY <1>0, <1>1, CreateMintStepQuiet, QuietKeepsInv
<1>2. CASE ChangeMintStep  BY <1>0, <1>2, ChangeMintStepQuiet, QuietKeepsInv
<1>3. CASE AccountStep  BY <1>0, <1>3, AccountStepQuiet, QuietKeepsInv
<1>4. CASE TokenStep  BY <1>0, <1>4, TokenStepMoves, MovesKeepsInv
<1>5. CASE FeeStep  BY <1>0, <1>5, FeeStepMoves, MovesKeepsInv
<1>6. CASE ClientStep
  <2> PICK a \in Accounts, w \in Wallets :
          \/ EnableCpiGuard(a, w)
          \/ \E m \in Mints, n \in U64 : ClientMintTo(m, w, a, n)
    BY <1>6 DEF ClientStep
  <2>1. CASE EnableCpiGuard(a, w)
    BY <1>0, <2>1, EnableCpiGuardQuiet, QuietKeepsInv
  <2>2. ASSUME NEW m \in Mints, NEW n \in U64, ClientMintTo(m, w, a, n)
        PROVE  Moves(m)
    BY <2>2, MintMoves DEF ClientMintTo
  <2>3. QED  BY <1>0, <2>1, <2>2, MovesKeepsInv
<1>7. CASE UNCHANGED vars
  BY <1>0, <1>7, QuietKeepsInv DEF vars, Quiet, ledger, Open, Live
<1>8. CASE MetadataStep  BY <1>0, <1>8, MetadataStepQuiet, QuietKeepsInv
<1>9. QED  BY <1>1, <1>2, <1>3, <1>4, <1>5, <1>6, <1>7, <1>8 DEF Next

\* The invariant holds before anything exists.
LEMMA InitInv ==
    ASSUME Init
    PROVE  LedgerInv
<1>1. TypeOK  BY InitType
<1>3. \A m \in Mints : AccountsOf(m) = {}  BY DEF Init, AccountsOf, Open
<1>4. Total(amount, {}) = 0 /\ Total(withheld, {}) = 0
  BY SumZero, BoundsAreNatural DEF Total
<1>5. Conserved  BY <1>3, <1>4 DEF Init, Conserved, WithheldOf
<1>6. UnopenedEmpty /\ FrozenStayEmpty /\ ClosedMintsHollow
  BY <1>3 DEF Init, UnopenedEmpty, FrozenStayEmpty, ClosedMintsHollow, Open
<1>7. QED  BY <1>1, <1>5, <1>6 DEF LedgerInv

\* LedgerInv is an invariant of the system.
THEOREM LedgerInvariant == Spec => []LedgerInv
<1>1. Init => LedgerInv  BY InitInv
<1>2. LedgerInv /\ [Next]_vars => LedgerInv'  BY NextKeepsInv
<1>3. QED  BY <1>1, <1>2, PTL DEF Spec

\* In every reachable state, for any number of mints, wallets and accounts, the
\* supply of a mint is what its accounts hold and withhold and what its pool
\* holds: only mint_to and burn change it, fees and their gathering conserve it.
THEOREM SupplyConserved == Spec => []Conserved
<1>1. LedgerInv => Conserved  BY DEF LedgerInv
<1>2. QED  BY <1>1, LedgerInvariant, PTL

\* A closed mint leaves no token behind, so that a mint created at its address
\* later starts with empty accounts, whatever was done in between.
THEOREM ClosedHollow == Spec => []ClosedMintsHollow
<1>1. LedgerInv => ClosedMintsHollow  BY DEF LedgerInv
<1>2. QED  BY <1>1, LedgerInvariant, PTL

\* A frozen account never holds a token.
THEOREM FrozenEmpty == Spec => []FrozenStayEmpty
<1>1. LedgerInv => FrozenStayEmpty  BY DEF LedgerInv
<1>2. QED  BY <1>1, LedgerInvariant, PTL

\* Two accounts of a mint hold no more than its supply, which fits a u64: only
\* mint_to can overflow.
LEMMA TwoFit ==
    ASSUME LedgerTypeOK, Conserved, NEW m \in Mints,
           NEW a \in AccountsOf(m), NEW b \in AccountsOf(m), a # b
    PROVE  amount[a] + amount[b] + withheld[a] + withheld[b] + feePool[m] <= MaxU64
<1> DEFINE S == AccountsOf(m)
<1>1. S \in SUBSET Accounts /\ IsFiniteSet(S)
  BY AccountsOfFacts, AccountsFinite, FS_Subset
<1>2. supply[m] = Total(amount, S) + Total(withheld, S) + feePool[m]
  BY DEF Conserved, WithheldOf
<1>3. feePool[m] \in Nat /\ supply[m] \in Nat /\ supply[m] <= MaxU64
  BY BoundsAreNatural DEF LedgerTypeOK, U64
<1>4. a \in S /\ b \in S  OBVIOUS
<1> HIDE DEF S
<1>5. Total(amount, S) \in Nat /\ Total(withheld, S) \in Nat
  BY <1>1, TotalNat
<1>6. ASSUME NEW f \in [Accounts -> U64]
      PROVE  f[a] + f[b] <= Total(f, S) /\ f[a] \in Nat /\ f[b] \in Nat
  <2>1. f[a] \in 0 .. MaxU64 /\ f[b] \in 0 .. MaxU64  BY <1>1, <1>4 DEF U64
  <2>2. f[a] + f[b] <= Sum(f, S, MaxU64)
    BY <1>1, <1>4, <2>1, SumBoundsTwo, BoundsAreNatural
  <2>3. QED  BY <2>1, <2>2, BoundsAreNatural DEF Total
<1>7. /\ amount[a] + amount[b] <= Total(amount, S)
      /\ withheld[a] + withheld[b] <= Total(withheld, S)
      /\ amount[a] \in Nat /\ amount[b] \in Nat
      /\ withheld[a] \in Nat /\ withheld[b] \in Nat
  BY <1>6 DEF LedgerTypeOK
<1>8. QED  BY <1>2, <1>3, <1>5, <1>7, BoundsAreNatural

\* No transfer and no gathering of fees ever fails on an overflow.
THEOREM CreditsAlwaysFit == Spec => []CreditsFit
<1>1. LedgerInv => CreditsFit
  BY TwoFit, TypeOfLedger DEF LedgerInv, CreditsFit
<1>2. QED  BY <1>1, LedgerInvariant, PTL
=============================================================================
