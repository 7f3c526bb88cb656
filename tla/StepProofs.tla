------------------------------ MODULE StepProofs ------------------------------
(***************************************************************************)
(* What a step of the system does and never does, for every value of the   *)
(* constants.  Every step leaves the ledger alone or has one of six        *)
(* effects on the tokens of one mint; each is a movement of TokenLedger or *)
(* a stutter of it.  From the six effects follows who may take tokens out  *)
(* of an account, where fees go, how far a transaction reaches, and what a *)
(* hook sees.                                                              *)
(***************************************************************************)
EXTENDS SafetyProofs

-----------------------------------------------------------------------------
(* Effects.                                                                *)

\* The six ways in which tokens of m move, with what the instructions make sure
\* of before they ask Token-2022 for them.
Transferred(m) ==
    \E from, to \in Accounts, w \in Wallets, n \in U64, memo, hooked \in BOOLEAN :
        /\ TransferChecked(m, from, to, w, n, memo, hooked)
        /\ hooked => \/ mint[m].hook = "other"
                     \/ m \in metaLists /\ account[from].owner = w
        /\ w \in tx'.signers
Minted(m) == \E to \in Accounts, n \in U64 : Open(to) /\ MintTokens(m, to, n)
Burned(m) ==
    \E from \in Accounts, w \in Wallets, n \in U64 :
        Open(from) /\ BurnTokens(m, from, w, n)
Collected(m) ==
    \E w \in Wallets, sources \in SUBSET Accounts :
        /\ Open(Ata(w, m)) /\ \A s \in sources : Open(s)
        /\ CollectFees(m, Ata(w, m), w, sources)
        /\ w \in tx'.signers
Harvested(m) ==
    \E sources \in SUBSET Accounts :
        (\A s \in sources : Open(s)) /\ HarvestFees(m, sources)
PoolCollected(m) ==
    \E w \in Wallets :
        /\ Open(Ata(w, m)) /\ CollectPool(m, Ata(w, m), w)
        /\ w \in tx'.signers

Effect(m) ==
    /\ Live(m) /\ UNCHANGED <<mint, account>>
    /\ \/ Transferred(m)
       \/ Minted(m)
       \/ Burned(m)
       \/ Collected(m)
       \/ Harvested(m)
       \/ PoolCollected(m)

-----------------------------------------------------------------------------
(* Every step leaves the ledger alone or has one of these effects.         *)

\* The instructions that mint, move and burn tokens.
LEMMA TokenStepEffect ==
    ASSUME TokenStep
    PROVE  \E m \in Mints : Effect(m)
<1> PICK m \in Mints, w \in Wallets, n \in U64 :
        \/ MintTo(m, w, n)
        \/ \E from \in Accounts : BurnCpi(m, from, w, n)
        \/ \E to \in Accounts :
               \/ \E fee \in U64 : TransferTo(m, w, to, n, fee)
               \/ MemoTransfer(m, w, to, n)
        \/ \E from, to \in Accounts :
               \/ \E badWallet \in Wallets :
                      TransferToken(m, from, to, w, badWallet, n)
               \/ TransferHookToken(m, from, to, w, n)
  BY DEF TokenStep
<1>0. Ata(w, m) \in Accounts  BY AddressKinds
<1>1. CASE MintTo(m, w, n)  BY <1>0, <1>1 DEF MintTo, Effect, Minted
<1>2. CASE \E from \in Accounts : BurnCpi(m, from, w, n)
  BY <1>2 DEF BurnCpi, Effect, Burned
<1>3. ASSUME NEW to \in Accounts, NEW fee \in U64, TransferTo(m, w, to, n, fee)
      PROVE  Effect(m)
  <2>1. TransferChecked(m, Ata(w, m), to, w, n, FALSE, FALSE) /\ w \in tx'.signers
    BY <1>3 DEF TransferTo, Signed
  <2>2. Transferred(m)  BY <1>0, <2>1 DEF Transferred
  <2>3. QED  BY <1>3, <2>2 DEF Effect, TransferTo
<1>4. ASSUME NEW to \in Accounts, MemoTransfer(m, w, to, n)
      PROVE  Effect(m)
  <2>1. TransferChecked(m, Ata(w, m), to, w, n, TRUE, FALSE) /\ w \in tx'.signers
    BY <1>4 DEF MemoTransfer, SignedWithMemo
  <2>2. Transferred(m)  BY <1>0, <2>1 DEF Transferred
  <2>3. QED  BY <1>4, <2>2 DEF Effect, MemoTransfer
<1>5. ASSUME NEW from \in Accounts, NEW to \in Accounts, NEW bad \in Wallets,
             TransferToken(m, from, to, w, bad, n)
      PROVE  Effect(m)
  <2>1. TransferChecked(m, from, to, w, n, FALSE, FALSE) /\ w \in tx'.signers
    BY <1>5 DEF TransferToken, Signed
  <2>2. Transferred(m)  BY <2>1 DEF Transferred
  <2>3. QED  BY <1>5, <2>2 DEF Effect, TransferToken
<1>6. ASSUME NEW from \in Accounts, NEW to \in Accounts,
             TransferHookToken(m, from, to, w, n)
      PROVE  Effect(m)
  <2> DEFINE hooked == mint[m].hook = "other" \/ HookAccepts(m, from, to, w)
  <2>1. /\ TransferChecked(m, from, to, w, n, FALSE, hooked)
        /\ w \in tx'.signers
    BY <1>6 DEF TransferHookToken, Signed
  <2>2. /\ hooked \in BOOLEAN
        /\ hooked => \/ mint[m].hook = "other"
                     \/ m \in metaLists /\ account[from].owner = w
    BY DEF HookAccepts
  <2> HIDE DEF hooked
  <2>3. Transferred(m)  BY <2>1, <2>2 DEF Transferred
  <2>4. QED  BY <1>6, <2>3 DEF Effect, TransferHookToken
<1>7. QED  BY <1>1, <1>2, <1>3, <1>4, <1>5, <1>6

\* The instructions that gather fees.
LEMMA FeeStepEffect ==
    ASSUME FeeStep
    PROVE  \E m \in Mints : Effect(m)
<1> PICK m \in Mints :
        \/ \E remaining \in SUBSET (Accounts \cup Lookalikes) :
               \/ \E w \in Wallets : WithdrawWithheldAccount(m, w, remaining)
               \/ HarvestWithheldToken(m, remaining)
        \/ \E w \in Wallets : WithdrawWithheldMint(m, w)
  BY DEF FeeStep
<1>1. ASSUME NEW remaining \in SUBSET (Accounts \cup Lookalikes), NEW w \in Wallets,
             WithdrawWithheldAccount(m, w, remaining)
      PROVE  Effect(m)
  <2> DEFINE src == FilterSources(remaining)
  <2>1. src \in SUBSET Accounts /\ \A s \in src : Open(s)
    BY <1>1 DEF FilterSources, WithdrawWithheldAccount, SourcesAccepted
  <2>2. /\ Live(m) /\ Open(Ata(w, m)) /\ CollectFees(m, Ata(w, m), w, src)
        /\ UNCHANGED <<mint, account>> /\ w \in tx'.signers
    BY <1>1 DEF WithdrawWithheldAccount, Signed
  <2> HIDE DEF src
  <2>3. QED  BY <2>1, <2>2 DEF Effect, Collected
<1>2. ASSUME NEW remaining \in SUBSET (Accounts \cup Lookalikes),
             HarvestWithheldToken(m, remaining)
      PROVE  Effect(m)
  <2> DEFINE src == FilterSources(remaining)
  <2>1. src \in SUBSET Accounts /\ \A s \in src : Open(s)
    BY <1>2 DEF FilterSources, HarvestWithheldToken, SourcesAccepted
  <2>2. Live(m) /\ HarvestFees(m, src) /\ UNCHANGED <<mint, account>>
    BY <1>2 DEF HarvestWithheldToken
  <2> HIDE DEF src
  <2>3. QED  BY <2>1, <2>2 DEF Effect, Harvested
<1>3. ASSUME NEW w \in Wallets, WithdrawWithheldMint(m, w)
      PROVE  Effect(m)
  BY <1>3 DEF WithdrawWithheldMint, Signed, Effect, PoolCollected
<1>4. QED  BY <1>1, <1>2, <1>3

\* Every step is quiet or has one of the six effects on the tokens of one mint.
LEMMA StepKinds ==
    ASSUME LedgerInv, [Next]_vars
    PROVE  Quiet \/ \E m \in Mints : Effect(m)
<1>0. TypeOK  BY DEF LedgerInv
<1>1. CASE CreateMintStep  BY <1>1, CreateMintStepQuiet
<1>2. CASE ChangeMintStep  BY <1>0, <1>2, ChangeMintStepQuiet
<1>3. CASE AccountStep  BY <1>0, <1>3, AccountStepQuiet
<1>4. CASE TokenStep  BY <1>4, TokenStepEffect
<1>5. CASE FeeStep  BY <1>5, FeeStepEffect
<1>6. CASE ClientStep
  <2> PICK a \in Accounts, w \in Wallets :
          \/ EnableCpiGuard(a, w)
          \/ \E m \in Mints, n \in U64 : ClientMintTo(m, w, a, n)
    BY <1>6 DEF ClientStep
  <2>1. CASE EnableCpiGuard(a, w)  BY <1>0, <2>1, EnableCpiGuardQuiet
  <2>2. ASSUME NEW m \in Mints, NEW n \in U64, ClientMintTo(m, w, a, n)
        PROVE  Effect(m)
    BY <2>2 DEF ClientMintTo, Effect, Minted
  <2>3. QED  BY <2>1, <2>2
<1>7. CASE UNCHANGED vars  BY <1>7 DEF vars, Quiet, ledger, Open, Live
<1>8. CASE MetadataStep  BY <1>8, MetadataStepQuiet
<1>9. QED  BY <1>1, <1>2, <1>3, <1>4, <1>5, <1>6, <1>7, <1>8 DEF Next

-----------------------------------------------------------------------------
(* Each effect is a movement of the ledger.                                *)

Homes == [a \in Accounts |-> HomeOf(a)]
Owes  == [m \in Mints |-> OwedBy(m)]

\* Where mints and accounts stay, so do the holders' currencies.
LEMMA HomesStay ==
    ASSUME UNCHANGED account
    PROVE  /\ Homes' = Homes
           /\ \A m : AccountsOf(m)' = AccountsOf(m)
           /\ \A m : OwedBy(m)' = Total(withheld', AccountsOf(m)) + feePool'[m]
<1>1. \A m : AccountsOf(m)' = AccountsOf(m)  BY DEF AccountsOf, Open
<1>2. QED  BY <1>1 DEF Homes, HomeOf, Open, OwedBy, WithheldOf, Total

\* The fees of one mint change and those of the others stay.
LEMMA OwesOne ==
    ASSUME UNCHANGED account, NEW m \in Mints, NEW v,
           Total(withheld', AccountsOf(m)) + feePool'[m] = v,
           \A q \in Mints \ {m} :
               /\ Total(withheld', AccountsOf(q)) = Total(withheld, AccountsOf(q))
               /\ feePool'[q] = feePool[q]
    PROVE  Owes' = [Owes EXCEPT ![m] = v]
<1>1. OwedBy(m)' = v  BY HomesStay
<1>2. ASSUME NEW q \in Mints \ {m} PROVE OwedBy(q)' = OwedBy(q)
  BY HomesStay DEF OwedBy, WithheldOf
<1>3. \A q \in Mints : Owes'[q] = [Owes EXCEPT ![m] = v][q]
  BY <1>1, <1>2 DEF Owes
<1>4. QED  BY <1>3 DEF Owes

\* Withholding a fee in one account adds it to what its mint owes.
LEMMA FeeOwed ==
    ASSUME LedgerTypeOK, LedgerTypeOK', UNCHANGED <<account, feePool>>,
           NEW m \in Mints, NEW to \in Accounts, Open(to), account[to].mint = m,
           NEW fee \in Nat, withheld' = [withheld EXCEPT ![to] = @ + fee]
    PROVE  Owes' = [Owes EXCEPT ![m] = Owes[m] + fee]
<1> DEFINE S == AccountsOf(m)
<1>1. /\ S \in SUBSET Accounts /\ to \in S
      /\ \A q : q # m => to \notin AccountsOf(q)
      /\ \A q : AccountsOf(q) \subseteq Accounts
  BY AccountsOfFacts
<1>2. withheld \in [Accounts -> U64] /\ withheld' \in [Accounts -> U64]
  BY DEF LedgerTypeOK
<1>3. /\ withheld'[to] = withheld[to] + fee
      /\ \A a \in Accounts \ {to} : withheld'[a] = withheld[a]
  BY <1>2
<1> HIDE DEF S
<1>4. Total(withheld', S) = Total(withheld, S) - withheld[to] + withheld'[to]
  BY ONLY <1>1, <1>2, <1>3, TotalUpdate
<1>5. /\ Total(withheld, S) \in Nat /\ withheld[to] \in Nat /\ feePool[m] \in Nat
  BY <1>1, <1>2, TotalNat, U64Facts DEF LedgerTypeOK
<1>6. Total(withheld', S) + feePool'[m] = Total(withheld, S) + feePool[m] + fee
  BY <1>3, <1>4, <1>5
<1>7. Owes[m] = Total(withheld, S) + feePool[m]
  BY DEF Owes, OwedBy, WithheldOf, S
<1>8. ASSUME NEW q \in Mints \ {m}
      PROVE  Total(withheld', AccountsOf(q)) = Total(withheld, AccountsOf(q))
  <2>1. \A s \in AccountsOf(q) : s \in Accounts \ {to}  BY <1>1
  <2>2. \A s \in AccountsOf(q) : withheld'[s] = withheld[s]  BY ONLY <1>3, <2>1
  <2>3. QED  BY ONLY <2>2, TotalSame
<1>9. Total(withheld', AccountsOf(m)) + feePool'[m] = Owes[m] + fee
  BY <1>5, <1>6, <1>7 DEF S
<1>10. /\ UNCHANGED <<account, feePool>>
       /\ \A q \in Mints \ {m} : feePool'[q] = feePool[q]
  OBVIOUS
<1>11. QED  BY ONLY <1>8, <1>9, <1>10, OwesOne, m \in Mints

\* A transfer moves tokens from one holder to the other, and the fee to what the
\* mint owes; an account that pays itself does nothing.
LEMMA TransferIsMove ==
    ASSUME LedgerTypeOK, UNCHANGED account, NEW m \in Mints, mint[m] \in MintState,
           NEW from \in Accounts, NEW to \in Accounts, NEW w, NEW n \in U64,
           NEW memo, NEW hooked, TransferChecked(m, from, to, w, n, memo, hooked)
    PROVE  /\ Ledger!Next \/ UNCHANGED <<Homes, amount, Owes, supply>>
           /\ \/ Owes' = Owes
              \/ Owes' = [Owes EXCEPT ![m] = Owes[m] + Fee(mint[m], n)]
<1> DEFINE fee == Fee(mint[m], n)
<1>1. fee \in Nat /\ LedgerTypeOK'  BY FeeNat, TransferType
<1>2. /\ supply' = supply /\ feePool' = feePool /\ n <= amount[from]
      /\ Open(from) /\ Open(to) /\ account[from].mint = m /\ account[to].mint = m
  BY DEF TransferChecked, TransferAllowed
<1>3. Homes[from] = m /\ Homes[to] = m  BY <1>2 DEF Homes, HomeOf
<1>4. CASE from = to /\ UNCHANGED <<amount, withheld>>
  <2>1. \A q : OwedBy(q)' = OwedBy(q)
    BY <1>2, <1>4, HomesStay DEF OwedBy, WithheldOf
  <2>2. QED  BY <1>2, <1>4, <2>1, HomesStay DEF Owes
<1>5. CASE /\ from # to /\ fee <= n
           /\ amount' = [amount EXCEPT ![from] = @ - n, ![to] = @ + (n - fee)]
           /\ withheld' = [withheld EXCEPT ![to] = @ + fee]
  <2> HIDE DEF fee
  <2>1. Owes' = [Owes EXCEPT ![m] = Owes[m] + fee]
    BY <1>1, <1>2, <1>5, FeeOwed
  <2>2. n \in 0 .. MaxU64 /\ fee \in 0 .. MaxU64
    BY <1>1, <1>5, BoundsAreNatural DEF U64
  <2>3. Ledger!Move(from, to, m, n, fee)
    BY <1>2, <1>3, <1>5, <2>1, HomesStay DEF Ledger!Move, Homes, Owes
  <2>4. QED  BY <2>1, <2>2, <2>3 DEF Ledger!Next, fee
<1>6. QED  BY <1>4, <1>5 DEF TransferChecked

\* What is owed stays when nothing withheld changes.
LEMMA OwesStay ==
    ASSUME UNCHANGED <<account, withheld, feePool>>
    PROVE  Owes' = Owes
<1>1. \A m \in Mints : OwedBy(m)' = OwedBy(m)
  BY HomesStay DEF OwedBy, WithheldOf
<1>2. QED  BY <1>1 DEF Owes

\* Minting issues.
LEMMA MintIsIssue ==
    ASSUME UNCHANGED account, NEW m \in Mints, NEW to \in Accounts, Open(to),
           NEW n \in U64, MintTokens(m, to, n)
    PROVE  Ledger!Next
<1>1. Homes[to] = m /\ Homes' = Homes /\ Owes' = Owes
  BY HomesStay, OwesStay DEF MintTokens, Homes, HomeOf
<1>2. Ledger!Issue(to, m, n)
  BY <1>1 DEF MintTokens, Ledger!Issue, Homes, Owes
<1>3. QED  BY <1>2 DEF Ledger!Next, U64

\* Burning redeems.
LEMMA BurnIsRedeem ==
    ASSUME UNCHANGED account, NEW m \in Mints, NEW from \in Accounts, Open(from),
           NEW w, NEW n \in U64, BurnTokens(m, from, w, n)
    PROVE  Ledger!Next
<1>1. Homes[from] = m /\ Homes' = Homes /\ Owes' = Owes
  BY HomesStay, OwesStay DEF BurnTokens, Homes, HomeOf
<1>2. Ledger!Redeem(from, m, n)
  BY <1>1 DEF BurnTokens, Ledger!Redeem, Homes, Owes
<1>3. QED  BY <1>2 DEF Ledger!Next, U64

\* Gathering fees from accounts pays them out to the authority's account.
LEMMA CollectIsPayOut ==
    ASSUME LedgerTypeOK, UNCHANGED account, NEW m \in Mints, NEW dest \in Accounts,
           Open(dest), NEW w, NEW sources \in SUBSET Accounts,
           \A s \in sources : Open(s), CollectFees(m, dest, w, sources)
    PROVE  LET sum == Total(withheld, Harvestable(m, sources)) IN
           /\ Ledger!Next
           /\ Owes' = [Owes EXCEPT ![m] = Owes[m] - sum]
<1> DEFINE S    == AccountsOf(m)
           from == Harvestable(m, sources)
           sum  == Total(withheld, from)
<1>1. /\ account[dest].mint = m /\ amount[dest] + sum <= MaxU64
      /\ amount' = [amount EXCEPT ![dest] = @ + sum]
      /\ withheld' = Emptied(from)
      /\ supply' = supply /\ feePool' = feePool
  BY DEF CollectFees
<1>2. /\ sum \in Nat
      /\ Total(Emptied(from), S) = Total(withheld, S) - sum
      /\ \A q \in Mints \ {m} :
            Total(Emptied(from), AccountsOf(q)) = Total(withheld, AccountsOf(q))
  BY HarvestableOwn
<1>3. S \in SUBSET Accounts /\ from \in SUBSET Accounts
  BY AccountsOfFacts DEF Harvestable
<1>4. Homes[dest] = m /\ Homes' = Homes
  BY <1>1, HomesStay DEF Homes, HomeOf
<1>5. /\ Total(withheld, S) \in Nat /\ Total(Emptied(from), S) \in Nat
      /\ feePool[m] \in Nat /\ amount[dest] \in Nat
  BY <1>3, TotalNat, U64Facts DEF LedgerTypeOK
<1>6. Owes[m] = Total(withheld, S) + feePool[m]
  BY DEF Owes, OwedBy, WithheldOf
<1> HIDE DEF S, from, sum
<1>7. Total(withheld', S) + feePool'[m] = Owes[m] - sum
  BY <1>1, <1>2, <1>5, <1>6
<1>8. Owes' = [Owes EXCEPT ![m] = Owes[m] - sum]
  BY <1>1, <1>2, <1>7, OwesOne DEF S
<1>9. sum <= Owes[m] /\ sum \in 0 .. MaxU64
  BY <1>1, <1>2, <1>5, <1>6, BoundsAreNatural
<1>10. Ledger!PayOut(dest, m, sum)
  BY <1>1, <1>4, <1>8, <1>9 DEF Ledger!PayOut, Homes, Owes
<1>11. Ledger!Next  BY <1>9, <1>10 DEF Ledger!Next
<1>12. QED  BY <1>8, <1>11 DEF sum, from

\* Harvesting to the mint leaves what the mint owes as it is.
LEMMA HarvestIsStutter ==
    ASSUME LedgerTypeOK, UNCHANGED account, NEW m \in Mints,
           NEW sources \in SUBSET Accounts,
           \A s \in sources : Open(s), HarvestFees(m, sources)
    PROVE  UNCHANGED <<Homes, amount, Owes, supply>>
<1> DEFINE S    == AccountsOf(m)
           from == Harvestable(m, sources)
           sum  == Total(withheld, from)
<1>1. /\ feePool' = [feePool EXCEPT ![m] = @ + sum]
      /\ withheld' = Emptied(from)
      /\ supply' = supply /\ amount' = amount
  BY DEF HarvestFees
<1>2. /\ sum \in Nat
      /\ Total(Emptied(from), S) = Total(withheld, S) - sum
      /\ \A q \in Mints \ {m} :
            Total(Emptied(from), AccountsOf(q)) = Total(withheld, AccountsOf(q))
  BY HarvestableOwn
<1>3. S \in SUBSET Accounts  BY AccountsOfFacts
<1>4. Total(withheld, S) \in Nat /\ feePool[m] \in Nat
  BY <1>3, TotalNat, U64Facts DEF LedgerTypeOK
<1>5. Owes[m] = Total(withheld, S) + feePool[m]
  BY DEF Owes, OwedBy, WithheldOf
<1> HIDE DEF S, from, sum
<1>6. /\ feePool'[m] = feePool[m] + sum
      /\ \A q \in Mints \ {m} : feePool'[q] = feePool[q]
  BY <1>1 DEF LedgerTypeOK
<1>7. Total(withheld', S) + feePool'[m] = Owes[m]
  BY <1>1, <1>2, <1>4, <1>5, <1>6
<1>8. Owes' = [Owes EXCEPT ![m] = Owes[m]]
  BY <1>1, <1>2, <1>6, <1>7, OwesOne DEF S
<1>9. Owes' = Owes  BY <1>8 DEF Owes
<1>10. QED  BY <1>1, <1>9, HomesStay

\* Withdrawing the pool of a mint pays out what is in it.
LEMMA PoolIsPayOut ==
    ASSUME LedgerTypeOK, UNCHANGED account, NEW m \in Mints, NEW dest \in Accounts,
           Open(dest), NEW w, CollectPool(m, dest, w)
    PROVE  /\ Ledger!Next
           /\ Owes' = [Owes EXCEPT ![m] = Owes[m] - feePool[m]]
<1> DEFINE S == AccountsOf(m)
<1>1. /\ account[dest].mint = m
      /\ amount' = [amount EXCEPT ![dest] = @ + feePool[m]]
      /\ feePool' = [feePool EXCEPT ![m] = 0]
      /\ supply' = supply /\ withheld' = withheld
  BY DEF CollectPool
<1>2. Homes[dest] = m /\ Homes' = Homes
  BY <1>1, HomesStay DEF Homes, HomeOf
<1>3. S \in SUBSET Accounts  BY AccountsOfFacts
<1>4. /\ Total(withheld, S) \in Nat /\ feePool[m] \in Nat
      /\ feePool[m] \in 0 .. MaxU64
  BY <1>3, TotalNat, U64Facts DEF LedgerTypeOK, U64
<1>5. Owes[m] = Total(withheld, S) + feePool[m]
  BY DEF Owes, OwedBy, WithheldOf
<1> HIDE DEF S
<1>6. feePool'[m] = 0 /\ \A q \in Mints \ {m} : feePool'[q] = feePool[q]
  BY <1>1 DEF LedgerTypeOK
<1>7. Total(withheld', S) + feePool'[m] = Owes[m] - feePool[m]
  BY <1>1, <1>4, <1>5, <1>6
<1>8. Owes' = [Owes EXCEPT ![m] = Owes[m] - feePool[m]]
  BY <1>1, <1>6, <1>7, OwesOne DEF S
<1>9. feePool[m] <= Owes[m]  BY <1>4, <1>5
<1>10. Ledger!PayOut(dest, m, feePool[m])
  BY <1>1, <1>2, <1>8, <1>9 DEF Ledger!PayOut, Homes, Owes
<1>11. QED  BY <1>4, <1>8, <1>10 DEF Ledger!Next

\* Each effect is one movement, or none.
LEMMA EffectIsMovement ==
    ASSUME LedgerInv, NEW m \in Mints, Effect(m)
    PROVE  Ledger!Next \/ UNCHANGED <<Homes, amount, Owes, supply>>
<1>0. /\ LedgerTypeOK /\ mint[m] \in MintState /\ UNCHANGED account
      /\ \A w \in Wallets : Ata(w, m) \in Accounts
  BY TypeOfLedger, AddressKinds DEF LedgerInv, Effect
<1>1. CASE Transferred(m)  BY <1>0, <1>1, TransferIsMove DEF Transferred
<1>2. CASE Minted(m)  BY <1>0, <1>2, MintIsIssue DEF Minted
<1>3. CASE Burned(m)  BY <1>0, <1>3, BurnIsRedeem DEF Burned
<1>4. CASE Collected(m)  BY <1>0, <1>4, CollectIsPayOut DEF Collected
<1>5. CASE Harvested(m)  BY <1>0, <1>5, HarvestIsStutter DEF Harvested
<1>6. CASE PoolCollected(m)  BY <1>0, <1>6, PoolIsPayOut DEF PoolCollected
<1>7. QED  BY <1>1, <1>2, <1>3, <1>4, <1>5, <1>6 DEF Effect

-----------------------------------------------------------------------------
(* A quiet step is a holder taking its currency, or none.                  *)

\* Closing a mint and creating one leave what is owed as it is: nothing is.
LEMMA QuietOwes ==
    ASSUME LedgerInv, Quiet
    PROVE  Owes' = Owes
<1>1. withheld' = withheld /\ feePool' = feePool  BY DEF Quiet, ledger
<1>2. ASSUME NEW m \in Mints PROVE OwedBy(m)' = OwedBy(m)
  <2>1. Total(withheld, AccountsOf(m)') = Total(withheld, AccountsOf(m))
    BY OpenedTotals DEF Quiet, LedgerInv
  <2>2. OwedBy(m)' = Total(withheld', AccountsOf(m)') + feePool'[m]
    BY DEF OwedBy, WithheldOf, Total
  <2>3. QED  BY <1>1, <2>1, <2>2 DEF OwedBy, WithheldOf
<1>3. QED  BY <1>2 DEF Owes

\* At most one account opens, which was no holder before.
LEMMA QuietIsTake ==
    ASSUME LedgerInv, TypeOK', Quiet
    PROVE  Ledger!Next \/ UNCHANGED <<Homes, amount, Owes, supply>>
<1>1. amount' = amount /\ supply' = supply  BY DEF Quiet, ledger
<1>2. CASE \A a \in Accounts : HomeOf(a)' = HomeOf(a)
  <2>1. Homes' = Homes  BY <1>2 DEF Homes
  <2>2. QED  BY <1>1, <2>1, QuietOwes
<1>3. ASSUME NEW a \in Accounts, HomeOf(a)' # HomeOf(a)
      PROVE  Ledger!Next
  <2>1. ~Open(a) /\ account'[a] # Absent
    BY <1>3 DEF Quiet, HomeOf, Open
  <2>2. amount[a] = 0 /\ HomeOf(a) = Absent
    BY <2>1 DEF LedgerInv, UnopenedEmpty, HomeOf
  <2>3. account'[a] \in AccountState  BY <2>1 DEF TypeOK
  <2>4. PICK c \in Mints : HomeOf(a)' = c
    BY <2>1, <2>3 DEF HomeOf, Open, AccountState
  <2>5. \A b \in Accounts \ {a} : account'[b] = account[b]
    BY <2>1 DEF Quiet, Open
  <2>6. \A b \in Accounts \ {a} : HomeOf(b)' = HomeOf(b)
    BY <2>5 DEF HomeOf, Open
  <2>7. Homes[a] = Absent /\ Homes' = [Homes EXCEPT ![a] = c]
    BY <2>2, <2>4, <2>6 DEF Homes
  <2>8. Ledger!TakeCurrency(a, c)
    BY <1>1, <2>2, <2>7, QuietOwes DEF Ledger!TakeCurrency, Homes, Owes
  <2>9. QED  BY <2>8 DEF Ledger!Next
<1>4. QED  BY <1>2, <1>3

-----------------------------------------------------------------------------
(* The theorem.                                                            *)

\* Before anything exists nobody holds and nothing is owed.
LEMMA InitIsEmptyLedger ==
    ASSUME Init
    PROVE  Ledger!Init
<1>1. \A m \in Mints : AccountsOf(m) = {}  BY DEF Init, AccountsOf, Open
<1>2. Total(withheld, {}) = 0  BY SumZero, BoundsAreNatural DEF Total
<1>3. \A m \in Mints : OwedBy(m) = 0
  BY <1>1, <1>2 DEF Init, OwedBy, WithheldOf
<1>4. \A a \in Accounts : HomeOf(a) = Absent  BY DEF Init, HomeOf, Open
<1>5. QED  BY <1>3, <1>4 DEF Init, Ledger!Init

\* Every step of the system is a step of the ledger or leaves it as it is.
LEMMA StepIsMovement ==
    ASSUME LedgerInv, [Next]_vars
    PROVE  [Ledger!Next]_(Ledger!ledgerVars)
<1>1. TypeOK'  BY NextType DEF LedgerInv
<1>2. Ledger!Next \/ UNCHANGED <<Homes, amount, Owes, supply>>
  BY <1>1, StepKinds, QuietIsTake, EffectIsMovement
<1>3. QED  BY <1>2 DEF Ledger!ledgerVars, Homes, Owes

\* The instructions implement the abstract ledger, for any number of wallets,
\* mints and accounts: whatever is created, closed, created again at the same
\* address, reallocated or paid for on the way, tokens are only issued, redeemed,
\* moved within their mint, or paid out of the fees it owes.
THEOREM ImplementsLedger == Spec => IsTokenLedger
<1>1. Init => Ledger!Init  BY InitIsEmptyLedger
<1>2. LedgerInv /\ [Next]_vars => [Ledger!Next]_(Ledger!ledgerVars)
  BY StepIsMovement
<1>3. QED
  BY <1>1, <1>2, LedgerInvariant, PTL DEF Spec, IsTokenLedger, Ledger!Spec

-----------------------------------------------------------------------------
(* Who may take tokens out of an account.                                  *)

\* Every account that loses tokens does so under a signature that may take them.
DebitsAllowed ==
    \A a \in Accounts : Debited(a) =>
        \E w \in tx'.signers : MayDebit(account[a].mint, a, w)

\* An account that gains what another loses gets the memo it asks for.
MemosGiven ==
    \A a, b \in Accounts : account[a].memo /\ Credited(a) /\ Debited(b) => tx'.memo

\* Where no account loses anything there is nothing to show.
LEMMA NoDebits ==
    ASSUME \A a \in Accounts : ~Debited(a)
    PROVE  DebitsAllowed /\ MemosGiven
BY DEF DebitsAllowed, MemosGiven

\* Amounts that stay, or grow, are no debits.
LEMMA SameAmounts ==
    ASSUME LedgerTypeOK, amount' = amount
    PROVE  DebitsAllowed /\ MemosGiven
<1>1. \A a \in Accounts : amount[a] \in Nat  BY U64Facts DEF LedgerTypeOK
<1>2. QED  BY <1>1, NoDebits DEF Debited

\* An account that receives tokens loses none, nor does any other.
LEMMA OneCredit ==
    ASSUME LedgerTypeOK, NEW x \in Accounts, NEW n \in Nat,
           amount' = [amount EXCEPT ![x] = @ + n]
    PROVE  DebitsAllowed /\ MemosGiven
<1>1. \A a \in Accounts : amount[a] \in Nat  BY U64Facts DEF LedgerTypeOK
<1>2. \A a \in Accounts : amount'[a] = IF a = x THEN amount[a] + n ELSE amount[a]
  BY DEF LedgerTypeOK
<1>3. QED  BY <1>1, <1>2, NoDebits DEF Debited

\* A transfer takes tokens out of one account, under a signature that may, and
\* adds to one account, with the memo it asks for.
LEMMA TransferDebits ==
    ASSUME LedgerTypeOK, NEW m \in Mints, mint[m] \in MintState,
           NEW from \in Accounts, NEW to \in Accounts, NEW w, NEW n \in U64,
           NEW memo, NEW hooked,
           TransferChecked(m, from, to, w, n, memo, hooked),
           tx'.signers = {w}, memo => tx'.memo
    PROVE  DebitsAllowed /\ MemosGiven
<1> DEFINE fee == Fee(mint[m], n)
<1>1. /\ account[from].mint = m
      /\ MayDebit(m, from, w) /\ (account[to].memo => memo)
  BY DEF TransferChecked, TransferAllowed
<1>2. CASE from = to /\ UNCHANGED <<amount, withheld>>
  BY <1>2, SameAmounts
<1>3. CASE /\ from # to /\ fee <= n
           /\ amount' = [amount EXCEPT ![from] = @ - n, ![to] = @ + (n - fee)]
  <2>1. fee \in Nat /\ n \in Nat  BY FeeNat, U64Facts
  <2>2. \A a \in Accounts : amount[a] \in Nat  BY U64Facts DEF LedgerTypeOK
  <2>3. /\ amount'[from] = amount[from] - n
        /\ amount'[to] = amount[to] + (n - fee)
        /\ \A a \in Accounts \ {from, to} : amount'[a] = amount[a]
    BY <1>3 DEF LedgerTypeOK
  <2> HIDE DEF fee
  <2>4. \A a \in Accounts : Debited(a) => a = from
    BY <1>3, <2>1, <2>2, <2>3 DEF Debited
  <2>5. ASSUME NEW a \in Accounts, a # to PROVE ~Credited(a)
    <3>1. CASE a = from
      BY <2>1, <2>2, <2>3, <3>1 DEF Credited
    <3>2. CASE a # from
      BY <2>2, <2>3, <2>5, <3>2 DEF Credited
    <3>3. QED  BY <3>1, <3>2
  <2>6. QED  BY <1>1, <2>4, <2>5 DEF DebitsAllowed, MemosGiven
<1>4. QED  BY <1>2, <1>3 DEF TransferChecked

\* A burn takes tokens out of one account, under a signature that may.
LEMMA BurnDebits ==
    ASSUME LedgerTypeOK, NEW m \in Mints, NEW from \in Accounts, NEW w,
           NEW n \in U64, BurnTokens(m, from, w, n), tx'.signers = {w}
    PROVE  DebitsAllowed /\ MemosGiven
<1>1. /\ account[from].mint = m /\ MayDebit(m, from, w)
      /\ amount' = [amount EXCEPT ![from] = @ - n]
  BY DEF BurnTokens
<1>2. \A a \in Accounts : amount[a] \in Nat  BY U64Facts DEF LedgerTypeOK
<1>3. n \in Nat  BY U64Facts
<1>4. \A a \in Accounts : amount'[a] = IF a = from THEN amount[a] - n ELSE amount[a]
  BY <1>1 DEF LedgerTypeOK
<1>5. \A a \in Accounts : ~Credited(a)  BY <1>2, <1>3, <1>4 DEF Credited
<1>6. \A a \in Accounts : Debited(a) => a = from  BY <1>2, <1>4 DEF Debited
<1>7. QED  BY <1>1, <1>5, <1>6 DEF DebitsAllowed, MemosGiven

-----------------------------------------------------------------------------
(* Every step.                                                             *)

\* The instructions that mint, move and burn tokens respect both.
LEMMA TokenStepDebits ==
    ASSUME LedgerInv, TokenStep
    PROVE  DebitsAllowed /\ MemosGiven
<1> PICK m \in Mints, w \in Wallets, n \in U64 :
        \/ MintTo(m, w, n)
        \/ \E from \in Accounts : BurnCpi(m, from, w, n)
        \/ \E to \in Accounts :
               \/ \E fee \in U64 : TransferTo(m, w, to, n, fee)
               \/ MemoTransfer(m, w, to, n)
        \/ \E from, to \in Accounts :
               \/ \E badWallet \in Wallets :
                      TransferToken(m, from, to, w, badWallet, n)
               \/ TransferHookToken(m, from, to, w, n)
  BY DEF TokenStep
<1>0. /\ LedgerTypeOK /\ Ata(w, m) \in Accounts /\ n \in Nat
      /\ Live(m) => mint[m] \in MintState
  BY TypeOfLedger, AddressKinds, U64Facts DEF LedgerInv
<1>1. CASE MintTo(m, w, n)
  BY <1>0, <1>1, OneCredit DEF MintTo, MintTokens
<1>2. CASE \E from \in Accounts : BurnCpi(m, from, w, n)
  BY <1>0, <1>2, BurnDebits DEF BurnCpi, Signed
<1>3. ASSUME NEW to \in Accounts, NEW fee \in U64, TransferTo(m, w, to, n, fee)
      PROVE  DebitsAllowed /\ MemosGiven
  BY <1>0, <1>3, TransferDebits DEF TransferTo, Signed
<1>4. ASSUME NEW to \in Accounts, MemoTransfer(m, w, to, n)
      PROVE  DebitsAllowed /\ MemosGiven
  BY <1>0, <1>4, TransferDebits DEF MemoTransfer, SignedWithMemo
<1>5. ASSUME NEW from \in Accounts, NEW to \in Accounts, NEW bad \in Wallets,
             TransferToken(m, from, to, w, bad, n)
      PROVE  DebitsAllowed /\ MemosGiven
  BY <1>0, <1>5, TransferDebits DEF TransferToken, Signed
<1>6. ASSUME NEW from \in Accounts, NEW to \in Accounts,
             TransferHookToken(m, from, to, w, n)
      PROVE  DebitsAllowed /\ MemosGiven
  BY <1>0, <1>6, TransferDebits DEF TransferHookToken, Signed
<1>7. QED  BY <1>1, <1>2, <1>3, <1>4, <1>5, <1>6

\* The instructions that gather fees lower no account's amount.
LEMMA FeeStepDebits ==
    ASSUME LedgerInv, FeeStep
    PROVE  DebitsAllowed /\ MemosGiven
<1> PICK m \in Mints :
        \/ \E remaining \in SUBSET (Accounts \cup Lookalikes) :
               \/ \E w \in Wallets : WithdrawWithheldAccount(m, w, remaining)
               \/ HarvestWithheldToken(m, remaining)
        \/ \E w \in Wallets : WithdrawWithheldMint(m, w)
  BY DEF FeeStep
<1>0. LedgerTypeOK  BY TypeOfLedger DEF LedgerInv
<1>1. ASSUME NEW remaining \in SUBSET (Accounts \cup Lookalikes), NEW w \in Wallets,
             WithdrawWithheldAccount(m, w, remaining)
      PROVE  DebitsAllowed /\ MemosGiven
  <2> DEFINE sum == Total(withheld, Harvestable(m, FilterSources(remaining)))
  <2>1. FilterSources(remaining) \in SUBSET Accounts  BY DEF FilterSources
  <2>2. sum \in Nat  BY <1>0, <2>1, EmptiedType
  <2>3. amount' = [amount EXCEPT ![Ata(w, m)] = @ + sum] /\ Ata(w, m) \in Accounts
    BY <1>1, AddressKinds DEF WithdrawWithheldAccount, CollectFees
  <2> HIDE DEF sum
  <2>4. QED  BY <1>0, <2>2, <2>3, OneCredit
<1>2. ASSUME NEW remaining \in SUBSET (Accounts \cup Lookalikes),
             HarvestWithheldToken(m, remaining)
      PROVE  DebitsAllowed /\ MemosGiven
  BY <1>0, <1>2, SameAmounts DEF HarvestWithheldToken, HarvestFees
<1>3. ASSUME NEW w \in Wallets, WithdrawWithheldMint(m, w)
      PROVE  DebitsAllowed /\ MemosGiven
  <2>1. feePool[m] \in Nat /\ Ata(w, m) \in Accounts
          /\ amount' = [amount EXCEPT ![Ata(w, m)] = @ + feePool[m]]
    BY <1>0, <1>3, AddressKinds, U64Facts
    DEF WithdrawWithheldMint, CollectPool, LedgerTypeOK
  <2>2. QED  BY <1>0, <2>1, OneCredit
<1>4. QED  BY <1>1, <1>2, <1>3

\* Every step of the system respects both.
LEMMA NextDebits ==
    ASSUME LedgerInv, [Next]_vars
    PROVE  DebitsAllowed /\ MemosGiven
<1>0. LedgerTypeOK /\ TypeOK  BY TypeOfLedger DEF LedgerInv
<1>1. CASE \/ CreateMintStep \/ ChangeMintStep
           \/ AccountStep \/ MetadataStep
  <2>1. Quiet
    BY <1>0, <1>1, CreateMintStepQuiet, ChangeMintStepQuiet,
       AccountStepQuiet, MetadataStepQuiet
  <2>2. QED  BY <1>0, <2>1, SameAmounts DEF Quiet, ledger
<1>2. CASE TokenStep  BY <1>2, TokenStepDebits
<1>3. CASE FeeStep  BY <1>3, FeeStepDebits
<1>4. CASE ClientStep
  <2> PICK a \in Accounts, w \in Wallets :
          \/ EnableCpiGuard(a, w)
          \/ \E m \in Mints, n \in U64 : ClientMintTo(m, w, a, n)
    BY <1>4 DEF ClientStep
  <2>1. CASE EnableCpiGuard(a, w)
    BY <1>0, <2>1, SameAmounts DEF EnableCpiGuard, ledger
  <2>2. ASSUME NEW m \in Mints, NEW n \in U64, ClientMintTo(m, w, a, n)
        PROVE  DebitsAllowed /\ MemosGiven
    BY <1>0, <2>2, U64Facts, OneCredit DEF ClientMintTo, MintTokens
  <2>3. QED  BY <2>1, <2>2
<1>5. CASE UNCHANGED vars  BY <1>0, <1>5, SameAmounts DEF vars
<1>6. QED  BY <1>1, <1>2, <1>3, <1>4, <1>5 DEF Next

-----------------------------------------------------------------------------
(* The theorems.                                                           *)

\* Nobody loses tokens unless the owner or the permanent delegate of the mint
\* signed, whichever instruction runs.
THEOREM DebitsAreSigned == Spec => DebitsSigned
<1>1. LedgerInv /\ [Next]_vars =>
        [\A a \in Accounts : Debited(a) =>
            \/ account[a].owner \in tx'.signers
            \/ mint[account[a].mint].delegate \in tx'.signers]_vars
  BY NextDebits DEF DebitsAllowed, MayDebit
<1>2. QED  BY <1>1, LedgerInvariant, PTL DEF Spec, DebitsSigned

\* A locked CPI guard stops every instruction of the program, for everyone but
\* the permanent delegate.
THEOREM GuardAlwaysHolds == Spec => GuardHolds
<1>1. LedgerInv /\ [Next]_vars =>
        [\A a \in Accounts :
            Open(a) /\ account[a].guard /\ Debited(a) =>
                mint[account[a].mint].delegate \in tx'.signers]_vars
  BY NextDebits DEF DebitsAllowed, MayDebit
<1>2. QED  BY <1>1, LedgerInvariant, PTL DEF Spec, GuardHolds

\* An account that requires memos never receives tokens from another account
\* without one.
THEOREM MemoAlwaysHonoured == Spec => MemoHonoured
<1>1. LedgerInv /\ [Next]_vars =>
        [\A a, b \in Accounts :
            Open(a) /\ account[a].memo /\ Credited(a) /\ Debited(b) => tx'.memo]_vars
  BY NextDebits DEF MemosGiven
<1>2. QED  BY <1>1, LedgerInvariant, PTL DEF Spec, MemoHonoured

-----------------------------------------------------------------------------
(* Fees go to the withdraw authority.                                      *)

\* What FeesGoToAuthority says of one mint.
PaidToAuthority(m) ==
    LET gone == (WithheldOf(m) + feePool[m]) - (WithheldOf(m)' + feePool'[m])
    IN  gone > 0 =>
          \E w \in Wallets :
              /\ mint[m].withdraw = w /\ w \in tx'.signers
              /\ amount' = [amount EXCEPT ![Ata(w, m)] = @ + gone]

\* What a mint owes is a natural number.
LEMMA OwedNat ==
    ASSUME LedgerTypeOK, NEW m \in Mints
    PROVE  OwedBy(m) \in Nat
<1>1. AccountsOf(m) \in SUBSET Accounts  BY AccountsOfFacts
<1>2. WithheldOf(m) \in Nat  BY <1>1, TotalNat DEF WithheldOf
<1>3. feePool[m] \in Nat  BY U64Facts DEF LedgerTypeOK
<1>4. QED  BY <1>2, <1>3 DEF OwedBy

\* A mint that owes as much as before, or more, paid nothing out.
LEMMA NothingPaid ==
    ASSUME LedgerTypeOK, NEW m \in Mints, NEW k \in Nat, OwedBy(m)' = OwedBy(m) + k
    PROVE  PaidToAuthority(m)
<1>1. OwedBy(m) \in Nat  BY OwedNat
<1>2. ~(OwedBy(m) - OwedBy(m)' > 0)  BY <1>1
<1>3. ~((WithheldOf(m) + feePool[m]) - (WithheldOf(m)' + feePool'[m]) > 0)
  BY <1>2 DEF OwedBy
<1>4. QED  BY ONLY <1>3 DEF PaidToAuthority

\* What the authority's account gains is what the mint no longer owes.
LEMMA AllPaid ==
    ASSUME LedgerTypeOK, NEW m \in Mints, NEW w \in Wallets, NEW k \in Nat,
           OwedBy(m)' = OwedBy(m) - k,
           mint[m].withdraw = w, w \in tx'.signers,
           amount' = [amount EXCEPT ![Ata(w, m)] = @ + k]
    PROVE  PaidToAuthority(m)
<1>1. OwedBy(m) \in Nat  BY OwedNat
<1>2. OwedBy(m) - OwedBy(m)' = k  BY <1>1
<1>3. (WithheldOf(m) + feePool[m]) - (WithheldOf(m)' + feePool'[m]) = k
  BY <1>2 DEF OwedBy
<1>4. QED  BY <1>3 DEF PaidToAuthority

\* The other mints owe what they owed.
LEMMA OthersUnpaid ==
    ASSUME LedgerTypeOK, NEW m \in Mints, NEW v, Owes' = [Owes EXCEPT ![m] = v]
    PROVE  /\ OwedBy(m)' = v
           /\ \A q \in Mints \ {m} : PaidToAuthority(q)
<1>1. Owes'[m] = v /\ \A q \in Mints \ {m} : Owes'[q] = Owes[q]  BY DEF Owes
<1>2. OwedBy(m)' = v  BY <1>1 DEF Owes
<1>3. ASSUME NEW q \in Mints \ {m} PROVE PaidToAuthority(q)
  <2>1. OwedBy(q)' = OwedBy(q)  BY <1>1 DEF Owes
  <2>2. OwedBy(q) \in Nat  BY OwedNat
  <2>3. OwedBy(q)' = OwedBy(q) + 0  BY <2>1, <2>2
  <2>4. QED  BY <2>3, NothingPaid
<1>4. QED  BY <1>2, <1>3

\* Where what is owed stays, nothing was paid.
LEMMA OwesStayPaid ==
    ASSUME LedgerTypeOK, Owes' = Owes
    PROVE  \A q \in Mints : PaidToAuthority(q)
<1> SUFFICES ASSUME NEW q \in Mints PROVE PaidToAuthority(q)  OBVIOUS
<1>1. OwedBy(q)' = OwedBy(q)  BY DEF Owes
<1>2. OwedBy(q)' = OwedBy(q) + 0  BY <1>1, OwedNat
<1>3. QED  BY <1>2, NothingPaid

\* Every effect pays fees to nobody but the authority.
LEMMA EffectPays ==
    ASSUME LedgerInv, NEW m \in Mints, Effect(m), NEW q \in Mints
    PROVE  PaidToAuthority(q)
<1>0. /\ LedgerTypeOK /\ mint[m] \in MintState /\ UNCHANGED account
      /\ \A w \in Wallets : Ata(w, m) \in Accounts
      /\ OwedBy(m) \in Nat /\ Owes[m] = OwedBy(m)
  BY TypeOfLedger, AddressKinds, OwedNat DEF LedgerInv, Effect, Owes
<1>1. CASE Transferred(m)
  <2>1. PICK from \in Accounts, to \in Accounts, w \in Wallets, n \in U64,
             memo \in BOOLEAN, hooked \in BOOLEAN :
                TransferChecked(m, from, to, w, n, memo, hooked)
    BY <1>1 DEF Transferred
  <2>2. \/ Owes' = Owes
        \/ Owes' = [Owes EXCEPT ![m] = Owes[m] + Fee(mint[m], n)]
    BY <1>0, <2>1, TransferIsMove
  <2>3. CASE Owes' = Owes  BY <1>0, <2>3, OwesStayPaid
  <2>4. CASE Owes' = [Owes EXCEPT ![m] = Owes[m] + Fee(mint[m], n)]
    <3>1. /\ OwedBy(m)' = OwedBy(m) + Fee(mint[m], n)
          /\ \A r \in Mints \ {m} : PaidToAuthority(r)
      BY <1>0, <2>4, OthersUnpaid
    <3>2. PaidToAuthority(m)  BY <1>0, <3>1, FeeNat, NothingPaid
    <3>3. QED  BY <3>1, <3>2
  <2>5. QED  BY <2>2, <2>3, <2>4
<1>2. CASE Minted(m) \/ Burned(m)
  <2>1. Owes' = Owes  BY <1>0, <1>2, OwesStay DEF Minted, Burned, MintTokens, BurnTokens
  <2>2. QED  BY <1>0, <2>1, OwesStayPaid
<1>3. CASE Collected(m)
  <2>1. PICK w \in Wallets, sources \in SUBSET Accounts :
            /\ Open(Ata(w, m)) /\ \A s \in sources : Open(s)
            /\ CollectFees(m, Ata(w, m), w, sources)
            /\ w \in tx'.signers
    BY <1>3 DEF Collected
  <2> DEFINE sum == Total(withheld, Harvestable(m, sources))
  <2>2. Owes' = [Owes EXCEPT ![m] = Owes[m] - sum]
    BY <1>0, <2>1, CollectIsPayOut
  <2>3. sum \in Nat  BY <1>0, <2>1, HarvestableOwn
  <2>4. mint[m].withdraw = w /\ amount' = [amount EXCEPT ![Ata(w, m)] = @ + sum]
    BY <2>1 DEF CollectFees
  <2> HIDE DEF sum
  <2>5. /\ OwedBy(m)' = OwedBy(m) - sum
        /\ \A r \in Mints \ {m} : PaidToAuthority(r)
    BY <1>0, <2>2, OthersUnpaid
  <2>6. PaidToAuthority(m)  BY <1>0, <2>1, <2>3, <2>4, <2>5, AllPaid
  <2>7. QED  BY <2>5, <2>6
<1>4. CASE Harvested(m)
  <2>1. Owes' = Owes  BY <1>0, <1>4, HarvestIsStutter DEF Harvested
  <2>2. QED  BY <1>0, <2>1, OwesStayPaid
<1>5. CASE PoolCollected(m)
  <2>1. PICK w \in Wallets :
            /\ Open(Ata(w, m)) /\ CollectPool(m, Ata(w, m), w)
            /\ w \in tx'.signers
    BY <1>5 DEF PoolCollected
  <2>2. Owes' = [Owes EXCEPT ![m] = Owes[m] - feePool[m]]
    BY <1>0, <2>1, PoolIsPayOut
  <2>3. feePool[m] \in Nat  BY <1>0, U64Facts DEF LedgerTypeOK
  <2>4. mint[m].withdraw = w
          /\ amount' = [amount EXCEPT ![Ata(w, m)] = @ + feePool[m]]
    BY <2>1 DEF CollectPool
  <2>5. /\ OwedBy(m)' = OwedBy(m) - feePool[m]
        /\ \A r \in Mints \ {m} : PaidToAuthority(r)
    BY <1>0, <2>2, OthersUnpaid
  <2>6. PaidToAuthority(m)  BY <1>0, <2>1, <2>3, <2>4, <2>5, AllPaid
  <2>7. QED  BY <2>5, <2>6
<1>6. QED  BY <1>1, <1>2, <1>3, <1>4, <1>5 DEF Effect

\* Every step pays fees to nobody but the authority of their mint.
LEMMA StepPays ==
    ASSUME LedgerInv, [Next]_vars
    PROVE  \A m \in Mints : PaidToAuthority(m)
<1>1. CASE Quiet
  <2>1. LedgerTypeOK  BY TypeOfLedger DEF LedgerInv
  <2>2. QED  BY <1>1, <2>1, QuietOwes, OwesStayPaid
<1>2. QED  BY <1>1, StepKinds, EffectPays

\* Withheld tokens leave the accounts and the pool of a mint only for the account
\* of its withdraw authority, who signed, and in full.
THEOREM FeesAlwaysGoToAuthority == Spec => FeesGoToAuthority
<1>1. LedgerInv /\ [Next]_vars =>
        [\A m \in Mints :
            LET gone == (WithheldOf(m) + feePool[m])
                          - (WithheldOf(m)' + feePool'[m])
            IN  gone > 0 =>
                  \E w \in Wallets :
                      /\ mint[m].withdraw = w /\ w \in tx'.signers
                      /\ amount' = [amount EXCEPT ![Ata(w, m)] = @ + gone]]_vars
  BY StepPays DEF PaidToAuthority
<1>2. QED  BY <1>1, LedgerInvariant, PTL DEF Spec, FeesGoToAuthority

-----------------------------------------------------------------------------
(* A transaction touches one mint.                                         *)

\* An effect on one mint leaves the tokens of the others alone, whatever accounts
\* the list of sources mixes.
LEMMA EffectTouchesOne ==
    ASSUME LedgerInv, NEW m \in Mints, Effect(m), NEW q \in Mints \ {m}
    PROVE  ~Touched(q)
<1>0. /\ LedgerTypeOK
      /\ \A w \in Wallets : Ata(w, m) \in Accounts
      /\ AccountsOf(q) \subseteq Accounts
      /\ \A a \in Accounts : Open(a) /\ account[a].mint = m => a \notin AccountsOf(q)
  BY TypeOfLedger, AddressKinds, OwnAccounts, AccountsOfFacts DEF LedgerInv
<1>1. CASE Transferred(m)
  <2>1. PICK from \in Accounts, to \in Accounts, w \in Wallets, n \in U64,
             memo \in BOOLEAN, hooked \in BOOLEAN :
                TransferChecked(m, from, to, w, n, memo, hooked)
    BY <1>1 DEF Transferred
  <2>2. from \notin AccountsOf(q) /\ to \notin AccountsOf(q)
    BY <1>0, <2>1 DEF TransferChecked, TransferAllowed
  <2>3. \A a \in Accounts \ {from, to} :
            amount'[a] = amount[a] /\ withheld'[a] = withheld[a]
    BY <1>0, <2>1 DEF TransferChecked, LedgerTypeOK
  <2>4. supply' = supply /\ feePool' = feePool  BY <2>1 DEF TransferChecked
  <2>5. QED  BY <1>0, <2>2, <2>3, <2>4 DEF Touched
<1>2. CASE Minted(m)
  BY <1>0, <1>2 DEF Minted, MintTokens, Touched, LedgerTypeOK
<1>3. CASE Burned(m)
  BY <1>0, <1>3 DEF Burned, BurnTokens, Touched, LedgerTypeOK
<1>4. ASSUME NEW sources \in SUBSET Accounts, \A s \in sources : Open(s)
      PROVE  \A a \in AccountsOf(q) :
                 Emptied(Harvestable(m, sources))[a] = withheld[a]
  <2>1. \A a \in AccountsOf(q) : a \notin Harvestable(m, sources)
    BY DEF Harvestable, AccountsOf
  <2>2. QED  BY <1>0, <2>1 DEF Emptied
<1>5. CASE Collected(m)
  <2>1. PICK w \in Wallets, sources \in SUBSET Accounts :
            /\ Open(Ata(w, m)) /\ \A s \in sources : Open(s)
            /\ CollectFees(m, Ata(w, m), w, sources)
    BY <1>5 DEF Collected
  <2>2. Ata(w, m) \notin AccountsOf(q)  BY <1>0, <2>1 DEF CollectFees
  <2>3. \A a \in Accounts \ {Ata(w, m)} : amount'[a] = amount[a]
    BY <1>0, <2>1 DEF CollectFees, LedgerTypeOK
  <2>4. \A a \in AccountsOf(q) : withheld'[a] = withheld[a]
    BY <1>4, <2>1 DEF CollectFees
  <2>5. supply' = supply /\ feePool' = feePool  BY <2>1 DEF CollectFees
  <2>6. QED  BY <1>0, <2>2, <2>3, <2>4, <2>5 DEF Touched
<1>6. CASE Harvested(m)
  <2>1. PICK sources \in SUBSET Accounts :
            (\A s \in sources : Open(s)) /\ HarvestFees(m, sources)
    BY <1>6 DEF Harvested
  <2>2. \A a \in AccountsOf(q) : withheld'[a] = withheld[a]
    BY <1>4, <2>1 DEF HarvestFees
  <2>3. /\ supply' = supply /\ amount' = amount
        /\ feePool'[q] = feePool[q]
    BY <1>0, <2>1 DEF HarvestFees, LedgerTypeOK
  <2>4. QED  BY <2>2, <2>3 DEF Touched
<1>7. CASE PoolCollected(m)
  <2>1. PICK w \in Wallets :
            Open(Ata(w, m)) /\ CollectPool(m, Ata(w, m), w)
    BY <1>7 DEF PoolCollected
  <2>2. Ata(w, m) \notin AccountsOf(q)  BY <1>0, <2>1 DEF CollectPool
  <2>3. \A a \in Accounts \ {Ata(w, m)} : amount'[a] = amount[a]
    BY <1>0, <2>1 DEF CollectPool, LedgerTypeOK
  <2>4. supply' = supply /\ withheld' = withheld /\ feePool'[q] = feePool[q]
    BY <1>0, <2>1 DEF CollectPool, LedgerTypeOK
  <2>5. QED  BY <1>0, <2>2, <2>3, <2>4 DEF Touched
<1>8. QED  BY <1>1, <1>2, <1>3, <1>5, <1>6, <1>7 DEF Effect

\* Every step touches the tokens of one mint at most.
LEMMA StepTouchesOne ==
    ASSUME LedgerInv, [Next]_vars
    PROVE  \A m1, m2 \in Mints : Touched(m1) /\ Touched(m2) => m1 = m2
<1>1. CASE Quiet
  <2>1. \A m \in Mints : ~Touched(m)  BY <1>1 DEF Quiet, ledger, Touched
  <2>2. QED  BY <2>1
<1>2. ASSUME NEW m \in Mints, Effect(m)
      PROVE  \A m1, m2 \in Mints : Touched(m1) /\ Touched(m2) => m1 = m2
  <2>1. \A q \in Mints \ {m} : ~Touched(q)  BY <1>2, EffectTouchesOne
  <2>2. QED  BY <2>1
<1>3. QED  BY <1>1, <1>2, StepKinds

\* A transaction moves the tokens of one mint only, also when fees are gathered
\* from a list that mixes accounts of several mints.
THEOREM AlwaysOneMintAtATime == Spec => OneMintAtATime
<1>1. LedgerInv /\ [Next]_vars =>
        [\A m1, m2 \in Mints : Touched(m1) /\ Touched(m2) => m1 = m2]_vars
  BY StepTouchesOne
<1>2. QED  BY <1>1, LedgerInvariant, PTL DEF Spec, OneMintAtATime

-----------------------------------------------------------------------------
(* The hook sees every transfer of its mint.                               *)

\* What HookGate says of the account that pays and the one that receives.
Gated(a, b) ==
    /\ account[a].mint \in metaLists
    /\ account[a].owner \in tx'.signers
    /\ account[a].hookExt /\ account[b].hookExt

\* Amounts that only grow debit nobody.
LEMMA NoDebit ==
    ASSUME LedgerTypeOK, NEW x \in Accounts, NEW k \in Nat,
           amount' = [amount EXCEPT ![x] = @ + k]
    PROVE  \A a \in Accounts : ~Debited(a)
<1>1. \A a \in Accounts : amount[a] \in Nat  BY U64Facts DEF LedgerTypeOK
<1>2. \A a \in Accounts : amount'[a] = IF a = x THEN amount[a] + k ELSE amount[a]
  BY DEF LedgerTypeOK
<1>3. QED  BY <1>1, <1>2 DEF Debited

\* Amounts that stay debit nobody.
LEMMA NoDebitUnchanged ==
    ASSUME LedgerTypeOK, amount' = amount
    PROVE  \A a \in Accounts : ~Debited(a)
<1>1. \A a \in Accounts : amount[a] \in Nat  BY U64Facts DEF LedgerTypeOK
<1>2. QED  BY <1>1 DEF Debited

\* Only a transfer takes tokens from one account and gives some to another, and
\* Token-2022 calls the hook on each.
LEMMA EffectGated ==
    ASSUME LedgerInv, NEW m \in Mints, Effect(m),
           NEW a \in Accounts, NEW b \in Accounts,
           Debited(a), Credited(b), HookOf(a) = "transfer_hook"
    PROVE  Gated(a, b)
<1>0. /\ LedgerTypeOK /\ mint[m] \in MintState
      /\ \A w \in Wallets : Ata(w, m) \in Accounts
      /\ \A x \in Accounts : amount[x] \in Nat
      /\ feePool[m] \in Nat /\ \A n \in U64 : n \in Nat
  BY TypeOfLedger, AddressKinds, U64Facts DEF LedgerInv, Effect, LedgerTypeOK
<1>1. CASE Transferred(m)
  <2>1. PICK from \in Accounts, to \in Accounts, w \in Wallets, n \in U64,
             memo \in BOOLEAN, hooked \in BOOLEAN :
                /\ TransferChecked(m, from, to, w, n, memo, hooked)
                /\ hooked => \/ mint[m].hook = "other"
                             \/ m \in metaLists /\ account[from].owner = w
                /\ w \in tx'.signers
    BY <1>1 DEF Transferred
  <2> DEFINE fee == Fee(mint[m], n)
  <2>2. ~UNCHANGED amount  BY <1>0, NoDebitUnchanged
  <2>3. /\ from # to /\ fee <= n
        /\ amount' = [amount EXCEPT ![from] = @ - n, ![to] = @ + (n - fee)]
        /\ AcceptsHook(m, from, to, hooked)
    BY <2>1, <2>2 DEF TransferChecked
  <2>4. account[from].mint = m  BY <2>1 DEF TransferChecked, TransferAllowed
  <2>5. fee \in Nat /\ n \in Nat  BY <1>0, FeeNat
  <2>6. /\ amount'[from] = amount[from] - n
        /\ amount'[to] = amount[to] + (n - fee)
        /\ \A x \in Accounts \ {from, to} : amount'[x] = amount[x]
    BY <1>0, <2>3 DEF LedgerTypeOK
  <2> HIDE DEF fee
  <2>7. a = from
    <3>1. amount[to] \in Nat /\ amount[a] \in Nat /\ amount'[a] < amount[a]
      BY <1>0 DEF Debited
    <3>2. a # to  BY ONLY <2>3, <2>5, <2>6, <3>1
    <3>3. QED  BY ONLY <2>6, <3>1, <3>2, a \in Accounts
  <2>8. b = to
    <3>1. amount[from] \in Nat /\ amount[b] \in Nat /\ amount'[b] > amount[b]
      BY <1>0 DEF Credited
    <3>2. b # from
      <4>1. ~(amount[from] - n > amount[from])  BY ONLY <2>5, <3>1
      <4>2. QED  BY ONLY <2>6, <3>1, <4>1
    <3>3. QED  BY ONLY <2>6, <3>1, <3>2, b \in Accounts
  <2>9. mint[m].hook = "transfer_hook"  BY <2>4, <2>7 DEF HookOf
  <2>10. hooked /\ mint[m].hook # "other"  BY <2>3, <2>9 DEF AcceptsHook
  <2>11. QED  BY <2>1, <2>3, <2>4, <2>7, <2>8, <2>9, <2>10 DEF AcceptsHook, Gated
<1>2. CASE Minted(m)
  BY <1>0, <1>2, NoDebit DEF Minted, MintTokens
<1>3. CASE Burned(m)
  <2>1. PICK from \in Accounts, n \in U64 : amount' = [amount EXCEPT ![from] = @ - n]
    BY <1>3 DEF Burned, BurnTokens
  <2>2. \A x \in Accounts : amount'[x] = IF x = from THEN amount[x] - n ELSE amount[x]
    BY <1>0, <2>1 DEF LedgerTypeOK
  <2>3. \A x \in Accounts : ~Credited(x)  BY <1>0, <2>2 DEF Credited
  <2>4. QED  BY <2>3
<1>4. CASE Collected(m)
  <2>1. PICK w \in Wallets, sources \in SUBSET Accounts :
            /\ \A s \in sources : Open(s)
            /\ CollectFees(m, Ata(w, m), w, sources)
    BY <1>4 DEF Collected
  <2> DEFINE sum == Total(withheld, Harvestable(m, sources))
  <2>2. sum \in Nat  BY <1>0, <2>1, HarvestableOwn
  <2>3. amount' = [amount EXCEPT ![Ata(w, m)] = @ + sum]
    BY <2>1 DEF CollectFees
  <2> HIDE DEF sum
  <2>4. QED  BY <1>0, <2>2, <2>3, NoDebit
<1>5. CASE Harvested(m)
  BY <1>0, <1>5, NoDebitUnchanged DEF Harvested, HarvestFees
<1>6. CASE PoolCollected(m)
  BY <1>0, <1>6, NoDebit DEF PoolCollected, CollectPool
<1>7. QED  BY <1>1, <1>2, <1>3, <1>4, <1>5, <1>6 DEF Effect

\* Tokens of a mint with a hook never move between accounts behind its back.
THEOREM HookAlwaysGates == Spec => HookGate
<1>1. ASSUME LedgerInv, [Next]_vars, NEW a \in Accounts, NEW b \in Accounts,
             Debited(a), Credited(b), HookOf(a) = "transfer_hook"
      PROVE  Gated(a, b)
  <2>1. ~Quiet
    BY <1>1, TypeOfLedger, NoDebitUnchanged DEF LedgerInv, Quiet, ledger
  <2>2. QED  BY <1>1, <2>1, StepKinds, EffectGated
<1>2. LedgerInv /\ [Next]_vars =>
        [\A a, b \in Accounts :
            Debited(a) /\ Credited(b) /\ HookOf(a) = "transfer_hook" =>
                /\ account[a].mint \in metaLists
                /\ account[a].owner \in tx'.signers
                /\ account[a].hookExt /\ account[b].hookExt]_vars
  BY <1>1 DEF Gated
<1>3. QED  BY <1>2, LedgerInvariant, PTL DEF Spec, HookGate

-----------------------------------------------------------------------------
(* Fees can always be gathered.                                            *)

\* An effect on the tokens of m raises what an account withholds only where the
\* account has the extension and the mint charges fees.
LEMMA EffectHarvestable ==
    ASSUME LedgerInv, FeesHarvestable, NEW m \in Mints, Effect(m)
    PROVE  FeesHarvestable'
<1>0. LedgerTypeOK /\ mint[m] \in MintState /\ Live(m) /\ UNCHANGED <<mint, account>>
  BY TypeOfLedger DEF LedgerInv, Effect
<1>1. \A a \in Accounts : withheld[a] \in Nat  BY <1>0, U64Facts DEF LedgerTypeOK
<1>2. ASSUME \A a \in Accounts : withheld'[a] \in {0, withheld[a]}
      PROVE  FeesHarvestable'
  BY <1>0, <1>1, <1>2 DEF FeesHarvestable, Open, Live
<1>3. CASE Transferred(m)
  <2>1. PICK from \in Accounts, to \in Accounts, w \in Wallets, n \in U64,
             memo \in BOOLEAN, hooked \in BOOLEAN :
                TransferChecked(m, from, to, w, n, memo, hooked)
    BY <1>3 DEF Transferred
  <2> DEFINE fee == Fee(mint[m], n)
  <2>2. CASE UNCHANGED withheld  BY <1>2, <2>2
  <2>3. CASE ~UNCHANGED withheld
    <3>1. /\ withheld' = [withheld EXCEPT ![to] = @ + fee]
          /\ AcceptsFee(to, fee) /\ Open(to) /\ account[to].mint = m
      BY <2>1, <2>3 DEF TransferChecked, TransferAllowed
    <3>2. fee \in Nat /\ (fee > 0 => mint[m].hasFee)
      BY <1>0, FeeNat DEF Fee
    <3> HIDE DEF fee
    <3>3. \A a \in Accounts :
             withheld'[a] = IF a = to THEN withheld[a] + fee ELSE withheld[a]
      BY <1>0, <3>1 DEF LedgerTypeOK
    <3>4. CASE fee = 0  BY <1>1, <1>2, <3>3, <3>4
    <3>5. CASE fee > 0
      <4>1. account[to].feeExt /\ mint[m].hasFee
        BY <3>1, <3>2, <3>5 DEF AcceptsFee
      <4>2. ASSUME NEW a \in Accounts, withheld'[a] > 0
            PROVE  /\ Open(a) /\ account[a].feeExt
                   /\ Live(account[a].mint) /\ mint[account[a].mint].hasFee
        <5>1. CASE a = to  BY <1>0, <3>1, <4>1, <5>1
        <5>2. CASE a # to  BY <3>3, <4>2, <5>2 DEF FeesHarvestable
        <5>3. QED  BY <5>1, <5>2
      <4>3. QED  BY <1>0, <4>2 DEF FeesHarvestable, Open, Live
    <3>6. QED  BY <3>2, <3>4, <3>5
  <2>4. QED  BY <2>2, <2>3
<1>4. CASE Minted(m) \/ Burned(m) \/ PoolCollected(m)
  BY <1>2, <1>4 DEF Minted, MintTokens, Burned, BurnTokens, PoolCollected, CollectPool
<1>5. CASE Collected(m) \/ Harvested(m)
  BY <1>2, <1>5, EmptiedUsable DEF Collected, CollectFees, Harvested, HarvestFees
<1>6. QED  BY <1>3, <1>4, <1>5, <1>0 DEF Effect

\* A quiet step leaves them be: a mint with withheld fees has supply, and is not
\* closed.
LEMMA QuietHarvestable ==
    ASSUME LedgerInv, FeesHarvestable, Quiet
    PROVE  FeesHarvestable'
<1>0. LedgerTypeOK /\ Conserved /\ TypeOK  BY TypeOfLedger DEF LedgerInv
<1>1. withheld' = withheld  BY DEF Quiet, ledger
<1>2. SUFFICES ASSUME NEW a \in Accounts, withheld[a] > 0
               PROVE  /\ account'[a] # Absent /\ account'[a].feeExt
                      /\ mint'[account'[a].mint] # Absent
                      /\ mint'[account'[a].mint].hasFee
  BY <1>1 DEF FeesHarvestable, Open, Live
<1>3. /\ Open(a) /\ account[a].feeExt
      /\ Live(account[a].mint) /\ mint[account[a].mint].hasFee
  BY <1>2 DEF FeesHarvestable
<1>4. account[a] \in AccountState  BY <1>0, <1>3 DEF TypeOK, Open
<1>5. account[a].mint \in Mints /\ a \in AccountsOf(account[a].mint)
  BY <1>3, <1>4 DEF AccountState, AccountsOf
<1>6. supply[account[a].mint] # 0
  BY <1>0, <1>2, <1>5, NoSupplyNoTokens
<1>7. QED  BY <1>3, <1>5, <1>6 DEF Quiet

\* Fees never get stuck: an account that withholds tokens has the extension that
\* the fee instructions ask for, and its mint is live and charges fees, also after
\* other mints were closed and created at the same addresses.
THEOREM FeesAlwaysHarvestable == Spec => []FeesHarvestable
<1>1. Init => FeesHarvestable  BY DEF Init, FeesHarvestable
<1>2. LedgerInv /\ FeesHarvestable /\ [Next]_vars => FeesHarvestable'
  BY StepKinds, QuietHarvestable, EffectHarvestable
<1>3. QED  BY <1>1, <1>2, LedgerInvariant, PTL DEF Spec
=============================================================================
