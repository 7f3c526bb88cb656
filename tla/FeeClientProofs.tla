--------------------------- MODULE FeeClientProofs ---------------------------
(***************************************************************************)
(* The clients that gather fees, for every value of the constants and      *)
(* whatever instructions others send meanwhile: a list stays good for ever,*)
(* and the transaction that brings it gathers all of it.  The list cannot  *)
(* go bad because an account keeps its mint and its extensions, and a mint *)
(* that charges fees has no close authority.                               *)
(***************************************************************************)
EXTENDS RentProofs, StepProofs, FeeClient

-----------------------------------------------------------------------------
(* A mint that charges fees, or freezes accounts, is there to stay.        *)

LastingMints == \A q \in Mints : Live(q) => Lasting(mint[q])

MintsStay ==
    /\ LastingMints'
    /\ \A q \in Mints : Live(q) /\ mint[q].close = NoOne =>
           /\ mint'[q] # Absent
           /\ mint'[q].close = NoOne
           /\ mint'[q].hasFee = mint[q].hasFee

\* The close authority is decided when a mint is created, and nobody can close a
\* mint that has none.
LEMMA KeptMintsStay ==
    ASSUME LastingMints, MintsKept
    PROVE  MintsStay
<1>1. ASSUME NEW q \in Mints
      PROVE  /\ mint'[q] # Absent => Lasting(mint'[q])
             /\ Live(q) /\ mint[q].close = NoOne =>
                    /\ mint'[q] # Absent
                    /\ mint'[q].close = NoOne
                    /\ mint'[q].hasFee = mint[q].hasFee
  <2>1. CASE Live(q)
    <3>1. LiveMintKept(q) /\ Lasting(mint[q])
      BY <2>1 DEF MintsKept, LastingMints
    <3>2. QED  BY <2>1, <3>1, NoOneSigns DEF LiveMintKept, Lasting
  <2>2. CASE ~Live(q)  BY <2>2 DEF MintsKept
  <2>3. QED  BY <2>1, <2>2
<1>2. QED  BY <1>1 DEF MintsStay, LastingMints, Live

\* The metadata pointer comes without fees, and touches no other mint.
LEMMA MetadataMintsStay ==
    ASSUME TypeOK, LastingMints, MetadataStep
    PROVE  MintsStay
<1> PICK m \in Mints, p \in Wallets, w \in Wallets :
        InitializeMetadataPointer(m, p, w) \/ UpdateMetadataField(m, p, w)
  BY DEF MetadataStep
<1>1. CASE InitializeMetadataPointer(m, p, w)
  <2>1. Created(m, p, w, TRUE)  BY <1>1, MetadataPointerCreates
  <2>2. /\ ~Live(m) /\ Lasting(mint'[m])
        /\ \A q \in Mints \ {m} : mint'[q] = mint[q]
    BY <2>1, CreatedKeepsOthers
  <2>3. QED  BY <2>2 DEF MintsStay, LastingMints, Live
<1>2. CASE UpdateMetadataField(m, p, w)
  <2>1. UNCHANGED mint  BY <1>2 DEF UpdateMetadataField
  <2>2. QED  BY <2>1 DEF MintsStay, LastingMints, Live
<1>3. QED  BY <1>1, <1>2

\* Whatever happens, such a mint stays.
LEMMA NextMintsStay ==
    ASSUME TypeOK, LastingMints, [Next]_vars
    PROVE  MintsStay
<1>1. CASE MetadataStep  BY <1>1, MetadataMintsStay
<1>2. CASE \/ CreateMintStep \/ ChangeMintStep \/ AccountStep
           \/ TokenStep \/ FeeStep \/ ClientStep
  BY <1>2, CreateMintStepKeeps, ChangeMintStepKeeps, AccountStepKeeps,
     TokenStepKeeps, FeeAndClientStepKeep, KeptMintsStay
<1>3. CASE UNCHANGED vars
  BY <1>3 DEF vars, MintsStay, LastingMints, Live
<1>4. QED  BY <1>1, <1>2, <1>3 DEF Next

-----------------------------------------------------------------------------
(* What an account is from the moment it is opened.                        *)

\* It names a live mint, is frozen only if that is the mint's default, and at an
\* associated address it names the mint of the address.
OpenedFor(state, conf, a) ==
    /\ conf # Absent
    /\ state.frozen => conf.frozenDefault
    /\ \A w \in Wallets, m \in Mints : a = Ata(w, m) => state.mint = m
AccountsOpened ==
    \A a \in Accounts : ~Open(a) /\ account'[a] # Absent =>
        OpenedFor(account'[a], mint'[account'[a].mint], a)

\* No step that leaves the accounts alone, or only flags of one, opens any.
LEMMA NothingOpened ==
    ASSUME account \in [Accounts -> AccountState \cup {Absent}],
           NEW b \in Accounts, Open(b), NEW new,
           account' = [account EXCEPT ![b] = new]
    PROVE  AccountsOpened
BY DEF AccountsOpened, Open

\* Creating a mint opens at most the account that comes with it.
LEMMA CreatedOpens ==
    ASSUME TypeOK, NEW m \in Mints, NEW p, NEW w \in Wallets, NEW metadata,
           Created(m, p, w, metadata)
    PROVE  AccountsOpened
<1>1. PICK conf \in MintState :
        \/ \E rent \in Nat : CreateFundedMint(m, p, w, conf, rent)
        \/ \E a \in KeyAccounts, k \in Nat, room \in Rooms :
               CreateMintAndAccount(m, a, p, w, k, conf, room)
  BY DEF Created
<1>2. CASE UNCHANGED account  BY <1>2 DEF AccountsOpened, Open
<1>3. ASSUME NEW b \in KeyAccounts, NEW k, NEW room,
             CreateMintAndAccount(m, b, p, w, k, conf, room)
      PROVE  AccountsOpened
  <2> DEFINE new == NewAccount(m, conf, w, TRUE, room)
  <2>1. /\ mint' = [mint EXCEPT ![m] = conf]
        /\ account' = [account EXCEPT ![b] = new]
    BY <1>3 DEF CreateMintAndAccount, InitializeMint, InitializeAccount
  <2>2. new.mint = m /\ new.frozen = conf.frozenDefault  BY DEF NewAccount
  <2> HIDE DEF new
  <2>3. mint'[m] = conf /\ conf # Absent  BY <2>1, AbsentIsNoState DEF TypeOK
  <2>4. \A a \in Accounts \ {b} : account'[a] = account[a]  BY <2>1 DEF TypeOK
  <2>5. b \in Accounts /\ account'[b] = new  BY <2>1 DEF Accounts, TypeOK
  <2>6. \A x \in Wallets, q \in Mints : b # Ata(x, q)
    BY OneKindOfAddress DEF Ata
  <2>7. OpenedFor(account'[b], mint'[account'[b].mint], b)
    BY <2>2, <2>3, <2>5, <2>6 DEF OpenedFor
  <2>8. QED  BY <2>4, <2>7 DEF AccountsOpened, Open
<1>4. QED  BY <1>1, <1>2, <1>3 DEF CreateFundedMint

\* An account is opened from its mint as it is then.
LEMMA AccountStepOpens ==
    ASSUME TypeOK, AccountStep
    PROVE  AccountsOpened
<1>0. account \in [Accounts -> AccountState \cup {Absent}]  BY DEF TypeOK
<1>1. ASSUME NEW b \in Accounts, NEW m \in Mints, NEW new, Live(m), UNCHANGED mint,
             new.mint = m, new.frozen = mint[m].frozenDefault,
             \A w \in Wallets, q \in Mints : b = Ata(w, q) => q = m,
             account' = [account EXCEPT ![b] = new]
      PROVE  AccountsOpened
  <2>1. \A a \in Accounts \ {b} : account'[a] = account[a]  BY <1>0, <1>1
  <2>2. account'[b] = new /\ mint' = mint  BY <1>0, <1>1
  <2>3. OpenedFor(account'[b], mint'[account'[b].mint], b)
    BY <1>1, <2>2 DEF OpenedFor, Live
  <2>4. QED  BY <2>1, <2>3 DEF AccountsOpened, Open
<1>2. ASSUME NEW m \in Mints, NEW b \in KeyAccounts, NEW p, NEW w,
             NEW room \in Rooms, NEW memo \in BOOLEAN,
             CreateTokenAccount(b, m, p, w, room, memo)
      PROVE  AccountsOpened
  <2> DEFINE plain == NewAccount(m, mint[m], w, FALSE, room)
             new == [plain EXCEPT !.memo = memo, !.room = IF memo THEN @ - 1 ELSE @]
  <2>1. /\ Live(m) /\ UNCHANGED mint
        /\ account' = [account EXCEPT ![b] = new]
    BY <1>2 DEF CreateTokenAccount, InitializeAccount
  <2>2. new.mint = m /\ new.frozen = mint[m].frozenDefault  BY DEF NewAccount
  <2>3. b \in Accounts /\ \A x \in Wallets, q \in Mints : b # Ata(x, q)
    BY OneKindOfAddress DEF Accounts, Ata
  <2> HIDE DEF new
  <2>4. QED  BY <1>1, <2>1, <2>2, <2>3
<1>3. ASSUME NEW m \in Mints, NEW p, NEW w \in Wallets, CreateAta(w, m, p)
      PROVE  AccountsOpened
  <2>1. CASE UNCHANGED account  BY <2>1 DEF AccountsOpened, Open
  <2>2. CASE ~UNCHANGED account
    <3> DEFINE new == NewAccount(m, mint[m], w, TRUE, 0)
    <3>1. /\ Live(m) /\ UNCHANGED mint
          /\ account' = [account EXCEPT ![Ata(w, m)] = new]
      BY <1>3, <2>2 DEF CreateAta, InitializeAccount
    <3>2. new.mint = m /\ new.frozen = mint[m].frozenDefault  BY DEF NewAccount
    <3>3. Ata(w, m) \in Accounts /\ \A x, q : Ata(w, m) = Ata(x, q) => q = m
      BY DEF Accounts, Ata
    <3> HIDE DEF new
    <3>4. QED  BY <1>1, <3>1, <3>2, <3>3
  <2>3. QED  BY <2>1, <2>2
<1>4. ASSUME NEW b \in Accounts, NEW p, NEW w, Realloc(b, p, w)
      PROVE  AccountsOpened
  <2>1. CASE UNCHANGED account  BY <2>1 DEF AccountsOpened, Open
  <2>2. CASE ~UNCHANGED account
    <3>1. Open(b) /\ \E new : account' = [account EXCEPT ![b] = new]
      BY <1>4, <2>2 DEF Realloc
    <3>2. QED  BY <1>0, <3>1, NothingOpened
  <2>3. QED  BY <2>1, <2>2
<1>5. QED
  BY <1>2, <1>3, <1>4 DEF AccountStep, EnableMemo, InitializeTokenAccountWith,
                          InitializeConfidentialAccount

\* No other instruction opens an account.
LEMMA NextOpens ==
    ASSUME TypeOK, [Next]_vars
    PROVE  AccountsOpened
<1>1. CASE UNCHANGED account  BY <1>1 DEF AccountsOpened, Open
<1>2. CASE CreateMintStep  BY <1>2, CreateMintStepCreates, CreatedOpens
<1>3. CASE AccountStep  BY <1>3, AccountStepOpens
<1>4. CASE MetadataStep
  <2> PICK m \in Mints, p \in Wallets, w \in Wallets :
          InitializeMetadataPointer(m, p, w) \/ UpdateMetadataField(m, p, w)
    BY <1>4 DEF MetadataStep
  <2>1. CASE InitializeMetadataPointer(m, p, w)
    BY <2>1, MetadataPointerCreates, CreatedOpens
  <2>2. CASE UpdateMetadataField(m, p, w)
    BY <1>1, <2>2 DEF UpdateMetadataField
  <2>3. QED  BY <2>1, <2>2
<1>5. ASSUME NEW b \in Accounts, NEW w \in Wallets, EnableCpiGuard(b, w)
      PROVE  AccountsOpened
  <2>1. Open(b) /\ \E new : account' = [account EXCEPT ![b] = new]
    BY <1>5 DEF EnableCpiGuard
  <2>2. QED  BY <2>1, NothingOpened DEF TypeOK
<1>6. CASE TokenStep \/ FeeStep
  <2>1. \E m \in Mints : Effect(m)  BY <1>6, TokenStepEffect, FeeStepEffect
  <2>2. QED  BY <1>1, <2>1 DEF Effect
<1>7. CASE ChangeMintStep
  <2>1. UNCHANGED account
    BY <1>7 DEF ChangeMintStep, CloseMintAccount, UpdateDefaultAccountState,
                InitializeExtraAccountMetaList
  <2>2. QED  BY <1>1, <2>1
<1>8. CASE ClientStep
  BY <1>1, <1>5, <1>8 DEF ClientStep, ClientMintTo
<1>9. QED
  BY <1>1, <1>2, <1>3, <1>4, <1>6, <1>7, <1>8 DEF Next, vars

-----------------------------------------------------------------------------
(* The clients call the instructions and do nothing else to the chain.     *)

ClientTypeOK ==
    /\ pending \subseteq Clients
    /\ sources \in [Clients -> SUBSET Accounts]

ClientStepOK == [Meanwhile \/ ClientNext]_<<vars, clientVars>>

\* The state of the clients keeps its type.
LEMMA ClientTypeKept ==
    ASSUME ClientTypeOK, ClientStepOK
    PROVE  ClientTypeOK'
<1>1. CASE UNCHANGED clientVars  BY <1>1 DEF clientVars, ClientTypeOK
<1>2. ASSUME NEW c \in Clients, Scan(c)
      PROVE  ClientTypeOK'
  <2>1. Withholding \in SUBSET Accounts  BY DEF Withholding, AccountsOf
  <2>2. QED  BY <1>2, <2>1 DEF Scan, ClientTypeOK
<1>3. ASSUME NEW c \in Clients, Execute(c) \/ Fail(c)
      PROVE  ClientTypeOK'
  BY <1>3 DEF Execute, Fail, ClientTypeOK
<1>4. QED
  BY <1>1, <1>2, <1>3
  DEF ClientStepOK, Meanwhile, ClientNext, clientVars

\* Each of their steps is an instruction of the program, or none.
LEMMA ClientStepIsStep ==
    ASSUME ClientTypeOK, ClientStepOK
    PROVE  [Next]_vars
<1>0. FeeMint \in Mints /\ FeeOwner \in Wallets  BY FeeMintIsAMint
<1>1. ASSUME NEW c \in Clients, Execute(c)
      PROVE  FeeStep
  <2>1. sources[c] \in SUBSET Accounts  BY DEF ClientTypeOK
  <2>2. \/ WithdrawWithheldAccount(FeeMint, FeeOwner, sources[c])
        \/ HarvestWithheldToken(FeeMint, sources[c])
    BY <1>1 DEF Execute
  <2>3. QED  BY <1>0, <2>1, <2>2 DEF FeeStep
<1>2. ASSUME NEW c \in Clients, Scan(c) \/ Fail(c)
      PROVE  UNCHANGED vars
  BY <1>2 DEF Scan, Fail
<1>3. QED  BY <1>1, <1>2 DEF ClientStepOK, ClientNext, Meanwhile, Next

-----------------------------------------------------------------------------
(* The lists.                                                              *)

Listed(S) ==
    S # {} =>
        /\ Live(FeeMint) /\ mint[FeeMint].hasFee
        /\ \A a \in S : Open(a) /\ account[a].feeExt /\ account[a].mint = FeeMint
AllListed == \A c \in Clients : Listed(sources[c])

\* An account that exists keeps its mint, its extensions and its state.
LEMMA AccountsStay ==
    ASSUME LedgerInv, [Next]_vars, NEW a \in Accounts, Open(a)
    PROVE  /\ account'[a] # Absent
           /\ account'[a].mint = account[a].mint
           /\ account'[a].feeExt = account[a].feeExt
           /\ account'[a].frozen = account[a].frozen
<1>1. CASE Quiet  BY <1>1 DEF Quiet
<1>2. ASSUME NEW m \in Mints, Effect(m)
      PROVE  account' = account
  BY <1>2 DEF Effect
<1>3. QED  BY <1>1, <1>2, StepKinds DEF Open

\* A list stays good, whatever happens.
LEMMA ListedStays ==
    ASSUME LedgerInv, LastingMints, [Next]_vars,
           NEW S \in SUBSET Accounts, Listed(S)
    PROVE  S # {} =>
               /\ mint'[FeeMint] # Absent /\ mint'[FeeMint].hasFee
               /\ \A a \in S : /\ account'[a] # Absent /\ account'[a].feeExt
                               /\ account'[a].mint = FeeMint
<1>1. HAVE S # {}
<1>2. /\ Live(FeeMint) /\ mint[FeeMint].hasFee
      /\ \A a \in S : Open(a) /\ account[a].feeExt /\ account[a].mint = FeeMint
  BY <1>1 DEF Listed
<1>3. MintsStay  BY NextMintsStay DEF LedgerInv
<1>4. mint[FeeMint].close = NoOne
  BY <1>2, FeeMintIsAMint DEF LastingMints, Lasting
<1>5. QED  BY <1>2, <1>3, <1>4, AccountsStay, FeeMintIsAMint DEF MintsStay

\* A new list is good: what withholds fees can be harvested.
LEMMA WithholdingListed ==
    ASSUME LedgerInv, FeesHarvestable
    PROVE  Listed(Withholding) /\ Withholding \in SUBSET Accounts
<1>1. Withholding \in SUBSET Accounts  BY DEF Withholding, AccountsOf
<1>2. \A a \in Withholding : /\ Open(a) /\ account[a].feeExt
                             /\ account[a].mint = FeeMint
                             /\ Live(FeeMint) /\ mint[FeeMint].hasFee
  BY DEF Withholding, AccountsOf, FeesHarvestable
<1>3. QED  BY <1>1, <1>2 DEF Listed

\* So all lists are, at all times.
LEMMA ListsKept ==
    ASSUME LedgerInv, FeesHarvestable, LastingMints, ClientTypeOK,
           AllListed, ClientStepOK
    PROVE  AllListed'
<1>1. [Next]_vars  BY ClientStepIsStep
<1>2. CASE sources' = sources
  <2>1. ASSUME NEW c \in Clients
        PROVE  Listed(sources[c])'
    <3>1. sources[c] \in SUBSET Accounts /\ Listed(sources[c])
      BY DEF ClientTypeOK, AllListed
    <3>2. QED  BY <1>1, <1>2, <3>1, ListedStays DEF Listed, Live, Open
  <2>2. QED  BY <2>1 DEF AllListed
<1>3. ASSUME NEW c \in Clients, Scan(c)
      PROVE  AllListed'
  <2>1. /\ sources' = [sources EXCEPT ![c] = Withholding]
        /\ mint' = mint /\ account' = account
    BY <1>3 DEF Scan, vars
  <2>2. Listed(Withholding)  BY WithholdingListed
  <2>3. ASSUME NEW d \in Clients
        PROVE  sources'[d] = sources[d] \/ sources'[d] = Withholding
    BY <2>1 DEF ClientTypeOK
  <2>4. ASSUME NEW d \in Clients
        PROVE  Listed(sources[d])'
    BY <2>1, <2>2, <2>3 DEF Listed, AllListed, Live, Open
  <2>5. QED  BY <2>4 DEF AllListed
<1>4. QED
  BY <1>2, <1>3
  DEF ClientStepOK, ClientNext, Meanwhile, Execute, Fail, clientVars

-----------------------------------------------------------------------------
(* The account that fees go to.                                            *)

\* A frozen account is one of a mint that will never charge fees, and an associated
\* account is one of the mint of its address.
FrozenWithoutFees ==
    \A a \in Accounts : Open(a) /\ account[a].frozen =>
        LET q == account[a].mint
        IN  Live(q) /\ mint[q].close = NoOne /\ ~mint[q].hasFee
AtaMints ==
    \A w \in Wallets, m \in Mints : Open(Ata(w, m)) => account[Ata(w, m)].mint = m

\* An account that is opened frozen is so by a mint that stays, and no account is
\* frozen later or changes its mint.
LEMMA AccountsKept ==
    ASSUME LedgerInv, TypeOK', LastingMints, FrozenWithoutFees, AtaMints,
           [Next]_vars
    PROVE  FrozenWithoutFees' /\ AtaMints'
<1>0. TypeOK /\ MintsStay /\ AccountsOpened
  BY NextMintsStay, NextOpens DEF LedgerInv
<1>1. ASSUME NEW a \in Accounts, account'[a] # Absent, account'[a].frozen
      PROVE  LET q == account'[a].mint
             IN  mint'[q] # Absent /\ mint'[q].close = NoOne /\ ~mint'[q].hasFee
  <2> DEFINE q == account'[a].mint
  <2>0. q \in Mints  BY <1>1 DEF TypeOK, AccountState
  <2>1. CASE Open(a)
    <3>1. account'[a].mint = account[a].mint /\ account[a].frozen
      BY <1>1, <2>1, AccountsStay
    <3>2. Live(q) /\ mint[q].close = NoOne /\ ~mint[q].hasFee
      BY <2>1, <3>1 DEF FrozenWithoutFees
    <3> HIDE DEF q
    <3>3. mint'[q] # Absent /\ mint'[q].close = NoOne /\ ~mint'[q].hasFee
      BY <1>0, <2>0, <3>2 DEF MintsStay
    <3>4. QED  BY <3>3 DEF q
  <2>2. CASE ~Open(a)
    <3>1. mint'[q] # Absent /\ mint'[q].frozenDefault
      BY <1>0, <1>1, <2>2 DEF AccountsOpened, OpenedFor
    <3>2. Lasting(mint'[q])  BY <1>0, <2>0, <3>1 DEF MintsStay, LastingMints, Live
    <3>3. QED  BY <3>1, <3>2 DEF Lasting, Freezes
  <2>3. QED  BY <2>1, <2>2
<1>2. ASSUME NEW w \in Wallets, NEW m \in Mints, account'[Ata(w, m)] # Absent
      PROVE  account'[Ata(w, m)].mint = m
  <2>0. Ata(w, m) \in Accounts  BY AddressKinds
  <2>1. CASE Open(Ata(w, m))
    BY <2>0, <2>1, AccountsStay DEF AtaMints
  <2>2. CASE ~Open(Ata(w, m))
    BY <1>0, <1>2, <2>0, <2>2 DEF AccountsOpened, OpenedFor
  <2>3. QED  BY <2>1, <2>2
<1>3. QED  BY <1>1, <1>2 DEF FrozenWithoutFees, AtaMints, Open, Live

-----------------------------------------------------------------------------
(* The sums.                                                               *)

\* A part of the accounts withholds no more than all of them.
LEMMA TotalPart ==
    ASSUME NEW f, NEW S \in SUBSET Accounts, NEW T \in SUBSET S
    PROVE  Total(f, T) <= Total(f, S)
<1>1. IsFiniteSet(S)  BY AccountsFinite, FS_Subset
<1>2. IsFiniteSet(T) /\ IsFiniteSet(S \ T)  BY <1>1, FS_Subset, FS_Difference
<1>3. S = T \cup (S \ T) /\ T \cap (S \ T) = {}  OBVIOUS
<1>4. Total(f, S) = Total(f, T) + Total(f, S \ T)
  BY <1>2, <1>3, SumSplit, BoundsAreNatural DEF Total
<1>5. Total(f, T) \in Nat /\ Total(f, S \ T) \in Nat  BY TotalNat
<1>6. QED  BY <1>4, <1>5

\* An account holds no more than all of them.
LEMMA OneFits ==
    ASSUME NEW f \in [Accounts -> U64], NEW S \in SUBSET Accounts, NEW a \in S
    PROVE  f[a] \in Nat /\ f[a] <= Total(f, S)
<1>1. IsFiniteSet(S) /\ f[a] \in 0 .. MaxU64
  BY AccountsFinite, FS_Subset DEF U64
<1>2. Total(f, S) = Total(f, S \ {a}) + f[a]
  BY <1>1, SumElement, BoundsAreNatural DEF Total
<1>3. Total(f, S \ {a}) \in Nat  BY TotalNat
<1>4. QED  BY <1>1, <1>2, <1>3, BoundsAreNatural

\* What a list of accounts withholds is part of the supply of the mint, next to
\* its pool and to what any account holds.
LEMMA ListFits ==
    ASSUME LedgerInv, NEW S \in SUBSET AccountsOf(FeeMint)
    PROVE  /\ feePool[FeeMint] + Total(withheld, S) <= MaxU64
           /\ \A a \in AccountsOf(FeeMint) :
                  amount[a] + Total(withheld, S) <= MaxU64
<1> DEFINE all == AccountsOf(FeeMint)
<1>0. LedgerTypeOK /\ FeeMint \in Mints /\ all \in SUBSET Accounts
  BY TypeOfLedger, FeeMintIsAMint, AccountsOfFacts DEF LedgerInv
<1>1. supply[FeeMint] = Total(amount, all) + Total(withheld, all) + feePool[FeeMint]
  BY <1>0 DEF LedgerInv, Conserved, WithheldOf
<1>2. /\ supply[FeeMint] \in Nat /\ supply[FeeMint] <= MaxU64
      /\ feePool[FeeMint] \in Nat
  BY <1>0, BoundsAreNatural DEF LedgerTypeOK, U64
<1>3. S \in SUBSET all  OBVIOUS
<1>4. SUFFICES /\ feePool[FeeMint] + Total(withheld, S) <= MaxU64
               /\ \A a \in all : amount[a] + Total(withheld, S) <= MaxU64
  OBVIOUS
<1> HIDE DEF all
<1>5. Total(withheld, S) <= Total(withheld, all)  BY <1>0, <1>3, TotalPart
<1>6. /\ Total(amount, all) \in Nat /\ Total(withheld, all) \in Nat
      /\ Total(withheld, S) \in Nat
  BY <1>0, <1>3, TotalNat
<1>7. \A a \in all : amount[a] \in Nat /\ amount[a] <= Total(amount, all)
  BY <1>0, OneFits DEF LedgerTypeOK
<1>8. QED  BY <1>1, <1>2, <1>5, <1>6, <1>7, BoundsAreNatural

\* A good list is one that the guards of the fee instructions accept.
LEMMA GoodListsValid ==
    ASSUME LedgerInv, ClientTypeOK, AllListed
    PROVE  ListsStayValid
<1>1. SUFFICES ASSUME NEW c \in pending, sources[c] # {}
               PROVE  /\ Live(FeeMint) /\ mint[FeeMint].hasFee
                      /\ \A a \in sources[c] : /\ Open(a) /\ account[a].feeExt
                                               /\ account[a].mint = FeeMint
                      /\ feePool[FeeMint] + Total(withheld, sources[c]) <= MaxU64
                      /\ \A a \in AccountsOf(FeeMint) :
                             amount[a] + Total(withheld, sources[c]) <= MaxU64
  BY DEF ListsStayValid
<1>2. c \in Clients /\ sources[c] \in SUBSET Accounts  BY DEF ClientTypeOK
<1>3. /\ Live(FeeMint) /\ mint[FeeMint].hasFee
      /\ \A a \in sources[c] : /\ Open(a) /\ account[a].feeExt
                               /\ account[a].mint = FeeMint
  BY <1>1, <1>2 DEF AllListed, Listed
<1>4. sources[c] \in SUBSET AccountsOf(FeeMint)  BY <1>2, <1>3 DEF AccountsOf
<1>5. QED  BY <1>3, <1>4, ListFits

\* Leaving out what withholds nothing leaves the sum as it is, and all that is
\* left can be harvested.
LEMMA FilteredTotal ==
    ASSUME LedgerTypeOK, NEW S \in SUBSET Accounts,
           \A a \in S : account[a].feeExt /\ account[a].mint = FeeMint
    PROVE  LET from == Harvestable(FeeMint, FilterSources(S)) IN
           /\ Total(withheld, from) = Total(withheld, S)
           /\ \A a \in S : Emptied(from)[a] = 0
<1> DEFINE from == Harvestable(FeeMint, FilterSources(S))
<1>1. from = {a \in S : withheld[a] # 0}
  BY OneKindOfAddress DEF Harvestable, FilterSources
<1>2. SUFFICES /\ Total(withheld, from) = Total(withheld, S)
               /\ \A a \in S : Emptied(from)[a] = 0
  OBVIOUS
<1>3. \A a \in S : Emptied(from)[a] = 0  BY <1>1 DEF Emptied
<1> HIDE DEF from
<1>4. IsFiniteSet(S)  BY AccountsFinite, FS_Subset
<1>5. IsFiniteSet(from) /\ IsFiniteSet(S \ from)
  BY <1>1, <1>4, FS_Subset, FS_Difference
<1>6. S = from \cup (S \ from) /\ from \cap (S \ from) = {}  BY <1>1
<1>7. Total(withheld, S) = Total(withheld, from) + Total(withheld, S \ from)
  BY <1>5, <1>6, SumSplit, BoundsAreNatural DEF Total
<1>8. Total(withheld, S \ from) = 0
  BY <1>1, SumZero, BoundsAreNatural DEF Total
<1>9. Total(withheld, from) \in Nat  BY <1>1, TotalNat
<1>10. QED  BY <1>3, <1>7, <1>8, <1>9

\* So it is accepted, unless it is empty or too long.
LEMMA GoodListsAccepted ==
    ASSUME LedgerInv, ClientTypeOK, AllListed, FrozenWithoutFees, AtaMints
    PROVE  StaleListsAccepted
<1> DEFINE own == Ata(FeeOwner, FeeMint)
<1>1. SUFFICES ASSUME NEW c \in pending, sources[c] # {},
                      Cardinality(sources[c]) <= MaxSources,
                      c \in Collectors =>
                          Open(own) /\ mint[FeeMint].withdraw = FeeOwner
               PROVE  ListAccepted(c)
  BY DEF StaleListsAccepted
<1> DEFINE S == sources[c]
           sum == Total(withheld, Harvestable(FeeMint, FilterSources(S)))
<1>2. /\ LedgerTypeOK /\ c \in Clients /\ S \in SUBSET Accounts
      /\ own \in Accounts /\ FeeOwner \in Wallets /\ FeeMint \in Mints
  BY TypeOfLedger, FeeMintIsAMint, AddressKinds DEF LedgerInv, ClientTypeOK
<1>3. /\ Live(FeeMint) /\ mint[FeeMint].hasFee
      /\ \A a \in S : Open(a) /\ account[a].feeExt /\ account[a].mint = FeeMint
      /\ feePool[FeeMint] + Total(withheld, S) <= MaxU64
      /\ \A a \in AccountsOf(FeeMint) : amount[a] + Total(withheld, S) <= MaxU64
  BY <1>1, GoodListsValid DEF ListsStayValid
<1>4. sum = Total(withheld, S)  BY <1>2, <1>3, FilteredTotal
<1>5. SourcesAccepted(S)  BY <1>1, <1>3 DEF SourcesAccepted
<1>6. Open(own) => account[own].mint = FeeMint  BY <1>2 DEF AtaMints
<1>7. Open(own) => ~account[own].frozen
  BY <1>2, <1>3, <1>6 DEF FrozenWithoutFees
<1>8. Open(own) => amount[own] + sum <= MaxU64
  BY <1>2, <1>3, <1>4, <1>6 DEF AccountsOf
<1>9. feePool[FeeMint] + sum <= MaxU64  BY <1>3, <1>4
<1>10. QED
  BY <1>1, <1>2, <1>3, <1>5, <1>6, <1>7, <1>8, <1>9 DEF ListAccepted, Clients

\* The transaction of a good list gathers all of it.
LEMMA ExecuteGathers ==
    ASSUME LedgerInv, ClientTypeOK, AllListed, NEW c \in Clients, Execute(c)
    PROVE  GatheredInFull(c)
<1> DEFINE S == sources[c]
           from == Harvestable(FeeMint, FilterSources(S))
           own == Ata(FeeOwner, FeeMint)
<1>0. /\ LedgerTypeOK /\ FeeMint \in Mints /\ own \in Accounts
      /\ S \in SUBSET Accounts
  BY TypeOfLedger, FeeMintIsAMint, AddressKinds DEF LedgerInv, ClientTypeOK
<1>1. S # {}
  BY DEF Execute, WithdrawWithheldAccount, HarvestWithheldToken, SourcesAccepted
<1>2. \A a \in S : account[a].feeExt /\ account[a].mint = FeeMint
  BY <1>1 DEF AllListed, Listed
<1>3. Total(withheld, from) = Total(withheld, S)
      /\ \A a \in S : Emptied(from)[a] = 0
  BY <1>0, <1>2, FilteredTotal
<1>4. CASE c \in Collectors
  <2>1. WithdrawWithheldAccount(FeeMint, FeeOwner, S) /\ c \notin Harvesters
    BY <1>4, OneJobEach DEF Execute
  <2>2. /\ withheld' = Emptied(from)
        /\ amount' = [amount EXCEPT ![own] = @ + Total(withheld, from)]
    BY <2>1 DEF WithdrawWithheldAccount, CollectFees
  <2> HIDE DEF from, own, S
  <2>3. amount'[own] = amount[own] + Total(withheld, S)
    BY <1>0, <1>3, <2>2 DEF LedgerTypeOK
  <2>4. QED  BY <1>3, <2>1, <2>2, <2>3 DEF GatheredInFull, own, S
<1>5. CASE c \in Harvesters
  <2>1. HarvestWithheldToken(FeeMint, S) /\ c \notin Collectors
    BY <1>5, OneJobEach DEF Execute
  <2>2. /\ withheld' = Emptied(from)
        /\ feePool' = [feePool EXCEPT ![FeeMint] = @ + Total(withheld, from)]
    BY <2>1 DEF HarvestWithheldToken, HarvestFees
  <2> HIDE DEF from, own, S
  <2>3. feePool'[FeeMint] = feePool[FeeMint] + Total(withheld, S)
    BY <1>0, <1>3, <2>2 DEF LedgerTypeOK
  <2>4. QED  BY <1>3, <2>1, <2>2, <2>3 DEF GatheredInFull, S
<1>6. QED  BY <1>4, <1>5 DEF Clients

-----------------------------------------------------------------------------
(* The theorems.                                                           *)

\* What is proved of the program holds while the clients run: they act on the
\* chain only through its instructions.
LEMMA ClientsCallInstructions == ClientSpec => Spec
<1>1. ClientInit => Init /\ ClientTypeOK  BY DEF ClientInit, ClientTypeOK
<1>2. ClientTypeOK /\ ClientStepOK => ClientTypeOK'  BY ClientTypeKept
<1>3. ClientTypeOK /\ ClientStepOK => [Next]_vars  BY ClientStepIsStep
<1>4. QED  BY <1>1, <1>2, <1>3, PTL DEF ClientSpec, Spec, ClientStepOK

\* The invariant of the clients and their lists.
LEMMA ListsInvariant ==
    ClientSpec => [](/\ LedgerInv /\ FeesHarvestable /\ LastingMints
                     /\ ClientTypeOK /\ AllListed
                     /\ FrozenWithoutFees /\ AtaMints)
<1>1. ClientInit => /\ LastingMints /\ ClientTypeOK /\ AllListed
                    /\ FrozenWithoutFees /\ AtaMints
  <2>1. ASSUME ClientInit
        PROVE  (\A q \in Mints : ~Live(q)) /\ \A a \in Accounts : ~Open(a)
    BY <2>1 DEF ClientInit, Init, Live, Open
  <2>2. \A w \in Wallets, m \in Mints : Ata(w, m) \in Accounts  BY AddressKinds
  <2>3. QED
    BY <2>1, <2>2 DEF ClientInit, LastingMints, ClientTypeOK, AllListed, Listed,
       FrozenWithoutFees, AtaMints
<1>2. ClientTypeOK /\ ClientStepOK => ClientTypeOK' /\ [Next]_vars
  BY ClientTypeKept, ClientStepIsStep
<1>3. LedgerInv /\ LastingMints /\ [Next]_vars => LastingMints'
  BY NextMintsStay DEF LedgerInv, MintsStay
<1>4. LedgerInv /\ FeesHarvestable /\ LastingMints /\ ClientTypeOK
        /\ AllListed /\ ClientStepOK => AllListed'
  BY ListsKept
<1>5. LedgerInv /\ TypeOK' /\ LastingMints /\ FrozenWithoutFees /\ AtaMints
        /\ [Next]_vars => FrozenWithoutFees' /\ AtaMints'
  BY AccountsKept
<1>6. QED
  BY <1>1, <1>2, <1>3, <1>4, <1>5, ClientsCallInstructions, TypeCorrect,
     LedgerInvariant, FeesAlwaysHarvestable, PTL
  DEF ClientSpec, ClientStepOK

\* findWithheldTokenAndRemainingAccount makes a list from a snapshot; however old
\* it is when the transaction runs, and whatever instructions anybody called in
\* between, nothing on it is refused by filter_sources_account_info or Token-2022
\* and no sum overflows.
THEOREM ListsAlwaysValid == ClientSpec => []ListsStayValid
<1>1. LedgerInv /\ ClientTypeOK /\ AllListed => ListsStayValid
  BY GoodListsValid
<1>2. QED  BY <1>1, ListsInvariant, PTL

\* The program and Token-2022 thus accept it when it arrives, if it names one to
\* MaxSources accounts and, of a withdrawal, the authority and an open account: that
\* one cannot be frozen, full, or an account of another mint.
THEOREM StaleListsAlwaysAccepted == ClientSpec => []StaleListsAccepted
<1>1. LedgerInv /\ ClientTypeOK /\ AllListed /\ FrozenWithoutFees /\ AtaMints
        => StaleListsAccepted
  BY GoodListsAccepted
<1>2. QED  BY <1>1, ListsInvariant, PTL

\* And the withdrawal, or the harvest, that brings such a list takes all that its
\* accounts withhold by then, to the account of the authority or to the mint.
THEOREM ListsAlwaysGatheredInFull == ClientSpec => ListsGatheredInFull
<1>1. LedgerInv /\ ClientTypeOK /\ AllListed
        => \A c \in Clients : Execute(c) => GatheredInFull(c)
  BY ExecuteGathers
<1>2. QED  BY <1>1, ListsInvariant, PTL DEF ListsGatheredInFull
=============================================================================
