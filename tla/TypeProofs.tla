------------------------------ MODULE TypeProofs ------------------------------
(***************************************************************************)
(* Type correctness of the whole system, for every value of the constants. *)
(***************************************************************************)
EXTENDS TokenExtension, SumTheorems

\* There are finitely many token accounts, and so finitely many of each mint.
LEMMA AccountsFinite == IsFiniteSet(Accounts)
<1>1. IsFiniteSet(Wallets \X Mints)  BY FinitelyManyAddresses, FS_Product
<1>2. QED  BY <1>1, FinitelyManyAddresses, FS_Union DEF Accounts

\* The rent of an account is a natural number.
LEMMA SlotsNat ==
    ASSUME NEW state, state.room \in Nat
    PROVE  Slots(state) \in Nat /\ Rent(Slots(state)) \in Nat
<1> DEFINE Ext == {"feeExt", "hookExt", "nonTransferable", "immutable",
                   "memo", "guard"}
           Used == {x \in Ext : state[x]}
<1>1. \A x, y : IsFiniteSet({x, y})
  <2> SUFFICES ASSUME NEW x, NEW y PROVE IsFiniteSet({x, y})  OBVIOUS
  <2>1. IsFiniteSet({x}) /\ IsFiniteSet({y})  BY FS_Singleton
  <2>2. {x, y} = {x} \cup {y}  OBVIOUS
  <2>3. QED  BY <2>1, <2>2, FS_Union
<1>2. IsFiniteSet({"feeExt", "hookExt"} \cup {"nonTransferable", "immutable"})
  BY <1>1, FS_Union
<1>3. Ext = ({"feeExt", "hookExt"} \cup {"nonTransferable", "immutable"})
              \cup {"memo", "guard"}
  OBVIOUS
<1>4. IsFiniteSet(Ext)
  <2>1. IsFiniteSet({"memo", "guard"})  BY <1>1
  <2>2. IsFiniteSet(({"feeExt", "hookExt"}
                        \cup {"nonTransferable", "immutable"})
                       \cup {"memo", "guard"})
    BY <1>2, <2>1, FS_Union
  <2>3. QED  BY <1>3, <2>2
<1>5. Used \in SUBSET Ext  OBVIOUS
<1>6. Cardinality(Used) \in Nat  BY <1>4, <1>5, FS_Subset, FS_CardinalityType
<1>7. Slots(state) = Cardinality(Used) + state.room  BY DEF Slots
<1> HIDE DEF Used
<1>8. QED  BY <1>6, <1>7 DEF Rent

\* The fields of a mint that the amounts depend on.
LEMMA MintRate ==
    ASSUME NEW conf \in MintState
    PROVE  conf.bps \in BasisPoints
BY DEF MintState

\* The maximum fee of a mint is a u64.
LEMMA MintCap ==
    ASSUME NEW conf \in MintState
    PROVE  conf.maxFee \in U64
BY DEF MintState

\* A fee is a natural number.
LEMMA FeeNat ==
    ASSUME NEW conf \in MintState, NEW n \in U64
    PROVE  Fee(conf, n) \in Nat
<1> DEFINE rate == conf.bps
           cap  == conf.maxFee
<1>1. rate \in BasisPoints  BY MintRate
<1>2. cap \in U64  BY MintCap
<1> HIDE DEF rate, cap
<1>3. rate \in Nat /\ cap \in Nat /\ n \in Nat
  BY <1>1, <1>2, BoundsAreNatural DEF U64, BasisPoints
<1>4. n * rate \in Nat  BY <1>3
<1>5. (n * rate + FullRate - 1) \div FullRate \in Nat
  BY <1>4, BoundsAreNatural
<1>6. Fee(conf, n) = IF conf.hasFee
                      THEN Min2((n * rate + FullRate - 1) \div FullRate, cap)
                      ELSE 0
  BY DEF Fee, rate, cap
<1>7. QED  BY <1>3, <1>5, <1>6 DEF Min2

-----------------------------------------------------------------------------
(* The parts of the state.                                                 *)

LedgerTypeOK ==
    /\ supply   \in [Mints -> U64]
    /\ feePool  \in [Mints -> U64]
    /\ amount   \in [Accounts -> U64]
    /\ withheld \in [Accounts -> U64]

\* Every account the program touches has an address.
LEMMA AddressKinds ==
    /\ Wallets \subseteq Addresses
    /\ Mints \subseteq Addresses
    /\ Accounts \subseteq Addresses
    /\ \A m \in Mints : MetaPda(m) \in Addresses
    /\ \A w \in Wallets, m \in Mints : Ata(w, m) \in Accounts
BY DEF Addresses, Accounts, Ata

\* Arithmetic that stays in a u64.
LEMMA U64Facts ==
    /\ U64 \subseteq Nat
    /\ 0 \in U64
    /\ \A x \in U64, y \in Nat : x + y <= MaxU64 => x + y \in U64
    /\ \A x, y \in U64 : y <= x => x - y \in U64
BY BoundsAreNatural DEF U64

\* initialize_mint2 leaves a well-formed mint.
LEMMA PlainMintType ==
    ASSUME NEW w \in Wallets
    PROVE  PlainMint(w) \in MintState
<1>1. 0 \in BasisPoints /\ 0 \in U64  BY U64Facts, BoundsAreNatural DEF BasisPoints
<1>2. QED  BY <1>1 DEF MintState, PlainMint, Key, Hooks

\* initialize_account3 leaves a well-formed account, whose rent is a number.
LEMMA NewAccountType ==
    ASSUME NEW m \in Mints, NEW conf \in MintState, NEW w \in Wallets,
           NEW immutable \in BOOLEAN, NEW room \in Rooms
    PROVE  /\ NewAccount(m, conf, w, immutable, room) \in AccountState
           /\ Rent(Slots(NewAccount(m, conf, w, immutable, room))) \in Nat
<1> DEFINE new == NewAccount(m, conf, w, immutable, room)
<1>1. new \in AccountState  BY DEF NewAccount, MintState, AccountState
<1>2. new.room = room  BY DEF NewAccount
<1>3. new.room \in Nat  BY <1>2, BoundsAreNatural DEF Rooms
<1> HIDE DEF new
<1>4. Rent(Slots(new)) \in Nat  BY <1>3, SlotsNat
<1>5. QED  BY <1>1, <1>4 DEF new

\* create_account never takes from the payer more than it has.
LEMMA CreateAccountType ==
    ASSUME lamports \in [Addresses -> Nat], NEW p \in Addresses,
           NEW x \in Addresses, NEW rent \in Nat, CreateAccount(p, x, rent)
    PROVE  lamports' \in [Addresses -> Nat]
<1>1. lamports[p] - rent \in Nat  BY DEF CreateAccount
<1>2. QED  BY <1>1 DEF CreateAccount

\* Nor do two of them in one transaction.
LEMMA CreateTwoAccountsType ==
    ASSUME lamports \in [Addresses -> Nat], NEW p \in Addresses,
           NEW x \in Addresses, NEW y \in Addresses,
           NEW rx \in Nat, NEW ry \in Nat, CreateTwoAccounts(p, x, rx, y, ry)
    PROVE  lamports' \in [Addresses -> Nat]
<1>1. lamports[p] - (rx + ry) \in Nat  BY DEF CreateTwoAccounts
<1>2. QED  BY <1>1 DEF CreateTwoAccounts

-----------------------------------------------------------------------------
(* Each movement of tokens keeps the types of the ledger.                  *)

\* A transfer, with its fee, leaves every amount in a u64.
LEMMA TransferType ==
    ASSUME LedgerTypeOK, NEW m \in Mints, mint[m] \in MintState,
           NEW from \in Accounts, NEW to \in Accounts, NEW w, NEW n \in U64,
           NEW memo, NEW hooked, TransferChecked(m, from, to, w, n, memo, hooked)
    PROVE  LedgerTypeOK'
<1> DEFINE fee == Fee(mint[m], n)
<1>1. fee \in Nat  BY FeeNat
<1>2. n <= amount[from] /\ amount[from] \in U64 /\ amount[to] \in U64
        /\ withheld[to] \in U64
  BY DEF TransferChecked, TransferAllowed, LedgerTypeOK
<1>3. CASE from = to
  BY <1>3 DEF TransferChecked, LedgerTypeOK
<1>4. CASE from # to
  <2>1. /\ fee <= n
        /\ amount[to] + (n - fee) <= MaxU64
        /\ withheld[to] + fee <= MaxU64
        /\ amount' = [amount EXCEPT ![from] = @ - n, ![to] = @ + (n - fee)]
        /\ withheld' = [withheld EXCEPT ![to] = @ + fee]
        /\ supply' = supply /\ feePool' = feePool
    BY <1>4 DEF TransferChecked
  <2> HIDE DEF fee
  <2>2. n - fee \in Nat  BY <1>1, <2>1, U64Facts
  <2>3. amount[from] - n \in U64  BY <1>2, U64Facts
  <2>4. amount[to] + (n - fee) \in U64  BY <1>2, <2>1, <2>2, U64Facts
  <2>5. withheld[to] + fee \in U64  BY <1>1, <1>2, <2>1, U64Facts
  <2>6. amount' \in [Accounts -> U64]
    BY <1>4, <2>1, <2>3, <2>4 DEF LedgerTypeOK
  <2>7. withheld' \in [Accounts -> U64]  BY <2>1, <2>5 DEF LedgerTypeOK
  <2>8. QED  BY <2>1, <2>6, <2>7 DEF LedgerTypeOK
<1>5. QED  BY <1>3, <1>4

\* So does minting.
LEMMA MintTokensType ==
    ASSUME LedgerTypeOK, NEW m \in Mints, NEW to \in Accounts, NEW n \in U64,
           MintTokens(m, to, n)
    PROVE  LedgerTypeOK'
<1>1. amount[to] \in U64 /\ supply[m] \in U64  BY DEF LedgerTypeOK
<1>2. amount[to] + n \in U64 /\ supply[m] + n \in U64
  BY <1>1, U64Facts DEF MintTokens
<1>3. QED  BY <1>2 DEF MintTokens, LedgerTypeOK

\* So does burning.
LEMMA BurnTokensType ==
    ASSUME LedgerTypeOK, NEW m \in Mints, NEW from \in Accounts, NEW w,
           NEW n \in U64, BurnTokens(m, from, w, n)
    PROVE  LedgerTypeOK'
<1>1. amount[from] \in U64 /\ supply[m] \in U64  BY DEF LedgerTypeOK
<1>2. amount[from] - n \in U64 /\ supply[m] - n \in U64
  BY <1>1, U64Facts DEF BurnTokens
<1>3. QED  BY <1>2 DEF BurnTokens, LedgerTypeOK

\* Emptying accounts keeps the type, and what they gave is a natural number.
LEMMA EmptiedType ==
    ASSUME LedgerTypeOK, NEW m, NEW sources \in SUBSET Accounts
    PROVE  /\ Emptied(Harvestable(m, sources)) \in [Accounts -> U64]
           /\ Total(withheld, Harvestable(m, sources)) \in Nat
<1>1. Harvestable(m, sources) \in SUBSET Accounts  BY DEF Harvestable
<1>2. IsFiniteSet(Harvestable(m, sources))
  BY <1>1, AccountsFinite, FS_Subset
<1>3. Total(withheld, Harvestable(m, sources)) \in Nat
  BY <1>2, SumNat, BoundsAreNatural DEF Total
<1>4. Emptied(Harvestable(m, sources)) \in [Accounts -> U64]
  BY U64Facts DEF Emptied, LedgerTypeOK
<1>5. QED  BY <1>3, <1>4

\* So does gathering fees from accounts into a token account.
LEMMA CollectFeesType ==
    ASSUME LedgerTypeOK, NEW m \in Mints, NEW dest \in Accounts, NEW w,
           NEW sources \in SUBSET Accounts, CollectFees(m, dest, w, sources)
    PROVE  LedgerTypeOK'
<1> DEFINE sum == Total(withheld, Harvestable(m, sources))
<1>1. sum \in Nat /\ Emptied(Harvestable(m, sources)) \in [Accounts -> U64]
  BY EmptiedType
<1>2. /\ amount[dest] + sum <= MaxU64
      /\ amount' = [amount EXCEPT ![dest] = @ + sum]
      /\ withheld' = Emptied(Harvestable(m, sources))
      /\ supply' = supply /\ feePool' = feePool
  BY DEF CollectFees
<1> HIDE DEF sum
<1>3. amount[dest] \in U64  BY DEF LedgerTypeOK
<1>4. amount[dest] + sum \in U64  BY <1>1, <1>2, <1>3, U64Facts
<1>5. QED  BY <1>1, <1>2, <1>4 DEF LedgerTypeOK

\* So does gathering fees from accounts into the mint.
LEMMA HarvestFeesType ==
    ASSUME LedgerTypeOK, NEW m \in Mints, NEW sources \in SUBSET Accounts,
           HarvestFees(m, sources)
    PROVE  LedgerTypeOK'
<1> DEFINE sum == Total(withheld, Harvestable(m, sources))
<1>1. sum \in Nat /\ Emptied(Harvestable(m, sources)) \in [Accounts -> U64]
  BY EmptiedType
<1>2. /\ feePool[m] + sum <= MaxU64
      /\ feePool' = [feePool EXCEPT ![m] = @ + sum]
      /\ withheld' = Emptied(Harvestable(m, sources))
      /\ supply' = supply /\ amount' = amount
  BY DEF HarvestFees
<1> HIDE DEF sum
<1>3. feePool[m] \in U64  BY DEF LedgerTypeOK
<1>4. feePool[m] + sum \in U64  BY <1>1, <1>2, <1>3, U64Facts
<1>5. QED  BY <1>1, <1>2, <1>4 DEF LedgerTypeOK

\* So does taking the fees out of the mint.
LEMMA CollectPoolType ==
    ASSUME LedgerTypeOK, NEW m \in Mints, NEW dest \in Accounts, NEW w,
           CollectPool(m, dest, w)
    PROVE  LedgerTypeOK'
<1>1. amount[dest] \in U64 /\ feePool[m] \in U64  BY DEF LedgerTypeOK
<1>2. amount[dest] + feePool[m] \in U64 /\ 0 \in U64
  BY <1>1, U64Facts DEF CollectPool
<1>3. QED  BY <1>2 DEF CollectPool, LedgerTypeOK

-----------------------------------------------------------------------------
(* Each instruction keeps the types.                                       *)

\* What a transaction records of its signers.
LEMMA SignedType ==
    ASSUME NEW who \in SUBSET Wallets, Signed(who) \/ SignedWithMemo(who)
    PROVE  tx' \in [signers : SUBSET Wallets, memo : BOOLEAN]
<1>1. CASE Signed(who)  BY <1>1 DEF Signed
<1>2. CASE SignedWithMemo(who)  BY <1>2 DEF SignedWithMemo
<1>3. QED  BY <1>1, <1>2

\* Rent is a natural number.
LEMMA RentNat ==
    ASSUME NEW k \in Nat
    PROVE  Rent(k) \in Nat
BY DEF Rent

\* A new mint has its types, and so have its supply and its fees.
LEMMA InitializeMintType ==
    ASSUME TypeOK, NEW m \in Mints, NEW conf \in MintState, InitializeMint(m, conf)
    PROVE  /\ mint' \in [Mints -> MintState \cup {Absent}]
           /\ supply' \in [Mints -> U64] /\ feePool' \in [Mints -> U64]
BY U64Facts DEF TypeOK, InitializeMint

\* The shared part of the instructions that create a mint keeps the types.
LEMMA CreateFundedMintType ==
    ASSUME TypeOK, NEW m \in Mints, NEW p \in Wallets, NEW w \in Wallets,
           NEW conf \in MintState, NEW rent \in Nat,
           CreateFundedMint(m, p, w, conf, rent)
    PROVE  TypeOK'
<1>1. lamports' \in [Addresses -> Nat]
  BY CreateAccountType, AddressKinds DEF TypeOK, CreateFundedMint
<1>2. tx' \in [signers : SUBSET Wallets, memo : BOOLEAN]
  BY SignedType DEF CreateFundedMint
<1>3. /\ mint' \in [Mints -> MintState \cup {Absent}]
      /\ supply' \in [Mints -> U64] /\ feePool' \in [Mints -> U64]
  BY InitializeMintType DEF CreateFundedMint
<1>4. QED  BY <1>1, <1>2, <1>3 DEF TypeOK, CreateFundedMint

\* So does the creation of a mint together with an account.
LEMMA CreateMintAndAccountType ==
    ASSUME TypeOK, NEW m \in Mints, NEW a \in KeyAccounts,
           NEW p \in Wallets, NEW w \in Wallets, NEW k \in Nat,
           NEW conf \in MintState, NEW room \in Rooms,
           CreateMintAndAccount(m, a, p, w, k, conf, room)
    PROVE  TypeOK'
<1> DEFINE new == NewAccount(m, conf, w, TRUE, room)
<1>1. new \in AccountState /\ Rent(Slots(new)) \in Nat /\ Rent(k) \in Nat
  BY NewAccountType, RentNat
<1>2. a \in Accounts  BY DEF Accounts
<1>3. /\ CreateTwoAccounts(p, m, Rent(k), a, Rent(Slots(new)))
      /\ InitializeMint(m, conf) /\ InitializeAccount(a, new)
      /\ Signed({p, w}) /\ UNCHANGED <<amount, withheld, metaLists>>
  BY DEF CreateMintAndAccount
<1> HIDE DEF new
<1>4. lamports' \in [Addresses -> Nat]
  BY <1>1, <1>2, <1>3, CreateTwoAccountsType, AddressKinds DEF TypeOK
<1>5. tx' \in [signers : SUBSET Wallets, memo : BOOLEAN]
  BY <1>3, SignedType
<1>6. /\ mint' \in [Mints -> MintState \cup {Absent}]
      /\ supply' \in [Mints -> U64] /\ feePool' \in [Mints -> U64]
  BY <1>3, InitializeMintType
<1>7. account' \in [Accounts -> AccountState \cup {Absent}]
  BY <1>1, <1>3 DEF TypeOK, InitializeAccount
<1>8. QED  BY <1>3, <1>4, <1>5, <1>6, <1>7 DEF TypeOK

\* Accounts of the mint are frozen when they are opened, or may be in future.
Freezes(conf) == conf.frozenDefault \/ conf.freeze # NoOne

\* A mint that charges fees, or freezes accounts, does not do both, and has no
\* close authority.
Lasting(conf) ==
    /\ conf.hasFee => ~Freezes(conf)
    /\ conf.hasFee \/ Freezes(conf) => conf.close = NoOne

\* What the instructions that create a mint have in common: the extension is a
\* well-formed one, it is the metadata pointer or not, a mint with fees or frozen
\* accounts is a lasting one, and a token account may come with the mint.
Created(m, p, w, metadata) ==
    \E conf \in MintState :
        /\ conf.metadata = metadata
        /\ Lasting(conf)
        /\ \/ \E rent \in Nat : CreateFundedMint(m, p, w, conf, rent)
           \/ \E a \in KeyAccounts, k \in Nat, room \in Rooms :
                  CreateMintAndAccount(m, a, p, w, k, conf, room)

\* The rent of one extension is one of them.
LEMMA CreateMintCreates ==
    ASSUME NEW m, NEW p, NEW w, NEW conf \in MintState,
           Lasting(conf), CreateMint(m, p, w, conf)
    PROVE  Created(m, p, w, conf.metadata)
<1>1. Rent(1) \in Nat  BY RentNat
<1>2. QED  BY <1>1 DEF CreateMint, Created

\* Every other instruction that creates a mint is of this form, and sets no
\* metadata pointer.
LEMMA CreateMintStepCreates ==
    ASSUME CreateMintStep
    PROVE  \E m \in Mints, p, w \in Wallets : Created(m, p, w, FALSE)
<1> PICK m \in Mints, p \in Wallets, w \in Wallets :
        \/ MintCloseAuthority(m, p, w)
        \/ \E withdraw \in Key, bps \in BasisPoints, maxFee \in U64 :
               TransferFeeConfig(m, p, w, withdraw, bps, maxFee)
        \/ DefaultAccountState(m, p, w)
        \/ PermanentDelegate(m, p, w)
        \/ \E program \in Hooks : InitializeHookMint(m, p, w, program)
        \/ InterestBearingToken(m, p, w)
        \/ InitializeConfidentialMint(m, p, w)
        \/ InitializeGroupPointer(m, p, w)
        \/ \E group \in Mints : InitializeMemberPointer(m, group, p, w)
        \/ ClientCreateMint(m, w)
        \/ \E a \in KeyAccounts, room \in Rooms :
               \/ ImmutableOwner(m, a, p, w, room)
               \/ NonTransferableToken(m, a, p, w, room)
  BY DEF CreateMintStep
<1> w \in Key  BY DEF Key
<1> DEFINE plain == PlainMint(w)
<1>0. /\ plain \in MintState /\ plain.metadata = FALSE
      /\ plain.hasFee = FALSE /\ plain.close = NoOne
      /\ plain.frozenDefault = FALSE /\ plain.freeze = NoOne
  BY PlainMintType DEF PlainMint
<1> Lasting(plain)  BY <1>0 DEF Lasting, Freezes
<1> HIDE DEF plain
<1>1. CASE MintCloseAuthority(m, p, w)
  <2> DEFINE conf == [plain EXCEPT !.close = w]
  <2>1. /\ conf \in MintState /\ conf.metadata = FALSE
        /\ Lasting(conf)
    BY <1>0 DEF MintState, Lasting, Freezes
  <2>2. CreateMint(m, p, w, conf)  BY <1>1 DEF MintCloseAuthority, plain
  <2> HIDE DEF conf
  <2>3. QED  BY <2>1, <2>2, CreateMintCreates
<1>2. CASE \E withdraw \in Key, bps \in BasisPoints, maxFee \in U64 :
               TransferFeeConfig(m, p, w, withdraw, bps, maxFee)
  <2>1. PICK withdraw \in Key, bps \in BasisPoints, maxFee \in U64 :
               TransferFeeConfig(m, p, w, withdraw, bps, maxFee)
    BY <1>2
  <2> DEFINE conf == [plain EXCEPT !.hasFee = TRUE, !.withdraw = withdraw,
                                   !.bps = bps, !.maxFee = maxFee]
  <2>2. /\ conf \in MintState /\ conf.metadata = FALSE
        /\ Lasting(conf)
    BY <1>0 DEF MintState, Lasting, Freezes
  <2>3. CreateMint(m, p, w, conf)  BY <2>1 DEF TransferFeeConfig, plain
  <2> HIDE DEF conf
  <2>4. QED  BY <2>2, <2>3, CreateMintCreates
<1>3. CASE DefaultAccountState(m, p, w)
  <2> DEFINE conf == [plain EXCEPT !.frozenDefault = TRUE, !.freeze = w]
  <2>1. /\ conf \in MintState /\ conf.metadata = FALSE
        /\ Lasting(conf)
    BY <1>0 DEF MintState, Lasting, Freezes
  <2>2. CreateMint(m, p, w, conf)  BY <1>3 DEF DefaultAccountState, plain
  <2> HIDE DEF conf
  <2>3. QED  BY <2>1, <2>2, CreateMintCreates
<1>4. CASE PermanentDelegate(m, p, w)
  <2> DEFINE conf == [plain EXCEPT !.delegate = w]
  <2>1. /\ conf \in MintState /\ conf.metadata = FALSE
        /\ Lasting(conf)
    BY <1>0 DEF MintState, Lasting, Freezes
  <2>2. CreateMint(m, p, w, conf)  BY <1>4 DEF PermanentDelegate, plain
  <2> HIDE DEF conf
  <2>3. QED  BY <2>1, <2>2, CreateMintCreates
<1>5. CASE \E program \in Hooks : InitializeHookMint(m, p, w, program)
  <2>1. PICK program \in Hooks : InitializeHookMint(m, p, w, program)
    BY <1>5
  <2> DEFINE conf == [plain EXCEPT !.hookExt = TRUE, !.hook = program]
  <2>2. /\ conf \in MintState /\ conf.metadata = FALSE
        /\ Lasting(conf)
    BY <1>0 DEF MintState, Lasting, Freezes
  <2>3. CreateMint(m, p, w, conf)  BY <2>1 DEF InitializeHookMint, plain
  <2> HIDE DEF conf
  <2>4. QED  BY <2>2, <2>3, CreateMintCreates
<1>6. CASE \/ InterestBearingToken(m, p, w)
           \/ InitializeConfidentialMint(m, p, w)
           \/ \E group \in Mints : InitializeMemberPointer(m, group, p, w)
  <2>1. CreateMint(m, p, w, plain)
    BY <1>6 DEF InterestBearingToken, InitializeConfidentialMint,
                InitializeMemberPointer, plain
  <2>2. QED  BY <1>0, <2>1, CreateMintCreates
<1>7. CASE InitializeGroupPointer(m, p, w)
  <2> DEFINE conf == [plain EXCEPT !.groupPointer = TRUE]
  <2>1. /\ conf \in MintState /\ conf.metadata = FALSE
        /\ Lasting(conf)
    BY <1>0 DEF MintState, Lasting, Freezes
  <2>2. CreateMint(m, p, w, conf)  BY <1>7 DEF InitializeGroupPointer, plain
  <2> HIDE DEF conf
  <2>3. QED  BY <2>1, <2>2, CreateMintCreates
<1>8. CASE \E a \in KeyAccounts, room \in Rooms :
               \/ ImmutableOwner(m, a, p, w, room)
               \/ NonTransferableToken(m, a, p, w, room)
  <2>1. PICK a \in KeyAccounts, room \in Rooms :
               \/ ImmutableOwner(m, a, p, w, room)
               \/ NonTransferableToken(m, a, p, w, room)
    BY <1>8
  <2> DEFINE conf == [plain EXCEPT !.nonTransferable = TRUE]
  <2>2. /\ conf \in MintState /\ conf.metadata = FALSE
        /\ Lasting(conf)
    BY <1>0 DEF MintState, Lasting, Freezes
  <2>3. \/ CreateMintAndAccount(m, a, p, w, 0, plain, room)
        \/ CreateMintAndAccount(m, a, p, w, 1, conf, room)
    BY <2>1 DEF ImmutableOwner, NonTransferableToken, plain
  <2> HIDE DEF conf
  <2>4. QED  BY <1>0, <2>2, <2>3 DEF Created
<1>9. CASE ClientCreateMint(m, w)
  <2>1. Rent(0) \in Nat  BY RentNat
  <2>2. CreateFundedMint(m, w, w, plain, Rent(0))
    BY <1>9 DEF ClientCreateMint, plain
  <2>3. QED  BY <1>0, <2>1, <2>2 DEF Created
<1>10. QED
  BY <1>1, <1>2, <1>3, <1>4, <1>5, <1>6, <1>7, <1>8, <1>9

\* initialize_metadata_pointer is of this form too.
LEMMA MetadataPointerCreates ==
    ASSUME NEW m, NEW p, NEW w \in Wallets, InitializeMetadataPointer(m, p, w)
    PROVE  Created(m, p, w, TRUE)
<1> DEFINE plain == PlainMint(w)
           conf  == [plain EXCEPT !.metadata = TRUE]
<1>1. 2 * MetadataMintLen \in Nat  BY MetadataMintLenIsPositive
<1>2. /\ plain \in MintState /\ plain.hasFee = FALSE
      /\ plain.frozenDefault = FALSE /\ plain.freeze = NoOne
  BY PlainMintType DEF PlainMint
<1>3. CreateFundedMint(m, p, w, conf, 2 * MetadataMintLen)
  BY DEF InitializeMetadataPointer
<1> HIDE DEF plain
<1>4. conf \in MintState /\ conf.metadata = TRUE /\ Lasting(conf)
  BY <1>2 DEF MintState, Lasting, Freezes
<1> HIDE DEF conf
<1>5. QED  BY <1>1, <1>3, <1>4 DEF Created

\* The creation of a mint keeps the types.
LEMMA CreatedType ==
    ASSUME TypeOK, NEW m \in Mints, NEW p \in Wallets, NEW w \in Wallets,
           NEW metadata, Created(m, p, w, metadata)
    PROVE  TypeOK'
BY CreateFundedMintType, CreateMintAndAccountType DEF Created

\* Every instruction that creates a mint keeps the types.
LEMMA CreateMintStepType ==
    ASSUME TypeOK, CreateMintStep
    PROVE  TypeOK'
<1>1. PICK m \in Mints, p \in Wallets, w \in Wallets :
         Created(m, p, w, FALSE)
  BY CreateMintStepCreates
<1>2. QED  BY <1>1, CreatedType

\* Closing a mint, changing its default state and creating the list of its hook
\* keep the types.
LEMMA ChangeMintStepType ==
    ASSUME TypeOK, ChangeMintStep
    PROVE  TypeOK'
<1> PICK m \in Mints, w \in Wallets :
        \/ \E dest \in Wallets : CloseMintAccount(m, dest, w)
        \/ \E frozen \in BOOLEAN : UpdateDefaultAccountState(m, w, frozen)
        \/ InitializeExtraAccountMetaList(m, w)
  BY DEF ChangeMintStep
<1>0. ASSUME NEW who \in SUBSET Wallets, Signed(who)
      PROVE  tx' \in [signers : SUBSET Wallets, memo : BOOLEAN]
  BY <1>0, SignedType
<1>00. ASSUME Signed({w})
       PROVE  tx' \in [signers : SUBSET Wallets, memo : BOOLEAN]
  BY <1>0, <1>00
<1>1. CASE \E dest \in Wallets : CloseMintAccount(m, dest, w)
  <2>1. PICK dest \in Wallets : CloseMintAccount(m, dest, w)  BY <1>1
  <2>2. lamports[dest] + lamports[m] \in Nat  BY AddressKinds DEF TypeOK
  <2>3. lamports' \in [Addresses -> Nat]
    BY <2>1, <2>2 DEF CloseMintAccount, TypeOK
  <2>4. mint' \in [Mints -> MintState \cup {Absent}]
    BY <2>1 DEF CloseMintAccount, TypeOK
  <2>5. Signed({w})  BY <2>1 DEF CloseMintAccount
  <2>6. QED
    BY <1>00, <2>5, <2>1, <2>3, <2>4 DEF CloseMintAccount, TypeOK, ledger
<1>2. CASE \E frozen \in BOOLEAN : UpdateDefaultAccountState(m, w, frozen)
  <2>1. PICK frozen \in BOOLEAN : UpdateDefaultAccountState(m, w, frozen)
    BY <1>2
  <2>2. mint[m] \in MintState
    BY <2>1 DEF UpdateDefaultAccountState, Live, TypeOK
  <2>3. [mint[m] EXCEPT !.frozenDefault = frozen] \in MintState
    BY <2>2 DEF MintState
  <2>4. mint' = [mint EXCEPT ![m] = [mint[m] EXCEPT !.frozenDefault = frozen]]
    BY <2>1 DEF UpdateDefaultAccountState
  <2>5. mint' \in [Mints -> MintState \cup {Absent}]
    BY <2>3, <2>4 DEF TypeOK
  <2>6. Signed({w})  BY <2>1 DEF UpdateDefaultAccountState
  <2>7. QED
    BY <1>00, <2>6, <2>1, <2>5 DEF UpdateDefaultAccountState, TypeOK, ledger
<1>3. CASE InitializeExtraAccountMetaList(m, w)
  <2>1. lamports' \in [Addresses -> Nat]
    BY <1>3, CreateAccountType, AddressKinds, RentNat
    DEF TypeOK, InitializeExtraAccountMetaList
  <2>2. Signed({w})  BY <1>3 DEF InitializeExtraAccountMetaList
  <2>3. QED
    BY <1>00, <2>2, <1>3, <2>1
    DEF InitializeExtraAccountMetaList, TypeOK, ledger
<1>4. QED  BY <1>1, <1>2, <1>3

\* So do the instructions of a mint with metadata.
LEMMA MetadataStepType ==
    ASSUME TypeOK, MetadataStep
    PROVE  TypeOK'
<1> PICK m \in Mints, p \in Wallets, w \in Wallets :
        InitializeMetadataPointer(m, p, w) \/ UpdateMetadataField(m, p, w)
  BY DEF MetadataStep
<1>1. CASE InitializeMetadataPointer(m, p, w)
  BY <1>1, MetadataPointerCreates, CreatedType
<1>2. CASE UpdateMetadataField(m, p, w)
  <2>1. {p, w} \in SUBSET Wallets /\ Signed({p, w})
    BY <1>2 DEF UpdateMetadataField
  <2>2. tx' \in [signers : SUBSET Wallets, memo : BOOLEAN]
    BY <2>1, SignedType
  <2>3. QED  BY <1>2, <2>2 DEF UpdateMetadataField, TypeOK, ledger
<1>3. QED  BY <1>1, <1>2

\* The shared part of the instructions that create an account keeps the types.
LEMMA CreateTokenAccountType ==
    ASSUME TypeOK, NEW a \in KeyAccounts, NEW m \in Mints,
           NEW p \in Wallets, NEW w \in Wallets, NEW room \in Rooms,
           NEW memo \in BOOLEAN, CreateTokenAccount(a, m, p, w, room, memo)
    PROVE  TypeOK'
<1> DEFINE new   == NewAccount(m, mint[m], w, FALSE, room)
           final == [new EXCEPT !.memo = memo,
                                !.room = IF memo THEN @ - 1 ELSE @]
<1>1. mint[m] \in MintState  BY DEF CreateTokenAccount, Live, TypeOK
<1>2. new \in AccountState /\ Rent(Slots(new)) \in Nat
  BY <1>1, NewAccountType
<1>3. new.room = room  BY DEF NewAccount
<1>4. /\ memo => room > 0
      /\ CreateAccount(p, a, Rent(Slots(new)))
      /\ account' = [account EXCEPT ![a] = final]
      /\ Signed({p, w}) /\ UNCHANGED <<mint, ledger, metaLists>>
  BY DEF CreateTokenAccount, InitializeAccount
<1> HIDE DEF new
<1>5. (IF memo THEN new.room - 1 ELSE new.room) \in Rooms
  BY <1>3, <1>4, BoundsAreNatural DEF Rooms
<1>6. final \in AccountState  BY <1>2, <1>5 DEF AccountState
<1> HIDE DEF final
<1>7. account' \in [Accounts -> AccountState \cup {Absent}]
  BY <1>4, <1>6 DEF TypeOK
<1>8. a \in Accounts  BY DEF Accounts
<1>9. lamports' \in [Addresses -> Nat]
  BY <1>2, <1>4, <1>8, CreateAccountType, AddressKinds DEF TypeOK
<1>10. tx' \in [signers : SUBSET Wallets, memo : BOOLEAN]
  BY <1>4, SignedType
<1>11. QED  BY <1>4, <1>7, <1>9, <1>10 DEF TypeOK, ledger

\* So does the creation of an associated account.
LEMMA CreateAtaType ==
    ASSUME TypeOK, NEW w \in Wallets, NEW m \in Mints, NEW p \in Wallets,
           CreateAta(w, m, p)
    PROVE  TypeOK'
<1>1. tx' \in [signers : SUBSET Wallets, memo : BOOLEAN]
  BY SignedType DEF CreateAta
<1>2. CASE UNCHANGED <<account, lamports>>
  BY <1>1, <1>2 DEF CreateAta, TypeOK, ledger
<1>3. CASE ~UNCHANGED <<account, lamports>>
  <2> DEFINE new == NewAccount(m, mint[m], w, TRUE, 0)
  <2>1. mint[m] \in MintState  BY DEF CreateAta, Live, TypeOK
  <2>2. 0 \in Rooms  BY BoundsAreNatural DEF Rooms
  <2>3. new \in AccountState /\ Rent(Slots(new)) \in Nat
    BY <2>1, <2>2, NewAccountType
  <2>4. /\ CreateAccount(p, Ata(w, m), Rent(Slots(new)))
        /\ account' = [account EXCEPT ![Ata(w, m)] = new]
    BY <1>3 DEF CreateAta, InitializeAccount
  <2> HIDE DEF new
  <2>5. Ata(w, m) \in Accounts  BY AddressKinds
  <2>6. account' \in [Accounts -> AccountState \cup {Absent}]
    BY <2>3, <2>4 DEF TypeOK
  <2>7. lamports' \in [Addresses -> Nat]
    BY <2>3, <2>4, <2>5, CreateAccountType, AddressKinds DEF TypeOK
  <2>8. QED  BY <1>1, <2>6, <2>7 DEF CreateAta, TypeOK, ledger
<1>4. QED  BY <1>2, <1>3

\* So does realloc.
LEMMA ReallocType ==
    ASSUME TypeOK, NEW a \in Accounts, NEW p \in Wallets, NEW w \in Wallets,
           Realloc(a, p, w)
    PROVE  TypeOK'
<1>1. tx' \in [signers : SUBSET Wallets, memo : BOOLEAN]
  BY SignedType DEF Realloc
<1>2. account[a] \in AccountState  BY DEF Realloc, Open, TypeOK
<1>3. account[a].room \in Rooms  BY <1>2 DEF AccountState
<1>4. CASE UNCHANGED <<account, lamports>>
  BY <1>1, <1>4 DEF Realloc, TypeOK, ledger
<1>5. CASE /\ account[a].room > 0 /\ UNCHANGED lamports
           /\ account' = [account EXCEPT ![a].memo = TRUE, ![a].room = @ - 1]
  <2> DEFINE new == [account[a] EXCEPT !.memo = TRUE, !.room = @ - 1]
  <2>1. account[a].room - 1 \in Rooms
    BY <1>3, <1>5, BoundsAreNatural DEF Rooms
  <2>2. new \in AccountState  BY <1>2, <2>1 DEF AccountState
  <2>3. account' = [account EXCEPT ![a] = new]  BY <1>5 DEF TypeOK
  <2> HIDE DEF new
  <2>4. QED  BY <1>1, <1>5, <2>2, <2>3 DEF Realloc, TypeOK, ledger
<1>6. CASE /\ lamports[p] > 0
           /\ lamports' = [lamports EXCEPT ![p] = @ - 1, ![a] = @ + 1]
           /\ account' = [account EXCEPT ![a].memo = TRUE]
  <2> DEFINE new == [account[a] EXCEPT !.memo = TRUE]
  <2>1. new \in AccountState  BY <1>2 DEF AccountState
  <2>2. account' = [account EXCEPT ![a] = new]  BY <1>6 DEF TypeOK
  <2> HIDE DEF new
  <2>3. lamports[p] - 1 \in Nat /\ \A x \in Nat : x + 1 \in Nat
    BY <1>6, AddressKinds DEF TypeOK
  <2>4. lamports' \in [Addresses -> Nat]
    BY <1>6, <2>3, AddressKinds DEF TypeOK
  <2>5. QED  BY <1>1, <2>1, <2>2, <2>4 DEF Realloc, TypeOK, ledger
<1>7. QED  BY <1>4, <1>5, <1>6 DEF Realloc

\* Every instruction that creates or reallocates a token account keeps the types.
LEMMA AccountStepType ==
    ASSUME TypeOK, AccountStep
    PROVE  TypeOK'
<1> PICK p \in Wallets, w \in Wallets :
        \/ \E m \in Mints : CreateAta(w, m, p)
        \/ \E m \in Mints, a \in KeyAccounts, room \in Rooms :
               \/ EnableMemo(a, m, p, w, room)
               \/ InitializeTokenAccountWith(a, m, p, w, room)
               \/ InitializeConfidentialAccount(a, m, p, w, room)
        \/ \E a \in Accounts : Realloc(a, p, w)
  BY DEF AccountStep
<1>1. CASE \E m \in Mints : CreateAta(w, m, p)
  BY <1>1, CreateAtaType
<1>2. ASSUME NEW m \in Mints, NEW a \in KeyAccounts, NEW room \in Rooms,
             \/ EnableMemo(a, m, p, w, room)
             \/ InitializeTokenAccountWith(a, m, p, w, room)
             \/ InitializeConfidentialAccount(a, m, p, w, room)
      PROVE  TypeOK'
  <2>1. \E memo \in BOOLEAN : CreateTokenAccount(a, m, p, w, room, memo)
    BY <1>2 DEF EnableMemo, InitializeTokenAccountWith,
                InitializeConfidentialAccount
  <2>2. QED  BY <2>1, CreateTokenAccountType
<1>3. CASE \E a \in Accounts : Realloc(a, p, w)
  BY <1>3, ReallocType
<1>4. QED  BY <1>1, <1>2, <1>3

\* A step that moves tokens and SOL within their types, and creates nothing.
LEMMA LedgerStepType ==
    ASSUME TypeOK, LedgerTypeOK', lamports' \in [Addresses -> Nat],
           NEW who \in SUBSET Wallets, Signed(who) \/ SignedWithMemo(who),
           UNCHANGED <<mint, account, metaLists>>
    PROVE  TypeOK'
<1>1. tx' \in [signers : SUBSET Wallets, memo : BOOLEAN]  BY SignedType
<1>2. QED  BY <1>1 DEF TypeOK, LedgerTypeOK

\* The ledger's types are part of the types.
LEMMA TypeOfLedger ==
    ASSUME TypeOK
    PROVE  LedgerTypeOK /\ \A m \in Mints : Live(m) => mint[m] \in MintState
BY DEF TypeOK, LedgerTypeOK, Live

\* The toll leaves the authority with what it has to spare.
LEMMA TransferSolType ==
    ASSUME lamports \in [Addresses -> Nat], NEW w \in Wallets,
           NEW to \in Wallets, TransferSol(w, to, SolToll)
    PROVE  lamports' \in [Addresses -> Nat]
<1>1. w \in Addresses /\ to \in Addresses  BY AddressKinds
<1>2. lamports[w] - SolToll \in Nat
  BY <1>1, TollIsNatural DEF TransferSol
<1>3. \A x \in Nat : x + SolToll \in Nat  BY TollIsNatural
<1> DEFINE paid == [lamports EXCEPT ![w] = @ - SolToll]
<1>4. paid \in [Addresses -> Nat]  BY <1>1, <1>2
<1>5. lamports' = [paid EXCEPT ![to] = @ + SolToll]  BY DEF TransferSol
<1> HIDE DEF paid
<1>6. QED  BY <1>1, <1>3, <1>4, <1>5

\* Every instruction that mints, moves or burns tokens keeps the types.
LEMMA TokenStepType ==
    ASSUME TypeOK, TokenStep
    PROVE  TypeOK'
<1> PICK m \in Mints, w \in Wallets, n \in U64 :
        \/ MintTo(m, w, n)
        \/ \E from \in Accounts : BurnCpi(m, from, w, n)
        \/ \E to \in Accounts :
               \/ \E fee \in U64 : TransferTo(m, w, to, n, fee)
               \/ MemoTransfer(m, w, to, n)
        \/ \E from, to \in Accounts :
               \/ \E badWallet \in Wallets :
                      TransferToken(m, from, to, w, badWallet, n)
               \/ TransferHookToken(m, from, to, w, n)
  BY DEF TokenStep
<1>0. LedgerTypeOK /\ lamports \in [Addresses -> Nat] /\ {w} \in SUBSET Wallets
        /\ Ata(w, m) \in Accounts
  BY TypeOfLedger, AddressKinds DEF TypeOK
<1>1. CASE MintTo(m, w, n)
  <2>1. LedgerTypeOK'  BY <1>0, <1>1, MintTokensType DEF MintTo
  <2>2. QED  BY <1>0, <1>1, <2>1, LedgerStepType DEF MintTo
<1>2. CASE \E from \in Accounts : BurnCpi(m, from, w, n)
  <2>1. PICK from \in Accounts : BurnCpi(m, from, w, n)  BY <1>2
  <2>2. LedgerTypeOK'  BY <1>0, <2>1, BurnTokensType DEF BurnCpi
  <2>3. QED  BY <1>0, <2>1, <2>2, LedgerStepType DEF BurnCpi
<1>3. ASSUME NEW to \in Accounts, NEW fee \in U64, TransferTo(m, w, to, n, fee)
      PROVE  TypeOK'
  <2>1. mint[m] \in MintState  BY <1>3, TypeOfLedger DEF TransferTo
  <2>2. LedgerTypeOK'  BY <1>0, <1>3, <2>1, TransferType DEF TransferTo
  <2>3. QED  BY <1>0, <1>3, <2>2, LedgerStepType DEF TransferTo
<1>4. ASSUME NEW to \in Accounts, MemoTransfer(m, w, to, n)
      PROVE  TypeOK'
  <2>1. mint[m] \in MintState  BY <1>4, TypeOfLedger DEF MemoTransfer
  <2>2. LedgerTypeOK'  BY <1>0, <1>4, <2>1, TransferType DEF MemoTransfer
  <2>3. QED  BY <1>0, <1>4, <2>2, LedgerStepType DEF MemoTransfer
<1>5. ASSUME NEW from \in Accounts, NEW to \in Accounts, NEW bad \in Wallets,
             TransferToken(m, from, to, w, bad, n)
      PROVE  TypeOK'
  <2>1. mint[m] \in MintState  BY <1>5, TypeOfLedger DEF TransferToken
  <2>2. LedgerTypeOK'  BY <1>0, <1>5, <2>1, TransferType DEF TransferToken
  <2>3. lamports' \in [Addresses -> Nat]
    BY <1>0, <1>5, TransferSolType DEF TransferToken
  <2>4. QED  BY <1>0, <1>5, <2>2, <2>3, LedgerStepType DEF TransferToken
<1>6. ASSUME NEW from \in Accounts, NEW to \in Accounts,
             TransferHookToken(m, from, to, w, n)
      PROVE  TypeOK'
  <2>1. mint[m] \in MintState  BY <1>6, TypeOfLedger DEF TransferHookToken
  <2>2. LedgerTypeOK'  BY <1>0, <1>6, <2>1, TransferType DEF TransferHookToken
  <2>3. QED  BY <1>0, <1>6, <2>2, LedgerStepType DEF TransferHookToken
<1>7. QED  BY <1>1, <1>2, <1>3, <1>4, <1>5, <1>6

\* Every instruction that gathers fees keeps the types.
LEMMA FeeStepType ==
    ASSUME TypeOK, FeeStep
    PROVE  TypeOK'
<1> PICK m \in Mints :
        \/ \E remaining \in SUBSET (Accounts \cup Lookalikes) :
               \/ \E w \in Wallets : WithdrawWithheldAccount(m, w, remaining)
               \/ HarvestWithheldToken(m, remaining)
        \/ \E w \in Wallets : WithdrawWithheldMint(m, w)
  BY DEF FeeStep
<1>0. LedgerTypeOK /\ lamports \in [Addresses -> Nat]
  BY TypeOfLedger DEF TypeOK
<1>1. ASSUME NEW remaining \in SUBSET (Accounts \cup Lookalikes), NEW w \in Wallets,
             WithdrawWithheldAccount(m, w, remaining)
      PROVE  TypeOK'
  <2>1. FilterSources(remaining) \in SUBSET Accounts /\ Ata(w, m) \in Accounts
    BY AddressKinds DEF FilterSources
  <2>2. LedgerTypeOK'
    BY <1>0, <1>1, <2>1, CollectFeesType DEF WithdrawWithheldAccount
  <2>3. QED  BY <1>0, <1>1, <2>2, LedgerStepType DEF WithdrawWithheldAccount
<1>2. ASSUME NEW remaining \in SUBSET (Accounts \cup Lookalikes),
             HarvestWithheldToken(m, remaining)
      PROVE  TypeOK'
  <2>1. FilterSources(remaining) \in SUBSET Accounts
    BY DEF FilterSources
  <2>2. LedgerTypeOK'
    BY <1>0, <1>2, <2>1, HarvestFeesType DEF HarvestWithheldToken
  <2>3. QED  BY <1>0, <1>2, <2>2, LedgerStepType DEF HarvestWithheldToken
<1>3. ASSUME NEW w \in Wallets, WithdrawWithheldMint(m, w)
      PROVE  TypeOK'
  <2>1. LedgerTypeOK'
    BY <1>0, <1>3, AddressKinds, CollectPoolType DEF WithdrawWithheldMint
  <2>2. QED  BY <1>0, <1>3, <2>1, LedgerStepType DEF WithdrawWithheldMint
<1>4. QED  BY <1>1, <1>2, <1>3

\* What the clients ask of Token-2022 directly keeps the types.
LEMMA ClientStepType ==
    ASSUME TypeOK, ClientStep
    PROVE  TypeOK'
<1> PICK a \in Accounts, w \in Wallets :
        \/ EnableCpiGuard(a, w)
        \/ \E m \in Mints, n \in U64 : ClientMintTo(m, w, a, n)
  BY DEF ClientStep
<1>0. LedgerTypeOK /\ lamports \in [Addresses -> Nat]
  BY TypeOfLedger DEF TypeOK
<1>1. CASE EnableCpiGuard(a, w)
  <2> DEFINE new == [account[a] EXCEPT !.guard = TRUE, !.room = @ - 1]
  <2>1. account[a] \in AccountState  BY <1>1 DEF EnableCpiGuard, Open, TypeOK
  <2>2. account[a].room - 1 \in Rooms
    BY <1>1, <2>1, BoundsAreNatural DEF EnableCpiGuard, AccountState, Rooms
  <2>3. new \in AccountState  BY <2>1, <2>2 DEF AccountState
  <2>4. account' = [account EXCEPT ![a] = new]
    BY <1>1 DEF EnableCpiGuard, TypeOK
  <2> HIDE DEF new
  <2>5. account' \in [Accounts -> AccountState \cup {Absent}]
    BY <2>3, <2>4 DEF TypeOK
  <2>6. tx' \in [signers : SUBSET Wallets, memo : BOOLEAN]
    BY <1>1, SignedType DEF EnableCpiGuard
  <2>7. QED  BY <1>1, <2>5, <2>6 DEF EnableCpiGuard, TypeOK, ledger
<1>2. ASSUME NEW m \in Mints, NEW n \in U64, ClientMintTo(m, w, a, n)
      PROVE  TypeOK'
  <2>1. LedgerTypeOK'  BY <1>0, <1>2, MintTokensType DEF ClientMintTo
  <2>2. QED  BY <1>0, <1>2, <2>1, LedgerStepType DEF ClientMintTo
<1>3. QED  BY <1>1, <1>2

\* The initial state has the types.
LEMMA InitType ==
    ASSUME Init
    PROVE  TypeOK
BY U64Facts, BoundsAreNatural DEF Init, TypeOK

\* Every step keeps the types.
LEMMA NextType ==
    ASSUME TypeOK, [Next]_vars
    PROVE  TypeOK'
<1>1. CASE Next
  BY <1>1, CreateMintStepType, ChangeMintStepType, AccountStepType,
     TokenStepType, FeeStepType, ClientStepType, MetadataStepType DEF Next
<1>2. CASE UNCHANGED vars  BY <1>2 DEF vars, TypeOK
<1>3. QED  BY <1>1, <1>2

\* In every reachable state every account holds a state its program can write,
\* every token amount fits its u64, and no address holds a negative number of
\* lamports: no subtraction of the instructions wraps.
THEOREM TypeCorrect == Spec => []TypeOK
<1>1. Init => TypeOK  BY InitType
<1>2. TypeOK /\ [Next]_vars => TypeOK'  BY NextType
<1>3. QED  BY <1>1, <1>2, PTL DEF Spec
=============================================================================
