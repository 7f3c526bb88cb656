------------------------------ MODULE RentProofs ------------------------------
(***************************************************************************)
(* The rent of the whole system, for every value of the constants: token   *)
(* accounts hold the rent of the slots they use, and addresses that can be *)
(* created again hold nothing.  And what the instructions do to a mint: it *)
(* changes little while it lives, and only its close authority ends it.    *)
(***************************************************************************)
EXTENDS SafetyProofs

-----------------------------------------------------------------------------
(* The creation of accounts.                                               *)

\* Addresses of different kinds are different.
LEMMA KindsDisjoint ==
    /\ \A w \in Wallets : w \notin Mints /\ w \notin Accounts
    /\ \A m \in Mints : m \notin Accounts
    /\ \A m \in Mints :
          MetaPda(m) \notin Wallets /\ MetaPda(m) \notin Mints
          /\ MetaPda(m) \notin Accounts
<1>1. /\ Wallets \cap Mints = {} /\ KeyAccounts \cap (Wallets \cup Mints) = {}
      /\ \A m \in Mints : MetaPda(m) \notin Wallets \cup Mints \cup Accounts
      /\ (Wallets \X Mints) \cap (Wallets \cup Mints \cup KeyAccounts) = {}
  BY OneKindOfAddress
<1>2. \A x \in Accounts : x \in Wallets \X Mints \/ x \in KeyAccounts
  BY DEF Accounts
<1>3. QED  BY <1>1, <1>2

\* A wallet pays for the creation of an account, which then holds its rent.
LEMMA CreationPays ==
    ASSUME lamports \in [Addresses -> Nat], NEW p \in Wallets,
           NEW x \in Addresses, x \notin Wallets, NEW rent,
           CreateAccount(p, x, rent)
    PROVE  /\ lamports'[x] = rent
           /\ \A y \in Addresses : y \notin Wallets /\ y # x =>
                  lamports'[y] = lamports[y]
BY DEF CreateAccount

\* And for the creation of two.
LEMMA TwoCreationsPay ==
    ASSUME lamports \in [Addresses -> Nat], NEW p \in Wallets,
           NEW x \in Addresses, x \notin Wallets,
           NEW y \in Addresses, y \notin Wallets, x # y,
           NEW rx, NEW ry, CreateTwoAccounts(p, x, rx, y, ry)
    PROVE  /\ lamports'[x] = rx /\ lamports'[y] = ry
           /\ \A z \in Addresses : z \notin Wallets /\ z # x /\ z # y =>
                  lamports'[z] = lamports[z]
BY DEF CreateTwoAccounts

-----------------------------------------------------------------------------
(* The slots of an account.                                                *)

\* A flag that takes a slot out of the room leaves the rent as it is, and one
\* that finds no room costs one more.
LEMMA FlagTakesSlot ==
    ASSUME NEW s \in AccountState, NEW t \in AccountState,
           NEW x \in {"memo", "guard"}, ~s[x], t[x],
           \A y \in {"feeExt", "hookExt", "nonTransferable", "immutable",
                     "memo", "guard"} \ {x} : t[y] = s[y]
    PROVE  /\ t.room = s.room - 1 => Slots(t) = Slots(s)
           /\ t.room = s.room => Slots(t) = Slots(s) + 1
<1> DEFINE Ext  == {"feeExt", "hookExt", "nonTransferable", "immutable",
                    "memo", "guard"}
           U(r) == {y \in Ext : r[y]}
<1>1. U(t) = U(s) \cup {x} /\ x \notin U(s)  OBVIOUS
<1>2. IsFiniteSet(U(s))
  <2>1. IsFiniteSet({"feeExt"})  BY FS_Singleton
  <2>2. IsFiniteSet((((({"feeExt"} \cup {"hookExt"}) \cup {"nonTransferable"})
                     \cup {"immutable"}) \cup {"memo"}) \cup {"guard"})
    BY <2>1, FS_AddElement
  <2>3. Ext = (((({"feeExt"} \cup {"hookExt"}) \cup {"nonTransferable"})
                     \cup {"immutable"}) \cup {"memo"}) \cup {"guard"}
    OBVIOUS
  <2>4. IsFiniteSet(Ext)  BY <2>2, <2>3
  <2>5. U(s) \in SUBSET Ext  OBVIOUS
  <2>6. QED  BY <2>4, <2>5, FS_Subset
<1>3. Cardinality(U(t)) = Cardinality(U(s)) + 1
  BY <1>1, <1>2, FS_AddElement
<1>4. Cardinality(U(s)) \in Nat  BY <1>2, FS_CardinalityType
<1>5. /\ Slots(s) = Cardinality(U(s)) + s.room
      /\ Slots(t) = Cardinality(U(t)) + t.room
  BY DEF Slots
<1>6. s.room \in Nat  BY BoundsAreNatural DEF AccountState, Rooms
<1> HIDE DEF U
<1>7. QED  BY <1>3, <1>4, <1>5, <1>6

-----------------------------------------------------------------------------
(* Each instruction pays what it owes.                                     *)

\* What RentPaid says of one mint and of one account.
MintRent(m)    == Live(m) \/ lamports[m] = 0
AccountRent(a) == lamports[a] = IF Open(a) THEN Rent(Slots(account[a])) ELSE 0

\* RentPaid is about each mint and each account.
LEMMA RentByAddress ==
    RentPaid <=> /\ \A m \in Mints : MintRent(m)
                 /\ \A a \in Accounts : AccountRent(a)
BY DEF RentPaid, MintRent, AccountRent

\* And so it is after a step.
LEMMA RentByAddressAfter ==
    ASSUME \A m \in Mints : MintRent(m)', \A a \in Accounts : AccountRent(a)'
    PROVE  RentPaid'
<1>1. \A m \in Mints : mint'[m] = Absent => lamports'[m] = 0
  BY DEF MintRent, Live
<1>2. \A a \in Accounts :
         lamports'[a] = IF account'[a] # Absent THEN Rent(Slots(account'[a])) ELSE 0
  BY DEF AccountRent, Open
<1>3. QED  BY <1>1, <1>2 DEF RentPaid, Live, Open

\* A mint that is left alone owes nothing new.
LEMMA MintRentKept ==
    ASSUME RentPaid, NEW m \in Mints, mint'[m] = mint[m], lamports'[m] = lamports[m]
    PROVE  MintRent(m)'
BY DEF RentPaid, MintRent, Live

\* Nor does an account.
LEMMA AccountRentKept ==
    ASSUME RentPaid, NEW a \in Accounts, account'[a] = account[a],
           lamports'[a] = lamports[a]
    PROVE  AccountRent(a)'
BY DEF RentPaid, AccountRent, Open

\* A step that moves no SOL, and leaves mints and accounts alone.
LEMMA NothingOwed ==
    ASSUME TypeOK, RentPaid, UNCHANGED <<lamports, mint, account>>
    PROVE  RentPaid'
<1>1. \A m \in Mints : MintRent(m)'  BY MintRentKept
<1>2. \A a \in Accounts : AccountRent(a)'  BY AccountRentKept
<1>3. QED  BY <1>1, <1>2, RentByAddressAfter

\* create_account and initialize_mint2 of a mint.
LEMMA CreateFundedMintRent ==
    ASSUME TypeOK, RentPaid, NEW m \in Mints, NEW p \in Wallets, NEW w,
           NEW conf \in MintState, NEW rent \in Nat,
           CreateFundedMint(m, p, w, conf, rent)
    PROVE  RentPaid'
<1>1. m \in Addresses /\ m \notin Wallets /\ m \notin Accounts
        /\ Mints \subseteq Addresses /\ Accounts \subseteq Addresses
  BY AddressKinds, KindsDisjoint
<1>2. CreateAccount(p, m, rent) /\ InitializeMint(m, conf) /\ account' = account
  BY DEF CreateFundedMint
<1>3. \A y \in Addresses : y \notin Wallets /\ y # m => lamports'[y] = lamports[y]
  BY <1>1, <1>2, CreationPays DEF TypeOK
<1>4. mint' = [mint EXCEPT ![m] = conf] /\ mint \in [Mints -> MintState \cup {Absent}]
  BY <1>2 DEF InitializeMint, TypeOK
<1>5. ASSUME NEW q \in Mints PROVE MintRent(q)'
  <2>1. CASE q = m
    <3>1. mint'[m] = conf /\ conf # Absent  BY <1>4, AbsentIsNoState
    <3>2. QED  BY <2>1, <3>1 DEF MintRent, Live
  <2>2. CASE q # m
    BY <1>1, <1>3, <1>4, <2>2, KindsDisjoint, MintRentKept
  <2>3. QED  BY <2>1, <2>2
<1>6. ASSUME NEW a \in Accounts PROVE AccountRent(a)'
  BY <1>1, <1>2, <1>3, KindsDisjoint, AccountRentKept
<1>7. QED  BY <1>5, <1>6, RentByAddressAfter

\* The same, together with a token account of the new mint.
LEMMA CreateMintAndAccountRent ==
    ASSUME TypeOK, RentPaid, NEW m \in Mints, NEW b \in KeyAccounts,
           NEW p \in Wallets, NEW w \in Wallets, NEW k \in Nat,
           NEW conf \in MintState, NEW room \in Rooms,
           CreateMintAndAccount(m, b, p, w, k, conf, room)
    PROVE  RentPaid'
<1> DEFINE new == NewAccount(m, conf, w, TRUE, room)
<1>1. new \in AccountState  BY NewAccountType
<1>2. /\ CreateTwoAccounts(p, m, Rent(k), b, Rent(Slots(new)))
      /\ InitializeMint(m, conf) /\ InitializeAccount(b, new)
  BY DEF CreateMintAndAccount
<1> HIDE DEF new
<1>3. b \in Accounts  BY DEF Accounts
<1>4. /\ m \in Addresses /\ m \notin Wallets /\ m \notin Accounts
      /\ b \in Addresses /\ b \notin Wallets /\ b \notin Mints /\ m # b
      /\ Mints \subseteq Addresses /\ Accounts \subseteq Addresses
  BY <1>3, AddressKinds, KindsDisjoint
<1>5. /\ lamports'[b] = Rent(Slots(new))
      /\ \A z \in Addresses : z \notin Wallets /\ z # m /\ z # b =>
             lamports'[z] = lamports[z]
  BY <1>2, <1>4, TwoCreationsPay DEF TypeOK
<1>6. /\ mint' = [mint EXCEPT ![m] = conf]
      /\ mint \in [Mints -> MintState \cup {Absent}]
      /\ account' = [account EXCEPT ![b] = new]
      /\ account \in [Accounts -> AccountState \cup {Absent}]
  BY <1>2 DEF InitializeMint, InitializeAccount, TypeOK
<1>7. ASSUME NEW q \in Mints PROVE MintRent(q)'
  <2>1. CASE q = m
    <3>1. mint'[m] = conf /\ conf # Absent  BY <1>6, AbsentIsNoState
    <3>2. QED  BY <2>1, <3>1 DEF MintRent, Live
  <2>2. CASE q # m
    BY <1>4, <1>5, <1>6, <2>2, KindsDisjoint, MintRentKept
  <2>3. QED  BY <2>1, <2>2
<1>8. ASSUME NEW a \in Accounts PROVE AccountRent(a)'
  <2>1. CASE a = b
    <3>1. account'[b] = new /\ new # Absent  BY <1>1, <1>3, <1>6, AbsentIsNoState
    <3>2. QED  BY <1>5, <2>1, <3>1 DEF AccountRent, Open
  <2>2. CASE a # b
    BY <1>4, <1>5, <1>6, <2>2, KindsDisjoint, AccountRentKept
  <2>3. QED  BY <2>1, <2>2
<1>9. QED  BY <1>7, <1>8, RentByAddressAfter

\* Whoever creates a mint pays for what the transaction creates.
LEMMA CreatedRent ==
    ASSUME TypeOK, RentPaid, NEW m \in Mints, NEW p \in Wallets,
           NEW w \in Wallets, NEW metadata, Created(m, p, w, metadata)
    PROVE  RentPaid'
BY CreateFundedMintRent, CreateMintAndAccountRent DEF Created

\* So does every instruction that creates a mint without metadata.
LEMMA CreateMintStepRent ==
    ASSUME TypeOK, RentPaid, CreateMintStep
    PROVE  RentPaid'
<1>1. PICK m \in Mints, p \in Wallets, w \in Wallets :
         Created(m, p, w, FALSE)
  BY CreateMintStepCreates
<1>2. QED  BY <1>1, CreatedRent

\* close_mint_account returns the rent of the mint.
LEMMA CloseMintAccountRent ==
    ASSUME TypeOK, RentPaid, NEW m \in Mints, NEW dest \in Wallets, NEW w,
           CloseMintAccount(m, dest, w)
    PROVE  RentPaid'
<1>1. /\ m \in Addresses /\ m \notin Wallets /\ m \notin Accounts
      /\ dest \in Addresses /\ dest \notin Mints /\ dest \notin Accounts
      /\ dest # m /\ Mints \subseteq Addresses /\ Accounts \subseteq Addresses
  BY AddressKinds, KindsDisjoint
<1>2. /\ mint' = [mint EXCEPT ![m] = Absent] /\ account' = account
      /\ lamports' = [lamports EXCEPT ![dest] = @ + lamports[m], ![m] = 0]
      /\ lamports \in [Addresses -> Nat]
      /\ mint \in [Mints -> MintState \cup {Absent}]
  BY DEF CloseMintAccount, TypeOK
<1>3. lamports'[m] = 0 /\ \A x \in Addresses \ {m, dest} : lamports'[x] = lamports[x]
  BY <1>1, <1>2
<1>4. ASSUME NEW q \in Mints PROVE MintRent(q)'
  <2>1. CASE q = m  BY <1>3, <2>1 DEF MintRent
  <2>2. CASE q # m  BY <1>1, <1>2, <1>3, <2>2, MintRentKept
  <2>3. QED  BY <2>1, <2>2
<1>5. ASSUME NEW a \in Accounts PROVE AccountRent(a)'
  BY <1>1, <1>2, <1>3, AccountRentKept
<1>6. QED  BY <1>4, <1>5, RentByAddressAfter

\* The list of a hook's accounts is paid for by whoever creates it.
LEMMA InitializeExtraAccountMetaListRent ==
    ASSUME TypeOK, RentPaid, NEW m \in Mints, NEW p \in Wallets,
           InitializeExtraAccountMetaList(m, p)
    PROVE  RentPaid'
<1> DEFINE x == MetaPda(m)
<1>1. x \in Addresses /\ x \notin Wallets /\ x \notin Mints /\ x \notin Accounts
        /\ Mints \subseteq Addresses /\ Accounts \subseteq Addresses
  BY AddressKinds, KindsDisjoint
<1>2. CreateAccount(p, x, Rent(0)) /\ mint' = mint /\ account' = account
  BY DEF InitializeExtraAccountMetaList
<1> HIDE DEF x
<1>3. \A y \in Addresses : y \notin Wallets /\ y # x => lamports'[y] = lamports[y]
  BY <1>1, <1>2, CreationPays DEF TypeOK
<1>4. \A q \in Mints : MintRent(q)'
  BY <1>1, <1>2, <1>3, KindsDisjoint, MintRentKept
<1>5. \A a \in Accounts : AccountRent(a)'
  BY <1>1, <1>2, <1>3, KindsDisjoint, AccountRentKept
<1>6. QED  BY <1>4, <1>5, RentByAddressAfter

\* A mint that changes stays alive, and keeps its rent.
LEMMA UpdateDefaultAccountStateRent ==
    ASSUME TypeOK, RentPaid, NEW m \in Mints, NEW w, NEW frozen \in BOOLEAN,
           UpdateDefaultAccountState(m, w, frozen)
    PROVE  RentPaid'
<1>1. /\ mint[m] # Absent /\ mint' = [mint EXCEPT ![m].frozenDefault = frozen]
      /\ UNCHANGED <<account, lamports>>
      /\ mint \in [Mints -> MintState \cup {Absent}]
  BY DEF UpdateDefaultAccountState, Live, TypeOK
<1>2. [mint[m] EXCEPT !.frozenDefault = frozen] \in MintState
  BY <1>1 DEF MintState
<1>3. mint'[m] # Absent  BY <1>1, <1>2, AbsentIsNoState
<1>4. ASSUME NEW q \in Mints PROVE MintRent(q)'
  <2>1. CASE q = m  BY <1>3, <2>1 DEF MintRent, Live
  <2>2. CASE q # m  BY <1>1, <2>2, MintRentKept
  <2>3. QED  BY <2>1, <2>2
<1>5. \A a \in Accounts : AccountRent(a)'  BY <1>1, AccountRentKept
<1>6. QED  BY <1>4, <1>5, RentByAddressAfter

\* Every instruction that changes or closes a mint.
LEMMA ChangeMintStepRent ==
    ASSUME TypeOK, RentPaid, ChangeMintStep
    PROVE  RentPaid'
<1> PICK m \in Mints, w \in Wallets :
        \/ \E dest \in Wallets : CloseMintAccount(m, dest, w)
        \/ \E frozen \in BOOLEAN : UpdateDefaultAccountState(m, w, frozen)
        \/ InitializeExtraAccountMetaList(m, w)
  BY DEF ChangeMintStep
<1>1. CASE \E dest \in Wallets : CloseMintAccount(m, dest, w)
  BY <1>1, CloseMintAccountRent
<1>2. CASE \E frozen \in BOOLEAN : UpdateDefaultAccountState(m, w, frozen)
  BY <1>2, UpdateDefaultAccountStateRent
<1>3. CASE InitializeExtraAccountMetaList(m, w)
  BY <1>3, InitializeExtraAccountMetaListRent
<1>4. QED  BY <1>1, <1>2, <1>3

\* The instructions of a mint with metadata.
LEMMA MetadataStepRent ==
    ASSUME TypeOK, RentPaid, MetadataStep
    PROVE  RentPaid'
<1> PICK m \in Mints, p \in Wallets, w \in Wallets :
        InitializeMetadataPointer(m, p, w) \/ UpdateMetadataField(m, p, w)
  BY DEF MetadataStep
<1>1. CASE InitializeMetadataPointer(m, p, w)
  BY <1>1, MetadataPointerCreates, CreatedRent
<1>2. CASE UpdateMetadataField(m, p, w)
  BY <1>2, NothingOwed DEF UpdateMetadataField
<1>3. QED  BY <1>1, <1>2

\* One account changes, mints stay, and it holds the rent of its slots.
LEMMA OneAccountOwes ==
    ASSUME TypeOK, RentPaid, NEW a \in Accounts, NEW new \in AccountState,
           account' = [account EXCEPT ![a] = new], mint' = mint,
           lamports'[a] = Rent(Slots(new)),
           \A y \in Addresses : y \notin Wallets /\ y # a =>
               lamports'[y] = lamports[y]
    PROVE  RentPaid'
<1>1. a \in Addresses /\ a \notin Wallets /\ a \notin Mints
        /\ Mints \subseteq Addresses /\ Accounts \subseteq Addresses
  BY AddressKinds, KindsDisjoint
<1>2. account \in [Accounts -> AccountState \cup {Absent}]  BY DEF TypeOK
<1>3. \A q \in Mints : MintRent(q)'  BY <1>1, KindsDisjoint, MintRentKept
<1>4. ASSUME NEW b \in Accounts PROVE AccountRent(b)'
  <2>1. CASE b = a
    <3>1. account'[a] = new /\ new # Absent  BY <1>2, AbsentIsNoState
    <3>2. QED  BY <2>1, <3>1 DEF AccountRent, Open
  <2>2. CASE b # a  BY <1>1, <1>2, <2>2, KindsDisjoint, AccountRentKept
  <2>3. QED  BY <2>1, <2>2
<1>5. QED  BY <1>3, <1>4, RentByAddressAfter

\* An account that is created pays for the slots it is created with.
LEMMA OpenedOwes ==
    ASSUME TypeOK, RentPaid, NEW a \in Accounts, NEW p \in Wallets,
           NEW new \in AccountState, mint' = mint,
           account' = [account EXCEPT ![a] = new],
           CreateAccount(p, a, Rent(Slots(new)))
    PROVE  RentPaid'
<1>1. a \in Addresses /\ a \notin Wallets  BY AddressKinds, KindsDisjoint
<1>2. /\ lamports'[a] = Rent(Slots(new))
      /\ \A y \in Addresses : y \notin Wallets /\ y # a =>
             lamports'[y] = lamports[y]
  BY <1>1, CreationPays DEF TypeOK
<1>3. QED  BY <1>2, OneAccountOwes

\* initialize_account3, and the memo flag if the handler sets it.
LEMMA CreateTokenAccountRent ==
    ASSUME TypeOK, RentPaid, NEW a \in KeyAccounts, NEW m \in Mints,
           NEW p \in Wallets, NEW w \in Wallets, NEW room \in Rooms,
           NEW memo \in BOOLEAN, CreateTokenAccount(a, m, p, w, room, memo)
    PROVE  RentPaid'
<1> DEFINE new   == NewAccount(m, mint[m], w, FALSE, room)
           final == [new EXCEPT !.memo = memo,
                                !.room = IF memo THEN @ - 1 ELSE @]
<1>1. mint[m] \in MintState  BY DEF CreateTokenAccount, Live, TypeOK
<1>2. new \in AccountState  BY <1>1, NewAccountType
<1>3. new.room = room /\ new.memo = FALSE  BY DEF NewAccount
<1>4. /\ memo => room > 0
      /\ CreateAccount(p, a, Rent(Slots(new)))
      /\ account' = [account EXCEPT ![a] = final] /\ mint' = mint
  BY DEF CreateTokenAccount, InitializeAccount
<1>5. a \in Accounts  BY DEF Accounts
<1> HIDE DEF new
<1>6. (IF memo THEN new.room - 1 ELSE new.room) \in Rooms
  BY <1>3, <1>4, BoundsAreNatural DEF Rooms
<1>7. final \in AccountState  BY <1>2, <1>6 DEF AccountState
<1>8. Slots(final) = Slots(new)
  <2>1. CASE memo
    <3>1. /\ ~new["memo"] /\ final["memo"] /\ final.room = new.room - 1
          /\ \A y \in {"feeExt", "hookExt", "nonTransferable", "immutable",
                       "memo", "guard"} \ {"memo"} : final[y] = new[y]
      BY <1>2, <1>3, <2>1 DEF AccountState
    <3> HIDE DEF final
    <3>2. QED  BY <1>2, <1>7, <3>1, FlagTakesSlot
  <2>2. CASE ~memo
    <3>1. final = new  BY <1>2, <1>3, <2>2 DEF AccountState
    <3>2. QED  BY <3>1
  <2>3. QED  BY <2>1, <2>2
<1> HIDE DEF final
<1>9. QED  BY <1>4, <1>5, <1>7, <1>8, OpenedOwes

\* An associated account is paid for when it is created.
LEMMA CreateAtaRent ==
    ASSUME TypeOK, RentPaid, NEW w \in Wallets, NEW m \in Mints, NEW p \in Wallets,
           CreateAta(w, m, p)
    PROVE  RentPaid'
<1>1. CASE UNCHANGED <<account, lamports>>
  BY <1>1, NothingOwed DEF CreateAta
<1>2. CASE ~UNCHANGED <<account, lamports>>
  <2> DEFINE new == NewAccount(m, mint[m], w, TRUE, 0)
             a   == Ata(w, m)
  <2>1. mint[m] \in MintState /\ 0 \in Rooms
    BY BoundsAreNatural DEF CreateAta, Live, TypeOK, Rooms
  <2>2. new \in AccountState  BY <2>1, NewAccountType
  <2>3. /\ CreateAccount(p, a, Rent(Slots(new)))
        /\ account' = [account EXCEPT ![a] = new] /\ mint' = mint
    BY <1>2 DEF CreateAta, InitializeAccount
  <2>4. a \in Accounts  BY AddressKinds
  <2> HIDE DEF new, a
  <2>5. QED  BY <2>2, <2>3, <2>4, OpenedOwes
<1>3. QED  BY <1>1, <1>2

\* A flag set in a slot the account paid for.
LEMMA FlagOwes ==
    ASSUME TypeOK, RentPaid, NEW a \in Accounts, NEW x \in {"memo", "guard"},
           NEW new \in AccountState, account[a] \in AccountState,
           mint' = mint, lamports' = lamports,
           account' = [account EXCEPT ![a] = new],
           ~account[a][x], new[x], new.room = account[a].room - 1,
           \A y \in {"feeExt", "hookExt", "nonTransferable", "immutable",
                     "memo", "guard"} \ {x} : new[y] = account[a][y]
    PROVE  RentPaid'
<1>1. Slots(new) = Slots(account[a])  BY FlagTakesSlot
<1>2. account[a] # Absent  BY AbsentIsNoState
<1>3. lamports[a] = Rent(Slots(account[a]))  BY <1>2 DEF RentPaid, Open
<1>4. lamports'[a] = Rent(Slots(new))  BY <1>1, <1>3
<1>5. QED  BY <1>4, OneAccountOwes

\* reallocate tops up the rent exactly when it adds a slot.
LEMMA ReallocRent ==
    ASSUME TypeOK, RentPaid, NEW a \in Accounts, NEW p \in Wallets,
           NEW w \in Wallets, Realloc(a, p, w)
    PROVE  RentPaid'
<1>1. /\ account[a] # Absent /\ account[a] \in AccountState /\ mint' = mint
      /\ account \in [Accounts -> AccountState \cup {Absent}]
      /\ lamports \in [Addresses -> Nat]
  BY DEF Realloc, Open, TypeOK
<1>2. CASE UNCHANGED <<account, lamports>>
  BY <1>1, <1>2, NothingOwed
<1>3. CASE /\ ~account[a].memo /\ account[a].room > 0 /\ UNCHANGED lamports
           /\ account' = [account EXCEPT ![a].memo = TRUE, ![a].room = @ - 1]
  <2> DEFINE new == [account[a] EXCEPT !.memo = TRUE, !.room = @ - 1]
  <2>1. account[a].room - 1 \in Rooms
    BY <1>1, <1>3, BoundsAreNatural DEF AccountState, Rooms
  <2>2. new \in AccountState  BY <1>1, <2>1 DEF AccountState
  <2>3. account' = [account EXCEPT ![a] = new]  BY <1>1, <1>3
  <2>4. /\ new["memo"] /\ new.room = account[a].room - 1
        /\ \A y \in {"feeExt", "hookExt", "nonTransferable", "immutable",
                     "memo", "guard"} \ {"memo"} : new[y] = account[a][y]
    BY <1>1 DEF AccountState
  <2> HIDE DEF new
  <2>5. QED  BY <1>1, <1>3, <2>2, <2>3, <2>4, FlagOwes
<1>4. CASE /\ ~account[a].memo /\ account[a].room = 0 /\ lamports[p] > 0
           /\ lamports' = [lamports EXCEPT ![p] = @ - 1, ![a] = @ + 1]
           /\ account' = [account EXCEPT ![a].memo = TRUE]
  <2> DEFINE new == [account[a] EXCEPT !.memo = TRUE]
  <2>1. new \in AccountState  BY <1>1 DEF AccountState
  <2>2. account' = [account EXCEPT ![a] = new]  BY <1>1, <1>4
  <2>3. /\ new["memo"] /\ new.room = account[a].room
        /\ \A y \in {"feeExt", "hookExt", "nonTransferable", "immutable",
                     "memo", "guard"} \ {"memo"} : new[y] = account[a][y]
    BY <1>1 DEF AccountState
  <2> HIDE DEF new
  <2>4. Slots(new) = Slots(account[a]) + 1
    BY <1>1, <1>4, <2>1, <2>3, FlagTakesSlot
  <2>5. p \in Addresses /\ a \in Addresses /\ p # a
    BY AddressKinds, KindsDisjoint
  <2>6. lamports[a] = Rent(Slots(account[a]))  BY <1>1 DEF RentPaid, Open
  <2>7. lamports'[a] = lamports[a] + 1  BY <1>1, <1>4, <2>5
  <2>8. account[a].room \in Nat  BY <1>1, BoundsAreNatural DEF AccountState, Rooms
  <2>9. Slots(account[a]) \in Nat  BY <2>8, SlotsNat
  <2>10. lamports'[a] = Rent(Slots(new))
    BY <2>4, <2>6, <2>7, <2>9 DEF Rent
  <2>11. \A y \in Addresses : y \notin Wallets /\ y # a => lamports'[y] = lamports[y]
    BY <1>1, <1>4
  <2>12. QED  BY <1>1, <2>1, <2>2, <2>10, <2>11, OneAccountOwes
<1>5. QED  BY <1>2, <1>3, <1>4 DEF Realloc

\* Every instruction that creates or reallocates a token account.
LEMMA AccountStepRent ==
    ASSUME TypeOK, RentPaid, AccountStep
    PROVE  RentPaid'
<1> PICK p \in Wallets, w \in Wallets :
        \/ \E m \in Mints : CreateAta(w, m, p)
        \/ \E m \in Mints, a \in KeyAccounts, room \in Rooms :
               \/ EnableMemo(a, m, p, w, room)
               \/ InitializeTokenAccountWith(a, m, p, w, room)
               \/ InitializeConfidentialAccount(a, m, p, w, room)
        \/ \E a \in Accounts : Realloc(a, p, w)
  BY DEF AccountStep
<1>1. CASE \E m \in Mints : CreateAta(w, m, p)
  BY <1>1, CreateAtaRent
<1>2. ASSUME NEW m \in Mints, NEW a \in KeyAccounts, NEW room \in Rooms,
             \/ EnableMemo(a, m, p, w, room)
             \/ InitializeTokenAccountWith(a, m, p, w, room)
             \/ InitializeConfidentialAccount(a, m, p, w, room)
      PROVE  RentPaid'
  <2>1. \E memo \in BOOLEAN : CreateTokenAccount(a, m, p, w, room, memo)
    BY <1>2 DEF EnableMemo, InitializeTokenAccountWith,
                InitializeConfidentialAccount
  <2>2. QED  BY <2>1, CreateTokenAccountRent
<1>3. CASE \E a \in Accounts : Realloc(a, p, w)
  BY <1>3, ReallocRent
<1>4. QED  BY <1>1, <1>2, <1>3

\* transfer_token moves the toll between two wallets.
LEMMA TransferTokenRent ==
    ASSUME TypeOK, RentPaid, NEW m, NEW from, NEW to, NEW w \in Wallets,
           NEW bad \in Wallets, NEW n, TransferToken(m, from, to, w, bad, n)
    PROVE  RentPaid'
<1> DEFINE paid == [lamports EXCEPT ![w] = @ - SolToll]
<1>1. /\ lamports[w] >= SolToll /\ lamports' = [paid EXCEPT ![bad] = @ + SolToll]
      /\ UNCHANGED <<mint, account>>
  BY DEF TransferToken, TransferSol
<1>2. /\ w \in Addresses /\ bad \in Addresses
      /\ Mints \subseteq Addresses /\ Accounts \subseteq Addresses
  BY AddressKinds
<1>3. lamports \in [Addresses -> Nat] /\ SolToll \in Nat
  BY TollIsNatural DEF TypeOK
<1>4. \A x \in Addresses : x \notin Wallets => lamports'[x] = lamports[x]
  BY <1>1, <1>3
<1>5. \A q \in Mints : MintRent(q)'
  BY <1>1, <1>2, <1>4, KindsDisjoint, MintRentKept
<1>6. \A a \in Accounts : AccountRent(a)'
  BY <1>1, <1>2, <1>4, KindsDisjoint, AccountRentKept
<1>7. QED  BY <1>5, <1>6, RentByAddressAfter

\* The other instructions that move tokens move no SOL.
LEMMA TokenStepRent ==
    ASSUME TypeOK, RentPaid, TokenStep
    PROVE  RentPaid'
<1> PICK m \in Mints, w \in Wallets, n \in U64 :
        \/ MintTo(m, w, n)
        \/ \E from \in Accounts : BurnCpi(m, from, w, n)
        \/ \E to \in Accounts :
               \/ \E fee \in U64 : TransferTo(m, w, to, n, fee)
               \/ MemoTransfer(m, w, to, n)
        \/ \E from, to \in Accounts :
               \/ \E badWallet \in Wallets :
                      TransferToken(m, from, to, w, badWallet, n)
               \/ TransferHookToken(m, from, to, w, n)
  BY DEF TokenStep
<1>1. CASE \E from, to \in Accounts, bad \in Wallets :
               TransferToken(m, from, to, w, bad, n)
  BY <1>1, TransferTokenRent
<1>2. CASE ~ \E from, to \in Accounts, bad \in Wallets :
               TransferToken(m, from, to, w, bad, n)
  <2>1. UNCHANGED <<lamports, mint, account>>
    BY <1>2 DEF MintTo, BurnCpi, TransferTo, MemoTransfer, TransferHookToken
  <2>2. QED  BY <2>1, NothingOwed
<1>3. QED  BY <1>1, <1>2

\* Gathering fees moves no SOL.
LEMMA FeeStepRent ==
    ASSUME TypeOK, RentPaid, FeeStep
    PROVE  RentPaid'
<1>1. UNCHANGED <<lamports, mint, account>>
  BY DEF FeeStep, WithdrawWithheldAccount, HarvestWithheldToken,
         WithdrawWithheldMint
<1>2. QED  BY <1>1, NothingOwed

\* The guard is locked in a slot the account paid for.
LEMMA ClientStepRent ==
    ASSUME TypeOK, RentPaid, ClientStep
    PROVE  RentPaid'
<1> PICK a \in Accounts, w \in Wallets :
        \/ EnableCpiGuard(a, w)
        \/ \E m \in Mints, n \in U64 : ClientMintTo(m, w, a, n)
  BY DEF ClientStep
<1>1. CASE EnableCpiGuard(a, w)
  <2> DEFINE new == [account[a] EXCEPT !.guard = TRUE, !.room = @ - 1]
  <2>1. /\ account[a] \in AccountState /\ mint' = mint /\ lamports' = lamports
        /\ ~account[a].guard /\ account[a].room > 0
    BY <1>1 DEF EnableCpiGuard, Open, TypeOK
  <2>2. account[a].room - 1 \in Rooms
    BY <2>1, BoundsAreNatural DEF AccountState, Rooms
  <2>3. new \in AccountState  BY <2>1, <2>2 DEF AccountState
  <2>4. account' = [account EXCEPT ![a] = new]
    BY <1>1 DEF EnableCpiGuard, TypeOK
  <2>5. /\ new["guard"] /\ new.room = account[a].room - 1
        /\ \A y \in {"feeExt", "hookExt", "nonTransferable", "immutable",
                     "memo", "guard"} \ {"guard"} : new[y] = account[a][y]
    BY <2>1 DEF AccountState
  <2> HIDE DEF new
  <2>6. QED  BY <2>1, <2>3, <2>4, <2>5, FlagOwes
<1>2. CASE \E m \in Mints, n \in U64 : ClientMintTo(m, w, a, n)
  BY <1>2, NothingOwed DEF ClientMintTo
<1>3. QED  BY <1>1, <1>2

-----------------------------------------------------------------------------
(* The theorems.                                                           *)

\* Every step pays what it owes.
LEMMA NextRent ==
    ASSUME TypeOK, RentPaid, [Next]_vars
    PROVE  RentPaid'
<1>1. CASE Next
  BY <1>1, CreateMintStepRent, ChangeMintStepRent, AccountStepRent,
     TokenStepRent, FeeStepRent, ClientStepRent, MetadataStepRent DEF Next
<1>2. CASE UNCHANGED vars  BY <1>2, NothingOwed DEF vars
<1>3. QED  BY <1>1, <1>2

\* At the start no address but the wallets holds anything.
LEMMA InitRent ==
    ASSUME Init
    PROVE  RentPaid
BY AddressKinds, KindsDisjoint DEF Init, RentPaid, Open

\* In every reachable state each token account holds exactly the rent of its
\* slots, and every address without a mint or an account can be created again.
THEOREM RentAlwaysPaid == Spec => []RentPaid
<1>1. Init => RentPaid  BY InitRent
<1>2. TypeOK /\ RentPaid /\ [Next]_vars => RentPaid'  BY NextRent
<1>3. QED  BY <1>1, <1>2, TypeCorrect, PTL DEF Spec

-----------------------------------------------------------------------------
(* What the instructions do to a mint.                                     *)

\* A live mint keeps its close authority, its metadata pointer, its fees and its
\* SOL, and does not begin to freeze accounts, unless a wallet closes it.
LiveMintKept(q) ==
    \/ /\ mint'[q] # Absent
       /\ mint'[q].metadata = mint[q].metadata
       /\ mint'[q].close = mint[q].close
       /\ mint'[q].hasFee = mint[q].hasFee
       /\ Freezes(mint'[q]) => Freezes(mint[q])
       /\ lamports'[q] = lamports[q]
    \/ mint'[q] = Absent /\ mint[q].close \in Wallets

\* Every mint that comes to life is a lasting one if it has fees or freezes
\* accounts, and without MetadataStep none has metadata.
MintsKept ==
    \A q \in Mints :
        IF Live(q) THEN LiveMintKept(q)
        ELSE \/ mint'[q] = Absent
             \/ /\ mint'[q].metadata = FALSE
                /\ Lasting(mint'[q])

\* A step that touches no mint, nor the SOL of one.
LEMMA MintsUntouched ==
    ASSUME UNCHANGED mint, \A q \in Mints : lamports'[q] = lamports[q]
    PROVE  MintsKept
BY DEF MintsKept, LiveMintKept, Live

\* Creating an account or a mint takes SOL of a wallet, never of another mint.
LEMMA CreationSparesMints ==
    ASSUME TypeOK, NEW p \in Wallets, NEW x \in Addresses, x \notin Wallets,
           NEW rent \in Nat, CreateAccount(p, x, rent)
    PROVE  \A q \in Mints \ {x} : lamports'[q] = lamports[q]
BY CreationPays, AddressKinds, KindsDisjoint DEF TypeOK

\* The creation of a mint leaves the others alone.
LEMMA CreatedKeepsOthers ==
    ASSUME TypeOK, NEW m \in Mints, NEW p \in Wallets, NEW w \in Wallets,
           NEW metadata, Created(m, p, w, metadata)
    PROVE  /\ ~Live(m) /\ mint'[m] # Absent /\ mint'[m].metadata = metadata
           /\ Lasting(mint'[m])
           /\ \A q \in Mints \ {m} :
                  mint'[q] = mint[q] /\ lamports'[q] = lamports[q]
<1>0. m \in Addresses /\ m \notin Wallets /\ mint \in [Mints -> MintState \cup {Absent}]
  BY AddressKinds, KindsDisjoint DEF TypeOK
<1>1. PICK conf \in MintState :
        /\ conf.metadata = metadata
        /\ Lasting(conf)
        /\ \/ \E rent \in Nat : CreateFundedMint(m, p, w, conf, rent)
           \/ \E a \in KeyAccounts, k \in Nat, room \in Rooms :
                  CreateMintAndAccount(m, a, p, w, k, conf, room)
  BY DEF Created
<1>2. ~Live(m) /\ mint' = [mint EXCEPT ![m] = conf]
  BY <1>1 DEF CreateFundedMint, CreateMintAndAccount, InitializeMint
<1>3. conf # Absent  BY AbsentIsNoState
<1>4. \A q \in Mints \ {m} : lamports'[q] = lamports[q]
  <2>1. CASE \E rent \in Nat : CreateFundedMint(m, p, w, conf, rent)
    BY <1>0, <2>1, CreationSparesMints DEF CreateFundedMint
  <2>2. ASSUME NEW a \in KeyAccounts, NEW k \in Nat, NEW room \in Rooms,
               CreateMintAndAccount(m, a, p, w, k, conf, room)
        PROVE  \A q \in Mints \ {m} : lamports'[q] = lamports[q]
    <3> DEFINE new == NewAccount(m, conf, w, TRUE, room)
    <3>1. Rent(k) \in Nat /\ Rent(Slots(new)) \in Nat
      BY RentNat, NewAccountType
    <3>2. CreateTwoAccounts(p, m, Rent(k), a, Rent(Slots(new)))
      BY <2>2 DEF CreateMintAndAccount
    <3>3. a \in Accounts /\ a \in Addresses /\ a \notin Wallets /\ a \notin Mints
      BY AddressKinds, KindsDisjoint DEF Accounts
    <3> HIDE DEF new
    <3>4. \A z \in Addresses : z \notin Wallets /\ z # m /\ z # a =>
             lamports'[z] = lamports[z]
      BY <1>0, <3>1, <3>2, <3>3, TwoCreationsPay DEF TypeOK
    <3>5. QED  BY <3>3, <3>4, AddressKinds, KindsDisjoint
  <2>3. QED  BY <1>1, <2>1, <2>2
<1>5. QED  BY <1>0, <1>1, <1>2, <1>3, <1>4

\* The instructions that create a mint without metadata.
LEMMA CreateMintStepKeeps ==
    ASSUME TypeOK, CreateMintStep
    PROVE  MintsKept
<1>1. PICK m \in Mints, p \in Wallets, w \in Wallets :
         Created(m, p, w, FALSE)
  BY CreateMintStepCreates
<1>2. /\ ~Live(m) /\ mint'[m] # Absent /\ mint'[m].metadata = FALSE
      /\ Lasting(mint'[m])
      /\ \A q \in Mints \ {m} :
             mint'[q] = mint[q] /\ lamports'[q] = lamports[q]
  BY <1>1, CreatedKeepsOthers
<1>3. QED  BY <1>2 DEF MintsKept, LiveMintKept, Live

\* close_mint_account needs the signature of the close authority; a change of the
\* default state changes nothing else.
LEMMA ChangeMintStepKeeps ==
    ASSUME TypeOK, ChangeMintStep
    PROVE  MintsKept
<1> PICK m \in Mints, w \in Wallets :
        \/ \E dest \in Wallets : CloseMintAccount(m, dest, w)
        \/ \E frozen \in BOOLEAN : UpdateDefaultAccountState(m, w, frozen)
        \/ InitializeExtraAccountMetaList(m, w)
  BY DEF ChangeMintStep
<1>0. mint \in [Mints -> MintState \cup {Absent}]  BY DEF TypeOK
<1>1. ASSUME NEW dest \in Wallets, CloseMintAccount(m, dest, w)
      PROVE  MintsKept
  <2>1. /\ mint[m].close \in Wallets /\ mint' = [mint EXCEPT ![m] = Absent]
        /\ lamports' = [lamports EXCEPT ![dest] = @ + lamports[m], ![m] = 0]
        /\ Live(m)
    BY <1>1 DEF CloseMintAccount
  <2>2. \A q \in Mints \ {m} : mint'[q] = mint[q] /\ lamports'[q] = lamports[q]
    BY <2>1, AddressKinds, KindsDisjoint DEF TypeOK
  <2>3. mint'[m] = Absent  BY <1>0, <2>1
  <2>4. QED  BY <2>1, <2>2, <2>3 DEF MintsKept, LiveMintKept, Live
<1>2. ASSUME NEW frozen \in BOOLEAN, UpdateDefaultAccountState(m, w, frozen)
      PROVE  MintsKept
  <2> DEFINE new == [mint[m] EXCEPT !.frozenDefault = frozen]
  <2>1. /\ UNCHANGED lamports /\ Live(m) /\ mint' = [mint EXCEPT ![m] = new]
        /\ Freezes(mint[m])
    BY <1>2, NoOneSigns DEF UpdateDefaultAccountState, Freezes
  <2>2. mint[m] \in MintState  BY <1>0, <2>1 DEF Live
  <2>3. new \in MintState  BY <2>2 DEF MintState
  <2>4. /\ new # Absent /\ new.metadata = mint[m].metadata
        /\ new.close = mint[m].close /\ new.hasFee = mint[m].hasFee
    BY <2>2, <2>3, AbsentIsNoState DEF MintState
  <2> HIDE DEF new
  <2>5. mint'[m] = new /\ \A q \in Mints \ {m} : mint'[q] = mint[q]
    BY <1>0, <2>1
  <2>6. QED  BY <2>1, <2>4, <2>5 DEF MintsKept, LiveMintKept, Live
<1>3. CASE InitializeExtraAccountMetaList(m, w)
  <2>1. MetaPda(m) \in Addresses /\ MetaPda(m) \notin Wallets
          /\ MetaPda(m) \notin Mints /\ Rent(0) \in Nat
    BY AddressKinds, KindsDisjoint, RentNat
  <2>2. CreateAccount(w, MetaPda(m), Rent(0)) /\ UNCHANGED mint
    BY <1>3 DEF InitializeExtraAccountMetaList
  <2>3. \A q \in Mints \ {MetaPda(m)} : lamports'[q] = lamports[q]
    BY <2>1, <2>2, CreationSparesMints
  <2>4. QED  BY <2>1, <2>2, <2>3, MintsUntouched
<1>4. QED  BY <1>1, <1>2, <1>3

\* Token accounts are paid for by wallets.
LEMMA AccountStepKeeps ==
    ASSUME TypeOK, AccountStep
    PROVE  MintsKept
<1> PICK p \in Wallets, w \in Wallets :
        \/ \E m \in Mints : CreateAta(w, m, p)
        \/ \E m \in Mints, a \in KeyAccounts, room \in Rooms :
               \/ EnableMemo(a, m, p, w, room)
               \/ InitializeTokenAccountWith(a, m, p, w, room)
               \/ InitializeConfidentialAccount(a, m, p, w, room)
        \/ \E a \in Accounts : Realloc(a, p, w)
  BY DEF AccountStep
<1>0. /\ \A a \in Accounts : a \in Addresses /\ a \notin Wallets /\ a \notin Mints
      /\ \A m \in Mints : m \in Addresses /\ m \notin Wallets /\ m \notin Accounts
  BY AddressKinds, KindsDisjoint
<1>1. ASSUME NEW a \in Accounts, NEW m \in Mints, NEW room \in Rooms,
             NEW immutable \in BOOLEAN, mint[m] \in MintState, UNCHANGED mint,
             CreateAccount(p, a,
                 Rent(Slots(NewAccount(m, mint[m], w, immutable, room))))
      PROVE  MintsKept
  <2>1. Rent(Slots(NewAccount(m, mint[m], w, immutable, room))) \in Nat
    BY <1>1, NewAccountType
  <2>2. \A q \in Mints \ {a} : lamports'[q] = lamports[q]
    BY <1>0, <1>1, <2>1, CreationSparesMints
  <2>3. QED  BY <1>0, <1>1, <2>2, MintsUntouched
<1>2. ASSUME NEW m \in Mints, CreateAta(w, m, p)
      PROVE  MintsKept
  <2>1. mint[m] \in MintState /\ UNCHANGED mint /\ Ata(w, m) \in Accounts
          /\ 0 \in Rooms
    BY <1>2, AddressKinds, BoundsAreNatural DEF CreateAta, TypeOK, Live, Rooms
  <2>2. CASE UNCHANGED lamports  BY <2>1, <2>2, MintsUntouched
  <2>3. CASE CreateAccount(p, Ata(w, m),
                 Rent(Slots(NewAccount(m, mint[m], w, TRUE, 0))))
    BY <1>1, <2>1, <2>3
  <2>4. QED  BY <1>2, <2>2, <2>3 DEF CreateAta
<1>3. ASSUME NEW m \in Mints, NEW a \in KeyAccounts, NEW room \in Rooms,
             \/ EnableMemo(a, m, p, w, room)
             \/ InitializeTokenAccountWith(a, m, p, w, room)
             \/ InitializeConfidentialAccount(a, m, p, w, room)
      PROVE  MintsKept
  <2>1. \E memo \in BOOLEAN : CreateTokenAccount(a, m, p, w, room, memo)
    BY <1>3 DEF EnableMemo, InitializeTokenAccountWith,
                InitializeConfidentialAccount
  <2>2. mint[m] \in MintState /\ UNCHANGED mint /\ a \in Accounts
    BY <2>1 DEF CreateTokenAccount, TypeOK, Live, Accounts
  <2>3. CreateAccount(p, a, Rent(Slots(NewAccount(m, mint[m], w, FALSE, room))))
    BY <2>1 DEF CreateTokenAccount
  <2>4. QED  BY <1>1, <2>2, <2>3
<1>4. ASSUME NEW a \in Accounts, Realloc(a, p, w)
      PROVE  MintsKept
  <2>1. /\ UNCHANGED mint
        /\ \/ UNCHANGED lamports
           \/ lamports' = [lamports EXCEPT ![p] = @ - 1, ![a] = @ + 1]
    BY <1>4 DEF Realloc
  <2>2. \A q \in Mints : lamports'[q] = lamports[q]
    BY <1>0, <2>1 DEF TypeOK
  <2>3. QED  BY <2>1, <2>2, MintsUntouched
<1>5. QED  BY <1>2, <1>3, <1>4

\* Tokens move without a mint changing; the toll goes from a wallet to a wallet.
LEMMA TokenStepKeeps ==
    ASSUME TypeOK, TokenStep
    PROVE  MintsKept
<1> PICK m \in Mints, w \in Wallets, n \in U64 :
        \/ MintTo(m, w, n)
        \/ \E from \in Accounts : BurnCpi(m, from, w, n)
        \/ \E to \in Accounts :
               \/ \E fee \in U64 : TransferTo(m, w, to, n, fee)
               \/ MemoTransfer(m, w, to, n)
        \/ \E from, to \in Accounts :
               \/ \E badWallet \in Wallets :
                      TransferToken(m, from, to, w, badWallet, n)
               \/ TransferHookToken(m, from, to, w, n)
  BY DEF TokenStep
<1>1. ASSUME NEW from, NEW to, NEW bad \in Wallets,
             TransferToken(m, from, to, w, bad, n)
      PROVE  MintsKept
  <2>1. UNCHANGED mint /\ TransferSol(w, bad, SolToll)
    BY <1>1 DEF TransferToken
  <2>2. \A q \in Mints : lamports'[q] = lamports[q]
    BY <2>1, AddressKinds, KindsDisjoint DEF TypeOK, TransferSol
  <2>3. QED  BY <2>1, <2>2, MintsUntouched
<1>2. CASE ~ \E from, to \in Accounts, bad \in Wallets :
               TransferToken(m, from, to, w, bad, n)
  <2>1. UNCHANGED <<lamports, mint>>
    BY <1>2 DEF MintTo, BurnCpi, TransferTo, MemoTransfer, TransferHookToken
  <2>2. QED  BY <2>1, MintsUntouched
<1>3. QED  BY <1>1, <1>2

\* Gathering fees, minting and locking the guard move no SOL.
LEMMA FeeAndClientStepKeep ==
    ASSUME FeeStep \/ ClientStep
    PROVE  MintsKept
<1>1. CASE FeeStep
  <2>1. UNCHANGED <<lamports, mint>>
    BY <1>1 DEF FeeStep, WithdrawWithheldAccount, HarvestWithheldToken,
                WithdrawWithheldMint
  <2>2. QED  BY <2>1, MintsUntouched
<1>2. CASE ClientStep
  <2>1. UNCHANGED <<lamports, mint>>
    BY <1>2 DEF ClientStep, EnableCpiGuard, ClientMintTo
  <2>2. QED  BY <2>1, MintsUntouched
<1>3. QED  BY <1>1, <1>2
=============================================================================
