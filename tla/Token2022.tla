------------------------------ MODULE Token2022 ------------------------------
(***************************************************************************)
(* The accounts that the instructions of the token_extension program act   *)
(* on, and the calls they make to programs outside the repository: System, *)
(* Token-2022, the Associated Token Account program and Memo.  The handlers *)
(* keep no state of their own: what they build lives in these accounts, so *)
(* the state of every module of this project is declared here.             *)
(*                                                                         *)
(* A transaction is atomic: a CPI that fails undoes the CPIs before it.    *)
(* A handler is therefore one action, whose guard is the conjunction of    *)
(* the checks of all the calls it makes; a transaction that fails is no    *)
(* step at all.                                                            *)
(***************************************************************************)
EXTENDS Sums

CONSTANTS
    Wallets,         \* system accounts that sign, pay and own tokens
    Mints,           \* addresses of keypairs generated for mints
    KeyAccounts,     \* addresses of keypairs generated for token accounts
    Lookalikes,      \* accounts of other programs, with data of a token account
    NoOne,           \* the public key of an Option that is None: all zeros
    Absent,          \* the account at an address where nothing is created
    MetaSeed,        \* the seed "extra-account-metas"
    MaxU64,          \* 2^64 - 1, small in the runs
    FullRate,        \* ONE_IN_BASIS_POINTS, 10000 in Token-2022, small in the runs
    MaxRoom,         \* bound: unused extension slots an account is created with
    InitialLamports  \* SOL of a wallet at the start, in units of rent

ASSUME FinitelyManyAddresses ==
    IsFiniteSet(Wallets) /\ IsFiniteSet(Mints) /\ IsFiniteSet(KeyAccounts)
\* Nobody has the key of the address of zeros.
ASSUME NoOneSigns == NoOne \notin Wallets
ASSUME BoundsAreNatural ==
    /\ MaxU64 \in Nat /\ FullRate \in Nat \ {0}
    /\ MaxRoom \in Nat /\ InitialLamports \in Nat

Ata(w, m)    == <<w, m>>                 \* associated token account
MetaPda(m)   == <<MetaSeed, m>>          \* ExtraAccountMetaList of a mint
Accounts     == (Wallets \X Mints) \cup KeyAccounts
Addresses    == Wallets \cup Mints \cup Accounts \cup {MetaPda(m) : m \in Mints}
U64          == 0 .. MaxU64

\* An address is of one kind: a derived one has no keypair, and a keypair is
\* generated for one purpose.
ASSUME OneKindOfAddress ==
    /\ Wallets \cap Mints = {} /\ KeyAccounts \cap (Wallets \cup Mints) = {}
    /\ \A m \in Mints : MetaPda(m) \notin Wallets \cup Mints \cup Accounts
    /\ (Wallets \X Mints) \cap (Wallets \cup Mints \cup KeyAccounts) = {}
    /\ Lookalikes \cap Accounts = {}

VARIABLES
    mint,       \* mint account at each mint address, with its extensions
    account,    \* token account at each address, with its extensions
    supply,     \* Mint.supply
    feePool,    \* TransferFeeConfig.withheld_amount of the mint
    amount,     \* Account.amount
    withheld,   \* TransferFeeAmount.withheld_amount of the token account
    lamports,   \* SOL at each address
    metaLists,  \* mints whose ExtraAccountMetaList is initialised
    tx          \* what the last transaction carried: its signers, its memo

ledger == <<supply, feePool, amount, withheld>>
vars   == <<mint, account, supply, feePool, amount, withheld, lamports,
            metaLists, tx>>

Key         == Wallets \cup {NoOne}
BasisPoints == 0 .. FullRate
Rooms       == 0 .. MaxRoom

\* The programs a hook can be: the transfer-hook program, or one that is not in
\* the repository.
Hooks == {"none", "transfer_hook", "other"}

MintState ==
    [authority      : Wallets,
     freeze         : Key,        \* freeze authority
     frozenDefault  : BOOLEAN,    \* DefaultAccountState is Frozen
     close          : Key,        \* MintCloseAuthority
     hasFee         : BOOLEAN,    \* TransferFeeConfig
     withdraw       : Key,        \* its withdraw_withheld_authority
     bps            : BasisPoints,\* its transfer_fee_basis_points
     maxFee         : U64,        \* its maximum_fee
     delegate       : Key,        \* PermanentDelegate
     hookExt        : BOOLEAN,    \* TransferHook
     hook           : Hooks,      \* its program_id
     nonTransferable: BOOLEAN,
     groupPointer   : BOOLEAN,    \* GroupPointer, to the mint itself
     metadata       : BOOLEAN]    \* MetadataPointer, to the mint itself

AccountState ==
    [mint           : Mints,
     owner          : Wallets,
     frozen         : BOOLEAN,
     memo           : BOOLEAN,    \* MemoTransfer, incoming memos required
     guard          : BOOLEAN,    \* CpiGuard, locked
     feeExt         : BOOLEAN,    \* TransferFeeAmount
     hookExt        : BOOLEAN,    \* TransferHookAccount
     nonTransferable: BOOLEAN,    \* NonTransferableAccount
     immutable      : BOOLEAN,    \* ImmutableOwner
     room           : Rooms]

ASSUME AbsentIsNoState == Absent \notin MintState \cup AccountState

Live(m)       == mint[m] # Absent
Open(a)       == account[a] # Absent
AccountsOf(m) == {a \in Accounts : Open(a) /\ account[a].mint = m}

\* Tokens of f over the accounts in S, when no account holds more than a u64.
Total(f, S) == Sum(f, S, MaxU64)

Signed(who)     == tx' = [signers |-> who, memo |-> FALSE]
SignedWithMemo(who) == tx' = [signers |-> who, memo |-> TRUE]

-----------------------------------------------------------------------------
(* System program: rent and the creation of accounts.                      *)

\* Rent::minimum_balance for an account with n extension slots.
Rent(n) == n + 1

\* system_instruction::create_account(payer, address) with its rent.
CreateAccount(payer, address, rent) ==
    /\ lamports[address] = 0
    /\ lamports[payer] >= rent
    /\ lamports' = [lamports EXCEPT ![payer] = @ - rent, ![address] = rent]

\* Two create_account calls of one transaction.
CreateTwoAccounts(payer, a, rentA, b, rentB) ==
    /\ lamports[a] = 0 /\ lamports[b] = 0
    /\ lamports[payer] >= rentA + rentB
    /\ lamports' = [lamports EXCEPT ![payer] = @ - (rentA + rentB),
                                    ![a] = rentA, ![b] = rentB]

-----------------------------------------------------------------------------
(* Token-2022: mints and token accounts.                                   *)

\* initialize_mint2 of a mint without extensions.
PlainMint(w) ==
    [authority |-> w, freeze |-> NoOne, frozenDefault |-> FALSE,
     close |-> NoOne, hasFee |-> FALSE, withdraw |-> NoOne, bps |-> 0,
     maxFee |-> 0, delegate |-> NoOne, hookExt |-> FALSE, hook |-> "none",
     nonTransferable |-> FALSE, groupPointer |-> FALSE,
     metadata |-> FALSE]

\* initialize_account3: an account takes from its mint the default state and
\* the extensions that the mint's extensions require.
NewAccount(m, conf, w, immutable, room) ==
    [mint |-> m, owner |-> w, frozen |-> conf.frozenDefault,
     memo |-> FALSE, guard |-> FALSE, feeExt |-> conf.hasFee,
     hookExt |-> conf.hookExt, nonTransferable |-> conf.nonTransferable,
     immutable |-> immutable \/ conf.nonTransferable, room |-> room]

\* A new mint starts without supply and without fees.
InitializeMint(m, conf) ==
    /\ mint' = [mint EXCEPT ![m] = conf]
    /\ supply' = [supply EXCEPT ![m] = 0]
    /\ feePool' = [feePool EXCEPT ![m] = 0]

\* A new account starts empty: nothing closes a token account, so that amount and
\* withheld are still 0 where none was opened.
InitializeAccount(a, state) == account' = [account EXCEPT ![a] = state]

\* The extension slots an account pays rent for.
Slots(state) ==
    Cardinality({x \in {"feeExt", "hookExt", "nonTransferable", "immutable",
                        "memo", "guard"} : state[x]}) + state.room

-----------------------------------------------------------------------------
(* Token-2022: movements of tokens.                                        *)

Min2(x, y) == IF x < y THEN x ELSE y

\* TransferFee::calculate_fee, of a mint with TransferFeeConfig: the rate rounded
\* up, then capped.
Fee(conf, n) ==
    IF conf.hasFee
    THEN Min2((n * conf.bps + FullRate - 1) \div FullRate, conf.maxFee)
    ELSE 0

\* Variant of MayDebit: the owner's signature is not asked for.
MayDebitWithoutOwner(m, a, w) == w = mint[m].delegate \/ ~account[a].guard

\* Variant of MayDebit: the guard is not looked at.
MayDebitUnguarded(m, a, w) == w \in {mint[m].delegate, account[a].owner}

\* Whose signature moves or burns the tokens of a: the permanent delegate's,
\* whatever the guard says, or the owner's unless a CPI guard is locked (every
\* call the program makes to Token-2022 is a CPI).
MayDebit(m, a, w) ==
    \/ w = mint[m].delegate
    \/ w = account[a].owner /\ ~account[a].guard

TransferAllowed(m, from, to, w, n, memo) ==
    /\ Open(from) /\ Open(to)
    /\ account[from].mint = m /\ account[to].mint = m
    /\ ~account[from].frozen /\ ~account[to].frozen
    /\ n <= amount[from]
    /\ ~account[from].nonTransferable
    /\ MayDebit(m, from, w)
    /\ account[to].memo => memo

\* Only an account with TransferFeeAmount can withhold a fee.
AcceptsFee(to, fee) == fee > 0 => account[to].feeExt

\* The hook of m, if there is one, gets the accounts it asks for, and both token
\* accounts are marked as transferring while it runs.
AcceptsHook(m, from, to, hookAccounts) ==
    mint[m].hook # "none" =>
        hookAccounts /\ account[from].hookExt /\ account[to].hookExt

\* transfer_checked(_with_fee): an account that pays itself is left as it is,
\* otherwise the fee stays withheld in the account that receives, and the mint's
\* hook is called with the extra accounts the transaction passed.
TransferChecked(m, from, to, w, n, memo, hookAccounts) ==
    /\ TransferAllowed(m, from, to, w, n, memo)
    /\ \/ from = to /\ UNCHANGED <<amount, withheld>>
       \/ LET fee == Fee(mint[m], n) IN
          /\ from # to
          /\ fee <= n
          /\ amount[to] + (n - fee) <= MaxU64
          /\ withheld[to] + fee <= MaxU64
          /\ AcceptsFee(to, fee)
          /\ AcceptsHook(m, from, to, hookAccounts)
          /\ amount' = [amount EXCEPT ![from] = @ - n, ![to] = @ + (n - fee)]
          /\ withheld' = [withheld EXCEPT ![to] = @ + fee]
    /\ UNCHANGED <<supply, feePool>>

\* mint_to: tokens of a mint that cannot be transferred are only minted to
\* accounts whose owner cannot change.
MintTokens(m, to, n) ==
    /\ account[to].mint = m
    /\ ~account[to].frozen
    /\ mint[m].nonTransferable => account[to].immutable
    /\ amount[to] + n <= MaxU64
    /\ supply[m] + n <= MaxU64
    /\ amount' = [amount EXCEPT ![to] = @ + n]
    /\ supply' = [supply EXCEPT ![m] = @ + n]
    /\ UNCHANGED <<withheld, feePool>>

\* burn, signed by w.
BurnTokens(m, from, w, n) ==
    /\ account[from].mint = m
    /\ ~account[from].frozen
    /\ n <= amount[from] /\ n <= supply[m]
    /\ MayDebit(m, from, w)
    /\ amount' = [amount EXCEPT ![from] = @ - n]
    /\ supply' = [supply EXCEPT ![m] = @ - n]
    /\ UNCHANGED <<withheld, feePool>>

\* What the sources of mint m give when they are harvested: sources of other
\* mints, or without the extension, are skipped.
Harvestable(m, sources) == {s \in sources : account[s].mint = m /\ account[s].feeExt}
Emptied(S) == [a \in Accounts |-> IF a \in S THEN 0 ELSE withheld[a]]

\* withdraw_withheld_tokens_from_accounts
CollectFees(m, dest, w, sources) ==
    LET from == Harvestable(m, sources)
        sum  == Total(withheld, from)
    IN  /\ mint[m].hasFee /\ mint[m].withdraw = w
        /\ account[dest].mint = m
        /\ ~account[dest].frozen
        /\ amount[dest] + sum <= MaxU64
        /\ amount' = [amount EXCEPT ![dest] = @ + sum]
        /\ withheld' = Emptied(from)
        /\ UNCHANGED <<supply, feePool>>

\* harvest_withheld_tokens_to_mint
HarvestFees(m, sources) ==
    LET from == Harvestable(m, sources)
        sum  == Total(withheld, from)
    IN  /\ mint[m].hasFee
        /\ feePool[m] + sum <= MaxU64
        /\ feePool' = [feePool EXCEPT ![m] = @ + sum]
        /\ withheld' = Emptied(from)
        /\ UNCHANGED <<supply, amount>>

\* withdraw_withheld_tokens_from_mint
CollectPool(m, dest, w) ==
    /\ mint[m].hasFee /\ mint[m].withdraw = w
    /\ account[dest].mint = m
    /\ ~account[dest].frozen
    /\ amount[dest] + feePool[m] <= MaxU64
    /\ amount' = [amount EXCEPT ![dest] = @ + feePool[m]]
    /\ feePool' = [feePool EXCEPT ![m] = 0]
    /\ UNCHANGED <<supply, withheld>>
=============================================================================
