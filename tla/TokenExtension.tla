---------------------------- MODULE TokenExtension ----------------------------
(***************************************************************************)
(* The whole system: the instructions of the token_extension program, the  *)
(* transfer-hook and opaque programs they rely on, and the clients.  A     *)
(* behaviour is a sequence of transactions in any order, by any wallet.    *)
(***************************************************************************)
EXTENDS MintCreation, AccountCreation, TokenTransfer, TransferFee, Client

Init ==
    /\ mint      = [m \in Mints |-> Absent]
    /\ account   = [a \in Accounts |-> Absent]
    /\ supply    = [m \in Mints |-> 0]
    /\ feePool   = [m \in Mints |-> 0]
    /\ amount    = [a \in Accounts |-> 0]
    /\ withheld  = [a \in Accounts |-> 0]
    /\ lamports  = [x \in Addresses |-> IF x \in Wallets THEN InitialLamports
                                                         ELSE 0]
    /\ metaLists = {}
    /\ tx        = [signers |-> {}, memo |-> FALSE]

CreateMintStep ==
    \E m \in Mints, p, w \in Wallets :
        \/ MintCloseAuthority(m, p, w)
        \/ \E withdraw \in Key, bps \in BasisPoints, maxFee \in U64 :
               TransferFeeConfig(m, p, w, withdraw, bps, maxFee)
        \/ DefaultAccountState(m, p, w)
        \/ PermanentDelegate(m, p, w)
        \/ \E program \in Hooks : InitializeHookMint(m, p, w, program)
        \/ InterestBearingToken(m, p, w)
        \/ InitializeConfidentialMint(m, p, w)
        \/ InitializeGroupPointer(m, p, w)
        \/ \E group \in Mints : InitializeMemberPointer(m, group, p, w)
        \/ ClientCreateMint(m, w)
        \/ \E a \in KeyAccounts, room \in Rooms :
               \/ ImmutableOwner(m, a, p, w, room)
               \/ NonTransferableToken(m, a, p, w, room)

ChangeMintStep ==
    \E m \in Mints, w \in Wallets :
        \/ \E dest \in Wallets : CloseMintAccount(m, dest, w)
        \/ \E frozen \in BOOLEAN : UpdateDefaultAccountState(m, w, frozen)
        \/ InitializeExtraAccountMetaList(m, w)

AccountStep ==
    \E p, w \in Wallets :
        \/ \E m \in Mints : CreateAta(w, m, p)
        \/ \E m \in Mints, a \in KeyAccounts, room \in Rooms :
               \/ EnableMemo(a, m, p, w, room)
               \/ InitializeTokenAccountWith(a, m, p, w, room)
               \/ InitializeConfidentialAccount(a, m, p, w, room)
        \/ \E a \in Accounts : Realloc(a, p, w)

TokenStep ==
    \E m \in Mints, w \in Wallets, n \in U64 :
        \/ MintTo(m, w, n)
        \/ \E from \in Accounts : BurnCpi(m, from, w, n)
        \/ \E to \in Accounts :
               \/ \E fee \in U64 : TransferTo(m, w, to, n, fee)
               \/ MemoTransfer(m, w, to, n)
        \/ \E from, to \in Accounts :
               \/ \E badWallet \in Wallets :
                      TransferToken(m, from, to, w, badWallet, n)
               \/ TransferHookToken(m, from, to, w, n)

FeeStep ==
    \E m \in Mints :
        \/ \E remaining \in SUBSET (Accounts \cup Lookalikes) :
               \/ \E w \in Wallets : WithdrawWithheldAccount(m, w, remaining)
               \/ HarvestWithheldToken(m, remaining)
        \/ \E w \in Wallets : WithdrawWithheldMint(m, w)

ClientStep ==
    \E a \in Accounts, w \in Wallets :
        \/ EnableCpiGuard(a, w)
        \/ \E m \in Mints, n \in U64 : ClientMintTo(m, w, a, n)

\* Module Metadata adds what these two do to the texts.
MetadataStep ==
    \E m \in Mints, p, w \in Wallets :
        InitializeMetadataPointer(m, p, w) \/ UpdateMetadataField(m, p, w)

Next ==
    \/ CreateMintStep
    \/ ChangeMintStep
    \/ AccountStep
    \/ TokenStep
    \/ FeeStep
    \/ ClientStep
    \/ MetadataStep

Spec == Init /\ [][Next]_vars

-----------------------------------------------------------------------------
(* Types.                                                                  *)

\* Every account holds a state its program can write, and every token amount
\* fits the u64 that stores it.
TypeOK ==
    /\ mint      \in [Mints -> MintState \cup {Absent}]
    /\ account   \in [Accounts -> AccountState \cup {Absent}]
    /\ supply    \in [Mints -> U64]
    /\ feePool   \in [Mints -> U64]
    /\ amount    \in [Accounts -> U64]
    /\ withheld  \in [Accounts -> U64]
    /\ lamports  \in [Addresses -> Nat]
    /\ metaLists \subseteq Mints
    /\ tx        \in [signers : SUBSET Wallets, memo : BOOLEAN]

-----------------------------------------------------------------------------
(* Invariants.                                                             *)

\* The tokens of m that sit in accounts as fees.
WithheldOf(m) == Total(withheld, AccountsOf(m))

\* No token is made or lost outside mint_to and burn: the supply of a mint is
\* what its accounts hold, what they withhold, and what its fee pool holds,
\* through transfers with fees, gathering from accounts and from the mint, and
\* the closing of the mint and its creation anew.
Conserved ==
    \A m \in Mints :
        supply[m] = Total(amount, AccountsOf(m)) + WithheldOf(m) + feePool[m]

\* Whatever two accounts of a mint hold, and its fee pool, fit one u64 together:
\* no transfer and no gathering of fees can fail on an overflow, only mint_to.
CreditsFit ==
    \A m \in Mints : \A a, b \in AccountsOf(m) :
        a # b => amount[a] + amount[b] + withheld[a] + withheld[b] + feePool[m]
                   <= MaxU64

\* close_mint_account leaves no token behind: where no mint is live, the token
\* accounts that still name its address are empty, so that whoever creates a
\* mint there again starts from nothing.
ClosedMintsHollow ==
    \A m \in Mints : ~Live(m) =>
        /\ supply[m] = 0 /\ feePool[m] = 0
        /\ \A a \in AccountsOf(m) : amount[a] = 0 /\ withheld[a] = 0

\* An account that default_account_state froze stays empty: no instruction of
\* the program thaws an account, and none can put a token into a frozen one.
FrozenStayEmpty ==
    \A a \in Accounts : Open(a) /\ account[a].frozen =>
        amount[a] = 0 /\ withheld[a] = 0

\* What makes the four invariants above inductive: an address holds no tokens
\* before its account is opened.
UnopenedEmpty == \A a \in Accounts : ~Open(a) => amount[a] = 0 /\ withheld[a] = 0
LedgerInv ==
    TypeOK /\ Conserved /\ UnopenedEmpty /\ ClosedMintsHollow /\ FrozenStayEmpty

\* Fees never get stuck where filter_sources_account_info refuses them: an
\* account with withheld tokens has the extension it asks for, and a live mint
\* that charges fees, even when the address of the mint was used before.
FeesHarvestable ==
    \A a \in Accounts : withheld[a] > 0 =>
        /\ Open(a) /\ account[a].feeExt
        /\ Live(account[a].mint) /\ mint[account[a].mint].hasFee

\* Every mint and token account holds the rent of the slots it uses, after
\* realloc too, and an address without an account holds nothing, which is what
\* create_account needs to use it (again).
RentPaid ==
    /\ \A m \in Mints : ~Live(m) => lamports[m] = 0
    /\ \A a \in Accounts :
           lamports[a] = IF Open(a) THEN Rent(Slots(account[a])) ELSE 0

-----------------------------------------------------------------------------
(* Action properties.                                                      *)

Debited(a)  == amount'[a] < amount[a]
Credited(a) == amount'[a] > amount[a]

\* Nobody loses tokens unless the owner or the mint's permanent delegate signed
\* the transaction.
DebitsSigned ==
    [][\A a \in Accounts : Debited(a) =>
          \/ account[a].owner \in tx'.signers
          \/ mint[account[a].mint].delegate \in tx'.signers]_vars

\* While the CPI guard of an account is locked, no instruction of the program
\* takes tokens out of it, unless the permanent delegate signs.
GuardHolds ==
    [][\A a \in Accounts :
          Open(a) /\ account[a].guard /\ Debited(a) =>
              mint[account[a].mint].delegate \in tx'.signers]_vars

\* An account that requires memos receives tokens from another account only in a
\* transaction that wrote one.
MemoHonoured ==
    [][\A a, b \in Accounts :
          Open(a) /\ account[a].memo /\ Credited(a) /\ Debited(b) =>
              tx'.memo]_vars

\* Withheld tokens leave the accounts and the pool of a mint only for the
\* associated account of its withdraw authority, who signed, and in full; with
\* no withdraw authority they never leave.
FeesGoToAuthority ==
    [][\A m \in Mints :
          LET gone == (WithheldOf(m) + feePool[m])
                        - (WithheldOf(m)' + feePool'[m])
          IN  gone > 0 =>
                \E w \in Wallets :
                    /\ mint[m].withdraw = w /\ w \in tx'.signers
                    /\ amount' = [amount EXCEPT ![Ata(w, m)] = @ + gone]]_vars

\* A transaction moves the tokens of one mint only, even when fees are gathered
\* from a list that mixes accounts of several mints.
Touched(m) == \/ supply'[m] # supply[m] \/ feePool'[m] # feePool[m]
              \/ \E a \in AccountsOf(m) : amount'[a] # amount[a]
                                       \/ withheld'[a] # withheld[a]
OneMintAtATime ==
    [][\A m1, m2 \in Mints : Touched(m1) /\ Touched(m2) => m1 = m2]_vars

\* Tokens of a mint with the transfer hook move between accounts only after the
\* list of extra accounts was initialised, with the owner's signature, and between
\* accounts the hook was told of.
HookOf(a) == mint[account[a].mint].hook
HookGate ==
    [][\A a, b \in Accounts :
          Debited(a) /\ Credited(b) /\ HookOf(a) = "transfer_hook" =>
              /\ account[a].mint \in metaLists
              /\ account[a].owner \in tx'.signers
              /\ account[a].hookExt /\ account[b].hookExt]_vars

-----------------------------------------------------------------------------
(* The abstract ledger.                                                    *)

\* A mint is a currency, also when it is closed and created again; a token
\* account is a holder; what a mint owes is withheld in its accounts and in its
\* fee pool.
HomeOf(a) == IF Open(a) THEN account[a].mint ELSE Absent
OwedBy(m) == WithheldOf(m) + feePool[m]

Ledger ==
    INSTANCE TokenLedger WITH
        Holders <- Accounts, Currencies <- Mints, Nowhere <- Absent,
        MaxAmount <- MaxU64,
        home    <- [a \in Accounts |-> HomeOf(a)],
        balance <- amount,
        owed    <- [m \in Mints |-> OwedBy(m)],
        issued  <- supply

\* The instructions implement the ledger: each one, through the creation of mints
\* and accounts, the closing of mints and the second life of their addresses, is
\* one movement of the ledger or none.
IsTokenLedger == Ledger!Spec
=============================================================================
